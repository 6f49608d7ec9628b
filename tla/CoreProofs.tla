------------------------------ MODULE CoreProofs ------------------------------
(***************************************************************************)
(* Theorems about Core: what the assistant does (Assistant), the bodies    *)
(* on the disk (Bodies) and the dialog somebody writes in (Compose), with  *)
(* what DeskProofs shows of the documents and pages, for every value of    *)
(* their constants.  The inductive invariants are in CoreInv.              *)
(***************************************************************************)

EXTENDS CoreInv, DeskProofs

-----------------------------------------------------------------------------
(* The assistant.                                                            *)

LEMMA FolderFacts ==
  /\ A!Inbox \in A!Folder /\ A!Trash \in A!Folder /\ A!Drafts \in A!Folder
  /\ A!Gone \notin A!Folder /\ A!Bad \notin A!Folder
  /\ A!Inbox \notin {A!Gone, A!Trash, A!Spam} /\ A!Drafts \notin {A!Gone, A!Trash, A!Spam}
BY DEF A!Folder, A!Inbox, A!Trash, A!Spam, A!Drafts, A!Gone, A!Bad

LEMMA AssistantInit ==
  ASSUME A!Constants, A!Init PROVE A!TypeOK /\ A!NothingLostToAssistant
<1>1. /\ box = [m \in A!Any |-> IF m \in Letter THEN A!Inbox ELSE A!Gone]
      /\ knows = box /\ written = {}
  BY DEF A!Init
<1>2. A!TypeOK
  BY <1>1, FolderFacts DEF A!Init, A!TypeOK, A!Constants
<1>3. A!NothingLostToAssistant
  BY <1>1, FolderFacts DEF A!NothingLostToAssistant, A!Any
<1>. QED  BY <1>2, <1>3

\* A request to move goes to a folder that is neither the trash nor spam.
LEMMA MoveToolKeeps ==
  ASSUME A!Constants, A!TypeOK, A!NothingLostToAssistant,
         NEW ms \in SUBSET A!Any, NEW f \in Spelling, A!MoveTool(ms, f)
  PROVE  A!TypeOK' /\ A!NothingLostToAssistant'
<1>1. PICK taken \in SUBSET A!Any :
        /\ box' = [m \in A!Any |-> IF m \in taken THEN Clean[f] ELSE box[m]]
        /\ knows' = [m \in A!Any |-> IF m \in taken THEN Clean[f] ELSE knows[m]]
        /\ binned' = binned \ taken
  BY Zenon DEF A!MoveTool
<1>2. Clean[f] \in A!Folder /\ Clean[f] \notin {A!Gone, A!Trash, A!Spam}
  BY FolderFacts DEF A!MoveTool, A!MoveTargetOK, A!Constants
<1>3. /\ marks' = marks /\ readOnly' = readOnly /\ lifecycle' = lifecycle /\ written' = written
      /\ asked < MaxAsked /\ asked' = asked + 1
  BY DEF A!MoveTool, A!Tool, A!Ask
<1>4. A!TypeOK'
  BY <1>1, <1>2, <1>3 DEF A!TypeOK, A!Constants
<1>5. ASSUME NEW m \in A!Any, box'[m] \in {A!Gone, A!Trash, A!Spam}
      PROVE  m \in binned' \/ m \in ToWrite \ written'
  <2>1. m \notin taken /\ box'[m] = box[m]
    BY <1>1, <1>2, <1>5
  <2>. QED  BY <1>1, <1>3, <1>5, <2>1 DEF A!NothingLostToAssistant
<1>. QED  BY <1>4, <1>5 DEF A!NothingLostToAssistant

\* What a person throws away is noted.
LEMMA ByHandKeeps ==
  ASSUME A!Constants, A!TypeOK, A!NothingLostToAssistant,
         NEW m \in A!Any, NEW f \in A!Folder \cup {A!Gone},
         A!Ask, box' = [box EXCEPT ![m] = f], A!Thrown(m, f),
         UNCHANGED <<knows, marks, readOnly, lifecycle, written>>
  PROVE  A!TypeOK' /\ A!NothingLostToAssistant'
<1>1. A!TypeOK'
  BY DEF A!TypeOK, A!Ask, A!Thrown, A!Constants
<1>2. ASSUME NEW n \in A!Any, box'[n] \in {A!Gone, A!Trash, A!Spam}
      PROVE  n \in binned' \/ n \in ToWrite \ written'
  <2>1. CASE n = m
    <3>1. f \in {A!Gone, A!Trash, A!Spam}
      BY <1>2, <2>1 DEF A!TypeOK
    <3>. QED  BY <2>1, <3>1 DEF A!Thrown
  <2>2. CASE n # m
    <3>1. box'[n] = box[n]
      BY <2>2 DEF A!TypeOK
    <3>2. n \in binned \/ n \in ToWrite \ written
      BY <1>2, <3>1 DEF A!NothingLostToAssistant
    <3>. QED  BY <2>2, <3>2 DEF A!Thrown
  <2>. QED  BY <2>1, <2>2
<1>. QED  BY <1>1, <1>2 DEF A!NothingLostToAssistant

LEMMA AssistantNext ==
  ASSUME A!Constants, A!TypeOK, A!NothingLostToAssistant, [A!Next]_A!assistant
  PROVE  A!TypeOK' /\ A!NothingLostToAssistant'
<1>1. ASSUME NEW ms \in SUBSET A!Any, NEW f \in Spelling, A!MoveTool(ms, f)
      PROVE  A!TypeOK' /\ A!NothingLostToAssistant'
  BY <1>1, MoveToolKeeps
<1>2. ASSUME NEW ms \in SUBSET A!Any, NEW f \in {"read", "star", "tagged"}, NEW v \in BOOLEAN,
             A!Mark(ms, f, v), A!Ask
      PROVE  A!TypeOK' /\ A!NothingLostToAssistant'
  <2>1. A!NothingLostToAssistant'
    BY <1>2 DEF A!Mark, A!NothingLostToAssistant
  <2>2. marks' \in [A!Any -> [read : BOOLEAN, star : BOOLEAN, tagged : BOOLEAN]]
    BY <1>2 DEF A!Mark, A!TypeOK
  <2>. QED  BY <1>2, <2>1, <2>2 DEF A!Mark, A!Ask, A!TypeOK, A!Constants
<1>3. ASSUME NEW m \in A!Any, A!DraftTool(m)
      PROVE  A!TypeOK' /\ A!NothingLostToAssistant'
  <2>1. /\ m \in ToWrite \ written /\ written' = written \cup {m} /\ binned' = binned
        /\ box' = [box EXCEPT ![m] = A!Drafts] /\ knows' = [knows EXCEPT ![m] = A!Drafts]
        /\ marks' = [marks EXCEPT ![m].read = TRUE] /\ readOnly' = readOnly /\ lifecycle' = lifecycle
        /\ asked < MaxAsked /\ asked' = asked + 1
    BY <1>3 DEF A!DraftTool, A!Tool, A!Ask
  <2>2. A!TypeOK'
    <3>1. marks' \in [A!Any -> [read : BOOLEAN, star : BOOLEAN, tagged : BOOLEAN]]
      BY <2>1 DEF A!TypeOK
    <3>2. box' \in [A!Any -> A!Folder \cup {A!Gone}] /\ knows' \in [A!Any -> A!Folder \cup {A!Gone}]
      BY <2>1, FolderFacts DEF A!TypeOK
    <3>. QED  BY <2>1, <3>1, <3>2 DEF A!TypeOK, A!Constants
  <2>3. A!NothingLostToAssistant'
    BY <2>1, FolderFacts DEF A!NothingLostToAssistant, A!TypeOK
  <2>. QED  BY <2>2, <2>3
<1>4. ASSUME NEW m \in A!Any, NEW f \in A!Folder, A!MoveByHand(m, f)
      PROVE  A!TypeOK' /\ A!NothingLostToAssistant'
  BY <1>4, ByHandKeeps DEF A!MoveByHand
<1>5. ASSUME NEW m \in A!Any, A!DeleteByHand(m)
      PROVE  A!TypeOK' /\ A!NothingLostToAssistant'
  BY <1>5, ByHandKeeps DEF A!DeleteByHand
<1>6. ASSUME NEW m \in A!Any, A!Expire(m)
      PROVE  A!TypeOK' /\ A!NothingLostToAssistant'
  <2>1. box[m] = A!Trash /\ box' = [box EXCEPT ![m] = A!Gone]
        /\ UNCHANGED <<knows, marks, readOnly, lifecycle, binned, written, asked>>
    BY <1>6 DEF A!Expire
  <2>. QED  BY <2>1 DEF A!TypeOK, A!NothingLostToAssistant
<1>7. ASSUME NEW a \in BOOLEAN, NEW b \in BOOLEAN, A!Start(a, b) \/ A!SetLifecycle(a, b)
      PROVE  A!TypeOK' /\ A!NothingLostToAssistant'
  <2>1. box' = box /\ binned' = binned /\ written' = written /\ marks' = marks
    BY <1>7 DEF A!Start, A!SetLifecycle
  <2>2. A!TypeOK'
    BY <1>7, <2>1 DEF A!Start, A!SetLifecycle, A!Ask, A!TypeOK, A!Constants
  <2>. QED  BY <2>1, <2>2 DEF A!NothingLostToAssistant
<1>8. CASE UNCHANGED A!assistant
  BY <1>8 DEF A!assistant, A!TypeOK, A!NothingLostToAssistant
<1>. QED
  BY <1>1, <1>2, <1>3, <1>4, <1>5, <1>6, <1>7, <1>8 DEF A!Next, A!TagTool, A!FlagTool, A!Tool

\* A behaviour of Core is one of each part, that may stutter.
LEMMA AssistantPart == CoreSpec => A!Spec
<1>1. CoreInit => A!Init
  BY DEF CoreInit
<1>2. [CoreNext]_<<vars, docs, disk, writing, assistant, part>> => [A!Next]_A!assistant
  BY DEF CoreNext, assistant, A!assistant
<1>. QED  BY <1>1, <1>2, PTL DEF CoreSpec, A!Spec

\* Whatever the assistant is asked to do, nothing is lost by it: what is gone or
\* where a lifecycle rule may empty the folder was thrown away by a person, and its
\* drafts lie where a person finds them (mcp/tools.go).
THEOREM AssistantLosesNothing == CoreSpec => []A!TypeOK /\ []NothingLostToAssistant
<1>1. A!Init => A!TypeOK /\ A!NothingLostToAssistant
  BY CoreAssumption, AssistantInit
<1>2. /\ A!TypeOK /\ A!NothingLostToAssistant /\ [A!Next]_A!assistant
      => A!TypeOK' /\ A!NothingLostToAssistant'
  BY CoreAssumption, AssistantNext
<1>3. A!NothingLostToAssistant => NothingLostToAssistant
  BY DEF NothingLostToAssistant
<1>. QED  BY <1>1, <1>2, <1>3, AssistantPart, PTL DEF A!Spec

-----------------------------------------------------------------------------
(* Opening a message.                                                        *)

LEMMA NamesOf ==
  ASSUME NEW m \in Mail
  PROVE  /\ B!Eml(m) \in B!Name /\ B!Tmp(m) \in B!Name /\ B!Eml(m) # B!Tmp(m)
         /\ B!Eml(m)[1] = m /\ B!Tmp(m)[1] = m
         /\ {B!NoFile, B!Unlinked} \cap B!Name = {}
<1>1. \A n \in B!Name : n = <<n[1], n[2]>>
  BY DEF B!Name
<1>2. \A x, y : <<x, y>> # <<>> /\ <<x, y>> # <<"gone">>
  OBVIOUS
<1>. QED  BY <1>1, <1>2 DEF B!Eml, B!Tmp, B!Name, B!NoFile, B!Unlinked, B!Gone

LEMMA WithoutFacts ==
  ASSUME NEW f, NEW S
  PROVE  /\ DOMAIN B!Without(f, S) = DOMAIN f \ S
         /\ \A y \in DOMAIN f \ S : B!Without(f, S)[y] = f[y]
BY DEF B!Without, B!Restrict

\* One goroutine takes a step, and holds what that step needs.
LEMMA OneHand ==
  ASSUME B!TypeOK, B!InHand, NEW w \in Worker, NEW step, NEW x, B!Goto(w, step, x),
         B!Fits(step, x)
  PROVE  /\ B!InHand' /\ pc'[w] = step /\ mem'[w] = x
         /\ \A v \in Worker \ {w} : pc'[v] = pc[v] /\ mem'[v] = mem[v]
<1>1. pc' = [pc EXCEPT ![w] = step] /\ mem' = [mem EXCEPT ![w] = x]
  BY DEF B!Goto
<1>2. DOMAIN pc = Worker /\ DOMAIN mem = Worker
  BY DEF B!TypeOK, B!InHand
<1>3. /\ pc'[w] = step /\ mem'[w] = x
      /\ \A v \in Worker \ {w} : pc'[v] = pc[v] /\ mem'[v] = mem[v]
  BY <1>1, <1>2
<1>4. DOMAIN mem' = Worker
  BY <1>1, <1>2
<1>5. \A v \in Worker : B!Fits(pc[v], mem[v])
  BY DEF B!InHand
<1>6. \A v \in Worker : B!Fits(pc'[v], mem'[v])
  BY <1>3, <1>5
<1>. QED  BY <1>3, <1>4, <1>6 DEF B!InHand

LEMMA ProgramIs ==
  ASSUME B!Constants, NEW w \in Worker PROVE B!P(w) \in Program /\ w # B!None
BY DEF B!Constants, B!P

\* Steps outside of the cache.
LEMMA FetchStep ==
  ASSUME B!Constants, BodiesInv, NEW w \in Worker, NEW step, NEW x,
         B!Goto(w, step, x), B!Fits(step, x), x.file \in {mem[w].file, B!NoFile},
         UNCHANGED <<where, B!bodies, key>>, encrypted' \in [Program -> BOOLEAN],
         \/ known' = known
         \/ x.at \in Mail \X Place
            /\ known' = [known EXCEPT ![B!P(w)] = B!Set(@, x.at, x.at[1])],
         pc[w] \notin B!Holding,
         step \in B!Resting \cup {"get", "again", "decrypt", "put"}
  PROVE  BodiesInv'
<1>1. /\ B!InHand' /\ pc'[w] = step /\ mem'[w] = x
      /\ \A v \in Worker \ {w} : pc'[v] = pc[v] /\ mem'[v] = mem[v]
  BY OneHand DEF BodiesInv
<1>2. where' = where /\ files' = files /\ lock' = lock /\ loose' = loose /\ key' = key
  BY DEF B!bodies
<1>3. B!FilesTrue'
  BY <1>2 DEF B!FilesTrue, BodiesInv
<1>4. step \notin B!Holding
  BY DEF B!Resting, B!Holding
<1>5. \A v \in Worker : pc'[v] \in B!Holding <=> lock'[B!P(v)] = v
  BY <1>1, <1>2, <1>4 DEF BodiesInv, B!TypeOK
<1>6. \A v \in Worker : mem'[v].file \in {B!NoFile, B!Unlinked} \cup DOMAIN files'
  BY <1>1, <1>2 DEF BodiesInv, B!TypeOK
<1>7. pc' \in [Worker -> B!Resting \cup B!Holding \cup {"get", "again", "decrypt", "put"}]
  BY DEF B!Goto, BodiesInv, B!TypeOK
<1>8. /\ DOMAIN known' = Program
      /\ \A p \in Program : \A at \in DOMAIN known'[p] :
           at \in Mail \X Place /\ known'[p][at] \in {at[1], B!None}
  <2>0. /\ DOMAIN known = Program
        /\ \A p \in Program : \A at \in DOMAIN known[p] :
             at \in Mail \X Place /\ known[p][at] \in {at[1], B!None}
    BY DEF BodiesInv, B!TypeOK
  <2>1. CASE known' = known
    BY <2>0, <2>1
  <2>2. CASE x.at \in Mail \X Place
             /\ known' = [known EXCEPT ![B!P(w)] = B!Set(@, x.at, x.at[1])]
    <3>1. DOMAIN known' = Program /\ \A p \in Program \ {B!P(w)} : known'[p] = known[p]
      BY <2>0, <2>2
    <3>2. known'[B!P(w)] = B!Set(known[B!P(w)], x.at, x.at[1])
      BY <2>0, <2>2, ProgramIs
    <3>3. /\ DOMAIN known'[B!P(w)] = DOMAIN known[B!P(w)] \cup {x.at}
          /\ known'[B!P(w)][x.at] = x.at[1]
          /\ \A at \in DOMAIN known[B!P(w)] \ {x.at} :
               known'[B!P(w)][at] = known[B!P(w)][at]
      BY <3>2 DEF B!Set
    <3>. QED  BY <2>0, <2>2, <3>1, <3>3, ProgramIs
  <2>. QED  BY <2>1, <2>2
<1>9. /\ where' \in [Mail -> Place \cup {B!Gone}] /\ key' \in [Program -> CacheKeys]
      /\ DOMAIN lock' = Program
      /\ \A p \in Program : lock'[p] \in {B!None} \cup {v \in Worker : B!P(v) = p}
      /\ loose' \in Nat /\ DOMAIN files' \subseteq B!Name
      /\ \A n \in DOMAIN files' : files'[n] \in [of : Mail, key : CacheKeys, full : BOOLEAN]
  BY <1>2 DEF BodiesInv, B!TypeOK
<1>10. B!TypeOK'
  BY <1>5, <1>6, <1>7, <1>8, <1>9 DEF B!TypeOK, B!P
<1>. QED  BY <1>1, <1>3, <1>10 DEF BodiesInv

\* What comes from the disk is what was asked for: the file is of that message, and
\* only a whole one that was sealed with the program's own key opens.
LEMMA ReadsTheMessage ==
  ASSUME B!Constants, BodiesInv, NEW p \in Program, NEW m \in Mail, NEW b \in B!Read(p, m)
  PROVE  b = B!Body(m, TRUE, "plain")
<1>1. B!Eml(m) \in DOMAIN files /\ b \in B!Opened(p, files[B!Eml(m)])
  BY DEF B!Read
<1>2. files[B!Eml(m)].of = m
  BY <1>1, NamesOf DEF BodiesInv, B!FilesTrue
<1>3. key[p] # NoKey
  BY DEF BodiesInv, B!TypeOK, B!Constants
<1>. QED  BY <1>1, <1>2, <1>3 DEF B!Opened

LEMMA OpenKeeps ==
  ASSUME B!Constants, BodiesInv, NEW w \in Worker, NEW at \in Mail \X Place,
         NEW head \in BOOLEAN, B!Open(w, at, head)
  PROVE  BodiesInv'
<1>. DEFINE p == B!P(w)
            etag == IF at \in DOMAIN known[p] THEN known[p][at] ELSE B!None
            call == [B!Idle EXCEPT !.at = at, !.head = head, !.etag = etag,
                                   !.partial = head /\ ~encrypted[p]]
            hit == IF head \/ etag = B!None THEN {} ELSE B!Read(p, etag)
<1>1. /\ pc[w] \in B!Resting /\ UNCHANGED <<where, B!bodies, key, known, encrypted>>
      /\ \/ B!Goto(w, "get", call)
         \/ \E b \in hit : B!Goto(w, "done", [call EXCEPT !.body = b])
  BY Zenon DEF B!Open
<1>2. p \in Program /\ etag \in {at[1], B!None} /\ at[1] \in Mail /\ encrypted[p] \in BOOLEAN
  BY ProgramIs DEF BodiesInv, B!TypeOK
<1>. HIDE DEF p, etag
<1>3. /\ call.at = at /\ call.head = head /\ call.etag = etag
      /\ call.body = B!NoBody /\ call.file = B!NoFile /\ (call.partial => call.head)
  BY <1>2 DEF B!Idle
<1>4. call \in B!Held
  BY <1>2 DEF B!Held, B!NoBody, B!Body, B!Form, B!Idle
<1>. HIDE DEF call
<1>5. pc[w] \notin B!Holding /\ encrypted \in [Program -> BOOLEAN]
  BY <1>1 DEF B!Resting, B!Holding, BodiesInv, B!TypeOK
<1>6. CASE B!Goto(w, "get", call)
  <2>1. B!Fits("get", call)
    BY <1>2, <1>3, <1>4 DEF B!Fits, B!Holding
  <2>. QED  BY <1>1, <1>3, <1>5, <1>6, <2>1, FetchStep
<1>7. ASSUME NEW b \in hit, B!Goto(w, "done", [call EXCEPT !.body = b])
      PROVE  BodiesInv'
  <2>1. ~ head /\ etag = at[1] /\ b \in B!Read(p, at[1])
    BY <1>2, <1>7
  <2>2. b = B!Body(at[1], TRUE, "plain")
    BY <1>2, <2>1, ReadsTheMessage
  <2>. DEFINE x == [call EXCEPT !.body = b]
  <2>3. /\ x.at = at /\ x.head = head /\ x.etag = etag
        /\ x.body = b /\ x.file = B!NoFile /\ (x.partial => x.head)
    BY <1>3, <1>4 DEF B!Held
  <2>4. x \in B!Held
    BY <1>2, <1>4, <2>2 DEF B!Held, B!Body, B!Form
  <2>. HIDE DEF x
  <2>5. B!Fits("done", x)
    BY <1>2, <2>2, <2>3, <2>4 DEF B!Fits, B!Holding, B!Body
  <2>6. B!Goto(w, "done", x)
    BY <1>7 DEF x
  <2>. QED  BY <1>1, <1>5, <2>3, <2>5, <2>6, FetchStep DEF B!Resting
<1>. QED  BY <1>1, <1>6, <1>7

LEMMA FinishIs ==
  ASSUME NEW w, NEW step, NEW x, B!Finish(w, step, x)
  PROVE  /\ B!Goto(w, step, x)
         /\ \/ known' = known
            \/ known' = [known EXCEPT ![B!P(w)] = B!Set(@, x.at, x.at[1])]
BY DEF B!Finish

\* What a fetch holds once a body has come, or a call has failed.
LEMMA WithBody ==
  ASSUME NEW x \in B!Held, NEW m \in Mail, NEW whole \in BOOLEAN, NEW form \in B!Form
  PROVE  LET y == [x EXCEPT !.body = B!Body(m, whole, form)] IN
         /\ y \in B!Held /\ y.at = x.at /\ y.head = x.head /\ y.partial = x.partial
         /\ y.etag = x.etag /\ y.file = x.file /\ y.faulty = x.faulty
         /\ y.body = B!Body(m, whole, form) /\ y.body.of = m /\ y.body.whole = whole
         /\ y.body.form = form
BY DEF B!Held, B!Body

LEMMA WithFault ==
  ASSUME NEW x \in B!Held
  PROVE  LET y == [x EXCEPT !.faulty = TRUE] IN
         /\ y \in B!Held /\ y.at = x.at /\ y.head = x.head /\ y.partial = x.partial
         /\ y.etag = x.etag /\ y.file = x.file /\ y.faulty
BY DEF B!Held

LEMMA Fetching ==
  ASSUME BodiesInv, NEW w \in Worker, pc[w] # "idle"
  PROVE  /\ mem[w] \in B!Held /\ mem[w].at \in Mail \X Place /\ mem[w].at[1] \in Mail
         /\ mem[w].etag \in {mem[w].at[1], B!None} /\ (mem[w].partial => mem[w].head)
         /\ mem[w].head \in BOOLEAN /\ mem[w].partial \in BOOLEAN
<1>1. mem[w] \in B!Held /\ mem[w].etag \in {mem[w].at[1], B!None} /\ (mem[w].partial => mem[w].head)
  BY DEF BodiesInv, B!InHand, B!Fits
<1>. QED  BY <1>1 DEF B!Held

LEMMA FailedKeeps ==
  ASSUME B!Constants, BodiesInv, NEW w \in Worker, pc[w] \in {"get", "again", "decrypt"},
         B!Finish(w, "failed", [mem[w] EXCEPT !.faulty = TRUE]),
         UNCHANGED <<where, B!bodies, key, encrypted>>
  PROVE  BodiesInv'
<1>. DEFINE y == [mem[w] EXCEPT !.faulty = TRUE]
<1>1. mem[w] \in B!Held /\ mem[w].at \in Mail \X Place
      /\ mem[w].etag \in {mem[w].at[1], B!None} /\ (mem[w].partial => mem[w].head)
  BY Fetching
<1>2. y \in B!Held /\ y.at = mem[w].at /\ y.head = mem[w].head /\ y.partial = mem[w].partial
      /\ y.etag = mem[w].etag /\ y.file = mem[w].file /\ y.faulty
  BY <1>1, WithFault
<1>3. /\ B!Goto(w, "failed", y)
      /\ known' = known \/ known' = [known EXCEPT ![B!P(w)] = B!Set(@, y.at, y.at[1])]
  BY FinishIs
<1>. HIDE DEF y
<1>4. B!Fits("failed", y)
  BY <1>1, <1>2 DEF B!Fits, B!Holding
<1>5. pc[w] \notin B!Holding /\ encrypted' \in [Program -> BOOLEAN]
  BY DEF B!Holding, BodiesInv, B!TypeOK
<1>. QED  BY <1>1, <1>2, <1>3, <1>4, <1>5, FetchStep DEF B!Resting

\* A readable body ends the fetch of a header, and goes into the cache otherwise.
LEMMA GotKeeps ==
  ASSUME B!Constants, BodiesInv, NEW w \in Worker, pc[w] \in {"get", "decrypt"},
         NEW whole \in BOOLEAN, whole \/ mem[w].head,
         B!Got(w, B!Body(mem[w].at[1], whole, "plain")),
         UNCHANGED <<where, B!bodies, key, encrypted>>
  PROVE  BodiesInv'
<1>. DEFINE m == mem[w].at[1]
            y == [mem[w] EXCEPT !.body = B!Body(m, whole, "plain")]
<1>1. mem[w] \in B!Held /\ mem[w].at \in Mail \X Place /\ m \in Mail
      /\ mem[w].etag \in {m, B!None} /\ (mem[w].partial => mem[w].head)
  BY Fetching
<1>2. /\ y \in B!Held /\ y.at = mem[w].at /\ y.head = mem[w].head /\ y.partial = mem[w].partial
      /\ y.etag = mem[w].etag /\ y.file = mem[w].file
      /\ y.body.of = m /\ y.body.whole = whole /\ y.body.form = "plain"
  <2>1. "plain" \in B!Form
    BY DEF B!Form
  <2>. QED  BY <1>1, <2>1, WithBody
<1>3. \/ B!Finish(w, "done", y)
      \/ B!Goto(w, "put", y) /\ known' = known
  BY DEF B!Got
<1>. HIDE DEF y
<1>4. B!Fits("done", y) /\ B!Fits("put", y)
  BY <1>1, <1>2 DEF B!Fits, B!Holding
<1>5. pc[w] \notin B!Holding /\ encrypted' \in [Program -> BOOLEAN]
  BY DEF B!Holding, BodiesInv, B!TypeOK
<1>6. CASE B!Finish(w, "done", y)
  BY <1>1, <1>2, <1>4, <1>5, <1>6, FinishIs, FetchStep DEF B!Resting
<1>7. CASE B!Goto(w, "put", y) /\ known' = known
  BY <1>1, <1>2, <1>4, <1>5, <1>7, FetchStep
<1>. QED  BY <1>3, <1>6, <1>7

\* Of an encrypted message nothing but all of it is decrypted: who read a fragment,
\* or met the first encrypted message, reads again.
LEMMA ToDecrypt ==
  ASSUME B!Constants, BodiesInv, NEW w \in Worker, pc[w] \in {"get", "again"},
         NEW whole \in BOOLEAN, NEW form \in B!Form, NEW step \in {"again", "decrypt"},
         step = "decrypt" => whole,
         B!Goto(w, step, [mem[w] EXCEPT !.body = B!Body(mem[w].at[1], whole, form)]),
         UNCHANGED <<where, B!bodies, key, known>>, encrypted' \in [Program -> BOOLEAN]
  PROVE  BodiesInv'
<1>. DEFINE m == mem[w].at[1]
            y == [mem[w] EXCEPT !.body = B!Body(m, whole, form)]
<1>1. mem[w] \in B!Held /\ mem[w].at \in Mail \X Place /\ m \in Mail
      /\ mem[w].etag \in {m, B!None} /\ (mem[w].partial => mem[w].head)
  BY Fetching
<1>2. /\ y \in B!Held /\ y.at = mem[w].at /\ y.head = mem[w].head /\ y.partial = mem[w].partial
      /\ y.etag = mem[w].etag /\ y.file = mem[w].file
      /\ y.body.of = m /\ y.body.whole = whole
  BY <1>1, WithBody
<1>3. B!Goto(w, step, y) /\ pc[w] \notin B!Holding
  BY DEF B!Holding
<1>. HIDE DEF y
<1>4. B!Fits(step, y)
  BY <1>1, <1>2 DEF B!Fits, B!Holding
<1>. QED  BY <1>1, <1>2, <1>3, <1>4, FetchStep

LEMMA GetKeeps ==
  ASSUME B!Constants, BodiesInv, NEW w \in Worker, B!Get(w) PROVE BodiesInv'
<1>. DEFINE m == mem[w].at[1]
            form == IF m \in Enveloped THEN "envelope" ELSE "plain"
            b == B!Body(m, ~ mem[w].partial, form)
<1>1. pc[w] = "get" /\ UNCHANGED <<where, B!bodies, key>>
  BY DEF B!Get
<1>2. \/ IF b.form = "envelope"
           THEN /\ encrypted' = [encrypted EXCEPT ![B!P(w)] = TRUE]
                /\ B!Goto(w, B!Onwards(w), [mem[w] EXCEPT !.body = b])
                /\ known' = known
           ELSE B!Got(w, b) /\ encrypted' = encrypted
      \/ B!Finish(w, "failed", [mem[w] EXCEPT !.faulty = TRUE]) /\ encrypted' = encrypted
  BY DEF B!Get, B!Answer
<1>3. b.form = form /\ form \in B!Form /\ (~ mem[w].partial) \in BOOLEAN
  BY DEF B!Body, B!Form
<1>4. (mem[w].partial => mem[w].head) /\ mem[w].partial \in BOOLEAN
  BY <1>1, Fetching
<1>5. CASE B!Finish(w, "failed", [mem[w] EXCEPT !.faulty = TRUE]) /\ encrypted' = encrypted
  BY <1>1, <1>5, FailedKeeps
<1>6. CASE /\ encrypted' = [encrypted EXCEPT ![B!P(w)] = TRUE]
           /\ B!Goto(w, B!Onwards(w), [mem[w] EXCEPT !.body = b])
           /\ known' = known
  <2>1. encrypted' \in [Program -> BOOLEAN]
    BY <1>6 DEF BodiesInv, B!TypeOK
  <2>2. B!Onwards(w) \in {"again", "decrypt"} /\ (B!Onwards(w) = "decrypt" => ~ mem[w].partial)
    BY DEF B!Onwards
  <2>. QED  BY <1>1, <1>3, <1>6, <2>1, <2>2, ToDecrypt
<1>7. CASE form = "plain" /\ B!Got(w, b) /\ encrypted' = encrypted
  BY <1>1, <1>3, <1>4, <1>7, GotKeeps
<1>. QED  BY <1>2, <1>3, <1>5, <1>6, <1>7

LEMMA AgainKeeps ==
  ASSUME B!Constants, BodiesInv, NEW w \in Worker, B!Again(w) PROVE BodiesInv'
<1>. DEFINE m == mem[w].at[1]
            form == IF m \in Enveloped THEN "envelope" ELSE "plain"
<1>1. pc[w] = "again" /\ UNCHANGED <<where, B!bodies, key>>
  BY DEF B!Again
<1>2. \/ /\ B!Goto(w, "decrypt", [mem[w] EXCEPT !.body = B!Body(m, ~ FALSE, form)])
         /\ known' = known /\ encrypted' = encrypted
      \/ B!Finish(w, "failed", [mem[w] EXCEPT !.faulty = TRUE]) /\ encrypted' = encrypted
  BY DEF B!Again, B!Answer
<1>3. form \in B!Form /\ encrypted \in [Program -> BOOLEAN]
  BY DEF B!Form, BodiesInv, B!TypeOK
<1>. QED  BY <1>1, <1>2, <1>3, FailedKeeps, ToDecrypt

LEMMA DecryptKeeps ==
  ASSUME B!Constants, BodiesInv, NEW w \in Worker, B!Decrypt(w) PROVE BodiesInv'
<1>1. pc[w] = "decrypt" /\ UNCHANGED <<where, B!bodies, key, encrypted>>
  BY DEF B!Decrypt
<1>2. mem[w].body.of = mem[w].at[1] /\ mem[w].body.whole
  BY <1>1 DEF BodiesInv, B!InHand, B!Fits
<1>3. \/ B!Got(w, B!Body(mem[w].at[1], TRUE, "plain"))
      \/ B!Finish(w, "failed", [mem[w] EXCEPT !.faulty = TRUE])
  BY <1>2 DEF B!Decrypt
<1>. QED  BY <1>1, <1>3, FailedKeeps, GotKeeps

LEMMA CacheStep ==
  ASSUME BodiesInv, UNCHANGED <<where, key, known, encrypted>>, loose' \in Nat,
         B!InHand', LocksHeld', FilesHeld',
         pc' \in [Worker -> B!Resting \cup B!Holding \cup {"get", "again", "decrypt", "put"}]
  PROVE  BodiesInv'
<1>1. B!FilesTrue'
  BY DEF FilesHeld, B!FilesTrue
<1>2. /\ where' \in [Mail -> Place \cup {B!Gone}] /\ key' \in [Program -> CacheKeys]
      /\ encrypted' \in [Program -> BOOLEAN] /\ DOMAIN known' = Program
      /\ \A p \in Program : \A at \in DOMAIN known'[p] :
           at \in Mail \X Place /\ known'[p][at] \in {at[1], B!None}
  BY DEF BodiesInv, B!TypeOK
<1>3. B!TypeOK'
  BY <1>2 DEF B!TypeOK, LocksHeld, FilesHeld
<1>. QED  BY <1>1, <1>3 DEF BodiesInv

LEMMA HeldNow == ASSUME BodiesInv PROVE LocksHeld /\ FilesHeld
BY DEF BodiesInv, B!TypeOK, B!FilesTrue, LocksHeld, FilesHeld

LEMMA LockTaken ==
  ASSUME B!Constants, LocksHeld, NEW w \in Worker, lock[B!P(w)] = B!None,
         lock' = [lock EXCEPT ![B!P(w)] = w], pc'[w] \in B!Holding,
         \A v \in Worker \ {w} : pc'[v] = pc[v]
  PROVE  LocksHeld'
<1>1. B!P(w) \in Program /\ \A v \in Worker : v # B!None
  BY ProgramIs
<1>2. /\ DOMAIN lock' = Program /\ lock'[B!P(w)] = w
      /\ \A p \in Program \ {B!P(w)} : lock'[p] = lock[p]
  BY <1>1 DEF LocksHeld
<1>3. \A v \in Worker \ {w} : pc'[v] \in B!Holding <=> lock'[B!P(v)] = v
  <2>. TAKE v \in Worker \ {w}
  <2>1. pc[v] \in B!Holding <=> lock[B!P(v)] = v
    BY DEF LocksHeld
  <2>2. B!P(v) \in Program /\ v # B!None
    BY ProgramIs
  <2>. QED  BY <1>2, <2>1, <2>2
<1>4. \A p \in Program : lock'[p] \in {B!None} \cup {v \in Worker : B!P(v) = p}
  BY <1>2 DEF LocksHeld
<1>. QED  BY <1>2, <1>3, <1>4 DEF LocksHeld, B!P

LEMMA LockLeft ==
  ASSUME B!Constants, LocksHeld, NEW w \in Worker, pc[w] \in B!Holding, B!Leave(w),
         pc'[w] \notin B!Holding, \A v \in Worker \ {w} : pc'[v] = pc[v]
  PROVE  LocksHeld'
<1>1. B!P(w) \in Program /\ \A v \in Worker : v # B!None
  BY ProgramIs
<1>2. /\ DOMAIN lock' = Program /\ lock'[B!P(w)] = B!None
      /\ \A p \in Program \ {B!P(w)} : lock'[p] = lock[p]
  BY <1>1 DEF LocksHeld, B!Leave
<1>3. \A v \in Worker : pc'[v] \in B!Holding <=> lock'[B!P(v)] = v
  <2>. TAKE v \in Worker
  <2>1. (pc[v] \in B!Holding <=> lock[B!P(v)] = v) /\ lock[B!P(w)] = w
    BY DEF LocksHeld
  <2>2. B!P(v) \in Program /\ v # B!None
    BY ProgramIs
  <2>. QED  BY <1>1, <1>2, <2>1, <2>2
<1>4. \A p \in Program : lock'[p] \in {B!None} \cup {v \in Worker : B!P(v) = p}
  BY <1>2 DEF LocksHeld
<1>. QED  BY <1>2, <1>3, <1>4 DEF LocksHeld, B!P

LEMMA LockKept ==
  ASSUME LocksHeld, NEW w \in Worker, lock' = lock, pc[w] \in B!Holding,
         pc'[w] \in B!Holding, \A v \in Worker \ {w} : pc'[v] = pc[v]
  PROVE  LocksHeld'
BY DEF LocksHeld, B!P

\* What put holds.
LEMMA Putting ==
  ASSUME BodiesInv, NEW w \in Worker, pc[w] \in {"put"} \cup B!Holding
  PROVE  /\ mem[w] \in B!Held /\ mem[w].at \in Mail \X Place /\ mem[w].at[1] \in Mail
         /\ mem[w].etag \in {mem[w].at[1], B!None} /\ (mem[w].partial => mem[w].head)
         /\ mem[w].body.of = mem[w].at[1] /\ mem[w].body.form = "plain"
         /\ mem[w].head \/ mem[w].body.whole
<1>1. pc[w] # "idle"
  BY DEF B!Holding
<1>. QED  BY <1>1, Fetching DEF BodiesInv, B!InHand, B!Fits

LEMMA WithFile ==
  ASSUME NEW x \in B!Held, NEW f \in {B!NoFile, B!Unlinked} \cup B!Name
  PROVE  LET y == [x EXCEPT !.file = f] IN
         /\ y \in B!Held /\ y.at = x.at /\ y.head = x.head /\ y.partial = x.partial
         /\ y.etag = x.etag /\ y.faulty = x.faulty /\ y.body = x.body /\ y.file = f
BY DEF B!Held

LEMMA StepsAre ==
  /\ "done" \in B!Resting /\ B!Holding \cap B!Resting = {} /\ "put" \notin B!Holding
  /\ {"write", "rename", "cleanup"} = B!Holding
BY DEF B!Resting, B!Holding

LEMMA CreateKeeps ==
  ASSUME B!Constants, BodiesInv, NEW w \in Worker, B!Create(w) PROVE BodiesInv'
<1>. DEFINE m == mem[w].at[1]
<1>1. pc[w] = "put" /\ UNCHANGED <<where, key, known, encrypted>>
  BY DEF B!Create
<1>2. /\ mem[w] \in B!Held /\ mem[w].at \in Mail \X Place /\ m \in Mail
      /\ mem[w].etag \in {m, B!None} /\ (mem[w].partial => mem[w].head)
      /\ mem[w].body.of = m /\ mem[w].body.form = "plain" /\ (mem[w].head \/ mem[w].body.whole)
  BY <1>1, Putting
<1>3. CASE mem[w].etag = B!None
  <2>1. B!Goto(w, "done", mem[w]) /\ UNCHANGED B!bodies
    BY <1>3 DEF B!Create
  <2>2. B!Fits("done", mem[w])
    BY <1>2, StepsAre DEF B!Fits
  <2>3. encrypted' \in [Program -> BOOLEAN]
    BY <1>1 DEF BodiesInv, B!TypeOK
  <2>. QED  BY <1>1, <2>1, <2>2, <2>3, FetchStep, StepsAre
<1>4. CASE mem[w].etag # B!None
  <2>. DEFINE name == B!Tmp(m)
              new == [of |-> m, key |-> key[B!P(w)], full |-> FALSE]
              y == [mem[w] EXCEPT !.file = name]
  <2>1. /\ mem[w].etag = m /\ lock[B!P(w)] = B!None /\ lock' = [lock EXCEPT ![B!P(w)] = w]
        /\ files' = B!Set(files, name, new) /\ B!Goto(w, "write", y) /\ loose' = loose
    BY <1>2, <1>4 DEF B!Create
  <2>2. name \in B!Name /\ name[1] = m
    BY <1>2, NamesOf
  <2>3. /\ y \in B!Held /\ y.at = mem[w].at /\ y.head = mem[w].head /\ y.etag = m
        /\ y.partial = mem[w].partial /\ y.body = mem[w].body /\ y.file = name
    BY <1>2, <2>1, <2>2, WithFile
  <2>4. new \in [of : Mail, key : CacheKeys, full : BOOLEAN]
    BY <1>2, ProgramIs DEF BodiesInv, B!TypeOK
  <2>. HIDE DEF y, new
  <2>5. B!Fits("write", y)
    BY <1>2, <2>3, StepsAre DEF B!Fits
  <2>6. /\ B!InHand' /\ pc'[w] = "write" /\ mem'[w] = y
        /\ \A v \in Worker \ {w} : pc'[v] = pc[v] /\ mem'[v] = mem[v]
    BY <2>1, <2>5, OneHand DEF BodiesInv
  <2>7. LocksHeld'
    BY <2>1, <2>6, HeldNow, LockTaken, StepsAre
  <2>8. FilesHeld'
    <3>1. /\ DOMAIN files' = DOMAIN files \cup {name} /\ files'[name] = new
          /\ \A n \in DOMAIN files \ {name} : files'[n] = files[n]
      BY <2>1 DEF B!Set
    <3>2. new.of = m
      BY DEF new
    <3>. QED  BY <2>2, <2>3, <2>4, <2>6, <3>1, <3>2, HeldNow DEF FilesHeld
  <2>9. pc' \in [Worker -> B!Resting \cup B!Holding \cup {"get", "again", "decrypt", "put"}]
    BY <2>1, StepsAre DEF B!Goto, BodiesInv, B!TypeOK
  <2>10. loose' \in Nat
    BY <2>1 DEF BodiesInv, B!TypeOK
  <2>. QED  BY <1>1, <2>6, <2>7, <2>8, <2>9, <2>10, CacheStep
<1>. QED  BY <1>3, <1>4

LEMMA WriteKeeps ==
  ASSUME B!Constants, BodiesInv, NEW w \in Worker, B!Write(w) PROVE BodiesInv'
<1>. DEFINE m == mem[w].at[1]
            n == mem[w].file
            new == [of |-> m, key |-> key[B!P(w)], full |-> TRUE]
            y == [mem[w] EXCEPT !.file = B!NoFile]
<1>1. pc[w] = "write" /\ UNCHANGED <<where, key, known, encrypted>>
  BY DEF B!Write
<1>2. /\ mem[w] \in B!Held /\ mem[w].at \in Mail \X Place /\ m \in Mail
      /\ mem[w].etag = m /\ (mem[w].partial => mem[w].head)
      /\ mem[w].body.of = m /\ mem[w].body.form = "plain" /\ (mem[w].head \/ mem[w].body.whole)
      /\ n \in {B!Unlinked, B!Tmp(m), B!Eml(m)}
  BY <1>1, Putting, StepsAre DEF BodiesInv, B!InHand, B!Fits
<1>3. \/ /\ files' = IF n = B!Unlinked THEN files ELSE [files EXCEPT ![n] = new]
         /\ B!Goto(w, "rename", mem[w]) /\ lock' = lock /\ loose' = loose
      \/ B!Goto(w, "done", y) /\ B!Leave(w) /\ loose' = loose + 1 /\ files' = files
  BY <1>2 DEF B!Write, B!BreakOff
<1>4. CASE /\ files' = IF n = B!Unlinked THEN files ELSE [files EXCEPT ![n] = new]
           /\ B!Goto(w, "rename", mem[w]) /\ lock' = lock /\ loose' = loose
  <2>1. B!Fits("rename", mem[w])
    BY <1>2, StepsAre DEF B!Fits
  <2>2. /\ B!InHand' /\ pc'[w] = "rename" /\ mem'[w] = mem[w]
        /\ \A v \in Worker \ {w} : pc'[v] = pc[v] /\ mem'[v] = mem[v]
    BY <1>4, <2>1, OneHand DEF BodiesInv
  <2>3. LocksHeld'
    BY <1>1, <1>4, <2>2, HeldNow, LockKept, StepsAre
  <2>4. FilesHeld'
    <3>1. CASE n = B!Unlinked
      BY <1>4, <2>2, <3>1, HeldNow DEF FilesHeld
    <3>2. CASE n # B!Unlinked
      <4>1. n \in DOMAIN files /\ n[1] = m
        BY <1>2, <3>2, HeldNow, NamesOf DEF FilesHeld
      <4>2. new \in [of : Mail, key : CacheKeys, full : BOOLEAN] /\ new.of = m
        BY <1>2, ProgramIs DEF BodiesInv, B!TypeOK
      <4>. HIDE DEF new
      <4>3. /\ DOMAIN files' = DOMAIN files /\ files'[n] = new
            /\ \A k \in DOMAIN files \ {n} : files'[k] = files[k]
        BY <1>4, <3>2, <4>1
      <4>. QED  BY <2>2, <4>1, <4>2, <4>3, HeldNow DEF FilesHeld
    <3>. QED  BY <3>1, <3>2
  <2>5. pc' \in [Worker -> B!Resting \cup B!Holding \cup {"get", "again", "decrypt", "put"}]
    BY <1>4, StepsAre DEF B!Goto, BodiesInv, B!TypeOK
  <2>6. loose' \in Nat
    BY <1>4 DEF BodiesInv, B!TypeOK
  <2>. QED  BY <1>1, <2>2, <2>3, <2>4, <2>5, <2>6, CacheStep
<1>5. CASE B!Goto(w, "done", y) /\ B!Leave(w) /\ loose' = loose + 1 /\ files' = files
  <2>1. /\ y \in B!Held /\ y.at = mem[w].at /\ y.head = mem[w].head /\ y.etag = m
        /\ y.partial = mem[w].partial /\ y.body = mem[w].body /\ y.file = B!NoFile
    BY <1>2, WithFile
  <2>. HIDE DEF y
  <2>2. B!Fits("done", y)
    BY <1>2, <2>1, StepsAre DEF B!Fits
  <2>3. /\ B!InHand' /\ pc'[w] = "done" /\ mem'[w] = y
        /\ \A v \in Worker \ {w} : pc'[v] = pc[v] /\ mem'[v] = mem[v]
    BY <1>5, <2>2, OneHand DEF BodiesInv
  <2>4. LocksHeld'
    BY <1>1, <1>5, <2>3, HeldNow, LockLeft, StepsAre
  <2>5. FilesHeld'
    BY <1>5, <2>1, <2>3, HeldNow DEF FilesHeld
  <2>6. pc' \in [Worker -> B!Resting \cup B!Holding \cup {"get", "again", "decrypt", "put"}]
    BY <1>5, StepsAre DEF B!Goto, BodiesInv, B!TypeOK
  <2>7. loose' \in Nat
    BY <1>5 DEF BodiesInv, B!TypeOK
  <2>. QED  BY <1>1, <2>3, <2>4, <2>5, <2>6, <2>7, CacheStep
<1>. QED  BY <1>3, <1>4, <1>5

LEMMA NamesDiffer ==
  ASSUME NEW m \in Mail, NEW k \in Mail
  PROVE  /\ B!Tmp(m) = B!Tmp(k) => m = k
         /\ B!Eml(m) = B!Eml(k) => m = k
         /\ B!Eml(m) # B!Tmp(k)
BY DEF B!Tmp, B!Eml

\* A file may be taken away or renamed under whoever holds it.
LEMMA OtherHand ==
  ASSUME NEW step, NEW x, B!Fits(step, x), step # "idle",
         NEW f \in {B!NoFile, B!Unlinked} \cup B!Name,
         step = "write" => f \in {B!Unlinked, B!Tmp(x.at[1]), B!Eml(x.at[1])}
  PROVE  B!Fits(step, [x EXCEPT !.file = f])
<1>. DEFINE y == [x EXCEPT !.file = f]
<1>1. x \in B!Held
  BY DEF B!Fits
<1>2. /\ y \in B!Held /\ y.at = x.at /\ y.head = x.head /\ y.partial = x.partial
      /\ y.etag = x.etag /\ y.faulty = x.faulty /\ y.body = x.body /\ y.file = f
  BY <1>1, WithFile
<1>. HIDE DEF y
<1>3. B!Fits(step, y)
  BY <1>2 DEF B!Fits
<1>. QED  BY <1>3 DEF y

LEMMA RenameKeeps ==
  ASSUME B!Constants, BodiesInv, NEW w \in Worker, B!Rename(w) PROVE BodiesInv'
<1>. DEFINE m == mem[w].at[1]
            from == B!Tmp(m)
            to == B!Eml(m)
            y == [mem[w] EXCEPT !.file = B!NoFile]
<1>1. pc[w] = "rename" /\ UNCHANGED <<where, key, known, encrypted>>
  BY DEF B!Rename
<1>2. /\ mem[w] \in B!Held /\ mem[w].at \in Mail \X Place /\ m \in Mail
      /\ mem[w].etag = m /\ (mem[w].partial => mem[w].head)
      /\ mem[w].body.of = m /\ mem[w].body.form = "plain" /\ (mem[w].head \/ mem[w].body.whole)
  BY <1>1, Putting, StepsAre DEF BodiesInv, B!InHand, B!Fits
<1>3. /\ y \in B!Held /\ y.at = mem[w].at /\ y.head = mem[w].head /\ y.etag = m
      /\ y.partial = mem[w].partial /\ y.body = mem[w].body /\ y.file = B!NoFile
  BY <1>2, WithFile
<1>4. B!Fits("done", y) /\ B!Fits("cleanup", y)
  <2>. HIDE DEF y
  <2>. QED  BY <1>2, <1>3, StepsAre DEF B!Fits
<1>5. /\ from \in B!Name /\ to \in B!Name /\ from # to /\ from[1] = m /\ to[1] = m
      /\ B!NoFile \notin B!Name /\ B!Unlinked \notin B!Name
  BY <1>2, NamesOf
<1>6. CASE from \in DOMAIN files
  <2>1. /\ files' = B!Set(B!Without(files, {from}), to, files[from])
        /\ mem' = B!Moved(mem[w], w, from, to)
        /\ pc' = [pc EXCEPT ![w] = "cleanup"] /\ lock' = lock /\ loose' = loose
    BY <1>2, <1>6 DEF B!Rename
  <2>2. /\ DOMAIN files' = (DOMAIN files \ {from}) \cup {to} /\ files'[to] = files[from]
        /\ \A n \in DOMAIN files \ {from, to} : files'[n] = files[n]
    <3>. DEFINE h == B!Without(files, {from})
    <3>1. DOMAIN h = DOMAIN files \ {from} /\ \A n \in DOMAIN files \ {from} : h[n] = files[n]
      BY WithoutFacts
    <3>2. files' = B!Set(h, to, files[from])
      BY <2>1
    <3>. HIDE DEF h
    <3>. QED  BY <3>1, <3>2 DEF B!Set
  <2>3. /\ DOMAIN mem' = Worker /\ mem'[w] = y
        /\ \A v \in Worker \ {w} :
             mem'[v] = IF mem[v].file = to THEN [mem[v] EXCEPT !.file = B!Unlinked]
                       ELSE IF mem[v].file = from THEN [mem[v] EXCEPT !.file = to]
                       ELSE mem[v]
    BY <2>1 DEF B!Moved
  <2>. HIDE DEF y
  <2>4. pc'[w] = "cleanup" /\ \A v \in Worker \ {w} : pc'[v] = pc[v]
    BY <2>1 DEF BodiesInv, B!TypeOK
  <2>5. ASSUME NEW v \in Worker \ {w}
        PROVE  /\ B!Fits(pc'[v], mem'[v])
               /\ mem'[v].file \in {B!NoFile, B!Unlinked} \cup DOMAIN files'
    <3>1. B!Fits(pc[v], mem[v]) /\ mem[v].file \in {B!NoFile, B!Unlinked} \cup DOMAIN files
      BY HeldNow DEF BodiesInv, B!InHand, FilesHeld
    <3>2. CASE mem[v].file \notin {from, to}
      <4>1. mem'[v] = mem[v]
        BY <2>3, <3>2
      <4>. QED  BY <2>2, <2>4, <3>1, <3>2, <4>1
    <3>3. CASE mem[v].file \in {from, to}
      <4>1. pc[v] # "idle"
        <5>1. pc[v] = "idle" => mem[v].file = B!NoFile
          BY <3>1 DEF B!Fits, B!Idle
        <5>. QED  BY <1>5, <3>3, <5>1
      <4>2. mem[v] \in B!Held /\ mem[v].at[1] \in Mail
        BY <4>1, Fetching
      <4>3. CASE mem[v].file = to
        <5>1. mem'[v] = [mem[v] EXCEPT !.file = B!Unlinked]
          BY <2>3, <4>3
        <5>2. mem'[v].file = B!Unlinked
          BY <4>2, <5>1, WithFile
        <5>. QED  BY <2>4, <3>1, <4>1, <5>1, <5>2, OtherHand
      <4>4. CASE mem[v].file = from
        <5>1. mem'[v] = [mem[v] EXCEPT !.file = to]
          BY <1>5, <2>3, <4>4
        <5>2. mem'[v].file = to
          BY <1>5, <4>2, <5>1, WithFile
        <5>3. pc[v] = "write" => mem[v].file \in {B!Unlinked, B!Tmp(mem[v].at[1]), B!Eml(mem[v].at[1])}
          BY <3>1 DEF B!Fits
        <5>4. pc[v] = "write" => mem[v].at[1] = m
          BY <1>2, <1>5, <4>2, <4>4, <5>3, NamesDiffer
        <5>5. pc[v] = "write" => to \in {B!Unlinked, B!Tmp(mem[v].at[1]), B!Eml(mem[v].at[1])}
          BY <5>4
        <5>6. B!Fits(pc[v], [mem[v] EXCEPT !.file = to])
          BY <1>5, <3>1, <4>1, <5>5, OtherHand
        <5>. QED  BY <2>2, <2>4, <5>1, <5>2, <5>6
      <4>. QED  BY <3>3, <4>3, <4>4
    <3>. QED  BY <3>2, <3>3
  <2>6. B!InHand'
    BY <1>4, <2>3, <2>4, <2>5 DEF B!InHand
  <2>7. LocksHeld'
    BY <1>1, <2>1, <2>4, HeldNow, LockKept, StepsAre
  <2>8. FilesHeld'
    <3>1. /\ DOMAIN files' \subseteq B!Name
          /\ \A n \in DOMAIN files' : /\ files'[n] \in [of : Mail, key : CacheKeys, full : BOOLEAN]
                                      /\ files'[n].of = n[1]
      BY <1>5, <1>6, <2>2, HeldNow DEF FilesHeld
    <3>. QED  BY <1>3, <2>3, <2>5, <3>1 DEF FilesHeld
  <2>9. /\ pc' \in [Worker -> B!Resting \cup B!Holding \cup {"get", "again", "decrypt", "put"}]
        /\ loose' \in Nat
    BY <2>1, StepsAre DEF BodiesInv, B!TypeOK
  <2>. QED  BY <1>1, <2>6, <2>7, <2>8, <2>9, CacheStep
<1>7. CASE from \notin DOMAIN files
  <2>1. B!Goto(w, "done", y) /\ B!Leave(w) /\ loose' = loose + 1 /\ files' = files
    BY <1>2, <1>7 DEF B!Rename, B!BreakOff
  <2>. HIDE DEF y
  <2>2. /\ B!InHand' /\ pc'[w] = "done" /\ mem'[w] = y
        /\ \A v \in Worker \ {w} : pc'[v] = pc[v] /\ mem'[v] = mem[v]
    BY <1>4, <2>1, OneHand DEF BodiesInv
  <2>3. LocksHeld'
    BY <1>1, <2>1, <2>2, HeldNow, LockLeft, StepsAre
  <2>4. FilesHeld'
    BY <1>3, <2>1, <2>2, HeldNow DEF FilesHeld
  <2>5. /\ pc' \in [Worker -> B!Resting \cup B!Holding \cup {"get", "again", "decrypt", "put"}]
        /\ loose' \in Nat
    BY <2>1, StepsAre DEF B!Goto, BodiesInv, B!TypeOK
  <2>. QED  BY <1>1, <2>2, <2>3, <2>4, <2>5, CacheStep
<1>. QED  BY <1>6, <1>7

LEMMA CleanupKeeps ==
  ASSUME B!Constants, BodiesInv, NEW w \in Worker, B!Cleanup(w) PROVE BodiesInv'
<1>1. /\ pc[w] = "cleanup" /\ UNCHANGED <<where, key, known, encrypted>>
      /\ pc' = [pc EXCEPT ![w] = "done"] /\ B!Leave(w) /\ loose' \in {0, loose + 1}
  BY DEF B!Cleanup, B!BreakOff
<1>2. PICK S \in SUBSET DOMAIN files :
        /\ files' = B!Without(files, S)
        /\ mem' = [v \in Worker |-> IF mem[v].file \in S THEN [mem[v] EXCEPT !.file = B!Unlinked]
                                    ELSE mem[v]]
  BY DEF B!Cleanup, B!Removals
<1>3. DOMAIN files' = DOMAIN files \ S /\ \A n \in DOMAIN files \ S : files'[n] = files[n]
  BY <1>2, WithoutFacts
<1>4. pc'[w] = "done" /\ \A v \in Worker \ {w} : pc'[v] = pc[v]
  BY <1>1 DEF BodiesInv, B!TypeOK
<1>5. S \subseteq B!Name /\ B!NoFile \notin B!Name /\ B!Unlinked \notin B!Name
  BY <1>2, HeldNow, NamesOf DEF FilesHeld, B!Name
<1>6. ASSUME NEW v \in Worker
      PROVE  /\ B!Fits(pc[v], mem'[v]) /\ mem'[v].file \in {B!NoFile, B!Unlinked} \cup DOMAIN files'
             /\ v = w => B!Fits("done", mem'[v])
  <2>1. B!Fits(pc[v], mem[v]) /\ mem[v].file \in {B!NoFile, B!Unlinked} \cup DOMAIN files
    BY HeldNow DEF BodiesInv, B!InHand, FilesHeld
  <2>2. B!Fits(pc[v], mem'[v]) /\ mem'[v].file \in {B!NoFile, B!Unlinked} \cup DOMAIN files'
    <3>1. CASE mem[v].file \notin S
      BY <1>2, <1>3, <2>1, <3>1
    <3>2. CASE mem[v].file \in S
      <4>1. pc[v] # "idle"
        <5>1. pc[v] = "idle" => mem[v].file = B!NoFile
          BY <2>1 DEF B!Fits, B!Idle
        <5>. QED  BY <1>5, <3>2, <5>1
      <4>2. mem'[v] = [mem[v] EXCEPT !.file = B!Unlinked] /\ mem[v] \in B!Held
        BY <1>2, <3>2, <4>1, Fetching
      <4>3. mem'[v].file = B!Unlinked
        BY <4>2, WithFile
      <4>. QED  BY <2>1, <4>1, <4>2, <4>3, OtherHand
    <3>. QED  BY <3>1, <3>2
  <2>3. v = w => B!Fits("done", mem'[v])
    BY <1>1, <2>2, StepsAre DEF B!Fits
  <2>. QED  BY <2>2, <2>3
<1>7. B!InHand'
  <2>1. DOMAIN mem' = Worker
    BY <1>2
  <2>. QED  BY <1>4, <1>6, <2>1 DEF B!InHand
<1>8. LocksHeld'
  BY <1>1, <1>4, HeldNow, LockLeft, StepsAre
<1>9. FilesHeld'
  BY <1>3, <1>6, HeldNow DEF FilesHeld
<1>10. /\ pc' \in [Worker -> B!Resting \cup B!Holding \cup {"get", "again", "decrypt", "put"}]
       /\ loose' \in Nat
  BY <1>1, StepsAre DEF BodiesInv, B!TypeOK
<1>. QED  BY <1>1, <1>7, <1>8, <1>9, <1>10, CacheStep

\* A program moves a message, forgets what is not listed, or is started again.
LEMMA ProgramStep ==
  ASSUME BodiesInv, UNCHANGED <<files, encrypted, pc, mem, lock, loose, key>>,
         where' \in [Mail -> Place \cup {B!Gone}],
         DOMAIN known' = Program,
         \A p \in Program : \A at \in DOMAIN known'[p] :
           at \in Mail \X Place /\ known'[p][at] \in {at[1], B!None}
  PROVE  BodiesInv'
<1>1. B!FilesTrue' /\ B!InHand'
  BY DEF BodiesInv, B!FilesTrue, B!InHand
<1>2. B!TypeOK'
  BY DEF BodiesInv, B!TypeOK, B!P
<1>. QED  BY <1>1, <1>2 DEF BodiesInv

LEMMA IndexNow ==
  ASSUME BodiesInv
  PROVE  /\ DOMAIN known = Program
         /\ \A p \in Program : \A at \in DOMAIN known[p] :
              at \in Mail \X Place /\ known[p][at] \in {at[1], B!None}
BY DEF BodiesInv, B!TypeOK

LEMMA MoveKeeps ==
  ASSUME B!Constants, BodiesInv, NEW p \in Program, NEW at \in DOMAIN known[p], NEW f \in Place,
         B!Move(p, at, f)
  PROVE  BodiesInv'
<1>1. /\ where' = [where EXCEPT ![at[1]] = f]
      /\ known' = [known EXCEPT
                     ![p] = B!Set(B!Without(known[p], {at}), <<at[1], f>>, known[p][at])]
      /\ UNCHANGED <<files, encrypted, pc, mem, lock, loose, key>>
  BY DEF B!Move, B!bodies
<1>2. at \in Mail \X Place /\ known[p][at] \in {at[1], B!None}
  BY IndexNow
<1>3. where' \in [Mail -> Place \cup {B!Gone}]
  BY <1>1 DEF BodiesInv, B!TypeOK
<1>4. DOMAIN known' = Program /\ \A q \in Program \ {p} : known'[q] = known[q]
  BY <1>1, IndexNow
<1>5. known'[p] = B!Set(B!Without(known[p], {at}), <<at[1], f>>, known[p][at])
  BY <1>1, IndexNow
<1>6. /\ DOMAIN known'[p] = (DOMAIN known[p] \ {at}) \cup {<<at[1], f>>}
      /\ known'[p][<<at[1], f>>] = known[p][at]
      /\ \A a \in DOMAIN known[p] \ {at, <<at[1], f>>} : known'[p][a] = known[p][a]
  <2>. DEFINE h == B!Without(known[p], {at})
  <2>1. DOMAIN h = DOMAIN known[p] \ {at} /\ \A a \in DOMAIN known[p] \ {at} : h[a] = known[p][a]
    BY WithoutFacts
  <2>2. known'[p] = B!Set(h, <<at[1], f>>, known[p][at])
    BY <1>5
  <2>. HIDE DEF h
  <2>. QED  BY <2>1, <2>2 DEF B!Set
<1>7. <<at[1], f>> \in Mail \X Place /\ <<at[1], f>>[1] = at[1]
  BY <1>2
<1>8. \A a \in DOMAIN known'[p] :
        a \in Mail \X Place /\ known'[p][a] \in {a[1], B!None}
  BY <1>2, <1>6, <1>7, IndexNow
<1>9. \A q \in Program : \A a \in DOMAIN known'[q] :
        a \in Mail \X Place /\ known'[q][a] \in {a[1], B!None}
  BY <1>4, <1>8, IndexNow
<1>. QED  BY <1>1, <1>3, <1>4, <1>9, ProgramStep

LEMMA PruneKeeps ==
  ASSUME B!Constants, BodiesInv, NEW p \in Program, B!Prune(p) PROVE BodiesInv'
<1>1. PICK here \in SUBSET DOMAIN known[p] :
        /\ known' = [known EXCEPT ![p] = B!Restrict(@, here)]
        /\ UNCHANGED <<where, files, encrypted, pc, mem, lock, loose, key>>
  BY DEF B!Prune, B!bodies
<1>2. DOMAIN known' = Program /\ \A q \in Program \ {p} : known'[q] = known[q]
  BY <1>1, IndexNow
<1>3. DOMAIN known'[p] = here /\ \A a \in here : known'[p][a] = known[p][a]
  BY <1>1, IndexNow DEF B!Restrict
<1>4. \A q \in Program : \A a \in DOMAIN known'[q] :
        a \in Mail \X Place /\ known'[q][a] \in {a[1], B!None}
  BY <1>1, <1>2, <1>3, IndexNow
<1>5. where' \in [Mail -> Place \cup {B!Gone}]
  BY <1>1 DEF BodiesInv, B!TypeOK
<1>. QED  BY <1>1, <1>2, <1>4, <1>5, ProgramStep

LEMMA RestartKeeps ==
  ASSUME B!Constants, BodiesInv, NEW p \in Program, NEW k \in CacheKeys,
         NEW idx \in B!IndexFile(k), B!Restart(p, k, idx)
  PROVE  BodiesInv'
<1>1. /\ key' = [key EXCEPT ![p] = k] /\ known' = [known EXCEPT ![p] = idx]
      /\ encrypted' = [encrypted EXCEPT ![p] = FALSE] /\ lock' = [lock EXCEPT ![p] = B!None]
      /\ loose' = IF lock[p] = B!None THEN loose ELSE loose + 1
      /\ pc' = [w \in Worker |-> IF B!P(w) = p THEN "idle" ELSE pc[w]]
      /\ mem' = [w \in Worker |-> IF B!P(w) = p THEN B!Idle ELSE mem[w]]
      /\ where' = where /\ files' = files
  BY DEF B!Restart
<1>2. B!FilesTrue'
  BY <1>1 DEF BodiesInv, B!FilesTrue
<1>3. B!InHand'
  <2>1. DOMAIN mem' = Worker
    BY <1>1
  <2>2. B!Fits("idle", B!Idle)
    BY StepsAre DEF B!Fits
  <2>3. ASSUME NEW w \in Worker PROVE B!Fits(pc'[w], mem'[w])
    BY <1>1, <2>2 DEF BodiesInv, B!InHand
  <2>. QED  BY <2>1, <2>3 DEF B!InHand
<1>4. LocksHeld'
  <2>1. DOMAIN lock' = Program /\ lock'[p] = B!None /\ \A q \in Program \ {p} : lock'[q] = lock[q]
    BY <1>1, HeldNow DEF LocksHeld
  <2>2. ASSUME NEW w \in Worker PROVE pc'[w] \in B!Holding <=> lock'[B!P(w)] = w
    <3>1. B!P(w) \in Program /\ w # B!None
      BY ProgramIs
    <3>2. CASE B!P(w) = p
      <4>1. pc'[w] = "idle"
        BY <1>1, <3>2
      <4>. QED  BY <2>1, <3>1, <3>2, <4>1, StepsAre
    <3>3. CASE B!P(w) # p
      BY <1>1, <2>1, <3>1, <3>3, HeldNow DEF LocksHeld
    <3>. QED  BY <3>2, <3>3
  <2>3. \A q \in Program : lock'[q] \in {B!None} \cup {w \in Worker : B!P(w) = q}
    BY <2>1, HeldNow DEF LocksHeld
  <2>. QED  BY <2>1, <2>2, <2>3 DEF LocksHeld, B!P
<1>5. FilesHeld'
  <2>1. \A w \in Worker : mem'[w].file \in {B!NoFile, B!Unlinked} \cup DOMAIN files'
    BY <1>1, HeldNow DEF FilesHeld, B!Idle
  <2>. QED  BY <1>1, <2>1, HeldNow DEF FilesHeld
<1>6. /\ DOMAIN known' = Program
      /\ \A q \in Program : \A at \in DOMAIN known'[q] :
           at \in Mail \X Place /\ known'[q][at] \in {at[1], B!None}
  <2>1. \A at \in DOMAIN idx : at \in Mail \X Place /\ idx[at] \in {at[1], B!None}
    BY IndexNow DEF B!IndexFile
  <2>. QED  BY <1>1, <2>1, IndexNow
<1>7. /\ pc' \in [Worker -> B!Resting \cup B!Holding \cup {"get", "again", "decrypt", "put"}]
      /\ loose' \in Nat /\ where' \in [Mail -> Place \cup {B!Gone}]
      /\ key' \in [Program -> CacheKeys] /\ encrypted' \in [Program -> BOOLEAN]
  BY <1>1 DEF BodiesInv, B!TypeOK, B!Resting
<1>8. B!TypeOK'
  BY <1>4, <1>5, <1>6, <1>7 DEF B!TypeOK, LocksHeld, FilesHeld
<1>. QED  BY <1>2, <1>3, <1>8 DEF BodiesInv

LEMMA BodiesInit == ASSUME B!Constants, B!Init PROVE BodiesInv
<1>1. /\ where = Home /\ files = <<>> /\ key \in [Program -> CacheKeys]
      /\ known \in [Program -> {<<>>, B!Listing}]
      /\ encrypted = [p \in Program |-> FALSE] /\ lock = [p \in Program |-> B!None]
      /\ pc = [w \in Worker |-> "idle"] /\ mem = [w \in Worker |-> B!Idle] /\ loose = 0
  BY DEF B!Init
<1>2. DOMAIN files = {}
  BY <1>1
<1>3. B!FilesTrue
  BY <1>2 DEF B!FilesTrue
<1>4. B!InHand
  BY <1>1, StepsAre DEF B!InHand, B!Fits
<1>5. \A at \in DOMAIN B!Listing : at \in Mail \X Place /\ B!Listing[at] \in {at[1], B!None}
  <2>1. \A m \in Mail : where[m] # B!Gone => where[m] \in Place
    BY <1>1 DEF B!Constants
  <2>. QED  BY <2>1 DEF B!Listing
<1>6. /\ DOMAIN known = Program
      /\ \A p \in Program : \A at \in DOMAIN known[p] :
           at \in Mail \X Place /\ known[p][at] \in {at[1], B!None}
  <2>1. DOMAIN <<>> = {}
    OBVIOUS
  <2>. QED  BY <1>1, <1>5, <2>1
<1>7. \A w \in Worker : pc[w] \in B!Holding <=> lock[B!P(w)] = w
  <2>. TAKE w \in Worker
  <2>1. B!P(w) \in Program /\ w # B!None
    BY ProgramIs
  <2>. QED  BY <1>1, <2>1 DEF B!Holding
<1>8. \A w \in Worker : mem[w].file \in {B!NoFile, B!Unlinked} \cup DOMAIN files
  BY <1>1 DEF B!Idle
<1>9. B!TypeOK
  BY <1>1, <1>2, <1>6, <1>7, <1>8 DEF B!TypeOK, B!Constants, B!Resting
<1>. QED  BY <1>3, <1>4, <1>9 DEF BodiesInv

LEMMA BodiesNext ==
  ASSUME B!Constants, BodiesInv, [B!Next]_B!vars PROVE BodiesInv'
<1>1. ASSUME NEW w \in Worker, NEW at \in DOMAIN known[B!P(w)], B!Open(w, at, FALSE)
      PROVE  BodiesInv'
  <2>1. at \in Mail \X Place
    BY ProgramIs, IndexNow
  <2>. QED  BY <1>1, <2>1, OpenKeeps
<1>2. ASSUME NEW w \in Worker, B!Summarize(w) PROVE BodiesInv'
  <2>1. PICK m \in Mail : where[m] # B!Gone /\ B!Open(w, <<m, where[m]>>, TRUE)
    BY <1>2 DEF B!Summarize
  <2>2. <<m, where[m]>> \in Mail \X Place
    BY <2>1 DEF BodiesInv, B!TypeOK
  <2>. QED  BY <2>1, <2>2, OpenKeeps
<1>3. CASE UNCHANGED B!vars
  <2>1. UNCHANGED <<files, encrypted, pc, mem, lock, loose, key, where, known>>
    BY <1>3 DEF B!vars
  <2>. QED  BY <2>1, ProgramStep, IndexNow DEF BodiesInv, B!TypeOK
<1>. QED
  BY <1>1, <1>2, <1>3, GetKeeps, AgainKeeps, DecryptKeeps, CreateKeeps, WriteKeeps,
     RenameKeeps, CleanupKeeps, PruneKeeps, MoveKeeps, RestartKeeps DEF B!Next

LEMMA BodiesPart == CoreSpec => B!Spec
<1>1. CoreInit => B!Init
  BY DEF CoreInit
<1>2. [CoreNext]_<<vars, docs, disk, writing, assistant, part>> => [B!Next]_B!vars
  BY DEF CoreNext, disk, B!vars
<1>. QED  BY <1>1, <1>2, PTL DEF CoreSpec, B!Spec

\* Whoever opens a message sees that message, all of it and readable, wherever it
\* came from, while other programs write, rename and throw away the files (store/
\* mail.go Fetch, bodycache.go, cachecrypt.go).
THEOREM OpenedIsShown == CoreSpec => []B!TypeOK /\ []OpenShowsTheMessage
<1>1. B!Init => BodiesInv
  BY CoreAssumption, BodiesInit
<1>2. BodiesInv /\ [B!Next]_B!vars => BodiesInv'
  BY CoreAssumption, BodiesNext
<1>3. BodiesInv => B!TypeOK /\ OpenShowsTheMessage
  BY DEF BodiesInv, B!InHand, B!Fits, B!OpenShowsTheMessage, OpenShowsTheMessage
<1>. QED  BY <1>1, <1>2, <1>3, BodiesPart, PTL DEF B!Spec

-----------------------------------------------------------------------------
(* The size of the cache directory.                                          *)

\* Finite is finite, in the module and here.
LEMMA FiniteHere == ASSUME NEW S, B!IsFiniteSet(S) PROVE IsFiniteSet(S)
BY DEF IsFiniteSet, B!IsFiniteSet

LEMMA CardinalityHere == ASSUME NEW S PROVE B!Cardinality(S) = Cardinality(S)
BY DEF Cardinality, B!Cardinality

LEMMA TotalIsSum == ASSUME NEW d PROVE B!Total(d) = Sums(d)[DOMAIN d]
BY DEF B!Total, B!MapThenSumSet, B!MapThenFoldSet, Sums, Adds, One

\* A class of subsets of a finite set has one that contains no other of them.
LEMMA LeastSet ==
  ASSUME NEW S, IsFiniteSet(S), NEW T \in SUBSET SUBSET S, T # {}
  PROVE  \E s \in T : \A t \in T : t \subseteq s => t = s
<1>1. \A t \in T : t \subseteq S /\ IsFiniteSet(t)
  BY FS_Subset
<1>2. T \subseteq FiniteSubsetsOf(S)
  BY <1>1 DEF FiniteSubsetsOf
<1>3. PICK s \in T : \A t \in T : ~ (<<t, s>> \in StrictSubsetOrdering(S))
  BY <1>2, FS_StrictSubsetOrderingWellFounded, WFMin
<1>. QED  BY <1>1, <1>3 DEF StrictSubsetOrdering

LEMMA OneIn == ASSUME NEW s, s # {} PROVE One(s) \in s
BY DEF One

\* By the size of the sets: there is such a sum.
LEMMA SumExists ==
  ASSUME NEW d, IsFiniteSet(DOMAIN d)
  PROVE  Sums(d) = [s \in SUBSET DOMAIN d |-> Adds(d, Sums(d), s)]
<1>. DEFINE n == Cardinality(DOMAIN d)
            Sub(k) == {s \in SUBSET DOMAIN d : Cardinality(s) <= k}
            Has(k) == \E g : g = [s \in Sub(k) |-> Adds(d, g, s)]
            Bad == {k \in Nat : ~ Has(k)}
<1>1. n \in Nat
  BY FS_CardinalityType
<1>2. \A s \in SUBSET DOMAIN d :
        /\ IsFiniteSet(s) /\ Cardinality(s) \in Nat /\ Cardinality(s) <= n
        /\ s # {} => /\ s \ {One(s)} \in SUBSET DOMAIN d
                     /\ Cardinality(s \ {One(s)}) = Cardinality(s) - 1
  <2>. SUFFICES ASSUME NEW s \in SUBSET DOMAIN d
                PROVE  /\ IsFiniteSet(s) /\ Cardinality(s) \in Nat /\ Cardinality(s) <= n
                       /\ s # {} => /\ s \ {One(s)} \in SUBSET DOMAIN d
                                    /\ Cardinality(s \ {One(s)}) = Cardinality(s) - 1
    OBVIOUS
  <2>1. IsFiniteSet(s) /\ Cardinality(s) \in Nat /\ Cardinality(s) <= n
    BY FS_Subset, FS_CardinalityType
  <2>2. s # {} => Cardinality(s \ {One(s)}) = Cardinality(s) - 1
    BY <2>1, OneIn, FS_RemoveElement
  <2>. QED  BY <2>1, <2>2
<1>3. Bad = {}
  <2>. SUFFICES ASSUME Bad # {} PROVE FALSE
    OBVIOUS
  <2>1. PICK k \in Bad : \A j \in Bad : k <= j
    <3>1. Bad \in SUBSET Nat
      OBVIOUS
    <3>. QED  BY <3>1, LeastNumber
  <2>2. k \in Nat /\ ~ Has(k)
    BY <2>1
  <2>3. CASE k = 0
    <3>1. ASSUME NEW s \in Sub(0) PROVE s = {}
      <4>1. s \in SUBSET DOMAIN d /\ Cardinality(s) <= 0
        OBVIOUS
      <4>2. IsFiniteSet(s) /\ Cardinality(s) \in Nat
        BY <1>2, <4>1
      <4>3. Cardinality(s) = 0
        BY <4>1, <4>2
      <4>. QED  BY <4>2, <4>3, FS_EmptySet
    <3>. DEFINE g == [t \in Sub(0) |-> 0]
    <3>2. g = [s \in Sub(0) |-> Adds(d, g, s)]
      BY <3>1 DEF Adds
    <3>3. Has(0)
      <4>. HIDE DEF g
      <4>. QED  BY <3>2
    <3>. QED  BY <2>2, <2>3, <3>3
  <2>4. CASE k > 0
    <3>1. k - 1 \in Nat /\ k - 1 \notin Bad
      <4>. HIDE DEF Bad
      <4>1. k - 1 \in Bad => k <= k - 1
        BY <2>1
      <4>. QED  BY <4>1, <2>2, <2>4
    <3>2. PICK g : g = [s \in Sub(k - 1) |-> Adds(d, g, s)]
      BY <3>1
    <3>. DEFINE h == [s \in Sub(k) |-> Adds(d, g, s)]
    <3>3. \A s \in Sub(k) : Adds(d, g, s) = Adds(d, h, s)
      <4>. SUFFICES ASSUME NEW s \in Sub(k), s # {}
                    PROVE  g[s \ {One(s)}] = h[s \ {One(s)}]
        BY DEF Adds
      <4>. DEFINE t == s \ {One(s)}
      <4>1. t \in Sub(k - 1) /\ t \in Sub(k)
        BY <1>2, <2>2
      <4>2. g[t] = Adds(d, g, t)
        BY <3>2, <4>1
      <4>3. h[t] = Adds(d, g, t)
        BY <4>1
      <4>. QED  BY <4>2, <4>3
    <3>4. h = [s \in Sub(k) |-> Adds(d, h, s)]
      BY <3>3
    <3>5. Has(k)
      <4>. HIDE DEF h
      <4>. QED  BY <3>4
    <3>. QED  BY <2>2, <3>5
  <2>. QED  BY <2>2, <2>3, <2>4
<1>4. Has(n)
  BY <1>1, <1>3
<1>5. Sub(n) = SUBSET DOMAIN d
  BY <1>2
<1>6. PICK g : g = [s \in SUBSET DOMAIN d |-> Adds(d, g, s)]
  BY <1>4, <1>5
<1>. QED  BY <1>6 DEF Sums

LEMMA SumOf ==
  ASSUME NEW d, IsSized(d)
  PROVE  /\ Sums(d)[{}] = 0
         /\ \A s \in SUBSET DOMAIN d : s # {} =>
              /\ One(s) \in s
              /\ Sums(d)[s] = B!SizeOf(d[One(s)]) + Sums(d)[s \ {One(s)}]
<1>. DEFINE g == Sums(d)
<1>1. g = [s \in SUBSET DOMAIN d |-> Adds(d, g, s)]
  BY SumExists DEF IsSized
<1>. HIDE DEF g
<1>2. \A s \in SUBSET DOMAIN d : g[s] = Adds(d, g, s)
  BY <1>1
<1>3. /\ g[{}] = 0
      /\ \A s \in SUBSET DOMAIN d : s # {} =>
           One(s) \in s /\ g[s] = B!SizeOf(d[One(s)]) + g[s \ {One(s)}]
  BY <1>2, OneIn DEF Adds
<1>. QED  BY <1>3 DEF g

LEMMA SumIsNat ==
  ASSUME NEW d, IsSized(d), NEW s \in SUBSET DOMAIN d PROVE Sums(d)[s] \in Nat
<1>. DEFINE Bad == {t \in SUBSET DOMAIN d : Sums(d)[t] \notin Nat}
<1>1. Bad = {}
  <2>. SUFFICES ASSUME Bad # {} PROVE FALSE
    OBVIOUS
  <2>1. PICK t \in Bad : \A u \in Bad : u \subseteq t => u = t
    <3>1. IsFiniteSet(DOMAIN d) /\ Bad \in SUBSET SUBSET DOMAIN d
      BY DEF IsSized
    <3>. HIDE DEF Bad
    <3>. QED  BY <3>1, LeastSet
  <2>2. t \in SUBSET DOMAIN d /\ Sums(d)[t] \notin Nat
    BY <2>1
  <2>3. t # {}
    <3>1. Sums(d)[{}] = 0
      BY SumOf
    <3>. QED  BY <2>2, <3>1
  <2>4. One(t) \in t /\ Sums(d)[t] = B!SizeOf(d[One(t)]) + Sums(d)[t \ {One(t)}]
    BY <2>2, <2>3, SumOf
  <2>5. Sums(d)[t \ {One(t)}] \in Nat
    BY <2>1, <2>2, <2>4
  <2>. QED  BY <2>2, <2>4, <2>5 DEF IsSized
<1>. QED  BY <1>1

\* It does not matter which is taken out first.
LEMMA SumWithout ==
  ASSUME NEW d, IsSized(d), NEW s \in SUBSET DOMAIN d, NEW n \in s
  PROVE  Sums(d)[s] = B!SizeOf(d[n]) + Sums(d)[s \ {n}]
<1>. DEFINE Out(t, k) == Sums(d)[t] = B!SizeOf(d[k]) + Sums(d)[t \ {k}]
            Bad == {t \in SUBSET DOMAIN d : \E k \in t : ~ Out(t, k)}
<1>1. Bad = {}
  <2>. SUFFICES ASSUME Bad # {} PROVE FALSE
    OBVIOUS
  <2>1. PICK t \in Bad : \A u \in Bad : u \subseteq t => u = t
    <3>1. IsFiniteSet(DOMAIN d) /\ Bad \in SUBSET SUBSET DOMAIN d
      BY DEF IsSized
    <3>. HIDE DEF Bad
    <3>. QED  BY <3>1, LeastSet
  <2>2. PICK k \in t : ~ Out(t, k)
    BY <2>1
  <2>3. t \in SUBSET DOMAIN d
    BY <2>1
  <2>. DEFINE o == One(t)
  <2>4. o \in t /\ Sums(d)[t] = B!SizeOf(d[o]) + Sums(d)[t \ {o}]
    BY <2>2, <2>3, SumOf
  <2>5. o # k
    BY <2>2, <2>4
  <2>6. t \ {o} \notin Bad /\ t \ {k} \notin Bad
    BY <2>1, <2>2, <2>4
  <2>. HIDE DEF o
  <2>7. Sums(d)[t \ {o}] = B!SizeOf(d[k]) + Sums(d)[(t \ {o}) \ {k}]
    <3>1. k \in t \ {o} /\ t \ {o} \in SUBSET DOMAIN d
      BY <2>2, <2>3, <2>5
    <3>. QED  BY <2>6, <3>1
  <2>8. Sums(d)[t \ {k}] = B!SizeOf(d[o]) + Sums(d)[(t \ {k}) \ {o}]
    <3>1. o \in t \ {k} /\ t \ {k} \in SUBSET DOMAIN d
      BY <2>3, <2>4, <2>5
    <3>. QED  BY <2>6, <3>1
  <2>9. (t \ {o}) \ {k} = (t \ {k}) \ {o} /\ (t \ {o}) \ {k} \in SUBSET DOMAIN d
    BY <2>3
  <2>10. /\ B!SizeOf(d[o]) \in Nat /\ B!SizeOf(d[k]) \in Nat
         /\ Sums(d)[(t \ {o}) \ {k}] \in Nat
    BY <2>2, <2>3, <2>4, <2>9, SumIsNat DEF IsSized
  <2>11. Out(t, k)
    <3>. DEFINE a == B!SizeOf(d[o])
                b == B!SizeOf(d[k])
                c == Sums(d)[(t \ {o}) \ {k}]
    <3>1. Sums(d)[t] = a + (b + c)
      BY <2>4, <2>7
    <3>2. Sums(d)[t \ {k}] = a + c
      BY <2>8, <2>9
    <3>3. a \in Nat /\ b \in Nat /\ c \in Nat
      BY <2>10
    <3>. HIDE DEF a, c
    <3>4. a + (b + c) = b + (a + c)
      <4>. HIDE DEF b
      <4>. QED  BY <3>3
    <3>. QED  BY <3>1, <3>2, <3>4
  <2>. QED  BY <2>2, <2>11
<1>. QED  BY <1>1

\* What two directories have in common has one size.
LEMMA SumSame ==
  ASSUME NEW d, NEW e, IsSized(d), IsSized(e), NEW s \in SUBSET (DOMAIN d \cap DOMAIN e),
         \A n \in s : d[n] = e[n]
  PROVE  Sums(d)[s] = Sums(e)[s]
<1>. DEFINE Bad == {t \in SUBSET s : Sums(d)[t] # Sums(e)[t]}
<1>1. Bad = {}
  <2>. SUFFICES ASSUME Bad # {} PROVE FALSE
    OBVIOUS
  <2>1. PICK t \in Bad : \A u \in Bad : u \subseteq t => u = t
    <3>1. IsFiniteSet(s) /\ Bad \in SUBSET SUBSET s
      BY FS_Subset DEF IsSized
    <3>. HIDE DEF Bad
    <3>. QED  BY <3>1, LeastSet
  <2>2. t \in SUBSET s /\ t \in SUBSET DOMAIN d /\ t \in SUBSET DOMAIN e
        /\ Sums(d)[t] # Sums(e)[t]
    BY <2>1
  <2>3. t # {}
    BY <2>2, SumOf
  <2>4. /\ One(t) \in t /\ Sums(d)[t] = B!SizeOf(d[One(t)]) + Sums(d)[t \ {One(t)}]
        /\ Sums(e)[t] = B!SizeOf(e[One(t)]) + Sums(e)[t \ {One(t)}]
    BY <2>2, <2>3, SumOf
  <2>5. Sums(d)[t \ {One(t)}] = Sums(e)[t \ {One(t)}]
    BY <2>1, <2>2, <2>4
  <2>. QED  BY <2>2, <2>4, <2>5
<1>. QED  BY <1>1

\* What a directory has more or less than another.
LEMMA TotalIsNat == ASSUME NEW d, IsSized(d) PROVE B!Total(d) \in Nat
BY TotalIsSum, SumIsNat

LEMMA TotalWithout ==
  ASSUME NEW d, NEW e, IsSized(d), NEW n \in DOMAIN d, DOMAIN e = DOMAIN d \ {n},
         \A k \in DOMAIN e : e[k] = d[k]
  PROVE  IsSized(e) /\ B!Total(d) = B!SizeOf(d[n]) + B!Total(e)
<1>1. IsSized(e)
  <2>1. IsFiniteSet(DOMAIN e)
    BY FS_Subset DEF IsSized
  <2>2. \A k \in DOMAIN e : B!SizeOf(e[k]) \in Nat
    BY DEF IsSized
  <2>. QED  BY <2>1, <2>2 DEF IsSized
<1>2. Sums(d)[DOMAIN d] = B!SizeOf(d[n]) + Sums(d)[DOMAIN e]
  BY SumWithout
<1>3. Sums(d)[DOMAIN e] = Sums(e)[DOMAIN e]
  <2>1. DOMAIN e \in SUBSET (DOMAIN d \cap DOMAIN e) /\ \A k \in DOMAIN e : d[k] = e[k]
    OBVIOUS
  <2>. QED  BY <1>1, <2>1, SumSame
<1>. QED  BY <1>1, <1>2, <1>3, TotalIsSum

LEMMA TotalSame ==
  ASSUME NEW d, NEW e, IsSized(d), DOMAIN e = DOMAIN d, \A k \in DOMAIN e : e[k] = d[k]
  PROVE  IsSized(e) /\ B!Total(e) = B!Total(d)
<1>1. IsSized(e)
  <2>1. \A k \in DOMAIN e : B!SizeOf(e[k]) \in Nat
    BY DEF IsSized
  <2>. QED  BY <2>1 DEF IsSized
<1>2. Sums(d)[DOMAIN e] = Sums(e)[DOMAIN e]
  <2>1. DOMAIN e \in SUBSET (DOMAIN d \cap DOMAIN e) /\ \A k \in DOMAIN e : d[k] = e[k]
    OBVIOUS
  <2>. QED  BY <1>1, <2>1, SumSame
<1>. QED  BY <1>1, <1>2, TotalIsSum

\* A directory without some of its files takes no more.
LEMMA TotalLess ==
  ASSUME NEW d, NEW e, IsSized(d), DOMAIN e \subseteq DOMAIN d, \A k \in DOMAIN e : e[k] = d[k]
  PROVE  B!Total(e) <= B!Total(d)
<1>. DEFINE u == DOMAIN e
            Bad == {t \in SUBSET DOMAIN d : u \subseteq t /\ ~ (Sums(d)[u] <= Sums(d)[t])}
<1>1. IsFiniteSet(DOMAIN d) /\ \A k \in DOMAIN d : B!SizeOf(d[k]) \in Nat
  BY DEF IsSized
<1>2. IsSized(e)
  <2>1. IsFiniteSet(DOMAIN e)
    BY <1>1, FS_Subset
  <2>2. \A k \in DOMAIN e : B!SizeOf(e[k]) \in Nat
    BY <1>1
  <2>. QED  BY <2>1, <2>2 DEF IsSized
<1>3. Bad = {}
  <2>. SUFFICES ASSUME Bad # {} PROVE FALSE
    OBVIOUS
  <2>1. PICK t \in Bad : \A v \in Bad : v \subseteq t => v = t
    <3>1. Bad \in SUBSET SUBSET DOMAIN d
      OBVIOUS
    <3>. HIDE DEF Bad
    <3>. QED  BY <1>1, <3>1, LeastSet
  <2>2. t \in SUBSET DOMAIN d /\ u \subseteq t /\ ~ (Sums(d)[u] <= Sums(d)[t]) /\ u \in SUBSET DOMAIN d
    BY <2>1
  <2>3. Sums(d)[u] \in Nat /\ Sums(d)[t] \in Nat
    BY <2>2, SumIsNat
  <2>4. PICK n \in t : n \notin u
    <3>1. t # u
      BY <2>2, <2>3
    <3>. QED  BY <2>2, <3>1
  <2>5. Sums(d)[t] = B!SizeOf(d[n]) + Sums(d)[t \ {n}]
    BY <2>2, <2>4, SumWithout
  <2>6. B!SizeOf(d[n]) \in Nat /\ Sums(d)[t \ {n}] \in Nat /\ t \ {n} \in SUBSET DOMAIN d
    BY <1>1, <2>2, <2>4, SumIsNat
  <2>7. ~ (Sums(d)[u] <= Sums(d)[t \ {n}])
    BY <2>2, <2>3, <2>5, <2>6
  <2>8. t \ {n} \in Bad
    BY <2>2, <2>4, <2>6, <2>7
  <2>. QED  BY <2>1, <2>4, <2>8
<1>4. Sums(d)[u] <= Sums(d)[DOMAIN d]
  <2>1. DOMAIN d \notin Bad /\ u \subseteq DOMAIN d
    BY <1>3
  <2>. QED  BY <2>1
<1>5. Sums(d)[u] = Sums(e)[u]
  <2>1. u \in SUBSET (DOMAIN d \cap DOMAIN e) /\ \A k \in u : d[k] = e[k]
    OBVIOUS
  <2>. QED  BY <1>2, <2>1, SumSame
<1>. QED  BY <1>4, <1>5, TotalIsSum

\* One file written costs its size at most, whatever lay under its name.
LEMMA TotalSet ==
  ASSUME NEW d, NEW e, IsSized(d), IsSized(e), NEW n, DOMAIN e = DOMAIN d \cup {n},
         \A k \in DOMAIN e \ {n} : e[k] = d[k]
  PROVE  B!Total(e) <= B!Total(d) + B!SizeOf(e[n])
<1>. DEFINE r == [k \in DOMAIN d \ {n} |-> d[k]]
<1>1. /\ DOMAIN r = DOMAIN e \ {n} /\ \A k \in DOMAIN r : r[k] = e[k]
      /\ DOMAIN r = DOMAIN d \ {n} /\ \A k \in DOMAIN r : r[k] = d[k]
  OBVIOUS
<1>. HIDE DEF r
<1>2. IsSized(r) /\ B!Total(e) = B!SizeOf(e[n]) + B!Total(r)
  BY <1>1, TotalWithout
<1>3. B!Total(r) \in Nat /\ B!SizeOf(e[n]) \in Nat
  BY <1>2, TotalIsNat DEF IsSized
<1>4. B!Total(r) <= B!Total(d)
  <2>1. CASE n \in DOMAIN d
    <3>1. B!Total(d) = B!SizeOf(d[n]) + B!Total(r) /\ B!SizeOf(d[n]) \in Nat
      BY <1>1, <2>1, TotalWithout DEF IsSized
    <3>. QED  BY <1>3, <3>1
  <2>2. CASE n \notin DOMAIN d
    <3>1. DOMAIN r = DOMAIN d
      BY <1>1, <2>2
    <3>2. B!Total(r) = B!Total(d)
      BY <1>1, <3>1, TotalSame
    <3>. QED  BY <1>3, <3>2
  <2>. QED  BY <2>1, <2>2
<1>5. B!Total(d) \in Nat
  BY TotalIsNat
<1>. QED  BY <1>2, <1>3, <1>4, <1>5

\* The largest message there is.
LEMMA LargestIs ==
  ASSUME B!Constants
  PROVE  B!Largest \in Nat /\ \A m \in Mail : Size[m] <= B!Largest
<1>1. IsFiniteSet(Mail) /\ Mail # {} /\ \A m \in Mail : Size[m] \in Nat
  <2>1. Mail # {} /\ Size \in [Mail -> Nat]
    BY DEF B!Constants
  <2>2. IsFiniteSet(Mail)
    BY FiniteHere DEF B!Constants
  <2>. QED  BY <2>1, <2>2
<1>. DEFINE Above(m) == {k \in Mail : Size[k] >= Size[m]}
            All == {Above(m) : m \in Mail}
<1>2. PICK s \in All : \A t \in All : t \subseteq s => t = s
  <2>1. All \in SUBSET SUBSET Mail /\ All # {}
    BY <1>1
  <2>. HIDE DEF All
  <2>. QED  BY <1>1, <2>1, LeastSet
<1>3. PICK m \in Mail : s = Above(m)
  BY <1>2
<1>4. ASSUME NEW k \in Mail PROVE Size[m] >= Size[k]
  <2>. SUFFICES ASSUME Size[k] > Size[m] PROVE FALSE
    BY <1>1
  <2>1. Above(k) \subseteq Above(m) /\ m \in Above(m) /\ m \notin Above(k)
    BY <1>1
  <2>2. Above(k) \in All
    OBVIOUS
  <2>. QED  BY <1>2, <1>3, <2>1, <2>2
<1>. DEFINE sizes == {Size[k] : k \in Mail}
<1>5. \E x \in sizes : \A y \in sizes : x >= y
  <2>1. Size[m] \in sizes /\ \A y \in sizes : Size[m] >= y
    BY <1>4
  <2>. QED  BY <2>1
<1>6. B!Largest \in sizes /\ \A y \in sizes : B!Largest >= y
  <2>1. B!Largest = CHOOSE x \in sizes : \A y \in sizes : x >= y
    BY DEF B!Largest, B!Max
  <2>. HIDE DEF sizes
  <2>. QED  BY <1>5, <2>1
<1>. QED  BY <1>1, <1>6

LEMMA FilesSized ==
  ASSUME B!Constants, BodiesInv
  PROVE  IsSized(files) /\ \A n \in DOMAIN files : B!SizeOf(files[n]) \in 0 .. B!Largest
<1>1. B!Largest \in Nat /\ \A m \in Mail : Size[m] \in 0 .. B!Largest
  <2>1. \A m \in Mail : Size[m] \in Nat
    BY DEF B!Constants
  <2>. QED  BY <2>1, LargestIs
<1>2. \A n \in DOMAIN files : B!SizeOf(files[n]) \in 0 .. B!Largest
  BY <1>1 DEF BodiesInv, B!TypeOK, B!SizeOf
<1>3. IsFiniteSet(B!Name)
  <2>1. IsFiniteSet(Mail)
    BY FiniteHere DEF B!Constants
  <2>2. IsFiniteSet({"eml", "tmp"})
    <3>1. IsFiniteSet({} \cup {"eml"} \cup {"tmp"})
      BY FS_EmptySet, FS_AddElement
    <3>2. {} \cup {"eml"} \cup {"tmp"} = {"eml", "tmp"}
      OBVIOUS
    <3>. QED  BY <3>1, <3>2
  <2>. QED  BY <2>1, <2>2, FS_Product DEF B!Name
<1>4. IsFiniteSet(DOMAIN files)
  <2>1. DOMAIN files \subseteq B!Name
    BY DEF BodiesInv, B!TypeOK
  <2>. QED  BY <1>3, <2>1, FS_Subset
<1>. QED  BY <1>1, <1>2, <1>4 DEF IsSized

LEMMA OwedIs ==
  ASSUME B!Constants, BodiesInv
  PROVE  /\ Owed \in Nat
         /\ B!BoundedByPast <=> B!Total(files) <= CacheMax + B!Largest * Owed
<1>1. IsFiniteSet(Program)
  BY FiniteHere DEF B!Constants
<1>2. Cardinality(B!Past) \in Nat
  BY <1>1, FS_Subset, FS_CardinalityType DEF B!Past
<1>3. loose \in Nat
  BY DEF BodiesInv, B!TypeOK
<1>. QED  BY <1>2, <1>3, CardinalityHere DEF Owed, B!BoundedByPast, B!Bounded

LEMMA OwedSoon ==
  ASSUME B!Constants, BodiesInv, BodiesInv', B!BoundedByPast
  PROVE  /\ B!Total(files) \in Nat /\ B!Total(files') \in Nat
         /\ B!Largest \in Nat /\ CacheMax \in Nat /\ Owed \in Nat /\ Owed' \in Nat
         /\ B!Total(files) <= CacheMax + B!Largest * Owed
         /\ B!BoundedByPast' <=> B!Total(files') <= CacheMax + B!Largest * Owed'
<1>1. IsSized(files) /\ (B!Constants /\ BodiesInv => IsSized(files))'
  BY FilesSized, PTL
<1>2. (B!Constants /\ BodiesInv =>
         Owed \in Nat /\ (B!BoundedByPast <=> B!Total(files) <= CacheMax + B!Largest * Owed))'
  BY OwedIs, PTL
<1>3. B!Total(files) \in Nat /\ B!Total(files') \in Nat
  BY <1>1, TotalIsNat
<1>4. B!Largest \in Nat /\ CacheMax \in Nat
  BY LargestIs DEF B!Constants
<1>5. Owed \in Nat /\ B!Total(files) <= CacheMax + B!Largest * Owed
  BY OwedIs
<1>6. /\ Owed' \in Nat
      /\ B!BoundedByPast' <=> B!Total(files') <= CacheMax + B!Largest * Owed'
  BY <1>2
<1>. QED  BY <1>3, <1>4, <1>5, <1>6

LEMMA Times ==
  ASSUME NEW m \in Nat, NEW a \in Nat, NEW b \in Nat
  PROVE  /\ m * a \in Nat /\ m * b \in Nat
         /\ a <= b => m * a <= m * b
         /\ b = a + 1 => m * b = m * a + m
<1>1. m * a \in Nat /\ m * b \in Nat
  OBVIOUS
<1>2. ASSUME NEW c \in Nat, b = a + c PROVE m * b = m * a + m * c /\ m * c \in Nat
  BY <1>2
<1>3. a <= b => b - a \in Nat /\ b = a + (b - a)
  OBVIOUS
<1>4. a <= b => m * b = m * a + m * (b - a) /\ m * (b - a) \in Nat
  BY <1>2, <1>3
<1>. QED  BY <1>1, <1>2, <1>4

LEMMA NoMore ==
  ASSUME B!Constants, BodiesInv, BodiesInv', B!BoundedByPast,
         B!Total(files') <= B!Total(files), Owed <= Owed'
  PROVE  B!BoundedByPast'
<1>1. B!Largest * Owed <= B!Largest * Owed'
      /\ B!Largest * Owed \in Nat /\ B!Largest * Owed' \in Nat
  BY OwedSoon, Times
<1>. QED  BY <1>1, OwedSoon

LEMMA OneMore ==
  ASSUME B!Constants, BodiesInv, BodiesInv', B!BoundedByPast,
         B!Total(files') <= B!Total(files) + B!Largest, Owed' = Owed + 1
  PROVE  B!BoundedByPast'
<1>1. B!Largest * Owed' = B!Largest * Owed + B!Largest
      /\ B!Largest * Owed \in Nat /\ B!Largest * Owed' \in Nat
  BY OwedSoon, Times
<1>. QED  BY <1>1, OwedSoon

\* What a step changes in who owes a cleanup.
LEMMA PastIsFinite ==
  ASSUME B!Constants
  PROVE  /\ IsFiniteSet(B!Past) /\ IsFiniteSet(B!Past')
         /\ Cardinality(B!Past) \in Nat /\ Cardinality(B!Past') \in Nat
<1>1. IsFiniteSet(Program)
  BY FiniteHere DEF B!Constants
<1>2. B!Past \subseteq Program /\ B!Past' \subseteq Program
  BY DEF B!Past
<1>. QED  BY <1>1, <1>2, FS_Subset, FS_CardinalityType

LEMMA OwedThen ==
  ASSUME B!Constants, BodiesInv, BodiesInv', NEW q
  PROVE  /\ loose \in Nat /\ loose' \in Nat /\ Owed \in Nat
         /\ B!Past' = B!Past => Owed' = Owed + (loose' - loose)
         /\ q \notin B!Past /\ B!Past' = B!Past \cup {q} => Owed' = Owed + 1 + (loose' - loose)
         /\ q \in B!Past /\ B!Past' = B!Past \ {q} => Owed' = Owed - 1 + (loose' - loose)
<1>. DEFINE c == Cardinality(B!Past)
            d == Cardinality(B!Past')
<1>1. loose \in Nat /\ loose' \in Nat
  BY DEF BodiesInv, B!TypeOK
<1>2. c \in Nat /\ d \in Nat /\ Owed = c + loose /\ Owed' = d + loose'
  BY PastIsFinite DEF Owed
<1>3. B!Past' = B!Past => d = c
  OBVIOUS
<1>4. q \notin B!Past /\ B!Past' = B!Past \cup {q} => d = c + 1
  BY PastIsFinite, FS_AddElement
<1>5. q \in B!Past /\ B!Past' = B!Past \ {q} => d = c - 1
  BY PastIsFinite, FS_RemoveElement
<1>. HIDE DEF c, d
<1>6. d = c => Owed' = Owed + (loose' - loose)
  BY <1>1, <1>2
<1>7. d = c + 1 => Owed' = Owed + 1 + (loose' - loose)
  BY <1>1, <1>2
<1>8. d = c - 1 => Owed' = Owed - 1 + (loose' - loose)
  BY <1>1, <1>2
<1>9. Owed \in Nat
  BY <1>1, <1>2
<1>. QED  BY <1>1, <1>3, <1>4, <1>5, <1>6, <1>7, <1>8, <1>9

LEMMA PastOfOthers ==
  ASSUME B!Constants, BodiesInv, NEW q \in Program,
         \A p \in Program \ {q} : lock'[p] = lock[p],
         \A v \in Worker : B!P(v) # q /\ pc[v] \in B!Holding => pc'[v] = pc[v]
  PROVE  \A p \in Program \ {q} : p \in B!Past' <=> p \in B!Past
<1>. SUFFICES ASSUME NEW p \in Program \ {q} PROVE p \in B!Past' <=> p \in B!Past
  OBVIOUS
<1>1. CASE lock[p] = B!None
  BY <1>1 DEF B!Past
<1>2. CASE lock[p] # B!None
  <2>1. lock[p] \in Worker /\ B!P(lock[p]) = p
    BY <1>2, HeldNow DEF LocksHeld
  <2>2. pc[lock[p]] \in B!Holding
    BY <2>1, HeldNow DEF LocksHeld
  <2>3. pc'[lock[p]] = pc[lock[p]]
    BY <2>1, <2>2
  <2>. QED  BY <2>3 DEF B!Past
<1>. QED  BY <1>1, <1>2

\* A step that leaves the directory and its locks alone.
LEMMA OutsideBound ==
  ASSUME B!Constants, BodiesInv, BodiesInv', B!BoundedByPast, UNCHANGED B!bodies,
         \A v \in Worker : pc[v] \in B!Holding => pc'[v] = pc[v]
  PROVE  B!BoundedByPast'
<1>1. files' = files /\ lock' = lock /\ loose' = loose
  BY DEF B!bodies
<1>2. ASSUME NEW q \in Program PROVE q \in B!Past' <=> q \in B!Past
  <2>1. CASE lock[q] = B!None
    BY <1>1, <2>1 DEF B!Past
  <2>2. CASE lock[q] # B!None
    <3>1. lock[q] \in Worker /\ pc[lock[q]] \in B!Holding
      BY <2>2, HeldNow DEF LocksHeld
    <3>2. pc'[lock[q]] = pc[lock[q]]
      BY <3>1
    <3>. QED  BY <1>1, <3>2 DEF B!Past
  <2>. QED  BY <2>1, <2>2
<1>3. B!Past' = B!Past
  BY <1>2 DEF B!Past
<1>4. Owed <= Owed'
  BY <1>1, <1>3, OwedThen
<1>. QED  BY <1>1, <1>4, NoMore, OwedSoon

LEMMA SizedSoon ==
  ASSUME B!Constants, BodiesInv, BodiesInv'
  PROVE  /\ IsSized(files) /\ IsSized(files') /\ B!Largest \in Nat
         /\ B!Total(files) \in Nat /\ B!Total(files') \in Nat
         /\ \A n \in DOMAIN files : B!SizeOf(files[n]) \in 0 .. B!Largest
         /\ \A n \in DOMAIN files' : B!SizeOf(files'[n]) \in 0 .. B!Largest
<1>1. IsSized(files) /\ \A n \in DOMAIN files : B!SizeOf(files[n]) \in 0 .. B!Largest
  BY FilesSized
<1>2. (B!Constants /\ BodiesInv =>
         IsSized(files) /\ \A n \in DOMAIN files : B!SizeOf(files[n]) \in 0 .. B!Largest)'
  BY FilesSized, PTL
<1>3. IsSized(files') /\ \A n \in DOMAIN files' : B!SizeOf(files'[n]) \in 0 .. B!Largest
  BY <1>2
<1>. QED  BY <1>1, <1>3, TotalIsNat, LargestIs

\* A new file is empty, and its program does not owe yet.
LEMMA CreateBound ==
  ASSUME B!Constants, BodiesInv, BodiesInv', B!BoundedByPast, NEW w \in Worker, B!Create(w)
  PROVE  B!BoundedByPast'
<1>. DEFINE p == B!P(w)
            name == B!Tmp(mem[w].etag)
            new == [of |-> mem[w].body.of, key |-> key[p], full |-> FALSE]
<1>1. DOMAIN pc = Worker /\ DOMAIN lock = Program /\ p \in Program
  BY ProgramIs DEF BodiesInv, B!TypeOK
<1>2. CASE mem[w].etag = B!None
  <2>1. pc[w] = "put" /\ pc' = [pc EXCEPT ![w] = "done"] /\ UNCHANGED B!bodies
    BY <1>2 DEF B!Create, B!Goto
  <2>2. \A v \in Worker : pc[v] \in B!Holding => pc'[v] = pc[v]
    BY <1>1, <2>1, StepsAre
  <2>. QED  BY <2>1, <2>2, OutsideBound
<1>3. CASE mem[w].etag # B!None
  <2>1. /\ pc[w] = "put" /\ pc' = [pc EXCEPT ![w] = "write"] /\ loose' = loose
        /\ lock[p] = B!None /\ lock' = [lock EXCEPT ![p] = w] /\ files' = B!Set(files, name, new)
    BY <1>3 DEF B!Create, B!Goto
  <2>2. B!Past' = B!Past
    <3>1. p \notin B!Past
      BY <2>1 DEF B!Past
    <3>2. p \notin B!Past'
      BY <1>1, <2>1 DEF B!Past
    <3>3. \A q \in Program \ {p} : q \in B!Past' <=> q \in B!Past
      BY <1>1, <2>1, PastOfOthers, StepsAre
    <3>. QED  BY <3>1, <3>2, <3>3 DEF B!Past
  <2>3. Owed <= Owed'
    BY <2>1, <2>2, OwedThen
  <2>4. B!Total(files') <= B!Total(files)
    <3>1. B!SizeOf(new) = 0
      BY DEF B!SizeOf
    <3>. HIDE DEF new, name
    <3>2. /\ DOMAIN files' = DOMAIN files \cup {name} /\ files'[name] = new
          /\ \A n \in DOMAIN files' \ {name} : files'[n] = files[n]
      BY <2>1 DEF B!Set
    <3>3. B!Total(files') <= B!Total(files) + B!SizeOf(files'[name])
      BY <3>2, SizedSoon, TotalSet
    <3>. QED  BY <3>1, <3>2, <3>3, SizedSoon
  <2>. QED  BY <2>3, <2>4, NoMore
<1>. QED  BY <1>2, <1>3

\* A whole file takes room, and its program owes a cleanup; a broken write is owed
\* from then on.
LEMMA WriteBound ==
  ASSUME B!Constants, BodiesInv, BodiesInv', B!BoundedByPast, NEW w \in Worker, B!Write(w)
  PROVE  B!BoundedByPast'
<1>. DEFINE p == B!P(w)
            n == mem[w].file
            new == [of |-> mem[w].body.of, key |-> key[p], full |-> TRUE]
<1>1. /\ DOMAIN pc = Worker /\ DOMAIN lock = Program /\ p \in Program /\ w # B!None
      /\ pc[w] = "write"
  BY ProgramIs DEF BodiesInv, B!TypeOK, B!Write
<1>2. lock[p] = w /\ p \notin B!Past
  <2>1. lock[p] = w
    BY <1>1, HeldNow, StepsAre DEF LocksHeld
  <2>. QED  BY <1>1, <2>1 DEF B!Past
<1>3. \/ /\ files' = IF n = B!Unlinked THEN files ELSE [files EXCEPT ![n] = new]
         /\ pc' = [pc EXCEPT ![w] = "rename"] /\ lock' = lock /\ loose' = loose
      \/ /\ pc' = [pc EXCEPT ![w] = "done"] /\ lock' = [lock EXCEPT ![p] = B!None]
         /\ loose' = loose + 1 /\ files' = files
  BY DEF B!Write, B!Goto, B!BreakOff, B!Leave
<1>4. \A q \in Program \ {p} : q \in B!Past' <=> q \in B!Past
  <2>1. \A q \in Program \ {p} : lock'[q] = lock[q]
    BY <1>1, <1>3
  <2>2. \A v \in Worker : B!P(v) # p /\ pc[v] \in B!Holding => pc'[v] = pc[v]
    BY <1>1, <1>3
  <2>. QED  BY <1>1, <2>1, <2>2, PastOfOthers
<1>5. CASE /\ files' = IF n = B!Unlinked THEN files ELSE [files EXCEPT ![n] = new]
           /\ pc' = [pc EXCEPT ![w] = "rename"] /\ lock' = lock /\ loose' = loose
  <2>1. p \in B!Past'
    BY <1>1, <1>2, <1>5 DEF B!Past
  <2>2. B!Past' = B!Past \cup {p}
    BY <1>4, <2>1 DEF B!Past
  <2>3. Owed' = Owed + 1
    BY <1>2, <1>5, <2>2, OwedThen
  <2>4. B!Total(files') <= B!Total(files) + B!Largest
    <3>1. CASE files' = files
      BY <3>1, SizedSoon
    <3>2. CASE n \in DOMAIN files /\ files' = [files EXCEPT ![n] = new]
      <4>. HIDE DEF n, new
      <4>1. DOMAIN files' = DOMAIN files \cup {n} /\ n \in DOMAIN files'
            /\ \A k \in DOMAIN files' \ {n} : files'[k] = files[k]
        BY <3>2
      <4>2. B!Total(files') <= B!Total(files) + B!SizeOf(files'[n])
        BY <4>1, SizedSoon, TotalSet
      <4>3. B!SizeOf(files'[n]) \in 0 .. B!Largest
        BY <4>1, SizedSoon
      <4>. QED  BY <4>2, <4>3, SizedSoon
    <3>3. n = B!Unlinked \/ n \in DOMAIN files \/ n = B!NoFile
      BY HeldNow DEF FilesHeld
    <3>4. n # B!NoFile
      <4>1. n \in {B!Unlinked, B!Tmp(mem[w].at[1]), B!Eml(mem[w].at[1])}
        BY <1>1 DEF BodiesInv, B!InHand, B!Fits
      <4>2. mem[w].at[1] \in Mail
        BY <1>1, Putting, StepsAre
      <4>3. B!Unlinked # B!NoFile
        BY DEF B!Unlinked, B!NoFile
      <4>. QED  BY <4>1, <4>2, <4>3, NamesOf
    <3>. QED  BY <1>5, <3>1, <3>2, <3>3, <3>4
  <2>. QED  BY <2>3, <2>4, OneMore
<1>6. CASE /\ pc' = [pc EXCEPT ![w] = "done"] /\ lock' = [lock EXCEPT ![p] = B!None]
           /\ loose' = loose + 1 /\ files' = files
  <2>1. p \notin B!Past'
    BY <1>1, <1>6 DEF B!Past
  <2>2. B!Past' = B!Past
    BY <1>2, <1>4, <2>1 DEF B!Past
  <2>3. Owed <= Owed'
    BY <1>6, <2>2, OwedThen
  <2>. QED  BY <1>6, <2>3, NoMore, SizedSoon
<1>. QED  BY <1>3, <1>5, <1>6

\* A rename moves a size to another name, or the write is owed.
LEMMA RenameBound ==
  ASSUME B!Constants, BodiesInv, BodiesInv', B!BoundedByPast, NEW w \in Worker, B!Rename(w)
  PROVE  B!BoundedByPast'
<1>. DEFINE p == B!P(w)
            from == B!Tmp(mem[w].etag)
            to == B!Eml(mem[w].etag)
<1>1. /\ DOMAIN pc = Worker /\ DOMAIN lock = Program /\ p \in Program /\ w # B!None
      /\ pc[w] = "rename"
  BY ProgramIs DEF BodiesInv, B!TypeOK, B!Rename
<1>2. lock[p] = w /\ p \in B!Past
  <2>1. lock[p] = w
    BY <1>1, HeldNow, StepsAre DEF LocksHeld
  <2>. QED  BY <1>1, <2>1 DEF B!Past
<1>3. \/ /\ from \in DOMAIN files /\ files' = B!Set(B!Without(files, {from}), to, files[from])
         /\ pc' = [pc EXCEPT ![w] = "cleanup"] /\ lock' = lock /\ loose' = loose
      \/ /\ pc' = [pc EXCEPT ![w] = "done"] /\ lock' = [lock EXCEPT ![p] = B!None]
         /\ loose' = loose + 1 /\ files' = files
  BY DEF B!Rename, B!Goto, B!BreakOff, B!Leave
<1>4. \A q \in Program \ {p} : q \in B!Past' <=> q \in B!Past
  <2>1. \A q \in Program \ {p} : lock'[q] = lock[q]
    BY <1>1, <1>3
  <2>2. \A v \in Worker : B!P(v) # p /\ pc[v] \in B!Holding => pc'[v] = pc[v]
    BY <1>1, <1>3
  <2>. QED  BY <1>1, <2>1, <2>2, PastOfOthers
<1>5. CASE /\ from \in DOMAIN files /\ files' = B!Set(B!Without(files, {from}), to, files[from])
           /\ pc' = [pc EXCEPT ![w] = "cleanup"] /\ lock' = lock /\ loose' = loose
  <2>1. p \in B!Past'
    BY <1>1, <1>2, <1>5 DEF B!Past
  <2>2. B!Past' = B!Past
    BY <1>2, <1>4, <2>1 DEF B!Past
  <2>3. Owed <= Owed'
    BY <1>5, <2>2, OwedThen
  <2>4. B!Total(files') <= B!Total(files)
    <3>. DEFINE h == B!Without(files, {from})
    <3>1. DOMAIN h = DOMAIN files \ {from} /\ \A n \in DOMAIN files \ {from} : h[n] = files[n]
      BY WithoutFacts
    <3>2. files' = B!Set(h, to, files[from])
      BY <1>5
    <3>. HIDE DEF h, from, to
    <3>3. /\ DOMAIN files' = DOMAIN h \cup {to} /\ files'[to] = files[from]
          /\ \A n \in DOMAIN files' \ {to} : files'[n] = h[n]
      BY <3>2 DEF B!Set
    <3>4. IsSized(h) /\ B!Total(files) = B!SizeOf(files[from]) + B!Total(h)
      BY <1>5, <3>1, SizedSoon, TotalWithout
    <3>5. B!Total(files') <= B!Total(h) + B!SizeOf(files'[to])
      BY <3>3, <3>4, SizedSoon, TotalSet
    <3>6. B!Total(h) \in Nat /\ B!SizeOf(files[from]) \in Nat
      BY <1>5, <3>4, SizedSoon, TotalIsNat DEF IsSized
    <3>. QED  BY <3>3, <3>4, <3>5, <3>6, SizedSoon
  <2>. QED  BY <2>3, <2>4, NoMore
<1>6. CASE /\ pc' = [pc EXCEPT ![w] = "done"] /\ lock' = [lock EXCEPT ![p] = B!None]
           /\ loose' = loose + 1 /\ files' = files
  <2>1. p \notin B!Past'
    BY <1>1, <1>6 DEF B!Past
  <2>2. B!Past' = B!Past \ {p}
    BY <1>4, <2>1 DEF B!Past
  <2>3. Owed <= Owed'
    BY <1>2, <1>6, <2>2, OwedThen
  <2>. QED  BY <1>6, <2>3, NoMore, SizedSoon
<1>. QED  BY <1>3, <1>5, <1>6

\* A cleanup leaves no more than the limit, or its write among those broken off.
LEMMA CleanupBound ==
  ASSUME B!Constants, BodiesInv, BodiesInv', B!BoundedByPast, NEW w \in Worker, B!Cleanup(w)
  PROVE  B!BoundedByPast'
<1>. DEFINE p == B!P(w)
<1>1. PICK S \in SUBSET DOMAIN files :
        /\ files' = B!Without(files, S)
        /\ pc[w] = "cleanup" /\ pc' = [pc EXCEPT ![w] = "done"] /\ lock' = [lock EXCEPT ![p] = B!None]
        /\ ~ (B!Total(B!Without(files, S)) > CacheMax) \/ loose' = loose + 1
  BY DEF B!Cleanup, B!Removals, B!Evictions, B!Over, B!BreakOff, B!Leave
<1>2. CASE ~ (B!Total(files') > CacheMax)
  <2>1. CacheMax \in Nat /\ B!Total(files') \in Nat
    BY SizedSoon DEF B!Constants
  <2>2. B!Largest * Owed' \in Nat
    BY OwedSoon, Times
  <2>. QED  BY <1>2, <2>1, <2>2, OwedSoon
<1>3. CASE loose' = loose + 1
  <2>1. DOMAIN pc = Worker /\ DOMAIN lock = Program /\ p \in Program /\ w # B!None
    BY ProgramIs DEF BodiesInv, B!TypeOK
  <2>2. lock[p] = w /\ p \in B!Past
    <3>1. lock[p] = w
      BY <1>1, <2>1, HeldNow, StepsAre DEF LocksHeld
    <3>. QED  BY <1>1, <2>1, <3>1 DEF B!Past
  <2>3. \A q \in Program \ {p} : q \in B!Past' <=> q \in B!Past
    <3>1. \A q \in Program \ {p} : lock'[q] = lock[q]
      BY <1>1, <2>1
    <3>2. \A v \in Worker : B!P(v) # p /\ pc[v] \in B!Holding => pc'[v] = pc[v]
      BY <1>1, <2>1
    <3>. QED  BY <2>1, <3>1, <3>2, PastOfOthers
  <2>4. p \notin B!Past'
    BY <1>1, <2>1 DEF B!Past
  <2>5. B!Past' = B!Past \ {p}
    BY <2>3, <2>4 DEF B!Past
  <2>6. Owed <= Owed'
    BY <1>3, <2>2, <2>5, OwedThen
  <2>7. B!Total(files') <= B!Total(files)
    <3>1. files' = B!Without(files, S)
      BY <1>1
    <3>2. /\ DOMAIN B!Without(files, S) = DOMAIN files \ S
          /\ \A n \in DOMAIN files \ S : B!Without(files, S)[n] = files[n]
      BY WithoutFacts
    <3>3. DOMAIN files' \subseteq DOMAIN files /\ \A n \in DOMAIN files' : files'[n] = files[n]
      BY <3>1, <3>2
    <3>. QED  BY <3>3, SizedSoon, TotalLess
  <2>. QED  BY <2>6, <2>7, NoMore
<1>. QED  BY <1>1, <1>2, <1>3

\* A program that ends takes its place among the writes broken off.
LEMMA RestartBound ==
  ASSUME B!Constants, BodiesInv, BodiesInv', B!BoundedByPast, NEW p \in Program,
         NEW k, NEW idx, B!Restart(p, k, idx)
  PROVE  B!BoundedByPast'
<1>1. /\ lock' = [lock EXCEPT ![p] = B!None] /\ files' = files
      /\ loose' = IF lock[p] = B!None THEN loose ELSE loose + 1
      /\ pc' = [w \in Worker |-> IF B!P(w) = p THEN "idle" ELSE pc[w]]
  BY DEF B!Restart
<1>2. DOMAIN lock = Program
  BY HeldNow DEF LocksHeld
<1>3. \A q \in Program \ {p} : q \in B!Past' <=> q \in B!Past
  <2>1. \A q \in Program \ {p} : lock'[q] = lock[q]
    BY <1>1, <1>2
  <2>2. \A v \in Worker : B!P(v) # p /\ pc[v] \in B!Holding => pc'[v] = pc[v]
    BY <1>1
  <2>. QED  BY <2>1, <2>2, PastOfOthers
<1>4. p \notin B!Past'
  BY <1>1, <1>2 DEF B!Past
<1>5. B!Past' = B!Past \ {p}
  BY <1>3, <1>4 DEF B!Past
<1>6. Owed <= Owed'
  <2>1. CASE p \in B!Past
    <3>1. loose' = loose + 1
      BY <1>1, <2>1 DEF B!Past
    <3>. QED  BY <1>5, <2>1, <3>1, OwedThen
  <2>2. CASE p \notin B!Past
    <3>1. B!Past' = B!Past /\ (loose' = loose \/ loose' = loose + 1)
      BY <1>1, <1>5, <2>2
    <3>. QED  BY <3>1, OwedThen
  <2>. QED  BY <2>1, <2>2
<1>. QED  BY <1>1, <1>6, NoMore, SizedSoon

\* Nothing else touches the directory.
LEMMA FetchOutside ==
  ASSUME NEW w \in Worker,
         (\E at, head : B!Open(w, at, head)) \/ B!Get(w) \/ B!Again(w) \/ B!Decrypt(w)
  PROVE  /\ UNCHANGED B!bodies /\ pc[w] \notin B!Holding
         /\ \E step : pc' = [pc EXCEPT ![w] = step]
<1>1. ASSUME NEW at, NEW head, B!Open(w, at, head)
      PROVE  /\ UNCHANGED B!bodies /\ pc[w] \notin B!Holding
             /\ \E step : pc' = [pc EXCEPT ![w] = step]
  BY <1>1, StepsAre DEF B!Open, B!Goto
<1>2. CASE B!Get(w)
  <2>1. UNCHANGED B!bodies /\ pc[w] = "get"
    BY <1>2 DEF B!Get
  <2>2. \E step : pc' = [pc EXCEPT ![w] = step]
    BY <1>2 DEF B!Get, B!Answer, B!Finish, B!Got, B!Goto
  <2>. QED  BY <2>1, <2>2 DEF B!Holding
<1>3. CASE B!Again(w)
  <2>1. UNCHANGED B!bodies /\ pc[w] = "again"
    BY <1>3 DEF B!Again
  <2>2. \E step : pc' = [pc EXCEPT ![w] = step]
    BY <1>3 DEF B!Again, B!Answer, B!Finish, B!Goto
  <2>. QED  BY <2>1, <2>2 DEF B!Holding
<1>4. CASE B!Decrypt(w)
  <2>1. UNCHANGED B!bodies /\ pc[w] = "decrypt"
    BY <1>4 DEF B!Decrypt
  <2>2. \E step : pc' = [pc EXCEPT ![w] = step]
    BY <1>4 DEF B!Decrypt, B!Finish, B!Got, B!Goto
  <2>. QED  BY <2>1, <2>2 DEF B!Holding
<1>. QED  BY SMTT(60), <1>1, <1>2, <1>3, <1>4

LEMMA BoundNext ==
  ASSUME B!Constants, BodiesInv, BodiesInv', B!BoundedByPast, [B!Next]_B!vars
  PROVE  B!BoundedByPast'
<1>1. ASSUME NEW w \in Worker, UNCHANGED B!bodies, pc[w] \notin B!Holding,
             \E step : pc' = [pc EXCEPT ![w] = step]
      PROVE  B!BoundedByPast'
  <2>1. \A v \in Worker : pc[v] \in B!Holding => pc'[v] = pc[v]
    BY <1>1 DEF BodiesInv, B!TypeOK
  <2>. QED  BY <1>1, <2>1, OutsideBound
<1>2. ASSUME NEW w \in Worker, \E at \in DOMAIN known[B!P(w)] : B!Open(w, at, FALSE)
      PROVE  B!BoundedByPast'
  BY <1>1, <1>2, FetchOutside
<1>3. ASSUME NEW w \in Worker, B!Summarize(w) PROVE B!BoundedByPast'
  <2>1. \E at, head : B!Open(w, at, head)
    BY <1>3 DEF B!Summarize
  <2>. QED  BY <1>1, <2>1, FetchOutside
<1>4. ASSUME NEW w \in Worker, B!Get(w) \/ B!Again(w) \/ B!Decrypt(w) PROVE B!BoundedByPast'
  BY <1>1, <1>4, FetchOutside
<1>5. ASSUME NEW p \in Program,
             B!Prune(p) \/ (\E at \in DOMAIN known[p], f \in Place : B!Move(p, at, f))
      PROVE  B!BoundedByPast'
  <2>1. UNCHANGED B!bodies /\ pc' = pc
    BY <1>5 DEF B!Prune, B!Move
  <2>. QED  BY <2>1, OutsideBound
<1>6. CASE UNCHANGED B!vars
  <2>1. UNCHANGED B!bodies /\ pc' = pc
    BY <1>6 DEF B!vars, B!bodies
  <2>. QED  BY <2>1, OutsideBound
<1>. QED
  BY <1>2, <1>3, <1>4, <1>5, <1>6, CreateBound, WriteBound, RenameBound, CleanupBound,
     RestartBound DEF B!Next

LEMMA BoundInit == ASSUME B!Constants, B!Init, BodiesInv PROVE B!BoundedByPast
<1>1. files = <<>>
  BY DEF B!Init
<1>2. DOMAIN files = {}
  BY <1>1
<1>3. B!Total(files) = 0
  <2>1. Sums(files)[{}] = 0
    BY FilesSized, SumOf
  <2>. QED  BY <1>2, <2>1, TotalIsSum
<1>4. Owed \in Nat /\ (B!BoundedByPast <=> B!Total(files) <= CacheMax + B!Largest * Owed)
  BY OwedIs
<1>5. B!Largest \in Nat /\ CacheMax \in Nat
  BY LargestIs DEF B!Constants
<1>6. B!Largest * Owed \in Nat
  BY <1>4, <1>5, Times
<1>. QED  BY <1>3, <1>4, <1>5, <1>6

\* The cache directory stays within its limit, but for a message per program that is
\* writing one and one for every write that was broken off since the last cleaning
\* (store/bodycache.go put, cleanup).
THEOREM CacheStaysSmall == CoreSpec => []CacheBounded
<1>. USE CoreAssumption
<1>1. B!Init => BodiesInv /\ B!BoundedByPast
  BY BodiesInit, BoundInit
<1>2. BodiesInv /\ B!BoundedByPast /\ [B!Next]_B!vars => (BodiesInv /\ B!BoundedByPast)'
  BY BodiesNext, BoundNext
<1>3. BodiesInv /\ B!BoundedByPast => CacheBounded
  <2>. SUFFICES ASSUME BodiesInv, B!BoundedByPast PROVE CacheBounded
    OBVIOUS
  <2>. DEFINE busy == {p \in Program : lock[p] # B!None}
  <2>1. Cardinality(B!Past) <= Cardinality(busy) /\ Cardinality(busy) \in Nat
        /\ Cardinality(B!Past) \in Nat
    <3>1. IsFiniteSet(Program) /\ B!Past \subseteq busy /\ busy \subseteq Program
      BY FiniteHere DEF B!Constants, B!Past
    <3>. QED  BY <3>1, FS_Subset, FS_CardinalityType
  <2>2. loose \in Nat
    BY DEF BodiesInv, B!TypeOK
  <2>3. Owed <= Cardinality(busy) + loose /\ Cardinality(busy) + loose \in Nat
    BY <2>1, <2>2 DEF Owed
  <2>4. Owed \in Nat /\ B!Total(files) <= CacheMax + B!Largest * Owed
    BY OwedIs
  <2>5. B!Largest \in Nat /\ CacheMax \in Nat /\ B!Total(files) \in Nat
    BY LargestIs, FilesSized, TotalIsNat DEF B!Constants
  <2>6. /\ B!Largest * Owed <= B!Largest * (Cardinality(busy) + loose)
        /\ B!Largest * Owed \in Nat /\ B!Largest * (Cardinality(busy) + loose) \in Nat
    BY <2>3, <2>4, <2>5, Times
  <2>7. B!Total(files) <= CacheMax + B!Largest * (Cardinality(busy) + loose)
    BY <2>4, <2>5, <2>6
  <2>. QED  BY <2>7, CardinalityHere DEF CacheBounded, B!CacheBounded, B!Bounded
<1>. QED  BY <1>1, <1>2, <1>3, BodiesPart, PTL DEF B!Spec

-----------------------------------------------------------------------------
(* Writing a message.                                                        *)

LEMMA ComposePart == CoreSpec => C!Spec
<1>1. CoreInit => C!Init
  BY DEF CoreInit
<1>2. [CoreNext]_<<vars, docs, disk, writing, assistant, part>> => [C!Next]_C!vars
  BY DEF CoreNext, writing, C!vars
<1>. QED  BY <1>1, <1>2, PTL DEF CoreSpec, C!Spec

\* Files, counted.
LEMMA FilesCount ==
  ASSUME C!Constants, NEW S \in SUBSET File
  PROVE  /\ C!Cardinality(S) \in Nat /\ C!Cardinality(S) \in 0 .. C!Cardinality(File)
         /\ \A f \in File \ S : C!Cardinality(S \cup {f}) = C!Cardinality(S) + 1
<1>1. \A T : C!Cardinality(T) = Cardinality(T)
  BY DEF Cardinality, C!Cardinality
<1>2. IsFiniteSet(File)
  <2>1. C!IsFiniteSet(File)
    BY DEF C!Constants
  <2>. QED  BY <2>1 DEF IsFiniteSet, C!IsFiniteSet
<1>3. IsFiniteSet(S) /\ Cardinality(S) \in Nat /\ Cardinality(File) \in Nat
      /\ Cardinality(S) <= Cardinality(File)
  BY <1>2, FS_Subset, FS_CardinalityType
<1>4. \A f \in File \ S : Cardinality(S \cup {f}) = Cardinality(S) + 1
  BY <1>3, FS_AddElement
<1>. QED  BY <1>1, <1>3, <1>4

\* What the helpers of the dialog and of the message make.
LEMMA StateOf ==
  ASSUME C!Constants, NEW d \in C!Dialogs
  PROVE  /\ C!State(d) = <<d.text, d.bcc, C!Cardinality(d.atts)>>
         /\ C!State(d) \in C!Text \X BOOLEAN \X Nat
         /\ C!Version(d) = [text |-> d.text, files |-> C!Cardinality(d.atts)]
<1>1. d.text \in C!Text /\ d.bcc \in BOOLEAN /\ d.atts \in SUBSET File
  BY DEF C!Dialogs
<1>. QED  BY <1>1, FilesCount DEF C!State, C!Version

LEMMA StartOf ==
  ASSUME C!Constants, NEW d \in C!Dialogs
  PROVE  LET s == C!Start(d) IN
         /\ s \in C!Dialogs /\ s.open = d.open /\ s.mode = d.mode /\ s.draftKey = d.draftKey
         /\ s.start = C!State(d) /\ s.start # <<>>
         /\ s.text = d.text /\ s.quotes = d.quotes /\ s.bcc = d.bcc /\ s.atts = d.atts
<1>. DEFINE x == C!State(d)
<1>1. x \in C!Text \X BOOLEAN \X Nat
  BY StateOf
<1>2. x # <<>>
  BY SMTT(60), <1>1
<1>. HIDE DEF x
<1>3. LET s == [d EXCEPT !.start = x] IN
      /\ s \in C!Dialogs /\ s.open = d.open /\ s.mode = d.mode /\ s.draftKey = d.draftKey
      /\ s.start = x
      /\ s.text = d.text /\ s.quotes = d.quotes /\ s.bcc = d.bcc /\ s.atts = d.atts
  BY <1>1 DEF C!Dialogs
<1>. QED  BY <1>2, <1>3 DEF x, C!Start

LEMMA ShutOf ==
  ASSUME NEW d \in C!Dialogs
  PROVE  LET s == C!Shut(d) IN
         /\ s \in C!Dialogs /\ ~ s.open /\ s.mode = d.mode /\ s.draftKey = d.draftKey
         /\ s.start = d.start
         /\ s.text = d.text /\ s.quotes = d.quotes /\ s.bcc = d.bcc /\ s.atts = d.atts
BY DEF C!Shut, C!Dialogs

LEMMA BodyOf ==
  ASSUME C!TypeOK
  PROVE  /\ C!Body \in C!Bodies /\ C!Body.draftKey = dlg.draftKey /\ C!Body.mode = dlg.mode
         /\ C!Body.text = dlg.text /\ C!Body.quotes = dlg.quotes /\ C!Body.bcc = dlg.bcc
         /\ C!Body.atts = dlg.atts /\ C!Version(C!Body) = C!Version(dlg)
         /\ C!Body.mode # "new" => C!Body.key = current
BY DEF C!TypeOK, C!Body, C!Bodies, C!Dialogs, C!Ref, C!Version

LEMMA BuildOf ==
  ASSUME NEW e \in C!Bodies, NEW original \in C!Ref, NEW raw \in C!Ref, NEW keep \in BOOLEAN
  PROVE  LET m == C!Build(e, original, raw, keep) IN
         /\ m \in C!Messages /\ C!Version(m) = C!Version(e) /\ m.text = e.text
         /\ raw = NoMessage => m.eml = NoMessage
         /\ ~ keep => "bcc" \notin m.header
         /\ "bcc" \in m.envelope <=> m.bcc
         /\ m.mode = e.mode /\ m.quotes = e.quotes
         /\ e.mode = "reply" => m.thread = original
         /\ e.mode = "forward" => m.eml = raw
<1>. DEFINE m == C!Build(e, original, raw, keep)
<1>1. /\ e.text \in C!Text /\ e.quotes \in C!Ref /\ e.bcc \in BOOLEAN /\ e.atts \in SUBSET File
      /\ e.mode \in C!Mode
  BY DEF C!Bodies
<1>2. /\ m.mode = e.mode
      /\ m.text = e.text /\ m.quotes = e.quotes /\ m.bcc = e.bcc /\ m.atts = e.atts
      /\ m.thread = IF e.mode = "reply" THEN original ELSE NoMessage
      /\ m.eml = IF e.mode = "forward" THEN raw ELSE NoMessage
      /\ m.header = C!Header(e, keep) /\ m.envelope = C!Envelope(e)
      /\ m = [mode |-> m.mode, text |-> m.text, quotes |-> m.quotes, bcc |-> m.bcc, atts |-> m.atts,
              thread |-> m.thread, eml |-> m.eml, header |-> m.header, envelope |-> m.envelope]
  BY DEF C!Build
<1>3. C!Envelope(e) \in C!Parts /\ C!Header(e, keep) \in C!Parts
  BY DEF C!Envelope, C!Header, C!Parts
<1>4. ("bcc" \in C!Envelope(e) <=> e.bcc) /\ (~ keep => "bcc" \notin C!Header(e, keep))
  BY <1>1 DEF C!Envelope, C!Header
<1>. HIDE DEF m
<1>5. m.thread \in C!Ref /\ m.eml \in C!Ref
  BY <1>2 DEF C!Ref
<1>6. m \in C!Messages
  BY <1>1, <1>2, <1>3, <1>5 DEF C!Messages
<1>7. C!Version(m) = C!Version(e)
  BY <1>2 DEF C!Version
<1>8. /\ m.text = e.text /\ m.quotes = e.quotes
      /\ raw = NoMessage => m.eml = NoMessage
      /\ ~ keep => "bcc" \notin m.header
      /\ "bcc" \in m.envelope <=> m.bcc
      /\ m.mode = e.mode
      /\ e.mode = "reply" => m.thread = original
      /\ e.mode = "forward" => m.eml = raw
  BY <1>2, <1>4
<1>. QED  BY <1>6, <1>7, <1>8 DEF m

LEMMA ReadOf ==
  ASSUME NEW m \in C!Messages, m.eml = NoMessage
  PROVE  C!Read(m) \in C!Mails /\ C!Read(m).text = m.text /\ C!Read(m).atts = m.atts
BY DEF C!Read, C!Named, C!Mails, C!Messages

\* A request has what its kind has, and keeps it in each state.
LEMMA CallIs ==
  ASSUME NEW c \in C!Requests
  PROVE  /\ c.id \in Nat /\ c.at \in {"asked", "ok", "failed"}
         /\ c.kind \in {"open", "files", "save", "send"}
         /\ c.kind \in {"open", "files"} => c.at = "asked" /\ c.key \in C!Ref
         /\ c.kind = "files" => c.left \in SUBSET File
         /\ c.kind \in {"save", "send"} => c.body \in C!Bodies
         /\ c.kind = "save" => c.shuts \in BOOLEAN
BY DEF C!Requests

\* The answer to a request changes its state only.
LEMMA AnswerIs ==
  ASSUME NEW c \in C!Requests, c.kind \in {"save", "send"}, NEW a \in {"ok", "failed"}
  PROVE  LET d == [c EXCEPT !.at = a] IN
         /\ d \in C!Requests /\ d.at = a /\ d.id = c.id /\ d.kind = c.kind /\ d.body = c.body
         /\ c.kind = "save" => d.shuts = c.shuts
BY DEF C!Requests

LEMMA AnswerTakes ==
  ASSUME NEW c \in C!Requests, c.kind \in {"save", "send"}, NEW a \in {"ok", "failed"},
         C!Becomes(c, [c EXCEPT !.at = a])
  PROVE  \A d \in calls' : d \in calls \/ (d.kind = c.kind /\ d.body = c.body)
<1>. DEFINE e == [c EXCEPT !.at = a]
<1>1. e.kind = c.kind /\ e.body = c.body
  BY AnswerIs
<1>2. calls' = (calls \ {c}) \cup {e}
  BY DEF C!Becomes
<1>. HIDE DEF e
<1>. QED  BY <1>1, <1>2

LEMMA LeftIs ==
  ASSUME NEW c \in C!Requests, c.kind = "files", NEW S \in SUBSET File
  PROVE  LET d == [c EXCEPT !.left = S] IN
         /\ d \in C!Requests /\ d.at = "asked" /\ d.id = c.id /\ d.kind = "files"
         /\ d.key = c.key /\ d.left = S
BY DEF C!Requests

\* What is safe stays safe, as long as the drafts it may be in are there.
LEMMA StaysSafe ==
  ASSUME NEW k, NEW n, NEW v, C!SafeBut(k, v), excused \subseteq excused', sent \subseteq sent',
         \A x \in DOMAIN drafts \ {k} : x \in DOMAIN drafts' \ {n} /\ drafts'[x] = drafts[x]
  PROVE  C!SafeBut(n, v)'
BY DEF C!SafeBut, C!Version

\* The keys that are given, and one that is not.
LEMMA KeysApart ==
  ASSUME C!Constants, called \in Nat
  PROVE  /\ NoMessage \notin C!Given /\ called \notin C!Given /\ called # NoMessage
         /\ called \notin Incoming /\ NoMessage \notin Incoming
         /\ \A k \in C!Given : k \notin Incoming
         /\ \A n \in Nat : n \notin Incoming /\ n # NoMessage /\ n # First
BY DEF C!Constants, C!Given

LEMMA ComposeInit == ASSUME C!Constants, C!Init PROVE ComposeInv
<1>. DEFINE m == C!Draft
<1>1. /\ m.text = 0 /\ m.quotes = NoMessage /\ m.atts = Kept /\ m.eml = NoMessage
      /\ m \in C!Messages
  <2>. DEFINE e == [mode |-> "new", text |-> 0, quotes |-> NoMessage, bcc |-> TRUE, atts |-> Kept]
  <2>1. C!Header(e, TRUE) \in C!Parts /\ C!Envelope(e) \in C!Parts
    BY DEF C!Header, C!Envelope, C!Parts
  <2>2. /\ m.mode = "new" /\ m.text = 0 /\ m.quotes = NoMessage /\ m.bcc = TRUE /\ m.atts = Kept
        /\ m.thread = NoMessage /\ m.eml = NoMessage
        /\ m.header = C!Header(e, TRUE) /\ m.envelope = C!Envelope(e)
        /\ m = [mode |-> m.mode, text |-> m.text, quotes |-> m.quotes, bcc |-> m.bcc, atts |-> m.atts,
                thread |-> m.thread, eml |-> m.eml, header |-> m.header, envelope |-> m.envelope]
    BY DEF C!Draft, C!Build
  <2>3. 0 \in C!Text /\ NoMessage \in C!Ref /\ Kept \in SUBSET File
    BY DEF C!Text, C!Ref, C!Constants
  <2>. HIDE DEF m, e
  <2>. QED  BY <2>1, <2>2, <2>3 DEF C!Messages, C!Mode
<1>. HIDE DEF m
<1>2. /\ DOMAIN drafts = {First} /\ drafts[First] = m /\ sent = {} /\ current = NoMessage
      /\ view = C!Nothing /\ dlg = C!Closed /\ calls = {} /\ owed = {C!Version(m)}
      /\ excused = {} /\ astray = {} /\ typed = 0 /\ called = 0 /\ failed = 0
  BY DEF C!Init, m
<1>3. view.key = NoMessage /\ view.mail = C!Blank /\ C!Blank \in C!Mails /\ C!Blank.text = 0
      /\ view \in [key : C!Ref, mail : C!Mails]
  BY <1>2 DEF C!Nothing, C!Blank, C!Mails, C!Ref, C!Text, C!Constants
<1>4. dlg \in C!Dialogs /\ ~ dlg.open /\ dlg.draftKey = NoMessage /\ dlg.text = 0
  BY <1>2 DEF C!Closed, C!Dialogs, C!Ref, C!Text, C!Mode, C!Constants
<1>5. C!Version(m) \in [text : C!Text, files : 0 .. C!Cardinality(File)]
  <2>1. Kept \in SUBSET File
    BY DEF C!Constants
  <2>. QED  BY <1>1, <2>1, FilesCount DEF C!Version, C!Text, C!Constants
<1>6. C!TypeOK
  BY <1>1, <1>2, <1>3, <1>4, <1>5 DEF C!TypeOK, C!Ref, C!Text, C!Constants
<1>7. C!KeysFresh
  BY <1>2, <1>3, <1>4 DEF C!KeysFresh, C!Given, C!Asked, C!Constants
<1>8. C!TextsKnown
  BY <1>1, <1>2, <1>3, <1>4 DEF C!TextsKnown
<1>9. C!InTurn
  BY <1>2, <1>3, <1>4 DEF C!InTurn
<1>10. \A v \in owed : C!SafeBut(NoMessage, v)
  BY <1>2 DEF C!SafeBut, C!Constants
<1>11. C!Accounted
  BY <1>2, <1>4, <1>10 DEF C!Accounted, C!Asked, C!Loading, C!Landed
<1>. QED  BY <1>6, <1>7, <1>8, <1>9, <1>11 DEF ComposeInv

LEMMA DialogIs ==
  ASSUME C!TypeOK
  PROVE  /\ dlg \in C!Dialogs /\ dlg.open \in BOOLEAN /\ dlg.mode \in C!Mode /\ dlg.draftKey \in C!Ref
         /\ dlg.text \in C!Text /\ dlg.quotes \in C!Ref /\ dlg.bcc \in BOOLEAN
         /\ dlg.atts \in SUBSET File
         /\ dlg.start # <<>> =>
              dlg.start[1] \in C!Text /\ dlg.start[2] \in BOOLEAN /\ dlg.start[3] \in Nat
BY DEF C!TypeOK, C!Dialogs

LEMMA VersionIs ==
  ASSUME C!Constants, C!TypeOK
  PROVE  C!Version(dlg) \in [text : C!Text, files : 0 .. C!Cardinality(File)]
BY DialogIs, FilesCount DEF C!Version

\* The dialogs that are opened: to write, and to continue a draft.
LEMMA OpenedIs ==
  ASSUME C!Constants, NEW mode \in C!Mode, NEW t \in C!Text, NEW q \in C!Ref
  PROVE  LET d == [C!Closed EXCEPT !.open = TRUE, !.mode = mode, !.text = t, !.quotes = q] IN
         /\ d \in C!Dialogs /\ d.open /\ d.mode = mode /\ d.draftKey = NoMessage
         /\ d.text = t /\ d.quotes = q /\ d.atts = {}
BY DEF C!Closed, C!Dialogs, C!Ref

LEMMA ContinuedIs ==
  ASSUME C!Constants, NEW k \in C!Ref, NEW m \in C!Mails
  PROVE  LET d == [C!Closed EXCEPT !.open = TRUE, !.draftKey = k, !.start = C!State(C!Blank),
                                   !.text = m.text, !.quotes = m.quotes, !.bcc = m.bcc] IN
         /\ d \in C!Dialogs /\ d.open /\ d.mode = "new" /\ d.draftKey = k /\ d.start # <<>>
         /\ d.text = m.text /\ d.atts = {}
<1>. DEFINE x == C!State(C!Blank)
<1>1. C!Blank.text \in C!Text /\ C!Blank.bcc \in BOOLEAN /\ C!Cardinality(C!Blank.atts) \in Nat
  BY FilesCount DEF C!Blank, C!Text, C!Constants
<1>2. x \in C!Text \X BOOLEAN \X Nat
  BY <1>1 DEF C!State
<1>3. x # <<>>
  BY DEF C!State
<1>4. m.text \in C!Text /\ m.quotes \in C!Ref /\ m.bcc \in BOOLEAN
  BY DEF C!Mails
<1>. HIDE DEF x
<1>5. LET d == [C!Closed EXCEPT !.open = TRUE, !.draftKey = k, !.start = x,
                                !.text = m.text, !.quotes = m.quotes, !.bcc = m.bcc] IN
      /\ d \in C!Dialogs /\ d.open /\ d.mode = "new" /\ d.draftKey = k /\ d.start = x
      /\ d.text = m.text /\ d.atts = {}
  BY <1>2, <1>4 DEF C!Closed, C!Dialogs, C!Ref, C!Mode
<1>. QED  BY <1>3, <1>5 DEF x

\* What a change makes of the dialog.
LEMMA WrittenIs ==
  ASSUME NEW d \in C!Dialogs, NEW t \in C!Text, NEW b \in BOOLEAN, NEW S \in SUBSET File
  PROVE  LET e == [d EXCEPT !.text = t, !.bcc = b, !.atts = S] IN
         /\ e \in C!Dialogs /\ e.open = d.open /\ e.mode = d.mode /\ e.draftKey = d.draftKey
         /\ e.start = d.start /\ e.text = t /\ e.quotes = d.quotes /\ e.atts = S
BY DEF C!Dialogs

LEMMA AttachedIs ==
  ASSUME NEW d \in C!Dialogs, NEW S \in SUBSET File
  PROVE  LET e == [d EXCEPT !.atts = @ \cup S] IN
         /\ e \in C!Dialogs /\ e.open = d.open /\ e.mode = d.mode /\ e.draftKey = d.draftKey
         /\ e.start = d.start /\ e.text = d.text /\ e.quotes = d.quotes /\ e.atts = d.atts \cup S
BY DEF C!Dialogs

LEMMA KeyedIs ==
  ASSUME NEW d \in C!Dialogs, NEW k \in C!Ref
  PROVE  LET e == [d EXCEPT !.draftKey = k] IN
         /\ e \in C!Dialogs /\ e.open = d.open /\ e.mode = d.mode /\ e.draftKey = k
         /\ e.start = d.start /\ e.text = d.text /\ e.quotes = d.quotes /\ e.atts = d.atts
BY DEF C!Dialogs

\* The requests that are made.
LEMMA AsksAre ==
  ASSUME C!TypeOK
  PROVE  /\ called \in Nat /\ \A x \in BOOLEAN :
              [at |-> "asked", id |-> called, kind |-> "save", body |-> C!Body, shuts |-> x]
                \in C!Requests
         /\ [at |-> "asked", id |-> called, kind |-> "send", body |-> C!Body] \in C!Requests
         /\ \A k \in C!Ref : [at |-> "asked", id |-> called, kind |-> "open", key |-> k]
              \in C!Requests
         /\ \A k \in C!Ref, S \in SUBSET File :
              [at |-> "asked", id |-> called, kind |-> "files", key |-> k, left |-> S]
                \in C!Requests
<1>1. called \in Nat /\ C!Body \in C!Bodies
  BY BodyOf DEF C!TypeOK
<1>. QED  BY <1>1 DEF C!Requests

\* Nothing but the requests changes, or the dialog too.
LEMMA TypesStay ==
  ASSUME C!TypeOK, UNCHANGED <<drafts, sent, owed, excused, typed, failed>>,
         astray' \subseteq Incoming \X C!Ref, current' \in C!Ref, view' \in [key : C!Ref, mail : C!Mails],
         dlg' \in C!Dialogs, dlg'.open => dlg'.start # <<>>,
         calls' \subseteq C!Requests, called' \in 0 .. MaxCalls
  PROVE  C!TypeOK'
BY DEF C!TypeOK

\* What is left is noted.
LEMMA StraysAre ==
  ASSUME C!TypeOK, NEW S, NEW k \in C!Ref, C!Strays(S, k)
  PROVE  /\ astray' \subseteq Incoming \X C!Ref /\ astray \subseteq astray'
         /\ \A x \in S : x \in Incoming => <<x, k>> \in astray'
<1>1. astray' = astray \cup ((S \cap Incoming) \X {k}) /\ astray \subseteq Incoming \X C!Ref
  BY DEF C!Strays, C!TypeOK
<1>2. (S \cap Incoming) \X {k} \subseteq Incoming \X C!Ref
  OBVIOUS
<1>. QED  BY <1>1, <1>2

LEMMA PageTypes ==
  ASSUME C!Constants, C!TypeOK,
         \/ \E k \in Incoming \cup DOMAIN drafts : C!Click(k)
         \/ \E mode \in {"new", "reply", "forward"} : C!Compose(mode)
         \/ C!Leave \/ C!Edit \/ C!Save \/ C!Close \/ C!Send
         \/ \E b \in BOOLEAN, S \in SUBSET dlg.atts : C!Write(b, S)
         \/ \E f \in File : C!Attach(f)
  PROVE  C!TypeOK'
<1>1. /\ called \in 0 .. MaxCalls /\ calls \subseteq C!Requests /\ current \in C!Ref
      /\ view \in [key : C!Ref, mail : C!Mails] /\ view.key \in C!Ref /\ view.mail \in C!Mails
      /\ dlg \in C!Dialogs /\ (dlg.open => dlg.start # <<>>)
      /\ Incoming \cup DOMAIN drafts \subseteq C!Ref /\ NoMessage \in C!Ref
      /\ astray \subseteq Incoming \X C!Ref /\ C!Nothing \in [key : C!Ref, mail : C!Mails]
  BY DEF C!TypeOK, C!Ref, C!Nothing, C!Blank, C!Mails, C!Text, C!Constants
<1>2. \A c \in C!Requests : C!Call(c) => calls' \subseteq C!Requests /\ called' \in 0 .. MaxCalls
  BY <1>1 DEF C!Call, C!Constants
<1>3. /\ called \in Nat
      /\ \A x \in BOOLEAN : C!SaveCall(x) => calls' \subseteq C!Requests /\ called' \in 0 .. MaxCalls
  <2>1. \A x \in BOOLEAN : C!SaveCall(x) =>
          C!Call([at |-> "asked", id |-> called, kind |-> "save", body |-> C!Body, shuts |-> x])
    BY DEF C!SaveCall
  <2>. QED  BY <1>2, <2>1, AsksAre
<1>4. CASE \E k \in Incoming \cup DOMAIN drafts : C!Click(k)
  <2>. PICK k \in Incoming \cup DOMAIN drafts : C!Click(k)
    BY <1>4
  <2>1. k \in C!Ref
    BY <1>1
  <2>2. /\ current' = k /\ view' = C!Nothing /\ UNCHANGED <<drafts, sent, dlg, owed, excused, typed, failed>>
        /\ C!Call([at |-> "asked", id |-> called, kind |-> "open", key |-> k])
        /\ C!Strays(C!Coming, k)
    BY DEF C!Click, C!Choose, C!server
  <2>3. calls' \subseteq C!Requests /\ called' \in 0 .. MaxCalls
    BY <1>2, <2>1, <2>2, AsksAre
  <2>4. astray' \subseteq Incoming \X C!Ref
    BY <2>1, <2>2, StraysAre
  <2>. QED  BY <1>1, <2>1, <2>2, <2>3, <2>4, TypesStay
<1>5. CASE \E mode \in {"new", "reply", "forward"} : C!Compose(mode)
  <2>. PICK mode \in {"new", "reply", "forward"} : C!Compose(mode)
    BY <1>5
  <2>. DEFINE q == IF mode = "new" THEN NoMessage ELSE view.key
              d == [C!Closed EXCEPT !.open = TRUE, !.mode = mode, !.text = typed', !.quotes = q]
  <2>1. /\ typed' \in C!Text /\ dlg' = C!Start(d)
        /\ UNCHANGED <<drafts, sent, current, view, calls, owed, excused, astray, called, failed>>
    BY DEF C!Compose, C!server, C!TypeOK, C!Text, C!Constants
  <2>2. mode \in C!Mode /\ q \in C!Ref
    BY <1>1 DEF C!Mode, C!Ref
  <2>. HIDE DEF q
  <2>3. d \in C!Dialogs
    BY <2>1, <2>2, OpenedIs
  <2>. HIDE DEF d
  <2>4. dlg' \in C!Dialogs /\ dlg'.start # <<>>
    BY <2>1, <2>3, StartOf
  <2>. QED  BY <2>1, <2>4 DEF C!TypeOK
<1>6. CASE C!Edit
  <2>. DEFINE k == view.key
              m == view.mail
              d == [C!Closed EXCEPT !.open = TRUE, !.draftKey = k, !.start = C!State(C!Blank),
                                    !.text = m.text, !.quotes = m.quotes, !.bcc = m.bcc]
  <2>1. d \in C!Dialogs /\ d.start # <<>>
    <3>1. k \in C!Ref /\ m \in C!Mails
      BY <1>1
    <3>. HIDE DEF k, m
    <3>. QED  BY <3>1, ContinuedIs
  <2>2. /\ UNCHANGED <<drafts, sent, current, view, owed, excused, astray, typed, failed>>
        /\ \/ dlg' = C!Start(d) /\ UNCHANGED <<calls, called>>
           \/ dlg' = d /\ C!Call([at |-> "asked", id |-> called, kind |-> "files",
                                  key |-> k, left |-> m.atts])
    BY <1>6 DEF C!Edit, C!server, C!history
  <2>3. m.atts \in SUBSET File
    BY <1>1 DEF C!Mails
  <2>. HIDE DEF d
  <2>4. dlg' \in C!Dialogs /\ dlg'.start # <<>>
    BY <2>1, <2>2, StartOf
  <2>5. calls' \subseteq C!Requests /\ called' \in 0 .. MaxCalls
    BY <1>1, <1>2, <2>2, <2>3, AsksAre
  <2>. QED  BY <1>1, <2>2, <2>4, <2>5, TypesStay
<1>7. CASE C!Save
  <2>1. /\ C!SaveCall(TRUE)
        /\ UNCHANGED <<drafts, sent, current, view, dlg, owed, excused, astray, typed, failed>>
    BY <1>7 DEF C!Save, C!server, C!history
  <2>. QED  BY <1>1, <1>3, <2>1, TypesStay
<1>8. CASE C!Close
  <2>1. /\ dlg' = C!Shut(dlg) /\ UNCHANGED <<drafts, sent, current, view, owed, excused, astray, typed, failed>>
        /\ UNCHANGED <<calls, called>> \/ C!SaveCall(FALSE)
    BY <1>8 DEF C!Close, C!server, C!history
  <2>2. dlg' \in C!Dialogs /\ ~ dlg'.open
    BY <1>1, <2>1, ShutOf
  <2>3. calls' \subseteq C!Requests /\ called' \in 0 .. MaxCalls
    BY <1>1, <1>3, <2>1
  <2>. QED  BY <1>1, <2>1, <2>2, <2>3, TypesStay
<1>9. CASE C!Send
  <2>1. /\ UNCHANGED <<drafts, sent, current, view, dlg, owed, excused, astray, typed, failed>>
        /\ C!Call([at |-> "asked", id |-> called, kind |-> "send", body |-> C!Body])
    BY <1>9 DEF C!Send, C!server, C!history
  <2>2. calls' \subseteq C!Requests /\ called' \in 0 .. MaxCalls
    BY <1>2, <2>1, AsksAre
  <2>. QED  BY <1>1, <2>1, <2>2, TypesStay
<1>10. ASSUME NEW d \in C!Dialogs, C!Change(d), d.open = dlg.open, d.start = dlg.start,
              typed' \in C!Text
       PROVE  C!TypeOK'
  <2>1. /\ dlg' = d /\ dlg.open /\ owed' = (owed \ {C!Version(dlg)}) \cup {C!Version(d)}
        /\ UNCHANGED <<drafts, sent, current, view, calls, excused, astray, called, failed>>
    BY <1>10 DEF C!Change, C!server
  <2>2. C!Version(d) \in [text : C!Text, files : 0 .. C!Cardinality(File)]
    <3>1. d.text \in C!Text /\ d.atts \in SUBSET File
      BY DEF C!Dialogs
    <3>. QED  BY <3>1, FilesCount DEF C!Version
  <2>. QED  BY <1>10, <2>1, <2>2 DEF C!TypeOK
<1>11. CASE \E b \in BOOLEAN, S \in SUBSET dlg.atts : C!Write(b, S)
  <2>. PICK b \in BOOLEAN, S \in SUBSET dlg.atts : C!Write(b, S)
    BY <1>11
  <2>. DEFINE d == [dlg EXCEPT !.text = typed', !.bcc = b, !.atts = S]
  <2>1. typed' = typed + 1 /\ typed < MaxTyped /\ C!Change(d)
    BY DEF C!Write
  <2>2. typed' \in C!Text /\ S \in SUBSET File
    BY <2>1, DialogIs DEF C!TypeOK, C!Text, C!Constants
  <2>3. d \in C!Dialogs /\ d.open = dlg.open /\ d.start = dlg.start
    <3>. DEFINE t == typed'
    <3>1. t \in C!Text /\ d = [dlg EXCEPT !.text = t, !.bcc = b, !.atts = S]
      BY <2>2
    <3>. HIDE DEF t, d
    <3>. QED  BY <1>1, <2>2, <3>1 DEF C!Dialogs
  <2>. HIDE DEF d
  <2>. QED  BY <1>10, <2>1, <2>2, <2>3
<1>12. CASE \E f \in File : C!Attach(f)
  <2>. PICK f \in File : C!Attach(f)
    BY <1>12
  <2>1. typed' \in C!Text /\ C!Change([dlg EXCEPT !.atts = @ \cup {f}])
    BY DEF C!Attach, C!TypeOK
  <2>. QED  BY <1>1, <1>10, <2>1, AttachedIs
<1>13. CASE C!Leave
  <2>1. /\ current' = NoMessage /\ view' \in {C!Nothing, view} /\ called' = called + 1
        /\ called < MaxCalls /\ UNCHANGED <<drafts, sent, dlg, calls, owed, excused, typed, failed>>
    BY <1>13 DEF C!Leave, C!server
  <2>2. PICK S : C!Strays(S, NoMessage)
    BY <1>13 DEF C!Leave
  <2>3. astray' \subseteq Incoming \X C!Ref
    BY <1>1, <2>2, StraysAre
  <2>4. called' \in 0 .. MaxCalls
    BY <1>1, <2>1 DEF C!Constants
  <2>. QED  BY <1>1, <2>1, <2>3, <2>4, TypesStay
<1>. QED  BY <1>4, <1>5, <1>6, <1>7, <1>8, <1>9, <1>11, <1>12, <1>13

LEMMA ServerTypes ==
  ASSUME C!Constants, C!TypeOK, NEW c \in calls, C!StoreDraft(c) \/ C!Deliver(c)
  PROVE  C!TypeOK'
<1>1. /\ c \in C!Requests /\ c.kind \in {"save", "send"} /\ calls \subseteq C!Requests
      /\ UNCHANGED <<current, view, dlg, owed, typed, called>>
      /\ astray \subseteq Incoming \X C!Ref
  BY DEF C!TypeOK, C!StoreDraft, C!Deliver
<1>2. /\ c.body \in C!Bodies /\ c.body.text \in C!Text /\ c.body.key \in C!Ref /\ c.id \in C!Ref
      /\ NoMessage \in C!Ref
  BY <1>1, CallIs DEF C!Bodies, C!Ref
<1>3. \A a \in {"ok", "failed"} : C!Becomes(c, [c EXCEPT !.at = a]) => calls' \subseteq C!Requests
  BY <1>1, AnswerIs DEF C!Becomes
<1>4. failed \in 0 .. MaxFault /\ (C!Fault => failed' \in 0 .. MaxFault)
  BY DEF C!TypeOK, C!Fault, C!Constants
<1>5. CASE C!Fails(c) /\ UNCHANGED astray
  <2>1. C!Fault /\ C!Becomes(c, [c EXCEPT !.at = "failed"])
        /\ excused' = excused \cup {c.body.text} /\ UNCHANGED <<drafts, sent>>
    BY <1>5 DEF C!Fails, C!server
  <2>. QED  BY <1>1, <1>2, <1>3, <1>4, <1>5, <2>1 DEF C!TypeOK
<1>6. CASE C!StoreDraft(c) /\ ~ C!Fails(c)
  <2>. DEFINE m == C!Build(c.body, NoMessage, NoMessage, TRUE)
  <2>. PICK gone \in {{c.body.draftKey}, {}} :
         /\ failed' = failed \/ C!Fault
         /\ drafts' = [k \in (DOMAIN drafts \ gone) \cup {c.id} |->
                         IF k = c.id THEN m ELSE drafts[k]]
         /\ C!Becomes(c, [c EXCEPT !.at = "ok"]) /\ UNCHANGED <<sent, excused, astray>>
    BY <1>6 DEF C!StoreDraft
  <2>1. m \in C!Messages /\ m.eml = NoMessage
    BY ZenonT(60), <1>2, BuildOf
  <2>. HIDE DEF m
  <2>2. DOMAIN drafts' \subseteq C!Ref
        /\ \A k \in DOMAIN drafts' : drafts'[k] \in C!Messages /\ drafts'[k].eml = NoMessage
    BY <1>2, <2>1 DEF C!TypeOK
  <2>. QED  BY <1>1, <1>3, <1>4, <2>2 DEF C!TypeOK
<1>7. CASE C!Deliver(c) /\ ~ (C!Fails(c) /\ UNCHANGED astray)
  <2>. PICK raw \in {c.body.key, NoMessage}, S \in {{}, {c.body.quotes}}, gone \in {{c.body.draftKey}, {}} :
         /\ failed' = failed \/ C!Fault
         /\ sent' = sent \cup {C!Build(c.body, c.body.key, raw, FALSE)}
         /\ drafts' = [k \in DOMAIN drafts \ gone |-> drafts[k]]
         /\ C!Becomes(c, [c EXCEPT !.at = "ok"]) /\ UNCHANGED excused
         /\ C!Strays(S, NoMessage)
    BY <1>7 DEF C!Deliver
  <2>. DEFINE m == C!Build(c.body, c.body.key, raw, FALSE)
  <2>1. m \in C!Messages
    <3>1. raw \in C!Ref /\ FALSE \in BOOLEAN
      BY <1>2
    <3>. QED  BY <1>2, <3>1, BuildOf
  <2>. HIDE DEF m
  <2>2. sent' = sent \cup {m}
    BY DEF m
  <2>3. DOMAIN drafts' \subseteq C!Ref
        /\ \A k \in DOMAIN drafts' : drafts'[k] \in C!Messages /\ drafts'[k].eml = NoMessage
    BY DEF C!TypeOK
  <2>4. astray' \subseteq Incoming \X C!Ref
    BY <1>2, StraysAre
  <2>. QED  BY <1>1, <1>3, <1>4, <2>1, <2>2, <2>3, <2>4 DEF C!TypeOK
<1>. QED  BY <1>5, <1>6, <1>7 DEF C!StoreDraft

LEMMA AnswerTypes ==
  ASSUME C!Constants, C!TypeOK, NEW c \in calls,
         C!Shown(c) \/ C!Fetched(c) \/ C!Saved(c) \/ C!Out(c)
  PROVE  C!TypeOK'
<1>1. /\ c \in C!Requests /\ calls \subseteq C!Requests /\ called \in 0 .. MaxCalls
      /\ current \in C!Ref /\ view \in [key : C!Ref, mail : C!Mails]
      /\ dlg \in C!Dialogs /\ (dlg.open => dlg.start # <<>>) /\ dlg.text \in C!Text
      /\ astray \subseteq Incoming \X C!Ref
  BY DialogIs DEF C!TypeOK
<1>2. failed \in 0 .. MaxFault /\ (C!Fault => failed' \in 0 .. MaxFault)
  BY DEF C!TypeOK, C!Fault, C!Constants
<1>3. C!Done(c) => calls' \subseteq C!Requests
  BY <1>1 DEF C!Done
<1>4. CASE C!Shown(c)
  <2>. DEFINE m == IF c.key \in Incoming THEN C!Blank ELSE C!Read(drafts[c.key])
  <2>1. /\ c.kind = "open" /\ C!Done(c)
        /\ UNCHANGED <<drafts, sent, current, dlg, owed, excused, astray, typed, called>>
        /\ failed' = failed \/ C!Fault
        /\ \/ view' = view
           \/ c.key \in Incoming \cup DOMAIN drafts /\ view' = [key |-> c.key, mail |-> m]
    BY <1>4 DEF C!Shown, C!server
  <2>2. C!Blank \in C!Mails
    BY DEF C!Blank, C!Mails, C!Ref, C!Text, C!Constants
  <2>3. c.key \in C!Ref /\ (c.key \in Incoming \cup DOMAIN drafts => m \in C!Mails)
    BY <1>1, <2>1, <2>2, CallIs, ReadOf DEF C!TypeOK
  <2>. HIDE DEF m
  <2>. QED  BY <1>1, <1>2, <1>3, <2>1, <2>3 DEF C!TypeOK
<1>5. CASE C!Fetched(c)
  <2>. DEFINE on(d) == dlg' = d \/ dlg' = C!Start(d)
  <2>. PICK f \in c.left :
         /\ C!Done(c) \/ C!Becomes(c, [c EXCEPT !.left = c.left \ {f}])
         /\ \/ on([dlg EXCEPT !.atts = @ \cup {f}]) /\ UNCHANGED <<excused, failed>>
            \/ on(dlg) /\ UNCHANGED <<excused, failed>>
            \/ C!Fault /\ on(dlg) /\ excused' = excused \cup {dlg.text}
    BY <1>5 DEF C!Fetched
  <2>1. /\ c.kind = "files" /\ UNCHANGED <<drafts, sent, current, view, owed, astray, typed, called>>
    BY <1>5 DEF C!Fetched, C!server
  <2>2. c.left \in SUBSET File
    BY <1>1, <2>1, CallIs
  <2>3. calls' \subseteq C!Requests
    <3>. DEFINE e == [c EXCEPT !.left = c.left \ {f}]
    <3>1. e \in C!Requests
      <4>1. c.left \ {f} \in SUBSET File
        BY <2>2
      <4>. QED  BY <1>1, <2>1, <4>1, LeftIs
    <3>2. C!Done(c) \/ calls' = (calls \ {c}) \cup {e}
      BY DEF C!Becomes
    <3>. HIDE DEF e
    <3>. QED  BY <1>1, <1>3, <3>1, <3>2
  <2>4. dlg' \in C!Dialogs /\ (dlg'.open => dlg'.start # <<>>)
    <3>. DEFINE e == [dlg EXCEPT !.atts = @ \cup {f}]
    <3>1. e \in C!Dialogs /\ e.open = dlg.open /\ e.start = dlg.start
      <4>1. {f} \in SUBSET File
        BY <2>2
      <4>. QED  BY <1>1, <4>1, AttachedIs
    <3>. HIDE DEF e
    <3>2. on(e) \/ on(dlg)
      BY DEF e
    <3>. QED  BY <1>1, <3>1, <3>2, StartOf
  <2>5. excused' \subseteq C!Text /\ failed' \in 0 .. MaxFault
    BY <1>1, <1>2 DEF C!TypeOK
  <2>. QED  BY <1>1, <2>1, <2>3, <2>4, <2>5 DEF C!TypeOK
<1>6. CASE C!Saved(c)
  <2>. DEFINE e == [dlg EXCEPT !.draftKey = c.id]
              d == C!Start(e)
  <2>1. /\ C!Done(c) /\ UNCHANGED <<drafts, sent, current, view, owed, excused, astray, typed, called, failed>>
        /\ dlg' = dlg \/ dlg' = C!Shut(d) \/ dlg' = d
    BY <1>6 DEF C!Saved, C!server, C!history
  <2>2. c.id \in C!Ref
    BY <1>1, CallIs DEF C!Ref
  <2>3. e \in C!Dialogs
    BY <1>1, <2>2, KeyedIs
  <2>. HIDE DEF e
  <2>4. d \in C!Dialogs /\ d.start # <<>>
    BY <2>3, StartOf
  <2>. HIDE DEF d
  <2>5. dlg' \in C!Dialogs /\ (dlg'.open => dlg'.start # <<>>)
    BY <1>1, <2>1, <2>4, ShutOf
  <2>. QED  BY <1>1, <1>3, <2>1, <2>5, TypesStay
<1>7. CASE C!Out(c)
  <2>. DEFINE d == C!Start(dlg)
  <2>1. /\ C!Done(c) /\ UNCHANGED <<drafts, sent, current, view, owed, excused, astray, typed, called, failed>>
        /\ dlg' = dlg \/ dlg' = C!Shut(d)
    BY <1>7 DEF C!Out, C!server, C!history
  <2>2. d \in C!Dialogs
    BY <1>1, StartOf
  <2>. HIDE DEF d
  <2>3. dlg' \in C!Dialogs /\ (dlg'.open => dlg'.start # <<>>)
    BY <1>1, <2>1, <2>2, ShutOf
  <2>. QED  BY <1>1, <1>3, <2>1, <2>3, TypesStay
<1>. QED  BY <1>4, <1>5, <1>6, <1>7

LEMMA ComposeTypes == ASSUME C!Constants, C!TypeOK, [C!Next]_C!vars PROVE C!TypeOK'
<1>1. CASE UNCHANGED C!vars
  BY <1>1 DEF C!vars, C!TypeOK
<1>2. CASE C!Next
  BY <1>2, PageTypes, ServerTypes, AnswerTypes DEF C!Next
<1>. QED  BY <1>1, <1>2

LEMMA SafeSame ==
  ASSUME UNCHANGED <<drafts, sent>>, excused \subseteq excused'
  PROVE  \A k, v : C!SafeBut(k, v) => C!SafeBut(k, v)'
BY DEF C!SafeBut, C!Version

\* While nothing is under way, all is safe but for what is in the dialog.
LEMMA Quiet ==
  ASSUME Patient, C!Ready, C!Accounted
  PROVE  /\ calls = {} /\ C!Asked = {} /\ ~ C!Loading /\ ~ C!Landed
         /\ ~ dlg.open => \A v \in owed : C!SafeBut(NoMessage, v)
         /\ dlg.open => /\ \A v \in owed : C!SafeBut(dlg.draftKey, v) \/ v = C!Version(dlg)
                        /\ \A v \in owed : v = C!Begun => C!SafeBut(NoMessage, v)
                        /\ dlg.start[1] \in 0 .. typed
                        /\ dlg.text = dlg.start[1] => C!Cardinality(dlg.atts) >= dlg.start[3]
BY DEF C!Ready, C!Accounted, C!Asked, C!Loading, C!Landed

LEMMA ClickKeeps ==
  ASSUME C!Constants, Patient, ComposeInv, NEW k \in Incoming \cup DOMAIN drafts, C!Click(k)
  PROVE  ComposeInv'
<1>. DEFINE c == [at |-> "asked", id |-> called, kind |-> "open", key |-> k]
<1>1. /\ ~ dlg.open /\ current' = k /\ view' = C!Nothing /\ called' = called + 1
      /\ calls' = calls \cup {c} /\ C!Ready
      /\ UNCHANGED <<drafts, sent, dlg, owed, excused, typed>>
  BY DEF C!Click, C!Choose, C!Call, C!server
<1>2. calls' = {c} /\ \A v \in owed : C!SafeBut(NoMessage, v)
  BY <1>1, Quiet DEF ComposeInv
<1>3. c.kind = "open" /\ c.key = k /\ c.at = "asked" /\ c.id = called
  OBVIOUS
<1>4. view'.key = NoMessage /\ view'.mail.text = 0
  BY <1>1 DEF C!Nothing, C!Blank
<1>5. called \in Nat /\ typed \in Nat
  BY DEF ComposeInv, C!TypeOK, C!Text, C!Constants
<1>. HIDE DEF c
<1>6. C!TypeOK'
  BY PageTypes DEF ComposeInv
<1>7. C!KeysFresh'
  <2>1. C!Given \subseteq C!Given' /\ C!Asked' = {}
    BY <1>1, <1>2, <1>3, <1>5 DEF C!Given, C!Asked
  <2>. QED  BY <1>1, <1>2, <1>3, <1>4, <1>5, <2>1, KeysApart DEF ComposeInv, C!KeysFresh
<1>8. C!TextsKnown'
  BY <1>1, <1>2, <1>3, <1>4, <1>5 DEF ComposeInv, C!TextsKnown
<1>9. C!InTurn'
  BY <1>1, <1>2, <1>3, <1>4 DEF C!InTurn
<1>10. C!Accounted'
  <2>1. C!Asked' = {} /\ ~ C!Loading' /\ ~ C!Landed'
    BY <1>2, <1>3 DEF C!Asked, C!Loading, C!Landed
  <2>2. \A v \in owed' : C!SafeBut(NoMessage, v)'
    BY <1>1, <1>2, SafeSame
  <2>. QED  BY <1>1, <1>2, <1>3, <2>1, <2>2 DEF C!Accounted
<1>. QED  BY <1>6, <1>7, <1>8, <1>9, <1>10 DEF ComposeInv

LEMMA LeaveKeeps ==
  ASSUME C!Constants, Patient, ComposeInv, C!Leave
  PROVE  ComposeInv'
<1>1. /\ ~ dlg.open /\ view' \in {C!Nothing, view} /\ called' = called + 1 /\ C!Ready
      /\ UNCHANGED <<drafts, sent, dlg, calls, owed, excused, typed>>
  BY DEF C!Leave, C!server
<1>2. calls' = {} /\ \A v \in owed : C!SafeBut(NoMessage, v)
  BY <1>1, Quiet DEF ComposeInv
<1>3. C!Nothing.key = NoMessage /\ C!Nothing.mail.text = 0
  BY DEF C!Nothing, C!Blank
<1>4. called \in Nat /\ typed \in Nat
  BY DEF ComposeInv, C!TypeOK, C!Text, C!Constants
<1>5. C!TypeOK'
  BY PageTypes DEF ComposeInv
<1>6. C!KeysFresh'
  <2>1. C!Given \subseteq C!Given' /\ C!Asked' = {}
    BY <1>1, <1>2, <1>4 DEF C!Given, C!Asked
  <2>2. NoMessage \notin DOMAIN drafts
    BY <1>4, KeysApart DEF ComposeInv, C!KeysFresh
  <2>3. /\ view'.key \in Incoming \cup {NoMessage} \cup C!Given
        /\ view'.key \in DOMAIN drafts => view'.mail = C!Read(drafts[view'.key])
    BY <1>1, <1>3, <2>2 DEF ComposeInv, C!KeysFresh
  <2>. QED  BY <1>1, <1>2, <2>1, <2>3 DEF ComposeInv, C!KeysFresh, C!Read, C!Named
<1>7. C!TextsKnown'
  BY <1>1, <1>2, <1>3, <1>4 DEF ComposeInv, C!TextsKnown
<1>8. C!InTurn'
  BY <1>2 DEF C!InTurn
<1>9. C!Accounted'
  <2>1. C!Asked' = {} /\ ~ C!Loading' /\ ~ C!Landed'
    BY <1>2 DEF C!Asked, C!Loading, C!Landed
  <2>2. \A v \in owed' : C!SafeBut(NoMessage, v)'
    BY <1>1, <1>2, SafeSame
  <2>. QED  BY <1>1, <1>2, <2>1, <2>2 DEF C!Accounted
<1>. QED  BY <1>5, <1>6, <1>7, <1>8, <1>9 DEF ComposeInv

LEMMA ComposeKeeps ==
  ASSUME C!Constants, Patient, ComposeInv, NEW mode \in {"new", "reply", "forward"}, C!Compose(mode)
  PROVE  ComposeInv'
<1>. DEFINE q == IF mode = "new" THEN NoMessage ELSE view.key
            d == [C!Closed EXCEPT !.open = TRUE, !.mode = mode, !.text = typed', !.quotes = q]
<1>1. /\ ~ dlg.open /\ (mode # "new" => view.key \in Incoming)
      /\ typed' = typed + 1 /\ dlg' = C!Start(d) /\ C!Ready
      /\ UNCHANGED <<drafts, sent, current, view, calls, owed, excused, called>>
  BY DEF C!Compose, C!server
<1>2. calls' = {} /\ \A v \in owed : C!SafeBut(NoMessage, v)
  BY <1>1, Quiet DEF ComposeInv
<1>3. C!TypeOK' /\ typed' \in C!Text /\ typed \in Nat
  <2>1. C!TypeOK'
    BY PageTypes DEF ComposeInv
  <2>. QED  BY <2>1 DEF ComposeInv, C!TypeOK, C!Text
<1>4. mode \in C!Mode /\ q \in C!Ref
  BY DEF C!Mode, C!Ref, ComposeInv, C!TypeOK
<1>. HIDE DEF q
<1>5. d \in C!Dialogs /\ d.open /\ d.mode = mode /\ d.draftKey = NoMessage /\ d.text = typed'
      /\ d.quotes = q /\ d.atts = {}
  <2>1. d \in C!Dialogs
    BY <1>3, <1>4, OpenedIs
  <2>2. /\ d.open /\ d.mode = mode /\ d.draftKey = NoMessage /\ d.text = typed'
        /\ d.quotes = q /\ d.atts = {}
    BY DEF C!Closed
  <2>. QED  BY <2>1, <2>2
<1>. HIDE DEF d
<1>6. /\ dlg'.open /\ dlg'.mode = mode /\ dlg'.draftKey = NoMessage /\ dlg'.text = typed'
      /\ dlg'.quotes = q /\ dlg'.atts = {} /\ dlg'.start = C!State(d)
  BY <1>1, <1>5, StartOf
<1>7. dlg'.start[1] = typed' /\ dlg'.start[3] = C!Cardinality(dlg'.atts) /\ dlg'.start[3] \in Nat
  <2>1. C!State(d) = <<d.text, d.bcc, C!Cardinality(d.atts)>>
    BY <1>5, StateOf
  <2>2. d.atts \in SUBSET File /\ d.atts = dlg'.atts
    BY <1>5, <1>6
  <2>3. C!Cardinality(d.atts) \in Nat
    BY <2>2, FilesCount
  <2>. QED  BY <1>5, <1>6, <2>1, <2>2, <2>3
<1>8. C!KeysFresh'
  BY <1>1, <1>2, <1>6 DEF ComposeInv, C!KeysFresh, C!Given, C!Asked
<1>9. C!TextsKnown'
  <2>1. typed \in Nat /\ C!TextsKnown
    BY <1>3 DEF ComposeInv
  <2>2. \A k \in DOMAIN drafts : drafts[k].text \in Nat
    BY DEF ComposeInv, C!TypeOK, C!Messages, C!Text
  <2>3. view.mail.text \in Nat
    BY DEF ComposeInv, C!TypeOK, C!Mails, C!Text
  <2>. QED  BY <1>1, <1>2, <1>3, <1>6, <2>1, <2>2, <2>3 DEF C!TextsKnown
<1>10. C!InTurn'
  BY <1>1, <1>2, <1>4, <1>6 DEF ComposeInv, C!InTurn
<1>11. C!Accounted'
  <2>1. C!Asked' = {} /\ ~ C!Loading' /\ ~ C!Landed'
    BY <1>2 DEF C!Asked, C!Loading, C!Landed
  <2>2. \A v \in owed' : C!SafeBut(NoMessage, v)'
    BY <1>1, <1>2, SafeSame
  <2>3. dlg'.start[1] \in 0 .. typed' /\ C!Cardinality(dlg'.atts)>= dlg'.start[3]
    BY <1>1, <1>3, <1>7
  <2>. QED  BY <1>2, <1>6, <2>1, <2>2, <2>3 DEF C!Accounted
<1>. QED  BY <1>3, <1>8, <1>9, <1>10, <1>11 DEF ComposeInv

LEMMA StartedIs ==
  ASSUME C!Constants, NEW d \in C!Dialogs
  PROVE  /\ C!Start(d).start[1] = d.text /\ C!Start(d).start[3] = C!Cardinality(d.atts)
         /\ C!Cardinality(d.atts) \in Nat
         /\ C!Version(C!Start(d)) = [text |-> d.text, files |-> C!Cardinality(d.atts)]
         /\ C!State(d) = C!Start(d).start
<1>1. d.text \in C!Text /\ d.bcc \in BOOLEAN /\ d.atts \in SUBSET File
  BY DEF C!Dialogs
<1>2. C!Start(d).start = C!State(d) /\ C!Start(d).text = d.text /\ C!Start(d).atts = d.atts
  BY StartOf
<1>3. C!State(d) = <<d.text, d.bcc, C!Cardinality(d.atts)>>
  BY StateOf
<1>4. C!Cardinality(d.atts) \in Nat
  BY <1>1, FilesCount
<1>. QED  BY <1>2, <1>3, <1>4 DEF C!Version

LEMMA EditKeeps ==
  ASSUME C!Constants, Patient, ComposeInv, C!Edit
  PROVE  ComposeInv'
<1>. DEFINE k == view.key
            m == view.mail
            d == [C!Closed EXCEPT !.open = TRUE, !.draftKey = k, !.start = C!State(C!Blank),
                                  !.text = m.text, !.quotes = m.quotes, !.bcc = m.bcc]
            c == [at |-> "asked", id |-> called, kind |-> "files", key |-> k, left |-> m.atts]
<1>1. /\ C!Ready /\ ~ dlg.open /\ k \notin Incoming
      /\ UNCHANGED <<drafts, sent, current, view, owed, excused, typed>>
      /\ \/ m.atts = {} /\ dlg' = C!Start(d) /\ UNCHANGED <<calls, called>>
         \/ dlg' = d /\ calls' = calls \cup {c} /\ called' = called + 1
  BY DEF C!Edit, C!Call, C!server, C!history
<1>2. calls = {} /\ \A v \in owed : C!SafeBut(NoMessage, v)
  BY <1>1, Quiet DEF ComposeInv
<1>3. c.kind = "files" /\ c.key = k /\ c.at = "asked" /\ c.id = called /\ c.left = m.atts
  OBVIOUS
<1>4. C!TypeOK'
  BY PageTypes DEF ComposeInv
<1>5. k \in C!Ref /\ m \in C!Mails /\ called \in Nat /\ typed \in Nat /\ m.text \in Nat
      /\ m.text <= typed /\ m.atts \in SUBSET File
  BY DEF ComposeInv, C!TypeOK, C!TextsKnown, C!Mails, C!Text, C!Constants
<1>6. k \in {NoMessage} \cup C!Given /\ (k \in DOMAIN drafts => m = C!Read(drafts[k]))
  BY <1>1 DEF ComposeInv, C!KeysFresh
<1>7. k \in DOMAIN drafts => m.text = drafts[k].text /\ m.atts = drafts[k].atts
  BY <1>6, ReadOf DEF ComposeInv, C!TypeOK
<1>. HIDE DEF c, k, m
<1>8. d \in C!Dialogs /\ d.open /\ d.mode = "new" /\ d.draftKey = k /\ d.text = m.text /\ d.atts = {}
  BY ZenonT(60), <1>5, ContinuedIs
<1>. HIDE DEF d
<1>9. /\ dlg'.open /\ dlg'.mode = "new" /\ dlg'.draftKey = k /\ dlg'.text = m.text /\ dlg'.atts = {}
  BY <1>1, <1>8, StartOf
<1>11. C!TextsKnown'
  BY <1>1, <1>2, <1>3, <1>5, <1>9 DEF ComposeInv, C!TextsKnown
<1>12. \A v \in owed' : C!SafeBut(NoMessage, v)'
  BY <1>1, <1>2, SafeSame
<1>13. CASE m.atts = {} /\ dlg' = C!Start(d) /\ UNCHANGED <<calls, called>>
  <2>1. C!KeysFresh'
    BY <1>1, <1>2, <1>6, <1>9, <1>13 DEF ComposeInv, C!KeysFresh, C!Given, C!Asked
  <2>2. C!InTurn'
    BY <1>1, <1>2, <1>9, <1>13 DEF ComposeInv, C!InTurn
  <2>3. C!Accounted'
    <3>1. C!Asked' = {} /\ ~ C!Loading' /\ ~ C!Landed'
      BY <1>2, <1>13 DEF C!Asked, C!Loading, C!Landed
    <3>2. dlg'.start[1] = dlg'.text /\ dlg'.start[3] = C!Cardinality(dlg'.atts)
          /\ dlg'.start[3] \in Nat
          /\ C!Version(dlg') = [text |-> d.text, files |-> C!Cardinality(d.atts)]
      BY <1>8, <1>9, <1>13, StartedIs
    <3>3. k \in DOMAIN drafts => C!Version(drafts[k]) = C!Version(dlg')
      BY <1>7, <1>8, <1>13, <3>2 DEF C!Version
    <3>4. \A v \in owed' : C!SafeBut(dlg.draftKey, v)' \/ v = C!Version(dlg')
      BY <1>1, <1>2, <1>9, <3>3 DEF C!SafeBut
    <3>. QED  BY <1>1, <1>2, <1>5, <1>9, <1>12, <1>13, <3>1, <3>2, <3>4
              DEF C!Accounted, C!Version
  <2>. QED  BY <1>4, <1>11, <2>1, <2>2, <2>3 DEF ComposeInv
<1>14. CASE dlg' = d /\ calls' = calls \cup {c} /\ called' = called + 1
  <2>0. calls' = {c}
    BY <1>2, <1>14
  <2>1. C!Asked' = {} /\ C!Loading' /\ ~ C!Landed'
    BY <1>3, <2>0 DEF C!Asked, C!Loading, C!Landed
  <2>2. C!KeysFresh'
    <3>1. C!Given \subseteq C!Given' /\ called \in 0 .. (called' - 1)
      BY <1>5, <1>14 DEF C!Given
    <3>. QED  BY <1>1, <1>3, <1>6, <1>9, <2>0, <2>1, <3>1 DEF ComposeInv, C!KeysFresh
  <2>3. C!InTurn'
    BY <1>1, <1>3, <1>9, <2>0 DEF ComposeInv, C!InTurn
  <2>4. C!Accounted'
    BY <1>1, <1>3, <1>7, <1>9, <1>12, <2>0, <2>1 DEF C!Accounted
  <2>. QED  BY <1>4, <1>11, <2>2, <2>3, <2>4 DEF ComposeInv
<1>. QED  BY <1>1, <1>13, <1>14

\* A change of the dialog: what it makes is neither what it started with nor
\* fewer files of the same text.
LEMMA ChangeKeeps ==
  ASSUME C!Constants, Patient, ComposeInv, C!TypeOK', NEW d \in C!Dialogs, C!Change(d),
         d.open = dlg.open, d.mode = dlg.mode, d.draftKey = dlg.draftKey, d.start = dlg.start,
         d.quotes = dlg.quotes, typed <= typed', d.text <= typed',
         d.text = dlg.start[1] => C!Cardinality(d.atts) > dlg.start[3]
  PROVE  ComposeInv'
<1>1. /\ C!Ready /\ dlg.open /\ dlg' = d
      /\ owed' = (owed \ {C!Version(dlg)}) \cup {C!Version(d)}
      /\ UNCHANGED <<drafts, sent, current, view, calls, excused, called>>
  BY DEF C!Change, C!server
<1>2. /\ calls = {} /\ C!Asked = {} /\ ~ C!Loading /\ ~ C!Landed
      /\ \A v \in owed : C!SafeBut(dlg.draftKey, v) \/ v = C!Version(dlg)
      /\ \A v \in owed : v = C!Begun => C!SafeBut(NoMessage, v)
      /\ dlg.start[1] \in 0 .. typed
  BY <1>1, Quiet DEF ComposeInv
<1>3. typed \in Nat /\ typed' \in Nat /\ dlg.start[3] \in Nat /\ C!Cardinality(d.atts) \in Nat
  <2>1. dlg.start[3] \in Nat
    BY <1>1, DialogIs DEF ComposeInv, C!TypeOK
  <2>. QED  BY <2>1, StartedIs DEF ComposeInv, C!TypeOK, C!Text
<1>4. C!KeysFresh'
  BY <1>1 DEF ComposeInv, C!KeysFresh, C!Given, C!Asked
<1>5. C!TextsKnown'
  <2>1. \A k \in DOMAIN drafts : drafts[k].text \in Nat
    BY DEF ComposeInv, C!TypeOK, C!Messages, C!Text
  <2>2. view.mail.text \in Nat
    BY DEF ComposeInv, C!TypeOK, C!Mails, C!Text
  <2>. QED  BY <1>1, <1>2, <1>3, <2>1, <2>2 DEF ComposeInv, C!TextsKnown
<1>6. C!InTurn'
  BY <1>1, <1>2 DEF ComposeInv, C!InTurn
<1>7. C!Accounted'
  <2>1. C!Asked' = {} /\ ~ C!Loading' /\ ~ C!Landed'
    BY <1>1, <1>2 DEF C!Asked, C!Loading, C!Landed
  <2>2. \A v \in owed' : C!SafeBut(dlg.draftKey, v)' \/ v = C!Version(dlg')
    <3>1. \A v : C!SafeBut(dlg.draftKey, v) => C!SafeBut(dlg.draftKey, v)'
      BY <1>1 DEF C!SafeBut
    <3>. QED  BY <1>1, <1>2, <3>1
  <2>3. \A v \in owed' : v = C!Begun' => C!SafeBut(NoMessage, v)'
    <3>1. C!Begun' = C!Begun
      BY <1>1 DEF C!Begun
    <3>2. C!Version(d) # C!Begun
      BY <1>3 DEF C!Version, C!Begun
    <3>3. \A v : C!SafeBut(NoMessage, v) => C!SafeBut(NoMessage, v)'
      BY <1>1, SafeSame
    <3>. QED  BY <1>1, <1>2, <3>1, <3>2, <3>3
  <2>4. dlg'.start[1] \in 0 .. typed'
        /\ (dlg'.text = dlg'.start[1] => C!Cardinality(dlg'.atts) >= dlg'.start[3])
    BY <1>1, <1>2, <1>3
  <2>. QED  BY <1>1, <1>2, <2>1, <2>2, <2>3, <2>4 DEF C!Accounted
<1>. QED  BY <1>4, <1>5, <1>6, <1>7 DEF ComposeInv

LEMMA WriterKeeps ==
  ASSUME C!Constants, Patient, ComposeInv, NEW b \in BOOLEAN, NEW S \in SUBSET dlg.atts,
         C!Write(b, S)
  PROVE  ComposeInv'
<1>. DEFINE t == typed'
            d == [dlg EXCEPT !.text = t, !.bcc = b, !.atts = S]
<1>1. C!TypeOK'
  BY PageTypes DEF ComposeInv
<1>2. t = typed + 1 /\ C!Change(d) /\ dlg.open /\ C!Ready
  BY DEF C!Write, C!Change
<1>3. typed \in Nat /\ t \in C!Text /\ dlg \in C!Dialogs /\ S \in SUBSET File
  BY <1>1, DialogIs DEF ComposeInv, C!TypeOK, C!Text
<1>4. dlg.start[1] \in 0 .. typed
  BY <1>2, Quiet DEF ComposeInv
<1>5. typed <= typed' /\ t <= typed' /\ t # dlg.start[1]
  BY <1>2, <1>3, <1>4
<1>. HIDE DEF t
<1>6. /\ d \in C!Dialogs /\ d.open = dlg.open /\ d.mode = dlg.mode /\ d.draftKey = dlg.draftKey
      /\ d.start = dlg.start /\ d.text = t /\ d.quotes = dlg.quotes
  BY <1>3 DEF C!Dialogs
<1>. HIDE DEF d
<1>. QED  BY <1>1, <1>2, <1>5, <1>6, ChangeKeeps

LEMMA AttachKeeps ==
  ASSUME C!Constants, Patient, ComposeInv, NEW f \in File, C!Attach(f)
  PROVE  ComposeInv'
<1>. DEFINE d == [dlg EXCEPT !.atts = @ \cup {f}]
<1>1. C!TypeOK'
  BY PageTypes DEF ComposeInv
<1>2. C!Change(d) /\ d # dlg /\ dlg.open /\ C!Ready /\ typed' = typed
  BY DEF C!Attach, C!Change
<1>3. typed \in Nat /\ dlg \in C!Dialogs /\ dlg.atts \in SUBSET File /\ dlg.text \in Nat
      /\ dlg.text <= typed
  BY DialogIs DEF ComposeInv, C!TypeOK, C!Text, C!TextsKnown
<1>4. /\ d \in C!Dialogs /\ d.open = dlg.open /\ d.mode = dlg.mode /\ d.draftKey = dlg.draftKey
      /\ d.start = dlg.start /\ d.text = dlg.text /\ d.quotes = dlg.quotes
      /\ d.atts = dlg.atts \cup {f}
  BY <1>3 DEF C!Dialogs
<1>5. f \notin dlg.atts
  <2>. SUFFICES ASSUME f \in dlg.atts PROVE d = dlg
    BY <1>2
  <2>1. dlg.atts \cup {f} = dlg.atts
    OBVIOUS
  <2>2. dlg = [dlg EXCEPT !.atts = dlg.atts]
    BY <1>3 DEF C!Dialogs
  <2>. QED  BY <2>1, <2>2
<1>6. C!Cardinality(d.atts) = C!Cardinality(dlg.atts) + 1 /\ C!Cardinality(dlg.atts) \in Nat
  BY <1>3, <1>4, <1>5, FilesCount
<1>7. dlg.start[3] \in Nat /\ (dlg.text = dlg.start[1] => C!Cardinality(dlg.atts) >= dlg.start[3])
  <2>1. dlg.start[3] \in Nat
    BY <1>2, DialogIs DEF ComposeInv, C!TypeOK
  <2>. QED  BY <1>2, <2>1, Quiet DEF ComposeInv
<1>. HIDE DEF d
<1>8. typed <= typed' /\ d.text <= typed'
      /\ (d.text = dlg.start[1] => C!Cardinality(d.atts) > dlg.start[3])
  BY <1>2, <1>3, <1>4, <1>6, <1>7
<1>. QED  BY <1>1, <1>2, <1>4, <1>8, ChangeKeeps

\* A request that takes along what the dialog holds.
LEMMA AskKeeps ==
  ASSUME C!Constants, Patient, ComposeInv, C!TypeOK', C!Ready, dlg.open, NEW c,
         calls' = {c}, called' = called + 1, c.at = "asked", c.id = called, c.body = C!Body,
         c.kind = "send" \/ (c.kind = "save" /\ (~ c.shuts => ~ dlg'.open)),
         UNCHANGED <<drafts, sent, current, view, owed, excused, typed>>,
         dlg' = dlg \/ dlg' = C!Shut(dlg)
  PROVE  ComposeInv'
<1>. DEFINE b == C!Body
<1>1. /\ calls = {} /\ \A v \in owed : C!SafeBut(dlg.draftKey, v) \/ v = C!Version(dlg)
      /\ \A v \in owed : v = C!Begun => C!SafeBut(NoMessage, v)
      /\ dlg.start[1] \in 0 .. typed
      /\ dlg.text = dlg.start[1] => C!Cardinality(dlg.atts) >= dlg.start[3]
  BY Quiet DEF ComposeInv
<1>2. /\ dlg \in C!Dialogs /\ called \in Nat /\ typed \in Nat /\ dlg.text <= typed
  BY DialogIs DEF ComposeInv, C!TypeOK, C!Text, C!TextsKnown, C!Constants
<1>3. /\ dlg'.mode = dlg.mode /\ dlg'.draftKey = dlg.draftKey /\ dlg'.start = dlg.start
      /\ dlg'.text = dlg.text /\ dlg'.quotes = dlg.quotes /\ dlg'.atts = dlg.atts
      /\ (dlg'.open => dlg' = dlg)
  BY <1>2, ShutOf
<1>4. /\ b.draftKey = dlg.draftKey /\ b.text = dlg.text /\ b.quotes = dlg.quotes
      /\ b.mode = dlg.mode /\ C!Version(b) = C!Version(dlg)
  BY BodyOf DEF ComposeInv
<1>. HIDE DEF b
<1>5. C!Asked' = {c} /\ ~ C!Loading' /\ ~ C!Landed'
  BY DEF C!Asked, C!Loading, C!Landed
<1>6. C!KeysFresh'
  <2>1. C!Given \subseteq C!Given' /\ called \in 0 .. (called' - 1)
    BY <1>2 DEF C!Given
  <2>2. called \notin DOMAIN drafts /\ called # view.key
    BY <1>2, KeysApart DEF ComposeInv, C!KeysFresh
  <2>. QED  BY <1>3, <1>5, <2>1, <2>2 DEF ComposeInv, C!KeysFresh
<1>7. C!TextsKnown'
  BY <1>2, <1>3, <1>4 DEF ComposeInv, C!TextsKnown, b
<1>8. C!InTurn'
  <2>1. C!Version(dlg') = C!Version(dlg)
    BY <1>3 DEF C!Version
  <2>. QED  BY <1>1, <1>3, <1>4, <2>1 DEF ComposeInv, C!InTurn, b
<1>9. C!Accounted'
  <2>1. \A k, v : C!SafeBut(k, v) => C!SafeBut(k, v)'
    BY SafeSame
  <2>2. \A v \in owed : C!SafeBut(c.body.draftKey, v)' \/ v = C!Version(c.body)
    <3>1. \A v : C!SafeBut(dlg.draftKey, v) => C!SafeBut(c.body.draftKey, v)'
      BY <1>4 DEF C!SafeBut, b
    <3>. QED  BY <1>1, <1>4, <3>1 DEF b
  <2>3. dlg'.open => \A v \in owed : /\ C!SafeBut(dlg.draftKey, v)' \/ v = C!Version(dlg')
                                     /\ v = C!Begun' => C!SafeBut(NoMessage, v)'
    <3>1. \A v : C!SafeBut(dlg.draftKey, v) /\ dlg' = dlg => C!SafeBut(dlg.draftKey, v)'
      BY DEF C!SafeBut
    <3>. QED  BY <1>1, <1>3, <2>1, <3>1 DEF C!Begun
  <2>. QED  BY <1>1, <1>3, <1>5, <2>2, <2>3 DEF C!Accounted, C!Version
<1>. QED  BY <1>6, <1>7, <1>8, <1>9 DEF ComposeInv

LEMMA SavingKeeps ==
  ASSUME C!Constants, Patient, ComposeInv, C!Save \/ C!Send
  PROVE  ComposeInv'
<1>. DEFINE c1 == [at |-> "asked", id |-> called, kind |-> "save", body |-> C!Body, shuts |-> TRUE]
            c2 == [at |-> "asked", id |-> called, kind |-> "send", body |-> C!Body]
<1>1. /\ C!Ready /\ dlg.open /\ called' = called + 1
      /\ calls' = calls \cup {c1} \/ calls' = calls \cup {c2}
      /\ UNCHANGED <<drafts, sent, current, view, dlg, owed, excused, typed>>
  BY DEF C!Save, C!Send, C!SaveCall, C!Call, C!server, C!history
<1>2. calls = {} /\ C!TypeOK'
  BY <1>1, Quiet, PageTypes DEF ComposeInv
<1>3. /\ c1.at = "asked" /\ c1.id = called /\ c1.body = C!Body /\ c1.kind = "save" /\ c1.shuts
      /\ c2.at = "asked" /\ c2.id = called /\ c2.body = C!Body /\ c2.kind = "send"
  OBVIOUS
<1>. HIDE DEF c1, c2
<1>4. calls' = {c1} => ComposeInv'
  BY <1>1, <1>2, <1>3, AskKeeps
<1>5. calls' = {c2} => ComposeInv'
  BY <1>1, <1>2, <1>3, AskKeeps
<1>. QED  BY <1>1, <1>2, <1>4, <1>5

LEMMA CloseKeeps ==
  ASSUME C!Constants, Patient, ComposeInv, C!Close
  PROVE  ComposeInv'
<1>. DEFINE c == [at |-> "asked", id |-> called, kind |-> "save", body |-> C!Body, shuts |-> FALSE]
<1>1. /\ C!Ready /\ dlg.open /\ dlg' = C!Shut(dlg)
      /\ UNCHANGED <<drafts, sent, current, view, owed, excused, typed>>
      /\ \/ C!State(dlg) = dlg.start /\ UNCHANGED <<calls, called>>
         \/ calls' = calls \cup {c} /\ called' = called + 1
  BY DEF C!Close, C!SaveCall, C!Call, C!server, C!history
<1>2. /\ calls = {} /\ \A v \in owed : C!SafeBut(dlg.draftKey, v) \/ v = C!Version(dlg)
      /\ \A v \in owed : v = C!Begun => C!SafeBut(NoMessage, v)
  BY <1>1, Quiet DEF ComposeInv
<1>3. C!TypeOK'
  BY PageTypes DEF ComposeInv
<1>4. dlg \in C!Dialogs
  BY DEF ComposeInv, C!TypeOK
<1>5. /\ ~ dlg'.open /\ dlg'.draftKey = dlg.draftKey /\ dlg'.text = dlg.text
  BY <1>1, <1>4, ShutOf
<1>6. /\ c.at = "asked" /\ c.id = called /\ c.body = C!Body /\ c.kind = "save" /\ ~ c.shuts
  OBVIOUS
<1>. HIDE DEF c
<1>7. CASE calls' = calls \cup {c} /\ called' = called + 1
  BY <1>1, <1>2, <1>3, <1>5, <1>6, <1>7, AskKeeps
<1>8. CASE C!State(dlg) = dlg.start /\ UNCHANGED <<calls, called>>
  <2>1. C!Version(dlg) = C!Begun
    <3>1. C!State(dlg) = <<dlg.text, dlg.bcc, C!Cardinality(dlg.atts)>>
      BY <1>4, StateOf
    <3>2. dlg.start[1] = dlg.text /\ dlg.start[3] = C!Cardinality(dlg.atts)
      BY <1>8, <3>1
    <3>. QED  BY <3>2 DEF C!Version, C!Begun
  <2>2. \A v \in owed : C!SafeBut(NoMessage, v)
    <3>1. NoMessage \notin DOMAIN drafts
      BY KeysApart DEF ComposeInv, C!KeysFresh, C!TypeOK, C!Constants
    <3>2. \A v : C!SafeBut(dlg.draftKey, v) => C!SafeBut(NoMessage, v)
      BY <3>1 DEF C!SafeBut
    <3>. QED  BY <1>2, <2>1, <3>2
  <2>3. \A v \in owed' : C!SafeBut(NoMessage, v)'
    BY <1>1, <2>2, SafeSame
  <2>4. C!KeysFresh'
    BY <1>1, <1>2, <1>5, <1>8 DEF ComposeInv, C!KeysFresh, C!Given, C!Asked
  <2>5. C!TextsKnown'
    BY <1>1, <1>2, <1>5, <1>8 DEF ComposeInv, C!TextsKnown
  <2>6. C!InTurn'
    BY <1>1, <1>2, <1>5, <1>8 DEF ComposeInv, C!InTurn
  <2>7. C!Accounted'
    <3>1. C!Asked' = {} /\ ~ C!Loading' /\ ~ C!Landed'
      BY <1>2, <1>8 DEF C!Asked, C!Loading, C!Landed
    <3>. QED  BY <1>2, <1>5, <1>8, <2>3, <3>1 DEF C!Accounted
  <2>. QED  BY <1>3, <2>4, <2>5, <2>6, <2>7 DEF ComposeInv
<1>. QED  BY <1>1, <1>7, <1>8

\* The one request there is.
LEMMA OneCall ==
  ASSUME Patient, ComposeInv, NEW c \in calls
  PROVE  /\ calls = {c} /\ c \in C!Requests
         /\ c.kind = "open" => ~ dlg.open
         /\ c.kind = "files" => dlg.open /\ dlg.draftKey = c.key
         /\ c.kind \in {"save", "send"} /\ dlg.open =>
              c.body.draftKey = dlg.draftKey /\ C!Version(c.body) = C!Version(dlg)
         /\ c.kind = "save" /\ ~ c.shuts => ~ dlg.open
         /\ c.id \in 0 .. (called - 1)
<1>1. /\ calls = {c} /\ c \in C!Requests
  BY DEF ComposeInv, C!TypeOK, C!InTurn
<1>2. c.id \in 0 .. (called - 1)
  BY DEF ComposeInv, C!KeysFresh
<1>. QED  BY <1>1, <1>2 DEF ComposeInv, C!InTurn

\* The server does not take the request: what it carried is excused.
LEMMA FailKeeps ==
  ASSUME C!Constants, Patient, ComposeInv, C!TypeOK', NEW c \in calls,
         c.kind \in {"save", "send"}, c.at = "asked", C!Fails(c),
         UNCHANGED <<current, view, dlg, owed, typed, called>>
  PROVE  ComposeInv'
<1>. DEFINE d == [c EXCEPT !.at = "failed"]
<1>1. /\ calls = {c} /\ c \in C!Requests
      /\ dlg.open => c.body.draftKey = dlg.draftKey /\ C!Version(c.body) = C!Version(dlg)
      /\ c.kind = "save" /\ ~ c.shuts => ~ dlg.open
      /\ c.id \in 0 .. (called - 1)
  BY OneCall
<1>2. /\ d.at = "failed" /\ d.id = c.id /\ d.kind = c.kind /\ d.body = c.body
      /\ c.kind = "save" => d.shuts = c.shuts
  BY <1>1, AnswerIs
<1>3. /\ calls' = {d} /\ excused' = excused \cup {c.body.text} /\ UNCHANGED <<drafts, sent>>
  BY <1>1 DEF C!Fails, C!Becomes, C!server
<1>. HIDE DEF d
<1>4. C!Asked' = {} /\ ~ C!Loading' /\ ~ C!Landed'
  BY <1>2, <1>3 DEF C!Asked, C!Loading, C!Landed
<1>5. c \in C!Asked /\ ~ C!Loading /\ ~ C!Landed
  BY <1>1 DEF C!Asked, C!Loading, C!Landed
<1>6. C!KeysFresh'
  BY <1>1, <1>2, <1>3, <1>4 DEF ComposeInv, C!KeysFresh, C!Given
<1>7. C!TextsKnown'
  BY <1>1, <1>2, <1>3 DEF ComposeInv, C!TextsKnown
<1>8. C!InTurn'
  BY <1>1, <1>2, <1>3 DEF ComposeInv, C!InTurn
<1>9. C!Accounted'
  <2>1. \A k, v : C!SafeBut(k, v) => C!SafeBut(k, v)'
    BY <1>3, SafeSame
  <2>2. \A v \in owed : C!SafeBut(NoMessage, v)' \/ dlg.open
    <3>1. \A v \in owed : C!SafeBut(c.body.draftKey, v) \/ v = C!Version(c.body)
      BY <1>5 DEF ComposeInv, C!Accounted
    <3>2. NoMessage \notin DOMAIN drafts
      BY KeysApart DEF ComposeInv, C!KeysFresh, C!TypeOK, C!Constants
    <3>3. \A v : C!SafeBut(c.body.draftKey, v) => C!SafeBut(NoMessage, v)
      BY <3>2 DEF C!SafeBut
    <3>4. \A v : v = C!Version(c.body) => C!SafeBut(NoMessage, v)'
      BY <1>3 DEF C!SafeBut, C!Version
    <3>. QED  BY <2>1, <3>1, <3>3, <3>4
  <2>3. dlg.open => \A v \in owed : /\ C!SafeBut(dlg.draftKey, v)' \/ v = C!Version(dlg)
                                    /\ v = C!Begun' => C!SafeBut(NoMessage, v)'
    <3>1. \A v : C!SafeBut(dlg.draftKey, v) => C!SafeBut(dlg.draftKey, v)'
      BY <1>3 DEF C!SafeBut
    <3>. QED  BY <1>5, <2>1, <3>1 DEF ComposeInv, C!Accounted, C!Begun
  <2>4. dlg.open => /\ dlg.start[1] \in 0 .. typed
                    /\ dlg.text = dlg.start[1] => C!Cardinality(dlg.atts) >= dlg.start[3]
    BY <1>5 DEF ComposeInv, C!Accounted
  <2>. QED  BY <1>2, <1>3, <1>4, <2>2, <2>3, <2>4 DEF C!Accounted, C!Version
<1>. QED  BY <1>6, <1>7, <1>8, <1>9 DEF ComposeInv

\* It takes it: all that is owed is in the folders then.
LEMMA LandKeeps ==
  ASSUME C!Constants, Patient, ComposeInv, C!TypeOK', NEW c \in calls,
         c.kind \in {"save", "send"}, c.at = "asked", C!Becomes(c, [c EXCEPT !.at = "ok"]),
         UNCHANGED <<excused, current, view, dlg, owed, typed, called>>,
         \A k \in DOMAIN drafts' :
            \/ k \in DOMAIN drafts /\ drafts'[k] = drafts[k]
            \/ c.kind = "save" /\ k = c.id /\ drafts'[k].text = c.body.text,
         \A v \in owed : C!SafeBut(NoMessage, v)'
  PROVE  ComposeInv'
<1>. DEFINE d == [c EXCEPT !.at = "ok"]
<1>1. /\ calls = {c} /\ c \in C!Requests
      /\ dlg.open => c.body.draftKey = dlg.draftKey /\ C!Version(c.body) = C!Version(dlg)
      /\ c.kind = "save" /\ ~ c.shuts => ~ dlg.open
      /\ c.id \in 0 .. (called - 1)
  BY OneCall
<1>2. /\ d.at = "ok" /\ d.id = c.id /\ d.kind = c.kind /\ d.body = c.body
      /\ c.kind = "save" => d.shuts = c.shuts
  BY <1>1, AnswerIs
<1>3. calls' = {d}
  BY <1>1 DEF C!Becomes
<1>. HIDE DEF d
<1>4. C!Asked' = {} /\ ~ C!Loading' /\ C!Landed'
  BY <1>2, <1>3 DEF C!Asked, C!Loading, C!Landed
<1>5. c \in C!Asked /\ ~ C!Loading
  BY <1>1 DEF C!Asked, C!Loading
<1>6. C!KeysFresh'
  <2>1. DOMAIN drafts' \subseteq C!Given
    BY <1>1 DEF ComposeInv, C!KeysFresh, C!Given
  <2>2. view.key \in DOMAIN drafts' => view.mail = C!Read(drafts'[view.key])
    BY <1>5 DEF ComposeInv, C!KeysFresh
  <2>. QED  BY <1>1, <1>2, <1>3, <1>4, <2>1, <2>2 DEF ComposeInv, C!KeysFresh, C!Given, C!Read, C!Named
<1>7. C!TextsKnown'
  BY <1>1, <1>2, <1>3 DEF ComposeInv, C!TextsKnown
<1>8. C!InTurn'
  BY <1>1, <1>2, <1>3 DEF ComposeInv, C!InTurn
<1>9. C!Accounted'
  <2>1. dlg.open => /\ dlg.start[1] \in 0 .. typed
                    /\ dlg.text = dlg.start[1] => C!Cardinality(dlg.atts) >= dlg.start[3]
    BY <1>5 DEF ComposeInv, C!Accounted
  <2>. QED  BY <1>2, <1>3, <1>4, <2>1 DEF C!Accounted
<1>. QED  BY <1>6, <1>7, <1>8, <1>9 DEF ComposeInv

LEMMA StoreKeeps ==
  ASSUME C!Constants, Patient, ComposeInv, NEW c \in calls, C!StoreDraft(c)
  PROVE  ComposeInv'
<1>. DEFINE m == C!Build(c.body, NoMessage, NoMessage, TRUE)
<1>1. /\ c.kind = "save" /\ c.at = "asked"
      /\ UNCHANGED <<current, view, dlg, owed, typed, called>>
  BY DEF C!StoreDraft
<1>2. C!TypeOK'
  BY ServerTypes DEF ComposeInv
<1>3. CASE C!Fails(c)
  BY <1>1, <1>2, <1>3, FailKeeps
<1>4. ASSUME NEW gone \in {{c.body.draftKey}, {}}, UNCHANGED <<sent, excused>>,
             drafts' = [k \in (DOMAIN drafts \ gone) \cup {c.id} |->
                          IF k = c.id THEN m ELSE drafts[k]],
             C!Becomes(c, [c EXCEPT !.at = "ok"])
      PROVE  ComposeInv'
  <2>1. /\ calls = {c} /\ c \in C!Requests /\ c.body \in C!Bodies /\ c.id \in Nat
    BY <1>1, OneCall, CallIs
  <2>2. m.text = c.body.text /\ C!Version(m) = C!Version(c.body)
    BY DEF C!Build, C!Version
  <2>. HIDE DEF m
  <2>3. c.id \notin DOMAIN drafts /\ c.id # NoMessage /\ NoMessage \notin DOMAIN drafts
    <3>1. NoMessage \notin DOMAIN drafts
      BY KeysApart DEF ComposeInv, C!KeysFresh, C!TypeOK, C!Constants
    <3>2. c.id \notin DOMAIN drafts
      BY <1>1 DEF ComposeInv, C!KeysFresh, C!Asked
    <3>. QED  BY <2>1, <3>1, <3>2, KeysApart DEF ComposeInv, C!TypeOK, C!Constants
  <2>4. \A v \in owed : C!SafeBut(NoMessage, v)'
    <3>. SUFFICES ASSUME NEW v \in owed PROVE C!SafeBut(NoMessage, v)'
      OBVIOUS
    <3>1. C!SafeBut(c.body.draftKey, v) \/ v = C!Version(c.body)
      BY <1>1 DEF ComposeInv, C!Accounted, C!Asked
    <3>2. CASE v = C!Version(c.body)
      <4>1. c.id \in DOMAIN drafts' \ {NoMessage} /\ drafts'[c.id] = m
        BY <1>4, <2>3
      <4>. QED  BY <2>2, <3>2, <4>1 DEF C!SafeBut, C!Version
    <3>3. CASE C!SafeBut(c.body.draftKey, v)
      <4>1. \A x \in DOMAIN drafts \ {c.body.draftKey} :
              x \in DOMAIN drafts' \ {NoMessage} /\ drafts'[x] = drafts[x]
        BY <1>4, <2>3
      <4>. QED  BY <1>4, <3>3, <4>1, StaysSafe
    <3>. QED  BY <3>1, <3>2, <3>3
  <2>6. \A k \in DOMAIN drafts' :
            \/ k \in DOMAIN drafts /\ drafts'[k] = drafts[k]
            \/ c.kind = "save" /\ k = c.id /\ drafts'[k].text = c.body.text
    BY <1>1, <1>4, <2>2
  <2>. QED  BY <1>1, <1>2, <1>4, <2>4, <2>6, LandKeeps
<1>. QED  BY <1>3, <1>4 DEF C!StoreDraft

LEMMA DeliverKeeps ==
  ASSUME C!Constants, Patient, ComposeInv, NEW c \in calls, C!Deliver(c)
  PROVE  ComposeInv'
<1>1. /\ c.kind = "send" /\ c.at = "asked"
      /\ UNCHANGED <<current, view, dlg, owed, typed, called>>
  BY DEF C!Deliver
<1>2. C!TypeOK'
  BY ServerTypes DEF ComposeInv
<1>3. CASE C!Fails(c)
  BY <1>1, <1>2, <1>3, FailKeeps
<1>4. ASSUME NEW raw \in {c.body.key, NoMessage}, NEW gone \in {{c.body.draftKey}, {}},
             sent' = sent \cup {C!Build(c.body, c.body.key, raw, FALSE)},
             drafts' = [k \in DOMAIN drafts \ gone |-> drafts[k]],
             C!Becomes(c, [c EXCEPT !.at = "ok"]), UNCHANGED excused
      PROVE  ComposeInv'
  <2>. DEFINE m == C!Build(c.body, c.body.key, raw, FALSE)
  <2>1. /\ calls = {c} /\ c \in C!Requests /\ c.body \in C!Bodies
    BY <1>1, OneCall, CallIs
  <2>3. C!Version(m) = C!Version(c.body)
    BY DEF C!Build, C!Version
  <2>. HIDE DEF m
  <2>4. sent' = sent \cup {m}
    BY <1>4 DEF m
  <2>6. NoMessage \notin DOMAIN drafts
    BY KeysApart DEF ComposeInv, C!KeysFresh, C!TypeOK, C!Constants
  <2>7. \A v \in owed : C!SafeBut(NoMessage, v)'
    <3>. SUFFICES ASSUME NEW v \in owed PROVE C!SafeBut(NoMessage, v)'
      OBVIOUS
    <3>1. C!SafeBut(c.body.draftKey, v) \/ v = C!Version(c.body)
      BY <1>1 DEF ComposeInv, C!Accounted, C!Asked
    <3>2. CASE v = C!Version(c.body)
      BY <2>3, <2>4, <3>2 DEF C!SafeBut, C!Version
    <3>3. CASE C!SafeBut(c.body.draftKey, v)
      <4>1. \A x \in DOMAIN drafts \ {c.body.draftKey} :
              x \in DOMAIN drafts' \ {NoMessage} /\ drafts'[x] = drafts[x]
        BY <1>4, <2>6
      <4>. QED  BY <1>4, <2>4, <3>3, <4>1, StaysSafe
    <3>. QED  BY <3>1, <3>2, <3>3
  <2>8. \A k \in DOMAIN drafts' : k \in DOMAIN drafts /\ drafts'[k] = drafts[k]
    BY <1>4
  <2>. QED  BY <1>1, <1>2, <1>4, <2>7, <2>8, LandKeeps
<1>. QED  BY <1>3, <1>4 DEF C!Deliver

LEMMA ShownKeeps ==
  ASSUME C!Constants, Patient, ComposeInv, NEW c \in calls, C!Shown(c)
  PROVE  ComposeInv'
<1>. DEFINE m == IF c.key \in Incoming THEN C!Blank ELSE C!Read(drafts[c.key])
<1>1. /\ c.kind = "open" /\ C!Done(c)
      /\ UNCHANGED <<drafts, sent, current, dlg, owed, excused, typed, called>>
      /\ \/ view' = view
         \/ c.key \in Incoming \cup DOMAIN drafts /\ view' = [key |-> c.key, mail |-> m]
  BY DEF C!Shown, C!server
<1>2. calls = {c} /\ c \in C!Requests /\ ~ dlg.open
  BY <1>1, OneCall
<1>3. calls' = {} /\ C!Asked' = {} /\ ~ C!Loading' /\ ~ C!Landed'
  BY <1>1, <1>2 DEF C!Done, C!Asked, C!Loading, C!Landed
<1>4. C!TypeOK'
  BY AnswerTypes DEF ComposeInv
<1>5. c.key \in DOMAIN drafts => c.key \notin Incoming
  BY KeysApart DEF ComposeInv, C!KeysFresh, C!TypeOK, C!Constants
<1>6. c.key \in Incoming \cup DOMAIN drafts => m.text \in Nat /\ m.text <= typed
  <2>1. typed \in Nat
    BY DEF ComposeInv, C!TypeOK, C!Text
  <2>2. c.key \in Incoming => m.text = 0
    BY DEF C!Blank
  <2>3. c.key \in DOMAIN drafts => m.text = drafts[c.key].text /\ drafts[c.key].text \in Nat
    BY <1>5, ReadOf DEF ComposeInv, C!TypeOK, C!Messages, C!Text
  <2>. QED  BY <2>1, <2>2, <2>3 DEF ComposeInv, C!TextsKnown
<1>7. c.key \in DOMAIN drafts => m = C!Read(drafts[c.key])
  BY <1>5
<1>. HIDE DEF m
<1>8. C!KeysFresh'
  <2>1. c.key \in Incoming \cup DOMAIN drafts => c.key \in Incoming \cup {NoMessage} \cup C!Given
    BY DEF ComposeInv, C!KeysFresh
  <2>2. view'.key \in Incoming \cup {NoMessage} \cup C!Given
        /\ (view'.key \in DOMAIN drafts => view'.mail = C!Read(drafts[view'.key]))
    BY <1>1, <1>7, <2>1 DEF ComposeInv, C!KeysFresh
  <2>. QED  BY <1>1, <1>3, <2>2 DEF ComposeInv, C!KeysFresh, C!Given, C!Read, C!Named
<1>9. C!TextsKnown'
  BY <1>1, <1>3, <1>6 DEF ComposeInv, C!TextsKnown
<1>10. C!InTurn'
  BY <1>1, <1>2, <1>3 DEF ComposeInv, C!InTurn
<1>11. C!Accounted'
  <2>1. C!Asked = {}
    BY <1>1, <1>2 DEF C!Asked
  <2>2. \A v \in owed' : C!SafeBut(NoMessage, v)'
    BY <1>1, <1>2, <2>1, SafeSame DEF ComposeInv, C!Accounted
  <2>. QED  BY <1>1, <1>2, <1>3, <2>2 DEF C!Accounted
<1>. QED  BY <1>4, <1>8, <1>9, <1>10, <1>11 DEF ComposeInv

LEMMA SavedKeeps ==
  ASSUME C!Constants, Patient, ComposeInv, NEW c \in calls, C!Saved(c) \/ C!Out(c)
  PROVE  ComposeInv'
<1>. DEFINE e == [dlg EXCEPT !.draftKey = c.id]
            d == C!Start(e)
            o == C!Start(dlg)
<1>1. /\ c.kind \in {"save", "send"} /\ c.at # "asked" /\ C!Done(c)
      /\ UNCHANGED <<drafts, sent, current, view, owed, excused, typed, called>>
      /\ \/ c.at = "failed" /\ dlg' = dlg
         \/ c.at # "failed" /\ (dlg' = C!Shut(d) \/ (c.kind = "save" /\ ~ c.shuts /\ dlg' = d))
         \/ c.at # "failed" /\ dlg' = C!Shut(o)
  BY DEF C!Saved, C!Out, C!server, C!history
<1>2. /\ calls = {c} /\ c \in C!Requests /\ (c.kind = "save" /\ ~ c.shuts => ~ dlg.open)
      /\ c.id \in 0 .. (called - 1) /\ c.id \in C!Ref /\ dlg \in C!Dialogs
      /\ c.at \in {"ok", "failed"}
  BY <1>1, OneCall, CallIs DEF ComposeInv, C!TypeOK, C!Ref
<1>3. calls' = {} /\ C!Asked' = {} /\ ~ C!Loading' /\ ~ C!Landed' /\ C!Asked = {} /\ ~ C!Loading
      /\ (C!Landed <=> c.at = "ok")
  BY <1>1, <1>2 DEF C!Done, C!Asked, C!Loading, C!Landed
<1>4. C!TypeOK'
  BY AnswerTypes DEF ComposeInv
<1>5. e \in C!Dialogs /\ e.open = dlg.open /\ e.draftKey = c.id /\ e.text = dlg.text
  BY <1>2, KeyedIs
<1>. HIDE DEF e
<1>6. /\ d \in C!Dialogs /\ d.open = dlg.open /\ d.draftKey = c.id /\ d.text = dlg.text
      /\ o \in C!Dialogs /\ o.draftKey = dlg.draftKey /\ o.text = dlg.text
  BY <1>2, <1>5, StartOf
<1>. HIDE DEF d, o
<1>7. /\ \/ dlg' = dlg /\ c.at = "failed"
         \/ ~ dlg'.open /\ c.at = "ok"
      /\ dlg'.draftKey \in {c.id, dlg.draftKey} /\ dlg'.text = dlg.text
  BY <1>1, <1>2, <1>6, ShutOf
<1>8. C!KeysFresh'
  BY <1>1, <1>2, <1>3, <1>7 DEF ComposeInv, C!KeysFresh, C!Given
<1>9. C!TextsKnown'
  BY <1>1, <1>3, <1>7 DEF ComposeInv, C!TextsKnown
<1>10. C!InTurn'
  BY <1>1, <1>3, <1>7 DEF ComposeInv, C!InTurn
<1>11. C!Accounted'
  <2>1. \A k, v : C!SafeBut(k, v) => C!SafeBut(k, v)'
    BY <1>1, SafeSame
  <2>2. ~ dlg'.open => \A v \in owed' : C!SafeBut(NoMessage, v)'
    BY <1>1, <1>3, <1>7, <2>1 DEF ComposeInv, C!Accounted
  <2>3. CASE ~ dlg'.open
    BY <1>3, <2>2, <2>3 DEF C!Accounted
  <2>4. CASE dlg'.open
    <3>1. dlg' = dlg /\ ~ C!Landed
      BY <1>3, <1>7, <2>4
    <3>2. \A v : C!SafeBut(dlg.draftKey, v) => C!SafeBut(dlg.draftKey, v)'
      BY <1>1, <3>1 DEF C!SafeBut
    <3>. QED  BY <1>1, <1>3, <2>1, <2>4, <3>1, <3>2 DEF ComposeInv, C!Accounted, C!Version, C!Begun
  <2>. QED  BY <2>3, <2>4
<1>. QED  BY <1>4, <1>8, <1>9, <1>10, <1>11 DEF ComposeInv

LEMMA FetchedKeeps ==
  ASSUME C!Constants, Patient, ComposeInv, NEW c \in calls, C!Fetched(c)
  PROVE  ComposeInv'
<1>. DEFINE with(f) == [dlg EXCEPT !.atts = @ \cup {f}]
            d(f) == [c EXCEPT !.left = c.left \ {f}]
<1>1. PICK f \in c.left :
        /\ \/ c.left \ {f} = {} /\ C!Done(c)
           \/ c.left \ {f} # {} /\ C!Becomes(c, d(f))
        /\ \E e \in {with(f), dlg} :
             /\ dlg' = IF c.left \ {f} = {} THEN C!Start(e) ELSE e
             /\ \/ e = with(f) /\ c.key \in DOMAIN drafts /\ UNCHANGED excused
                \/ e = dlg /\ c.key \notin DOMAIN drafts /\ UNCHANGED excused
                \/ e = dlg /\ excused' = excused \cup {dlg.text}
  BY DEF C!Fetched
<1>2. PICK e \in {with(f), dlg} :
        /\ dlg' = IF c.left \ {f} = {} THEN C!Start(e) ELSE e
        /\ \/ e = with(f) /\ c.key \in DOMAIN drafts /\ UNCHANGED excused
           \/ e = dlg /\ c.key \notin DOMAIN drafts /\ UNCHANGED excused
           \/ e = dlg /\ excused' = excused \cup {dlg.text}
  BY <1>1
<1>3. c.kind = "files" /\ UNCHANGED <<drafts, sent, current, view, owed, typed, called>>
  BY DEF C!Fetched, C!server
<1>4. /\ calls = {c} /\ c \in C!Requests /\ dlg.open /\ dlg.draftKey = c.key
      /\ dlg \in C!Dialogs /\ c.left \in SUBSET File /\ c.id \in 0 .. (called - 1)
      /\ c.at = "asked"
  BY <1>3, OneCall, CallIs DEF ComposeInv, C!TypeOK
<1>5. /\ e \in C!Dialogs /\ e.open /\ e.mode = dlg.mode /\ e.draftKey = c.key
      /\ e.text = dlg.text /\ e.quotes = dlg.quotes
      /\ e.atts = IF e = with(f) THEN dlg.atts \cup {f} ELSE dlg.atts
  <2>1. {f} \in SUBSET File
    BY <1>4
  <2>2. /\ with(f) \in C!Dialogs /\ with(f).open = dlg.open /\ with(f).mode = dlg.mode
        /\ with(f).draftKey = dlg.draftKey /\ with(f).text = dlg.text
        /\ with(f).quotes = dlg.quotes /\ with(f).atts = dlg.atts \cup {f}
    BY <1>4, <2>1 DEF C!Dialogs
  <2>. HIDE DEF with
  <2>. QED  BY <1>2, <1>4, <2>2
<1>6. /\ d(f).at = "asked" /\ d(f).id = c.id /\ d(f).kind = "files" /\ d(f).key = c.key
      /\ d(f).left = c.left \ {f}
  <2>1. c.left \ {f} \in SUBSET File
    BY <1>4
  <2>. QED  BY <1>3, <1>4, <2>1, LeftIs
<1>7. e = with(f) => e.atts = dlg.atts \cup {f}
  BY <1>5
<1>. HIDE DEF d, with
<1>8. /\ dlg'.open /\ dlg'.mode = dlg.mode /\ dlg'.draftKey = c.key /\ dlg'.text = dlg.text
      /\ dlg'.quotes = dlg.quotes /\ dlg'.atts = e.atts
  BY <1>2, <1>5, StartOf
<1>9. calls' = IF c.left \ {f} = {} THEN {} ELSE {d(f)}
  BY <1>1, <1>4 DEF C!Done, C!Becomes
<1>10. C!TypeOK'
  BY AnswerTypes DEF ComposeInv
<1>11. C!Asked' = {} /\ ~ C!Landed' /\ (C!Loading' <=> c.left \ {f} # {}) /\ C!Loading
  BY <1>3, <1>4, <1>6, <1>9 DEF C!Asked, C!Landed, C!Loading
<1>12. C!KeysFresh'
  BY <1>3, <1>4, <1>6, <1>8, <1>9, <1>11
     DEF ComposeInv, C!KeysFresh, C!Given
<1>13. C!TextsKnown'
  BY <1>3, <1>6, <1>8, <1>9 DEF ComposeInv, C!TextsKnown
<1>14. C!InTurn'
  BY <1>3, <1>6, <1>8, <1>9 DEF ComposeInv, C!InTurn
<1>15. \A v \in owed : C!SafeBut(NoMessage, v)
  BY <1>11 DEF ComposeInv, C!Accounted
<1>16. excused \subseteq excused'
  BY <1>2
<1>17. \A v \in owed' : C!SafeBut(NoMessage, v)'
  BY <1>3, <1>15, <1>16, SafeSame
<1>18. c.key \in DOMAIN drafts =>
         dlg.text = drafts[c.key].text
         /\ (dlg.text \in excused \/ dlg.atts \cup c.left = drafts[c.key].atts)
  BY <1>3 DEF ComposeInv, C!Accounted
<1>19. c.key \in DOMAIN drafts =>
         dlg'.text = drafts[c.key].text
         /\ (dlg'.text \in excused' \/ dlg'.atts \cup (c.left \ {f}) = drafts[c.key].atts)
  BY <1>1, <1>2, <1>7, <1>8, <1>16, <1>18
<1>20. C!Accounted'
  <2>1. CASE c.left \ {f} # {}
    <3>1. calls' = {d(f)} /\ C!Loading'
      BY <1>9, <1>11, <2>1
    <3>. QED  BY <1>3, <1>6, <1>8, <1>11, <1>17, <1>19, <3>1 DEF C!Accounted
  <2>2. CASE c.left \ {f} = {}
    <3>1. dlg' = C!Start(e) /\ calls' = {} /\ ~ C!Loading'
      BY <1>2, <1>9, <1>11, <2>2
    <3>2. /\ dlg'.start[1] = dlg'.text /\ dlg'.start[3] = C!Cardinality(dlg'.atts)
          /\ C!Cardinality(dlg'.atts) \in Nat
          /\ C!Version(dlg') = [text |-> e.text, files |-> C!Cardinality(e.atts)]
      BY <1>5, <1>8, <3>1, StartedIs
    <3>3. dlg'.text \in 0 .. typed'
      BY <1>3, <1>8, DialogIs DEF ComposeInv, C!TextsKnown, C!TypeOK, C!Text
    <3>4. \A v \in owed' : C!SafeBut(dlg.draftKey, v)' \/ v = C!Version(dlg')
      <4>. SUFFICES ASSUME NEW v \in owed
                    PROVE  C!SafeBut(dlg.draftKey, v)' \/ v = C!Version(dlg')
        BY <1>3
      <4>1. c.key \in DOMAIN drafts /\ v = C!Version(drafts[c.key]) =>
              v.text \in excused' \/ v = C!Version(dlg')
        <5>. SUFFICES ASSUME c.key \in DOMAIN drafts, v = C!Version(drafts[c.key])
                      PROVE  v.text \in excused' \/ v = C!Version(dlg')
          OBVIOUS
        <5>1. v = [text |-> drafts[c.key].text, files |-> C!Cardinality(drafts[c.key].atts)]
              /\ v.text = dlg'.text
          BY <1>19 DEF C!Version
        <5>2. CASE dlg'.text \in excused'
          BY <5>1, <5>2
        <5>3. CASE dlg'.text \notin excused'
          <6>1. dlg'.atts = drafts[c.key].atts
            BY <1>19, <2>2, <5>3
          <6>. QED  BY <1>5, <1>8, <1>19, <3>2, <5>1, <6>1
        <5>. QED  BY <5>2, <5>3
      <4>2. v.text \in excused => v.text \in excused'
        BY <1>16
      <4>3. v.text \in excused \/ (\E x \in DOMAIN drafts : C!Version(drafts[x]) = v)
            \/ (\E m \in sent : C!Version(m) = v)
        BY <1>15 DEF C!SafeBut
      <4>. QED  BY <1>3, <1>8, <4>1, <4>2, <4>3 DEF C!SafeBut
    <3>5. \A v \in owed' : v = C!Begun' => C!SafeBut(NoMessage, v)'
      BY <1>17
    <3>. QED  BY <1>8, <1>11, <3>1, <3>2, <3>3, <3>4, <3>5 DEF C!Accounted
  <2>. QED  BY <2>1, <2>2
<1>. QED  BY <1>10, <1>12, <1>13, <1>14, <1>20 DEF ComposeInv

LEMMA ComposeNext ==
  ASSUME C!Constants, Patient, ComposeInv, [C!Next]_C!vars PROVE ComposeInv'
<1>1. CASE UNCHANGED C!vars
  BY <1>1 DEF C!vars, ComposeInv, C!TypeOK, C!KeysFresh, C!Given, C!Asked, C!TextsKnown, C!InTurn,
              C!Accounted, C!Loading, C!Landed, C!SafeBut, C!Begun, C!Version, C!Read, C!Named
<1>2. CASE C!Next
  <2>1. CASE \E k \in Incoming \cup DOMAIN drafts : C!Click(k)
    BY <2>1, ClickKeeps
  <2>2. CASE \E mode \in {"new", "reply", "forward"} : C!Compose(mode)
    BY <2>2, ComposeKeeps
  <2>3. CASE C!Edit
    BY <2>3, EditKeeps
  <2>4. CASE C!Save \/ C!Send
    BY <2>4, SavingKeeps
  <2>5. CASE C!Close
    BY <2>5, CloseKeeps
  <2>6. CASE \E b \in BOOLEAN, S \in SUBSET dlg.atts : C!Write(b, S)
    BY <2>6, WriterKeeps
  <2>7. CASE \E f \in File : C!Attach(f)
    BY <2>7, AttachKeeps
  <2>8. CASE \E c \in calls : C!StoreDraft(c) \/ C!Deliver(c)
    BY <2>8, StoreKeeps, DeliverKeeps
  <2>9. CASE \E c \in calls : C!Shown(c) \/ C!Fetched(c) \/ C!Saved(c) \/ C!Out(c)
    BY <2>9, ShownKeeps, FetchedKeeps, SavedKeeps
  <2>10. CASE C!Leave
    BY <2>10, LeaveKeeps
  <2>. QED  BY <1>2, <2>1, <2>2, <2>3, <2>4, <2>5, <2>6, <2>7, <2>8, <2>9, <2>10 DEF C!Next
<1>. QED  BY SMTT(30), <1>1, <1>2

LEMMA AccountedIsKept == ASSUME ComposeInv PROVE C!WrittenIsKept
<1>. SUFFICES ASSUME NEW v \in owed
              PROVE  \/ v.text \in excused
                     \/ dlg.open /\ C!Has(v, dlg)
                     \/ \E c \in calls : /\ c.kind \in {"save", "send"} /\ c.at = "asked"
                                         /\ C!Has(v, c.body)
                     \/ \E k \in DOMAIN drafts : C!Has(v, drafts[k])
                     \/ \E m \in sent : C!Has(v, m)
  BY DEF C!WrittenIsKept
<1>1. v.files \in Int
  BY DEF ComposeInv, C!TypeOK
<1>2. \A x : C!Version(x) = v => C!Has(v, x)
  <2>1. \A x : C!Version(x) = v => x.text = v.text /\ C!Cardinality(x.atts) = v.files
    BY DEF C!Version
  <2>. QED  BY <1>1, <2>1 DEF C!Has
<1>3. \A k : C!SafeBut(k, v) => \/ v.text \in excused
                                \/ \E x \in DOMAIN drafts : C!Has(v, drafts[x])
                                \/ \E m \in sent : C!Has(v, m)
  BY <1>2 DEF C!SafeBut
<1>4. CASE C!Asked # {}
  <2>. PICK c \in C!Asked : TRUE
    BY <1>4
  <2>1. C!SafeBut(c.body.draftKey, v) \/ v = C!Version(c.body)
    BY DEF ComposeInv, C!Accounted
  <2>. QED  BY <1>2, <1>3, <2>1 DEF C!Asked
<1>5. CASE C!Asked = {}
  <2>1. \/ C!SafeBut(NoMessage, v)
        \/ dlg.open /\ (C!SafeBut(dlg.draftKey, v) \/ v = C!Version(dlg))
    BY <1>5 DEF ComposeInv, C!Accounted
  <2>. QED  BY <1>2, <1>3, <2>1
<1>. QED  BY <1>4, <1>5

\* The invariant of the dialog: what is owed is safe where the writer may lose it.
LEMMA ComposeStays == ASSUME Patient PROVE CoreSpec => []ComposeInv
<1>1. C!Constants
  BY CoreAssumption
<1>2. C!Init => ComposeInv
  BY <1>1, ComposeInit
<1>3. ComposeInv /\ [C!Next]_C!vars => ComposeInv'
  BY <1>1, ComposeNext
<1>. QED  BY <1>2, <1>3, ComposePart, PTL DEF C!Spec

\* Somebody who waits for each answer loses nothing they have written (web/send.go
\* draftRoute, sendRoute; web/assets/inbox.html saveDraft, editDraft).
THEOREM NothingWrittenIsLost == ASSUME Patient PROVE CoreSpec => []WrittenIsKept
<1>1. ComposeInv => WrittenIsKept
  BY AccountedIsKept DEF WrittenIsKept
<1>. QED  BY <1>1, ComposeStays, PTL

\* Whoever writes, however hastily: what is left is noted, and stays noted.
LEMMA AstrayGrows == ASSUME [C!Next]_C!vars PROVE astray \subseteq astray'
<1>1. \A S, k : C!Strays(S, k) => astray \subseteq astray'
  BY DEF C!Strays
<1>2. CASE \/ \E k \in Incoming \cup DOMAIN drafts : C!Click(k)
           \/ C!Leave
  BY <1>1, <1>2 DEF C!Click, C!Choose, C!Leave
<1>3. CASE \/ \E mode \in {"new", "reply", "forward"} : C!Compose(mode)
           \/ C!Edit \/ C!Save \/ C!Close \/ C!Send
           \/ \E b \in BOOLEAN, S \in SUBSET dlg.atts : C!Write(b, S)
           \/ \E f \in File : C!Attach(f)
  BY <1>3 DEF C!Compose, C!Edit, C!Save, C!Close, C!Send, C!Write, C!Attach, C!Change, C!history
<1>4. CASE \E c \in calls : C!StoreDraft(c) \/ C!Deliver(c)
  BY <1>1, <1>4 DEF C!StoreDraft, C!Deliver
<1>5. CASE \E c \in calls : C!Shown(c) \/ C!Fetched(c) \/ C!Saved(c) \/ C!Out(c)
  BY <1>5 DEF C!Shown, C!Fetched, C!Saved, C!Out, C!history
<1>6. CASE UNCHANGED C!vars
  BY <1>6 DEF C!vars
<1>. QED  BY <1>2, <1>3, <1>4, <1>5, <1>6 DEF C!Next

\* As long as nothing else is clicked: what is shown has been clicked, what is
\* answered was shown, and a request takes along what the dialog holds.
LEMMA StraightKept ==
  ASSUME StraightInv, C!TypeOK', astray \subseteq astray', UNCHANGED current,
         view'.key = view.key \/ view'.key \in C!Coming,
         dlg'.open /\ dlg'.mode # "new" =>
           \/ dlg.open /\ dlg.mode = dlg'.mode /\ dlg.quotes = dlg'.quotes
           \/ dlg'.quotes = view.key /\ view.key \in Incoming,
         \A d \in calls' :
           IF d.kind \in {"open", "files"} THEN d.kind = "open" => d \in calls
           ELSE \/ \E c \in calls : c.kind = d.kind /\ c.body = d.body
                \/ dlg.open /\ d.body = C!Body,
         \A m \in sent' \ sent :
           /\ "bcc" \notin m.header /\ ("bcc" \in m.envelope <=> m.bcc)
           /\ m.mode = "reply" => C!Follows(m.quotes, m.thread)'
           /\ m.mode = "forward" => C!Follows(m.quotes, m.eml)'
  PROVE  StraightInv'
<1>1. \A q, k : C!Follows(q, k) => C!Follows(q, k)'
  BY DEF C!Follows
<1>2. C!Straight /\ C!SentAsWritten /\ C!TypeOK
  BY DEF StraightInv
<1>3. C!SentAsWritten'
  BY <1>1, <1>2 DEF C!SentAsWritten
<1>4. view'.key \in Incoming => C!Follows(view.key, current)'
  <2>1. view'.key \in Incoming => C!Follows(view'.key, current)
    BY <1>2 DEF C!Straight
  <2>. QED  BY <2>1 DEF C!Follows
<1>5. \A k \in C!Coming' : k \in Incoming => C!Follows(k, current)'
  <2>1. \A d \in calls' : d.kind = "open" => \E c \in calls : c.kind = "open" /\ c.key = d.key
    <3>. SUFFICES ASSUME NEW d \in calls', d.kind = "open"
                  PROVE  \E c \in calls : c.kind = "open" /\ c.key = d.key
      OBVIOUS
    <3>. QED  BY <1>2 DEF C!Straight
  <2>. QED  BY <1>1, <1>2, <2>1 DEF C!Straight, C!Coming
<1>6. \A q \in C!Answered' : q \in Incoming /\ C!Follows(q, current)'
  <2>1. dlg'.open /\ dlg'.mode # "new" => dlg'.quotes \in Incoming /\ C!Follows(dlg'.quotes, current)
    BY <1>2 DEF C!Straight, C!Answered
  <2>. QED  BY <1>1, <2>1 DEF C!Answered
<1>7. \A d \in calls' : d.kind \in {"save", "send"} /\ d.body.mode # "new" =>
        d.body.quotes \in Incoming /\ C!Follows(d.body.quotes, d.body.key)'
  <2>. SUFFICES ASSUME NEW d \in calls', d.kind \in {"save", "send"}, d.body.mode # "new"
                PROVE  d.body.quotes \in Incoming /\ C!Follows(d.body.quotes, d.body.key)
    BY <1>1
  <2>1. CASE \E c \in calls : c.kind = d.kind /\ c.body = d.body
    <3>. PICK c \in calls : c.kind = d.kind /\ c.body = d.body
      BY <2>1
    <3>1. c.kind \in {"save", "send"} /\ c.body.mode # "new"
      OBVIOUS
    <3>. QED  BY <1>2, <3>1 DEF C!Straight
  <2>2. CASE dlg.open /\ d.body = C!Body
    <3>1. /\ C!Body.mode = dlg.mode /\ C!Body.quotes = dlg.quotes
          /\ C!Body.mode # "new" => C!Body.key = current
      BY <1>2, BodyOf
    <3>. QED  BY <1>2, <2>2, <3>1 DEF C!Straight, C!Answered
  <2>. QED  BY <2>1, <2>2
<1>. QED  BY <1>3, <1>4, <1>5, <1>6, <1>7 DEF StraightInv, C!Straight

LEMMA StraightInit == ASSUME C!Constants, C!Init PROVE StraightInv
<1>1. C!TypeOK
  BY ComposeInit DEF ComposeInv
<1>2. sent = {} /\ view.key = NoMessage /\ calls = {} /\ ~ dlg.open /\ NoMessage \notin Incoming
  BY DEF C!Init, C!Nothing, C!Closed, C!Constants
<1>. QED  BY <1>1, <1>2 DEF StraightInv, C!Straight, C!SentAsWritten, C!Coming, C!Answered

\* Another message is clicked, or none: what was there before is noted as left.
LEMMA ClickStraight ==
  ASSUME C!Constants, StraightInv, C!TypeOK', NEW k \in Incoming \cup DOMAIN drafts, C!Click(k)
  PROVE  StraightInv'
<1>. DEFINE c == [at |-> "asked", id |-> called, kind |-> "open", key |-> k]
<1>1. /\ ~ dlg.open /\ current' = k /\ view' = C!Nothing /\ C!Strays(C!Coming, k)
      /\ calls' = calls \cup {c} /\ UNCHANGED <<dlg, sent>>
  BY DEF C!Click, C!Choose, C!Call, C!server
<1>2. astray \subseteq astray' /\ \A x \in C!Coming : x \in Incoming => <<x, k>> \in astray'
  BY <1>1 DEF C!Strays
<1>3. view'.key \notin Incoming
  BY <1>1 DEF C!Nothing, C!Constants
<1>4. C!Coming' = C!Coming \cup {k} /\ c.kind = "open"
  <2>1. c.kind = "open" /\ c.key = k
    OBVIOUS
  <2>. HIDE DEF c
  <2>. QED  BY <1>1, <2>1 DEF C!Coming
<1>. HIDE DEF c
<1>5. \A q, n : C!Follows(q, n) => C!Follows(q, n)'
  BY <1>2 DEF C!Follows
<1>6. C!Straight /\ C!SentAsWritten
  BY DEF StraightInv
<1>7. C!SentAsWritten'
  BY <1>1, <1>5, <1>6 DEF C!SentAsWritten
<1>8. \A x \in C!Coming' : x \in Incoming => C!Follows(x, current)'
  BY <1>1, <1>2, <1>4 DEF C!Follows
<1>9. \A d \in calls' : d.kind \in {"save", "send"} /\ d.body.mode # "new" =>
        d.body.quotes \in Incoming /\ C!Follows(d.body.quotes, d.body.key)'
  BY <1>1, <1>4, <1>5, <1>6 DEF C!Straight
<1>10. C!Answered' = {}
  BY <1>1 DEF C!Answered
<1>. QED  BY <1>3, <1>7, <1>8, <1>9, <1>10 DEF StraightInv, C!Straight

LEMMA LeaveStraight ==
  ASSUME C!Constants, StraightInv, C!TypeOK', C!Leave
  PROVE  StraightInv'
<1>1. /\ current' = NoMessage /\ UNCHANGED <<dlg, sent, calls>>
      /\ C!Strays(C!Coming \cup C!Answered \cup {view'.key}, NoMessage)
  BY DEF C!Leave, C!server
<1>2. astray \subseteq astray' /\ \A x \in C!Coming \cup C!Answered \cup {view'.key} :
        x \in Incoming => <<x, NoMessage>> \in astray'
  BY <1>1 DEF C!Strays
<1>3. C!Coming' = C!Coming /\ C!Answered' = C!Answered
  BY <1>1 DEF C!Coming, C!Answered
<1>4. \A q, n : C!Follows(q, n) => C!Follows(q, n)'
  BY <1>2 DEF C!Follows
<1>5. C!Straight /\ C!SentAsWritten
  BY DEF StraightInv
<1>6. C!SentAsWritten'
  BY <1>1, <1>4, <1>5 DEF C!SentAsWritten
<1>7. \A x \in C!Coming \cup C!Answered \cup {view'.key} :
        x \in Incoming => C!Follows(x, current)'
  BY <1>1, <1>2 DEF C!Follows
<1>8. \A q \in C!Answered' : q \in Incoming
  BY <1>3, <1>5 DEF C!Straight
<1>9. \A d \in calls' : d.kind \in {"save", "send"} /\ d.body.mode # "new" =>
        d.body.quotes \in Incoming /\ C!Follows(d.body.quotes, d.body.key)'
  BY <1>1, <1>4, <1>5 DEF C!Straight
<1>. QED  BY <1>3, <1>6, <1>7, <1>8, <1>9 DEF StraightInv, C!Straight

\* A message goes out as the request says, but for what cannot be fetched.
LEMMA DeliverStraight ==
  ASSUME C!Constants, StraightInv, C!TypeOK', astray \subseteq astray', NEW c \in calls,
         C!Deliver(c)
  PROVE  StraightInv'
<1>1. /\ c.kind = "send" /\ UNCHANGED <<current, view, dlg>> /\ c \in C!Requests
      /\ calls \subseteq C!Requests
  BY DEF C!Deliver, StraightInv, C!TypeOK
<1>2. c.body \in C!Bodies
  BY <1>1, CallIs
<1>3. /\ c.body.key \in C!Ref /\ NoMessage \in C!Ref
      /\ c.body.mode # "new" =>
           c.body.quotes \in Incoming /\ C!Follows(c.body.quotes, c.body.key)'
  <2>1. \A q, k : C!Follows(q, k) => C!Follows(q, k)'
    BY DEF C!Follows
  <2>. QED  BY <1>1, <1>2, <2>1 DEF C!Bodies, C!Ref, StraightInv, C!Straight
<1>4. \A a \in {"ok", "failed"} : C!Becomes(c, [c EXCEPT !.at = a]) =>
        \A d \in calls' : d \in calls \/ (d.kind = c.kind /\ d.body = c.body)
  BY <1>1, AnswerTakes
<1>5. /\ \A d \in calls' : d \in calls \/ (d.kind = c.kind /\ d.body = c.body)
      /\ \/ UNCHANGED sent
         \/ \E raw \in {c.body.key, NoMessage} :
              /\ raw # c.body.key => C!Strays({c.body.quotes}, NoMessage)
              /\ sent' = sent \cup {C!Build(c.body, c.body.key, raw, FALSE)}
  BY <1>4 DEF C!Deliver, C!Fails, C!server
<1>6. \A m \in sent' \ sent :
        /\ "bcc" \notin m.header /\ ("bcc" \in m.envelope <=> m.bcc)
        /\ m.mode = "reply" => C!Follows(m.quotes, m.thread)'
        /\ m.mode = "forward" => C!Follows(m.quotes, m.eml)'
  <2>. SUFFICES ASSUME NEW m \in sent' \ sent
                PROVE  /\ "bcc" \notin m.header /\ ("bcc" \in m.envelope <=> m.bcc)
                       /\ m.mode = "reply" => C!Follows(m.quotes, m.thread)'
                       /\ m.mode = "forward" => C!Follows(m.quotes, m.eml)'
    OBVIOUS
  <2>. PICK raw \in {c.body.key, NoMessage} :
         /\ raw # c.body.key => C!Strays({c.body.quotes}, NoMessage)
         /\ m = C!Build(c.body, c.body.key, raw, FALSE)
    BY <1>5
  <2>1. raw \in C!Ref /\ FALSE \in BOOLEAN
    BY <1>3
  <2>2. /\ "bcc" \notin m.header /\ ("bcc" \in m.envelope <=> m.bcc)
        /\ m.mode = c.body.mode /\ m.quotes = c.body.quotes
        /\ m.mode = "reply" => m.thread = c.body.key
        /\ m.mode = "forward" => m.eml = raw
    <3>. DEFINE b == c.body
                k == b.key
                n == C!Build(b, k, raw, FALSE)
    <3>1. b \in C!Bodies /\ k \in C!Ref /\ m = n
      BY <1>2, <1>3
    <3>. HIDE DEF b, k
    <3>2. "bcc" \notin n.header /\ ("bcc" \in n.envelope <=> n.bcc)
      BY <2>1, <3>1, BuildOf
    <3>3. /\ n.mode = b.mode /\ n.quotes = b.quotes
          /\ b.mode = "reply" => n.thread = k
          /\ b.mode = "forward" => n.eml = raw
      BY DEF C!Build
    <3>. HIDE DEF n
    <3>. QED  BY <3>1, <3>2, <3>3 DEF b, k
  <2>3. m.mode = "reply" => C!Follows(m.quotes, m.thread)'
    BY <1>3, <2>2
  <2>4. m.mode = "forward" => C!Follows(m.quotes, m.eml)'
    <3>1. CASE raw = c.body.key
      BY <1>3, <2>2, <3>1
    <3>2. CASE raw # c.body.key
      <4>1. c.body.quotes \in Incoming => <<c.body.quotes, NoMessage>> \in astray'
        BY <3>2 DEF C!Strays
      <4>. QED  BY <1>3, <2>2, <3>2, <4>1 DEF C!Follows
    <3>. QED  BY <3>1, <3>2
  <2>. QED  BY <2>2, <2>3, <2>4
<1>7. \A d \in calls' :
        IF d.kind \in {"open", "files"} THEN d.kind = "open" => d \in calls
        ELSE \/ \E b \in calls : b.kind = d.kind /\ b.body = d.body
             \/ dlg.open /\ d.body = C!Body
  BY <1>1, <1>5
<1>. QED  BY <1>1, <1>6, <1>7, StraightKept

LEMMA StraightNext ==
  ASSUME C!Constants, StraightInv, [C!Next]_C!vars PROVE StraightInv'
<1>1. C!TypeOK /\ C!TypeOK' /\ astray \subseteq astray'
  BY ComposeTypes, AstrayGrows DEF StraightInv
<1>2. dlg \in C!Dialogs /\ calls \subseteq C!Requests
  BY <1>1 DEF C!TypeOK
<1>. DEFINE Taken(d) ==
              IF d.kind \in {"open", "files"} THEN d.kind = "open" => d \in calls
              ELSE \/ \E c \in calls : c.kind = d.kind /\ c.body = d.body
                   \/ dlg.open /\ d.body = C!Body
            Still == dlg'.open /\ dlg'.mode # "new" =>
                      dlg.open /\ dlg.mode = dlg'.mode /\ dlg.quotes = dlg'.quotes
<1>3. \A d \in calls : Taken(d)
  OBVIOUS
<1>4. ASSUME UNCHANGED <<current, sent>>, view'.key = view.key \/ view'.key \in C!Coming,
             Still, \A d \in calls' : Taken(d)
      PROVE  StraightInv'
  BY <1>1, <1>4, StraightKept
<1>5. CASE UNCHANGED C!vars
  BY <1>3, <1>4, <1>5 DEF C!vars
<1>6. CASE \E k \in Incoming \cup DOMAIN drafts : C!Click(k)
  BY <1>1, <1>6, ClickStraight
<1>7. CASE C!Leave
  BY <1>1, <1>7, LeaveStraight
<1>8. CASE \E mode \in {"new", "reply", "forward"} : C!Compose(mode)
  <2>. PICK mode \in {"new", "reply", "forward"} : C!Compose(mode)
    BY <1>8
  <2>. DEFINE q == IF mode = "new" THEN NoMessage ELSE view.key
              d == [C!Closed EXCEPT !.open = TRUE, !.mode = mode, !.text = typed', !.quotes = q]
  <2>1. /\ dlg' = C!Start(d) /\ UNCHANGED <<current, sent, view, calls>>
        /\ mode # "new" => view.key \in Incoming
    BY DEF C!Compose, C!server
  <2>2. dlg'.mode = mode /\ dlg'.quotes = q
    BY <2>1 DEF C!Start, C!Closed
  <2>. HIDE DEF d
  <2>. QED  BY <1>1, <1>3, <2>1, <2>2, StraightKept
<1>9. CASE C!Edit
  <2>. DEFINE d == [C!Closed EXCEPT !.open = TRUE, !.draftKey = view.key,
                      !.start = C!State(C!Blank), !.text = view.mail.text,
                      !.quotes = view.mail.quotes, !.bcc = view.mail.bcc]
  <2>1. /\ UNCHANGED <<current, sent, view>>
        /\ dlg' = d \/ dlg' = C!Start(d)
        /\ \A c \in calls' : c \in calls \/ c.kind = "files"
    BY <1>9 DEF C!Edit, C!Call, C!server
  <2>2. dlg'.mode = "new"
    BY <2>1 DEF C!Start, C!Closed
  <2>. HIDE DEF d
  <2>3. Still /\ \A c \in calls' : Taken(c)
    BY <1>3, <2>1, <2>2
  <2>. QED  BY <1>4, <2>1, <2>3
<1>10. CASE C!Save \/ C!Close \/ C!Send
  <2>1. /\ UNCHANGED <<current, sent, view>> /\ dlg.open
        /\ dlg' = dlg \/ dlg' = C!Shut(dlg)
        /\ \A d \in calls' : d \in calls \/ (d.kind \in {"save", "send"} /\ d.body = C!Body)
    BY <1>10 DEF C!Save, C!Close, C!Send, C!SaveCall, C!Call, C!server
  <2>2. Still
    BY <1>2, <2>1, ShutOf
  <2>3. \A d \in calls' : Taken(d)
    BY <1>3, <2>1
  <2>. QED  BY <1>4, <2>1, <2>2, <2>3
<1>11. CASE \/ \E b \in BOOLEAN, S \in SUBSET dlg.atts : C!Write(b, S)
            \/ \E f \in File : C!Attach(f)
  <2>1. UNCHANGED <<current, sent, view, calls>> /\ dlg.open
    BY <1>11 DEF C!Write, C!Attach, C!Change, C!server
  <2>2. dlg'.mode = dlg.mode /\ dlg'.quotes = dlg.quotes
    BY <1>2, <1>11 DEF C!Write, C!Attach, C!Change, C!Dialogs
  <2>. QED  BY <1>3, <1>4, <2>1, <2>2
<1>12. CASE \E c \in calls : C!StoreDraft(c)
  <2>. PICK c \in calls : C!StoreDraft(c)
    BY <1>12
  <2>1. c.kind = "save" /\ UNCHANGED <<current, sent, view, dlg>>
    BY DEF C!StoreDraft, C!Fails, C!server
  <2>2. c \in C!Requests
    BY <1>2
  <2>3. \A d \in calls' : d \in calls \/ (d.kind = c.kind /\ d.body = c.body)
    BY <2>1, <2>2, AnswerTakes DEF C!StoreDraft, C!Fails
  <2>4. \A d \in calls' : Taken(d)
    BY <1>3, <2>1, <2>3
  <2>. QED  BY <1>4, <2>1, <2>4
<1>13. CASE \E c \in calls : C!Deliver(c)
  BY <1>1, <1>13, DeliverStraight
<1>14. CASE \E c \in calls : C!Shown(c)
  <2>. PICK c \in calls : C!Shown(c)
    BY <1>14
  <2>1. /\ UNCHANGED <<current, sent, dlg>> /\ calls' \subseteq calls /\ c.kind = "open"
        /\ view' = view \/ view'.key = c.key
    BY DEF C!Shown, C!Done, C!server
  <2>2. c.key \in C!Coming
    BY <2>1 DEF C!Coming
  <2>. QED  BY <1>3, <1>4, <2>1, <2>2
<1>15. CASE \E c \in calls : C!Fetched(c)
  <2>. PICK c \in calls : C!Fetched(c)
    BY <1>15
  <2>. PICK f \in c.left :
         /\ C!Done(c) \/ C!Becomes(c, [c EXCEPT !.left = c.left \ {f}])
         /\ \E e \in {[dlg EXCEPT !.atts = @ \cup {f}], dlg} : dlg' = e \/ dlg' = C!Start(e)
    BY DEF C!Fetched
  <2>1. c.kind = "files" /\ UNCHANGED <<current, sent, view>>
    BY DEF C!Fetched, C!server
  <2>2. c \in C!Requests /\ c.left \in SUBSET File
    BY <1>2, <2>1, CallIs
  <2>3. \A d \in calls' : Taken(d)
    <3>. DEFINE e == [c EXCEPT !.left = c.left \ {f}]
    <3>1. e.kind = "files"
      <4>1. c.left \ {f} \in SUBSET File
        BY <2>2
      <4>. QED  BY <2>1, <2>2, <4>1, LeftIs
    <3>2. \A d \in calls' : d \in calls \/ d = e
      BY DEF C!Done, C!Becomes
    <3>. HIDE DEF e
    <3>. QED  BY <1>3, <3>1, <3>2
  <2>4. Still
    <3>. PICK e \in {[dlg EXCEPT !.atts = @ \cup {f}], dlg} : dlg' = e \/ dlg' = C!Start(e)
      OBVIOUS
    <3>1. e.open = dlg.open /\ e.mode = dlg.mode /\ e.quotes = dlg.quotes /\ e \in C!Dialogs
      <4>1. {f} \in SUBSET File
        BY <2>2
      <4>. QED  BY <1>2, <4>1 DEF C!Dialogs
    <3>. QED  BY <3>1, StartOf
  <2>. QED  BY <1>4, <2>1, <2>3, <2>4
<1>16. CASE \E c \in calls : C!Saved(c) \/ C!Out(c)
  <2>. PICK c \in calls : C!Saved(c) \/ C!Out(c)
    BY <1>16
  <2>. DEFINE e == [dlg EXCEPT !.draftKey = c.id]
  <2>1. /\ UNCHANGED <<current, sent, view>> /\ calls' \subseteq calls
        /\ \E d \in {e, dlg} : dlg' = dlg \/ dlg' = C!Start(d) \/ dlg' = C!Shut(C!Start(d))
    BY DEF C!Saved, C!Out, C!Done, C!server, C!history
  <2>2. c.id \in C!Ref
    BY <1>2, CallIs DEF C!Ref
  <2>3. /\ e \in C!Dialogs /\ e.open = dlg.open /\ e.mode = dlg.mode /\ e.quotes = dlg.quotes
    BY <1>2, <2>2, KeyedIs
  <2>. HIDE DEF e
  <2>4. \A d \in {e, dlg} :
          /\ C!Start(d) \in C!Dialogs /\ C!Start(d).open = dlg.open
          /\ C!Start(d).mode = dlg.mode /\ C!Start(d).quotes = dlg.quotes
    BY <1>2, <2>3, StartOf
  <2>5. \A d \in {e, dlg} :
          /\ ~ C!Shut(C!Start(d)).open
    BY <2>4, ShutOf
  <2>6. Still
    BY <2>1, <2>4, <2>5
  <2>. QED  BY <1>3, <1>4, <2>1, <2>6
<1>. QED  BY <1>5, <1>6, <1>7, <1>8, <1>9, <1>10, <1>11, <1>12, <1>13, <1>14, <1>15, <1>16 DEF C!Next

\* Whatever is clicked while it is written or on its way, what goes out hangs on
\* the message that it quotes, or carries it, or that message was left before;
\* and it names no blind copies (web/assets/inbox.html open, compose, draftBody;
\* web/send.go sendRoute; mailer/send.go Build).
THEOREM WhatIsWrittenIsSent == CoreSpec => []SentAsWritten
<1>1. C!Init => StraightInv
  BY CoreAssumption, StraightInit
<1>2. StraightInv /\ [C!Next]_C!vars => StraightInv'
  BY CoreAssumption, StraightNext
<1>3. StraightInv => SentAsWritten
  BY DEF StraightInv, SentAsWritten
<1>. QED  BY <1>1, <1>2, <1>3, ComposePart, PTL DEF C!Spec

\* However hasty they are, the dialog and the drafts are well formed.
THEOREM DialogsAreWellFormed == CoreSpec => []C!TypeOK
<1>1. C!Init => C!TypeOK
  BY CoreAssumption, ComposeInit DEF ComposeInv
<1>2. C!TypeOK /\ [C!Next]_C!vars => C!TypeOK'
  BY CoreAssumption, ComposeTypes
<1>. QED  BY <1>1, <1>2, ComposePart, PTL DEF C!Spec

-----------------------------------------------------------------------------
(* The documents, the desk and its pages.                                    *)

LEMMA DocsPart == CoreSpec => DocSpec
<1>1. CoreInit => DocInit
  BY DEF CoreInit
<1>2. [CoreNext]_<<vars, docs, disk, writing, assistant, part>> => [DocNext]_docs
  BY DEF CoreNext, docs
<1>. QED  BY <1>1, <1>2, PTL DEF CoreSpec, DocSpec

\* Every operation made twice is the operation made once, and machines that have
\* every operation agree on what they say, whichever files and snapshots they
\* started from (core/state.go Apply and MergeMissing, store/state.go Load).
THEOREM MachinesConverge == CoreSpec => []DocTypeOK /\ []OpsConverge
<1>1. DocConstants
  BY CoreAssumption
<1>2. DocSpec => []DocTypeOK /\ []OpsIdempotent /\ []LoadAgrees
  BY <1>1, DocumentsConverge
<1>3. OpsIdempotent /\ LoadAgrees => OpsConverge
  BY DEF OpsConverge
<1>. QED  BY <1>2, <1>3, DocsPart, PTL

LEMMA DeskPart == CoreSpec => Spec
<1>1. CoreInit => Init
  BY DEF CoreInit
<1>2. [CoreNext]_<<vars, docs, disk, writing, assistant, part>> => [Next]_vars
  BY DEF CoreNext
<1>. QED  BY <1>1, <1>2, PTL DEF CoreSpec, Spec

\* What somebody has decided stands: rules that have run find nothing more to do,
\* whatever one moves by hand afterwards; a suggestion one accepts is not made
\* again and moves nothing that agrees with it; an import overrules no rule in
\* force; and saving one search costs no other (core/rules.go, suggest.go,
\* portable.go, filters.go).
THEOREM WhatIsDecidedStands == CoreSpec => []DecisionsStand
<1>1. RulesSettle /\ SuggestionSettles /\ ImportKeepsDecisions /\ FiltersStay => DecisionsStand
  BY DEF DecisionsStand
<1>. QED  BY <1>1, DeskPart, DecisionsHold, PTL

\* What the pages show of one index agrees: the sidebar counts what opening a
\* folder or searching for it by name lists, mail that is called waiting has no
\* answer in its conversations, and the contacts offered are the first of those
\* that fit, by how often and how late the index names them, as many as were
\* asked for, each under a name it has signed with (core/folder.go, search.go,
\* followup.go, contacts.go; web/server.go /api/addresses).
THEOREM PagesShowOneIndex == CoreSpec => []PagesOfDesk
<1>1. PagesAgree => PagesOfDesk
  BY DEF PagesOfDesk
<1>. QED  BY <1>1, DeskPart, PagesAgreeAlways, PTL

-----------------------------------------------------------------------------
(* All parts together.                                                       *)

LEMMA PartStays == CoreSpec => [](part \in {"desk", "docs", "disk", "writing", "assistant"})
<1>1. CoreInit => part \in {"desk", "docs", "disk", "writing", "assistant"}
  BY DEF CoreInit
<1>2. ASSUME part \in {"desk", "docs", "disk", "writing", "assistant"},
             [CoreNext]_<<vars, docs, disk, writing, assistant, part>>
      PROVE  (part \in {"desk", "docs", "disk", "writing", "assistant"})'
  <2>1. part' = part
    BY <1>2 DEF CoreNext
  <2>. QED  BY <1>2, <2>1
<1>. QED  BY <1>1, <1>2, PTL DEF CoreSpec

\* Everything is well formed at all times, whichever part moves: the index and the
\* marks of the document, the ops, the cache, the drafts and the dialog, and the
\* bucket (core/state.go Data, store/bodycache.go, web/send.go, mcp/tools.go).
THEOREM EverythingIsWellFormed == CoreSpec => []CoreTypeOK
<1>1. TypeOK /\ A!TypeOK /\ B!TypeOK /\ C!TypeOK /\ DocTypeOK
        /\ part \in {"desk", "docs", "disk", "writing", "assistant"} => CoreTypeOK
  BY DEF CoreTypeOK
<1>. QED  BY <1>1, PartStays, DeskPart, TypeCorrect, AssistantLosesNothing, OpenedIsShown,
             DialogsAreWellFormed, MachinesConverge, PTL

=============================================================================
