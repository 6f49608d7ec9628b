-------------------------------- MODULE Bodies --------------------------------
(***************************************************************************)
(* Opening a message (store/mail.go Fetch, store/crypto.go) and the bodies *)
(* kept on disk (store/bodycache.go, store/cachecrypt.go).  The window and *)
(* the assistant are two programs over one bucket and one cache directory: *)
(* a lock orders the goroutines of a program, nothing orders the programs. *)
(*                                                                         *)
(* A message does not change while it lies in the bucket, moving it keeps  *)
(* its ETag, and its base name is its own: message, base name and ETag are *)
(* one.  The files are those of a POSIX system, where a rename takes along *)
(* the file another program still has open.                                *)
(***************************************************************************)
EXTENDS Integers, FiniteSetsExt, Functions

CONSTANTS
  Program,        \* programs that run on the machine
  Worker,         \* their goroutines that fetch
  ProgramOf,      \* worker -> its program
  Mail,           \* messages
  Enveloped,      \* those encrypted by a client
  Place,          \* folders
  Home,           \* message -> the folder it is in at first, or Gone
  Size, CacheMax, \* message -> size, and the limit of the cache
  CacheKeys,      \* the keys a program may start with; NoKey writes plain text
  NoKey,
  MaxFetch,       \* bound: messages fetched, and moved
  MaxFault        \* bound: calls that fail, and restarts

None == "none"     \* no ETag, no lock
Gone == "gone"

\* Every program seals what it writes.  What one that does not would show is in
\* the files of the others (store/cachecrypt.go).
Constants ==
  /\ ProgramOf \in [Worker -> Program] /\ Home \in [Mail -> Place \cup {Gone}]
  /\ Gone \notin Place /\ None \notin Worker /\ None \notin Mail
  /\ NoKey \notin CacheKeys
  /\ IsFiniteSet(Program) /\ IsFiniteSet(Mail) /\ Mail # {}
  /\ Size \in [Mail -> Nat] /\ CacheMax \in Nat

VARIABLES
  where,      \* the bucket: message -> its folder, or Gone
  files,      \* the cache directory: name -> [of, key, full]
  key,        \* program -> the key it seals with
  index,      \* program -> the keys it knows: <<message, folder>> -> ETag or None
  encrypted,  \* program -> it has met an encrypted message
  lock,       \* program -> the worker in the body cache, or None
  pc, mem,    \* worker -> its next step, and what it holds
  loose,      \* history: writes and cleanings broken off since the last cleaning
  fetched, spent  \* counters behind the bounds

bodies == <<files, lock, loose>>
vars == <<where, files, key, index, encrypted, lock, pc, mem, loose, fetched, spent>>

\* Names in the directory: what an ETag hashes to, and the same before it is whole.
Eml(m) == <<m, "eml">>
Tmp(m) == <<m, "tmp">>
Name   == Mail \X {"eml", "tmp"}
NoFile == <<>>
Unlinked == <<Gone>>
\* A body in hand: of which message, all of it or the beginning, and as what.
Form == {"plain", "envelope", "sealed"}
Body(m, whole, form) == [of |-> m, whole |-> whole, form |-> form]
NoBody == Body(None, FALSE, "plain")
Idle == [at |-> <<>>, head |-> FALSE, partial |-> FALSE, etag |-> None,
         body |-> NoBody, file |-> NoFile, faulty |-> FALSE]
Resting == {"idle", "done", "failed"}
Holding == {"write", "rename", "cleanup"}

P(w) == ProgramOf[w]
Goto(w, step, known) ==
  /\ pc' = [pc EXCEPT ![w] = step]
  /\ mem' = [mem EXCEPT ![w] = known]
Fault == spent < MaxFault /\ spent' = spent + 1
Without(f, S) == Restrict(f, DOMAIN f \ S)
Set(f, x, v)  == [y \in DOMAIN f \cup {x} |-> IF y = x THEN v ELSE f[y]]

\* Every fetch that ends, ends here; a header fetch was for the index, which
\* takes the ETag of the listing.
Finish(w, step, known) ==
  /\ Goto(w, step, known)
  /\ index' = IF known.head THEN [index EXCEPT ![P(w)] = Set(@, known.at, known.at[1])]
                            ELSE index

\* What a refresh lists: every message, and its ETag.
Listing == [at \in {<<m, where[m]>> : m \in {n \in Mail : where[n] # Gone}} |-> at[1]]

Init ==
  /\ where = Home /\ files = <<>>
  /\ key \in [Program -> CacheKeys]
  /\ index \in [Program -> {<<>>, Listing}]
  /\ encrypted = [p \in Program |-> FALSE]
  /\ lock = [p \in Program |-> None]
  /\ pc = [w \in Worker |-> "idle"] /\ mem = [w \in Worker |-> Idle]
  /\ loose = 0 /\ fetched = 0 /\ spent = 0

-----------------------------------------------------------------------------
(* Fetch. *)
\* The file as the program reads it: nothing, if it was sealed with another key
\* or is not whole; without a key, whatever lies there.
Opened(p, f) ==
  IF key[p] = NoKey
    THEN {Body(f.of, f.full, IF f.key = NoKey THEN "plain" ELSE "sealed")}
    ELSE {Body(f.of, TRUE, "plain") : k \in {key[p]} \cap {f.key} \cap (IF f.full THEN CacheKeys ELSE {})}
Read(p, etag) == IF Eml(etag) \in DOMAIN files THEN Opened(p, files[Eml(etag)]) ELSE {}

\* A message is opened (head FALSE) or its header is read for the index.  The
\* ETag is the index's; a message the index does not know has none.
Open(w, at, head) ==
  LET p    == P(w)
      etag == IF at \in DOMAIN index[p] THEN index[p][at] ELSE None
      call == [Idle EXCEPT !.at = at, !.head = head, !.etag = etag,
                           !.partial = head /\ ~encrypted[p]]
      hit  == IF head \/ etag = None THEN {} ELSE Read(p, etag)
  IN /\ pc[w] \in Resting /\ fetched < MaxFetch /\ fetched' = fetched + 1
     /\ \/ hit = {} /\ Goto(w, "get", call)
        \/ \E b \in hit : Goto(w, "done", [call EXCEPT !.body = b])
     /\ UNCHANGED <<where, bodies, key, index, encrypted, spent>>

\* What GET brings: the object, the beginning of it, or an error if it is not
\* there (any more) or the call fails.
Answer(w, partial, Then(_)) ==
  LET m == mem[w].at[1] IN
  \/ /\ where[m] = mem[w].at[2]
     /\ Then(Body(m, ~partial, IF m \in Enveloped THEN "envelope" ELSE "plain"))
     /\ UNCHANGED spent
  \/ /\ \/ where[m] # mem[w].at[2] /\ UNCHANGED spent
        \/ where[m] = mem[w].at[2] /\ Fault
     /\ Finish(w, "failed", [mem[w] EXCEPT !.faulty = TRUE])
     /\ UNCHANGED encrypted

\* Mutant: only who meets the first encrypted message reads again.
AgainIfFirst(w) == IF ~encrypted[P(w)] THEN "again" ELSE "decrypt"
\* After the first GET of an encrypted message: no fragments from here on.
Onwards(w) == IF mem[w].partial \/ ~encrypted[P(w)] THEN "again" ELSE "decrypt"

\* The body is in hand: what was asked for whole goes into the cache.
Got(w, b) ==
  LET known == [mem[w] EXCEPT !.body = b] IN
  IF known.head THEN Finish(w, "done", known)
                ELSE Goto(w, "put", known) /\ UNCHANGED index

Get(w) ==
  /\ pc[w] = "get"
  /\ Answer(w, mem[w].partial, LAMBDA b :
       IF b.form = "envelope"
         THEN /\ encrypted' = [encrypted EXCEPT ![P(w)] = TRUE]
              /\ Goto(w, Onwards(w), [mem[w] EXCEPT !.body = b])
              /\ UNCHANGED index
         ELSE Got(w, b) /\ UNCHANGED encrypted)
  /\ UNCHANGED <<where, bodies, key, fetched>>

Again(w) ==
  /\ pc[w] = "again"
  /\ Answer(w, FALSE, LAMBDA b :
       Goto(w, "decrypt", [mem[w] EXCEPT !.body = b]) /\ UNCHANGED <<index, encrypted>>)
  /\ UNCHANGED <<where, bodies, key, fetched>>

\* KMS unwraps the key - if it answers - and a fragment does not open.
Decrypt(w) ==
  LET b == mem[w].body IN
  /\ pc[w] = "decrypt"
  /\ \/ b.whole /\ Got(w, Body(b.of, TRUE, "plain")) /\ UNCHANGED spent
     \/ ~b.whole /\ Finish(w, "failed", mem[w]) /\ UNCHANGED spent
     \/ Fault /\ Finish(w, "failed", [mem[w] EXCEPT !.faulty = TRUE])
  /\ UNCHANGED <<where, bodies, key, encrypted, fetched>>

-----------------------------------------------------------------------------
(* The cache. *)
SizeOf(f) == IF f.full THEN Size[f.of] ELSE 0
Total(d)  == MapThenSumSet(LAMBDA n : SizeOf(d[n]), DOMAIN d)

\* A file that is replaced or removed under a worker writing to it goes on
\* without a name; one that is renamed takes the worker along.
Moved(known, w, from, to) ==
  [v \in Worker |-> IF v = w THEN [known EXCEPT !.file = NoFile]
                    ELSE IF mem[v].file = to THEN [mem[v] EXCEPT !.file = Unlinked]
                    ELSE IF mem[v].file = from THEN [mem[v] EXCEPT !.file = to]
                    ELSE mem[v]]

Leave(w) == lock' = [lock EXCEPT ![P(w)] = None]
BreakOff(w) == Leave(w) /\ loose' = loose + 1

\* put: the temporary file has the same name whoever writes it.
Create(w) ==
  LET name == Tmp(mem[w].etag) IN
  /\ pc[w] = "put"
  /\ IF mem[w].etag = None
       THEN Goto(w, "done", mem[w]) /\ UNCHANGED bodies
       ELSE /\ lock[P(w)] = None /\ lock' = [lock EXCEPT ![P(w)] = w]
            /\ files' = Set(files, name, [of |-> mem[w].body.of, key |-> key[P(w)], full |-> FALSE])
            /\ Goto(w, "write", [mem[w] EXCEPT !.file = name]) /\ UNCHANGED loose
  /\ UNCHANGED <<where, key, index, encrypted, fetched, spent>>

\* The whole file is there, or the disk is full and what there is stays.
Write(w) ==
  LET n == mem[w].file IN
  /\ pc[w] = "write"
  /\ \/ /\ files' = IF n = Unlinked THEN files
                    ELSE [files EXCEPT ![n] = [of |-> mem[w].body.of, key |-> key[P(w)], full |-> TRUE]]
        /\ Goto(w, "rename", mem[w]) /\ UNCHANGED <<lock, loose, spent>>
     \/ Fault /\ Goto(w, "done", [mem[w] EXCEPT !.file = NoFile])
        /\ BreakOff(w) /\ UNCHANGED files
  /\ UNCHANGED <<where, key, index, encrypted, fetched>>

\* The temporary file may have been renamed by another program: then that is all.
Rename(w) ==
  LET etag == mem[w].etag IN
  /\ pc[w] = "rename"
  /\ IF Tmp(etag) \in DOMAIN files
       THEN /\ files' = Set(Without(files, {Tmp(etag)}), Eml(etag), files[Tmp(etag)])
            /\ mem' = Moved(mem[w], w, Tmp(etag), Eml(etag))
            /\ pc' = [pc EXCEPT ![w] = "cleanup"] /\ UNCHANGED <<lock, loose>>
       ELSE /\ Goto(w, "done", [mem[w] EXCEPT !.file = NoFile])
            /\ BreakOff(w) /\ UNCHANGED files
  /\ UNCHANGED <<where, key, index, encrypted, fetched, spent>>

\* Mutant: files that were never renamed are not counted, and stay.
EvictWhole(d) ==
  LET eml == {n \in DOMAIN d : n[2] = "eml"}
      left(S) == Total(Restrict(d, eml \ S)) > CacheMax IN
  {S \in SUBSET eml : ~left(S) /\ (S # {} => \E n \in S : left(S \ {n}))}
\* What cleanup throws away: the files longest unused, temporary ones too, one by
\* one until the limit holds.  What was used within a second goes in any order, so
\* any file may be the first.
Over(d, S)   == Total(Without(d, S)) > CacheMax
Removals(d)  == {S \in SUBSET DOMAIN d : S # {} => \E n \in S : Over(d, S \ {n})}
Evictions(d) == {S \in Removals(d) : ~Over(d, S)}

\* What cannot be listed or removed stays, and nobody is told; others go for it.
Cleanup(w) ==
  /\ pc[w] = "cleanup"
  /\ \E S \in Removals(files) :
       /\ \/ S \in Evictions(files) /\ Leave(w) /\ loose' = 0 /\ UNCHANGED spent
          \/ Fault /\ BreakOff(w)
       /\ files' = Without(files, S)
       /\ mem' = [v \in Worker |-> IF mem[v].file \in S THEN [mem[v] EXCEPT !.file = Unlinked] ELSE mem[v]]
  /\ pc' = [pc EXCEPT ![w] = "done"]
  /\ UNCHANGED <<where, key, index, encrypted, fetched>>

-----------------------------------------------------------------------------
(* The program. *)
\* A message is moved, and the program that moves it knows; one that thinks it
\* elsewhere cannot copy it.
Move(p, at, folder) ==
  LET m == at[1] IN
  /\ folder # at[2] /\ where[m] = at[2]
  /\ fetched < MaxFetch /\ fetched' = fetched + 1
  /\ where' = [where EXCEPT ![m] = folder]
  /\ index' = [index EXCEPT ![p] = Set(Without(@, {at}), <<m, folder>>, @[at])]
  /\ UNCHANGED <<bodies, key, encrypted, pc, mem, spent>>

\* Refresh: what is no longer listed goes, and a header is read for what is new.
Prune(p) ==
  LET here == {at \in DOMAIN index[p] : where[at[1]] = at[2]} IN
  /\ DOMAIN index[p] # here
  /\ index' = [index EXCEPT ![p] = Restrict(@, here)]
  /\ UNCHANGED <<where, bodies, key, encrypted, pc, mem, fetched, spent>>
Summarize(w) ==
  \E m \in Mail :
    LET at == <<m, where[m]>> IN
    /\ where[m] # Gone /\ (at \in DOMAIN index[P(w)] => index[P(w)][at] = None)
    /\ Open(w, at, TRUE)

\* What a program that starts with the key k may find in the index file, which the
\* programs share: what one that had this key wrote last, or nothing it can read.
IndexFile(k) == {<<>>} \cup {index[q] : q \in {p \in Program : key[p] = k}}

\* A program ends, at any point, and is started again - with another key, if the
\* keyring has a new one or the switch for plain text is given - and knows idx.
Restart(p, k, idx) ==
  LET own == {w \in Worker : P(w) = p} IN
  /\ Fault
  /\ key' = [key EXCEPT ![p] = k]
  /\ index' = [index EXCEPT ![p] = idx]
  /\ encrypted' = [encrypted EXCEPT ![p] = FALSE]
  /\ lock' = [lock EXCEPT ![p] = None]
  /\ loose' = IF lock[p] = None THEN loose ELSE loose + 1
  /\ pc' = [w \in Worker |-> IF w \in own THEN "idle" ELSE pc[w]]
  /\ mem' = [w \in Worker |-> IF w \in own THEN Idle ELSE mem[w]]
  /\ UNCHANGED <<where, files, fetched>>

Next ==
  \/ \E w \in Worker :
       \/ \E at \in DOMAIN index[P(w)] : Open(w, at, FALSE)
       \/ Summarize(w)
       \/ Get(w) \/ Again(w) \/ Decrypt(w)
       \/ Create(w) \/ Write(w) \/ Rename(w) \/ Cleanup(w)
  \/ \E p \in Program :
       \/ Prune(p)
       \/ \E at \in DOMAIN index[p], f \in Place : Move(p, at, f)
       \/ \E k \in CacheKeys : \E idx \in IndexFile(k) : Restart(p, k, idx)
Spec == Init /\ [][Next]_vars

-----------------------------------------------------------------------------
TypeOK ==
  /\ where \in [Mail -> Place \cup {Gone}]
  /\ DOMAIN files \subseteq Name
  /\ \A n \in DOMAIN files : files[n] \in [of : Mail, key : CacheKeys, full : BOOLEAN]
  /\ key \in [Program -> CacheKeys]
  /\ DOMAIN index = Program
  /\ \A p \in Program : \A at \in DOMAIN index[p] :
       at \in Mail \X Place /\ index[p][at] \in {at[1], None}
  /\ encrypted \in [Program -> BOOLEAN]
  /\ DOMAIN lock = Program
  /\ \A p \in Program : lock[p] \in {None} \cup {w \in Worker : P(w) = p}
  /\ \A w \in Worker : pc[w] \in Holding <=> lock[P(w)] = w
  /\ \A w \in Worker : mem[w].file \in {NoFile, Unlinked} \cup DOMAIN files
  /\ loose \in Nat
  /\ pc \in [Worker -> Resting \cup Holding \cup {"get", "again", "decrypt", "put"}]

\* What lies under a name is of the message the name is made of.
FilesTrue == \A n \in DOMAIN files : files[n].of = n[1]

\* What a goroutine holds: the message it was asked for, or the beginning of it
\* where that is enough, as far as it is by now, and no fragment to decrypt.
Held == [at : Mail \X Place, head : BOOLEAN, partial : BOOLEAN, etag : Mail \cup {None},
         body : [of : Mail \cup {None}, whole : BOOLEAN, form : Form],
         file : {NoFile, Unlinked} \cup Name, faulty : BOOLEAN]
Fits(step, x) ==
  LET m == x.at[1] IN
  /\ step = "idle" => x = Idle
  /\ step # "idle" => x \in Held /\ x.etag \in {m, None} /\ (x.partial => x.head)
  /\ step = "decrypt" => x.body.of = m /\ x.body.whole
  /\ step \in {"put", "done"} \cup Holding =>
       x.body.of = m /\ x.body.form = "plain" /\ (x.head \/ x.body.whole)
  /\ step \in Holding => x.etag = m
  /\ step = "write" => x.file \in {Unlinked, Tmp(m), Eml(m)}
  /\ step = "failed" => x.faulty
InHand == DOMAIN mem = Worker /\ \A w \in Worker : Fits(pc[w], mem[w])

\* A write takes room once it is done, and is accounted for by its cleanup.
Largest == Max({Size[m] : m \in Mail})
Bounded(writes) == Total(files) <= CacheMax + Largest * (writes + loose)
Past == {p \in Program : lock[p] # None /\ pc[lock[p]] \in {"rename", "cleanup"}}
BoundedByPast == Bounded(Cardinality(Past))

\* Whoever opens a message sees that message, all of it and readable, wherever it
\* came from - the bucket, the disk, a file another program is writing - and who
\* reads its header sees at least the beginning.  Neither fails unless a call
\* did, however many are on their way when the first encrypted one is met.
OpenShowsTheMessage ==
  \A w \in Worker :
    /\ pc[w] = "done" => /\ mem[w].body.of = mem[w].at[1] /\ mem[w].body.form = "plain"
                         /\ mem[w].head \/ mem[w].body.whole
    /\ pc[w] = "failed" => mem[w].faulty

\* The directory stays within its limit, but for a message per program that is
\* writing one, and one for every write that was broken off since the last
\* cleaning: by a full disk, by the end of the program, because the other program
\* renamed the file, which it had counted as empty, or by a cleaning that could
\* not remove it.
CacheBounded == Bounded(Cardinality({p \in Program : lock[p] # None}))
=============================================================================
