----------------------------- MODULE SendingInv -----------------------------
(***************************************************************************)
(* The inductive invariants behind the theorems on sending: what the       *)
(* steps of a handler, of a recovery and of an answer may rely on about    *)
(* marker, copy and draft, so that nothing is filed that SES never took,   *)
(* no marker goes before its work is done, and no mail goes out twice.     *)
(***************************************************************************)
EXTENDS Sending

\* A finishSent under way has a marker to finish.
Typed == TypeOK /\ \A w \in Worker : fin[w] # "idle" => which[w] \in Attempt

BeforeSes == {"unused", "begin", "ses"}
AfterSes  == {"look", "mark", "copy", "drop", "clear", "answer"}

\* Whoever works as if SES had the mail is right, and so is a marker that says
\* so; a refusal that is none is a lost answer of SES.
Accepted ==
  /\ \A a \in Attempt :
       /\ pc[a] \in BeforeSes => a \notin out
       /\ pc[a] \in AfterSes => a \in out
       /\ pc[a] = "refused" /\ a \in out => "ses" \in met
       /\ marker[a] = "out" => a \in out
       /\ marker[a] # "none" => pc[a] # "unused"
  /\ \A m \in Server : todo[m] \subseteq out
  /\ \A w \in Worker : fin[w] \in {"copy", "drop"} => which[w] \in out

\* The copy is in sent/ and the draft is gone.
Filed(a) == a \in sent /\ ~draft

\* Whoever is about to take a marker away has filed its mail, or never will
\* have one: it did not go out and its handler is over.
Finished ==
  /\ \A a \in Attempt :
       /\ pc[a] = "drop" => a \in sent \/ "copy" \in met
       /\ pc[a] = "clear" => Filed(a) \/ met \cap {"copy", "drop"} # {}
  /\ \A w \in Worker :
       /\ fin[w] = "drop" => which[w] \in sent
       /\ fin[w] = "clear" =>
            IF which[w] \in out
            THEN Filed(which[w]) \/ met \cap {"drop", "hasty"} # {}
            ELSE pc[which[w]] = "over" \/ "hasty" \in met

FilingInv == Typed /\ Accepted /\ Finished /\ OnlyAfterSending

\* A server on which somebody may press "send" again asks first about a mail
\* whose handler died, or is on its way to ask or to finish it.
Knows(m, a) ==
  /\ rec[m] = "off"  => a \in asked[m]
  /\ rec[m] = "work" =>
       \/ a \in keys[m] \cup todo[m] \cup ask[m]
       \/ fin[<<m, "start">>] \in {"copy", "drop"} /\ which[<<m, "start">>] = a

\* As long as the draft is there, a mail that is or may be out has its marker,
\* and whoever does not look into the bucket first knows of it.
Guarded(a) ==
  /\ pc[a] \in {"ses", "look", "mark", "copy", "drop"} => marker[a] # "none"
  /\ a \in out /\ pc[a] = "over" =>
       /\ marker[a] # "none"
       /\ \A m \in Server : status[m] = "down" \/ m \in stale \/ Knows(m, a)

\* One press at a time, and none while a mail is out.
OneAtATime ==
  /\ \A a, b \in Attempt : Running(a) /\ Running(b) => a = b
  /\ \A a \in Attempt, b \in out : Running(a) => a = b
  /\ \A a, b \in out : a = b

Netted ==
  /\ \A a \in Attempt : pc[a] \in {"clear", "answer"} => ~draft
  /\ draft => \A a \in Attempt : Guarded(a)
  /\ OneAtATime

\* A program that is down does not recover.
DownIsIdle == \A m \in Server : status[m] = "down" => rec[m] = "off"

OnceInv == FilingInv /\ DownIsIdle /\ (met \cap NoNet = {} => Netted)
=============================================================================
