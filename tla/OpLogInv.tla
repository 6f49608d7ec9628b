------------------------------ MODULE OpLogInv ------------------------------
(***************************************************************************)
(* The inductive invariants behind the theorems of OpLogProofs: why nothing *)
(* acknowledged is lost to a merge that knows all it replaces, however     *)
(* machines and goroutines overlap and whatever fails.                     *)
(***************************************************************************)
EXTENDS OpLog

\* What is not lost to a goroutine that was behind.
Safe == View \cup struck

\* A machine that is down has no goroutine in the middle of anything.
Busy(t) == pc[t] # "idle" \/ inBatch[t]
Rested == \A t \in Thread : status[Host[t]] = "down" => ~Busy(t)

\* Whatever lies in the bucket or is listed bears a name that was handed out;
\* the name in use is nobody else's, free, and in no list.
NamedBy(t) ==
  pc[t] = "put" =>
    /\ name[t] \in stamps /\ objs[name[t]] = {}
    /\ \A u \in Thread : name[t] \notin open[u]
    /\ \A u \in Thread : pc[u] = "put" /\ name[u] = name[t] => u = t

Named ==
  /\ \A n \in Name : objs[n] # {} => n \in stamps
  /\ \A t \in Thread : open[t] \subseteq stamps
  /\ \A t \in Thread : NamedBy(t)

\* A goroutine that is not behind has all that it is about to replace or delete.
Base(t) == snap.doc \subseteq base[t] /\ lupto[t] = snap.upto
Closed(t) ==
  /\ \A n \in open[t] : n > snap.upto
  /\ \A n \in Name : \A k \in open[t] :
       objs[n] # {} /\ snap.upto < n /\ n < k => n \in open[t]
Holds(t, doc) == Ops(open[t]) \subseteq doc

KnowsBy(t) ==
  /\ pc[t] \in {"list", "fetch", "install"} => Base(t)
  /\ pc[t] \in {"fetch", "install", "clone", "snapput"} => Closed(t)
  /\ pc[t] = "install" => Holds(t, base[t])
  /\ pc[t] = "clone" => Holds(t, data[Host[t]]) /\ snap.doc \subseteq data[Host[t]]
  /\ pc[t] = "snapput" => Holds(t, shot[t].doc) /\ snap.doc \subseteq shot[t].doc
  /\ pc[t] = "gc" => Holds(t, snap.doc) /\ \A n \in open[t] : n <= snap.upto

\* The watermark Compact takes is the last of the names it has merged.
MarkedBy(t) ==
  pc[t] = "snapput" =>
    shot[t].upto \in open[t] /\ \A n \in open[t] : n <= shot[t].upto

Knowing == \A t \in Thread : MarkedBy(t) /\ (~behind[t] => KnowsBy(t))

MergeInv == Rested /\ Named /\ Knowing

-----------------------------------------------------------------------------
(* Where a change is that somebody waits for, or was told is written.      *)
Acknowledged == Safe \cup entrusted

AskedBy(t) ==
  /\ pc[t] = "idle" /\ ~inBatch[t] => ask[t] = {}
  /\ pc[t] \in {"idle", "save"} => ask[t] \subseteq pending[Host[t]] \cup Acknowledged
  /\ pc[t] = "put" => ask[t] \subseteq flight[t] \cup Acknowledged
  /\ pc[t] \notin {"idle", "save", "put"} => ask[t] \subseteq Acknowledged

Asked == AckedDurable /\ \A t \in Thread : AskedBy(t)

\* Every change is asked for by one goroutine, and no longer once acknowledged.
OwnedBy(t) ==
  /\ ask[t] \subseteq made[Host[t]] /\ ask[t] \cap acked = {}
  /\ \A u \in Thread \ {t} : ask[t] \cap ask[u] = {}

Owned == \A t \in Thread : OwnedBy(t)

-----------------------------------------------------------------------------
(* Why a running machine loses nothing: what it took for a write is in flight *)
(* until it lies in the bucket, or pending again.                           *)
KeptBy(t) ==
  /\ pc[t] = "saved" => flight[t] \subseteq Safe
  /\ pc[t] \notin {"put", "saved"} => flight[t] = {}

Kept == NothingLost /\ \A t \in Thread : KeptBy(t)

-----------------------------------------------------------------------------
(* Why a load that is not behind shows what had been acknowledged when it  *)
(* began: what it has read or will read holds it.                          *)
ToldBy(t) ==
  /\ pc[t] \in {"idle", "save", "put", "saved", "base"} => known[t] = {}
  /\ ~behind[t] =>
       /\ pc[t] = "list" => known[t] \subseteq Safe
       /\ pc[t] = "fetch" => known[t] \subseteq base[t] \cup Ops(open[t]) \cup struck
       /\ pc[t] = "install" => known[t] \subseteq base[t] \cup struck

Told == \A t \in Thread : ToldBy(t)
=============================================================================
