--------------------------- MODULE MCNativeModule ---------------------------
(* Instances of NativeModule for TLC.                                      *)
EXTENDS NativeModule, TLC

CONSTANTS t1, t2

OneThread == {t1}
TwoThreads == {t1, t2}
FirstRange == {1}
TwoRanges == {1, 2}
Symmetry == Permutations(TwoThreads)

(* The view keeps a local of a thread only while the thread can still read *)
(* it: two states that differ in dead locals have the same behaviours.     *)
Checking(t) == pc[t] \in {"load", "hash", "cas", "sub"}
Walking(t) == pc[t] \in {"inv", "add"}
LiveLocals(t) ==
  << pc[t],
     IF pc[t] \in {"idle", "exec"} THEN 0 ELSE idx[t],
     IF Checking(t) THEN <<mode[t], op[t]>> ELSE <<>>,
     IF Checking(t) /\ mode[t] \in {"all", "query"} THEN target[t] ELSE 0,
     IF Walking(t) \/ pc[t] = "guard" \/ (Checking(t) /\ mode[t] = "query")
     THEN last[t] ELSE 0,
     IF pc[t] \in {"hash", "cas"} THEN <<seenGen[t], pos[t], matches[t]>> ELSE <<>>,
     IF Walking(t) THEN home[t] ELSE "idle" >>
Locals == [t \in Thread |-> LiveLocals(t)]
LiveState == <<shared, memory, Locals>>

(* No guard reads pending; a run that checks no property of it may drop it.*)
CounterState == <<shared, changed, Locals>>
=============================================================================
