--------------------------- MODULE RegionValidity ---------------------------
(***************************************************************************)
(* What the validity bookkeeping of a generated native module promises,    *)
(* as if every check of a range were one instantaneous step.               *)
(*                                                                         *)
(* A range is one recompiled function.  The native code made for it may be *)
(* used only while the guest bytes it was made from are still in memory.   *)
(* The guest announces a change by writing the bytes and then invalidating *)
(* the addresses, as PowerPC code does with dcbst and icbi; a word written *)
(* and not yet invalidated is "pending" and the module owes nothing for it.*)
(***************************************************************************)
CONSTANTS
  Range,    \* the recompiled ranges
  Word      \* the words of a range

VARIABLES
  usable,   \* the ranges whose native code may be entered
  refused,  \* the ranges whose bytes were found different
  changed,  \* per range, the words that differ from the recompiled image
  pending   \* per range, the words written since the last invalidation

rvars == <<usable, refused, changed, pending>>

Init ==
  /\ usable = {}
  /\ refused = {}
  /\ changed = [i \in Range |-> {}]
  /\ pending = [i \in Range |-> {}]

(* The guest stores a word of range i; the value may be the original one.  *)
Write(i, w) ==
  /\ \/ changed' = [changed EXCEPT ![i] = @ \cup {w}]
     \/ changed' = [changed EXCEPT ![i] = @ \ {w}]
  /\ pending' = [pending EXCEPT ![i] = @ \cup {w}]
  /\ UNCHANGED <<usable, refused>>

(* The bytes are compared and found to be the recompiled ones.             *)
Accept(i) ==
  /\ i \notin usable \cup refused
  /\ changed[i] \subseteq pending[i]
  /\ usable' = usable \cup {i}
  /\ UNCHANGED <<refused, changed, pending>>

(* The bytes are compared and found to be others.                          *)
Refuse(i) ==
  /\ i \notin usable \cup refused
  /\ refused' = refused \cup {i}
  /\ UNCHANGED <<usable, changed, pending>>

(* The range has to be compared again before its code is used.             *)
Invalidate(i) ==
  /\ usable' = usable \ {i}
  /\ refused' = refused \ {i}
  /\ pending' = [pending EXCEPT ![i] = {}]
  /\ UNCHANGED changed

(* Nothing is known of any range.                                          *)
Forget ==
  /\ usable' = {}
  /\ refused' = {}
  /\ pending' = [i \in Range |-> {}]
  /\ UNCHANGED changed

Next ==
  \/ \E i \in Range, w \in Word : Write(i, w)
  \/ \E i \in Range : Accept(i) \/ Refuse(i) \/ Invalidate(i)
  \/ Forget

Spec == Init /\ [][Next]_rvars
=============================================================================
