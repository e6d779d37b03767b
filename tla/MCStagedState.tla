--------------------------- MODULE MCStagedState ---------------------------
(***************************************************************************)
(* Small sets of ranges for StagedState.  Outer calls Middle and Middle    *)
(* calls Leaf; any of them may be entered from run.                        *)
(***************************************************************************)
EXTENDS StagedState, TLC

CONSTANTS Outer, Middle, Leaf, r1, r2, cr, exc

\* r1 is defined at every level, r2 and cr outside only, the exception slot by
\* the range in the middle, which also has an interpreted instruction.
MCOwnDefs == (Outer :> {r2, cr}) @@ (Middle :> {exc}) @@ (Leaf :> {r1})
MCServiceDefs == (Outer :> {}) @@ (Middle :> {r1}) @@ (Leaf :> {})
MCOutput == (Outer :> {r1, r2, cr, exc}) @@ (Middle :> {r1, exc}) @@ (Leaf :> {r1})
MCUsed == (Outer :> {r1, r2, cr, exc}) @@ (Middle :> {r1, r2, exc}) @@ (Leaf :> {r1, cr})
MCInput == (Outer :> {r2, exc}) @@ (Middle :> {r2, exc}) @@ (Leaf :> {})
MCCalls == (Outer :> {Middle}) @@ (Middle :> {Leaf}) @@ (Leaf :> {})

\* The same ranges for a single range without calls
OneOwnDefs == Outer :> {r2, cr}
OneServiceDefs == Outer :> {}
OneOutput == Outer :> {r2, cr}
OneUsed == Outer :> {r2, cr}
OneInput == Outer :> {r2}
OneCalls == Outer :> {}
=============================================================================
