--------------------------- MODULE MCObjectStore ---------------------------
(* Two output directories that share the cache, and two sets of options,   *)
(* with and without ThinLTO bitcode.                                       *)
EXTENDS ObjectStore, TLC

CONSTANTS plain, thin, o1, o2

TwoVersions == {plain, thin}
OneThin == {thin}
TwoOutputs == {o1, o2}
Symmetry == Permutations(TwoOutputs)
=============================================================================
