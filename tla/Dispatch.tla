------------------------------- MODULE Dispatch -------------------------------
(***************************************************************************)
(* The generated function lookup, linear or indexed by pages.  Dispatcher  *)
(* and C chunks, which run on it, are in ChunkRuntime.                     *)
(*                                                                         *)
(* Indices of chunks, runs and pages start at 1; addresses, runs' strides  *)
(* and pages are as in the code, with smaller units.                       *)
(***************************************************************************)
EXTENDS Integers, Sequences, FiniteSets, FiniteSetsExt

CONSTANTS
    Chunks,     \* the [start, end] a pipeline may add
    MostChunks, \* chunks of a list, at most
    Word,       \* bytes of an instruction
    Page,       \* bytes of a page of the index
    Probes      \* addresses looked up

VARIABLES
    funcs,      \* the function list, in the order the sections were emitted
    lookup      \* "building"; then "linear" or "indexed"

dpVars == <<funcs, lookup>>

ASSUME DispatchAssumption ==
    /\ Chunks \subseteq [start : Nat, end : Nat]
    /\ Word \in Nat \ {0} /\ Page \in Nat \ {0} /\ Probes \subseteq Nat

(***************************************************************************)
(* Runs of chunks of one size                                              *)
(***************************************************************************)

Width(c) == c.end - c.start

(* Mutant: a run goes on behind a short chunk.                              *)
RunEndPastShort(list, first) ==
    LET stride == Width(list[first])
        joins(k) == /\ list[k - 1].end = list[k].start
                    /\ list[k].start < list[k].end
                    /\ Width(list[k]) <= stride
    IN  IF list[first].start >= list[first].end \/ stride % Word # 0 THEN first + 1
        ELSE Min({k \in first + 1 .. Len(list) : ~joins(k)} \cup {Len(list) + 1})

\* uniform_run_end: full chunks, then at most one shorter
RunEnd(list, first) ==
    LET stride == Width(list[first])
        joins(k) == /\ list[k - 1].end = list[k].start
                    /\ list[k].start < list[k].end
                    /\ Width(list[k]) <= stride
                    /\ k - 1 = first \/ Width(list[k - 1]) = stride
    IN  IF list[first].start >= list[first].end \/ stride % Word # 0 THEN first + 1
        ELSE Min({k \in first + 1 .. Len(list) : ~joins(k)} \cup {Len(list) + 1})

\* The first chunk of each run: the next run begins where the last one ends
RunStarts(list) ==
    LET runStart[k \in 0 .. Len(list)] ==
            IF k = 0 THEN 1
            ELSE IF runStart[k - 1] > Len(list) THEN runStart[k - 1]
            ELSE RunEnd(list, runStart[k - 1])
    IN  {runStart[k] : k \in 0 .. Len(list)} \ {Len(list) + 1}

RunLimit(list, first) == list[RunEnd(list, first) - 1].end

\* The chunk of a run an address is in, when it is in the run
Offset(list, first, a) == a - list[first].start
InRun(list, first, a) == list[first + Offset(list, first, a) \div Width(list[first])]

NoChunk == [start |-> 0, end |-> 0]

(***************************************************************************)
(* The linear lookup: emit_lookup_run for each run, the first match wins   *)
(***************************************************************************)

LinearFind(a) ==
    LET hits == {r \in RunStarts(funcs) : /\ a >= funcs[r].start
                                          /\ a < RunLimit(funcs, r)
                                          /\ Offset(funcs, r, a) % Word = 0}
    IN  IF hits = {} THEN NoChunk ELSE InRun(funcs, Min(hits), a)

(***************************************************************************)
(* The indexed lookup                                                      *)
(***************************************************************************)

\* Empty chunks are left out, the others are sorted
Solid == {c \in {funcs[k] : k \in DOMAIN funcs} : c.start < c.end}
Sorted ==
    LET solid == Solid
    IN  [i \in 1 .. Cardinality(solid) |->
            CHOOSE c \in solid : Cardinality({d \in solid : d.start < c.start}) = i - 1]

\* emit_lookup_indexed gives up on overlapping or empty lists
Indexable ==
    /\ Solid # {}
    /\ \A k, l \in DOMAIN funcs : k < l =>
          \/ funcs[k].start >= funcs[k].end
          \/ funcs[l].start >= funcs[l].end
          \/ funcs[k].end <= funcs[l].start
          \/ funcs[l].end <= funcs[k].start

Base(list) == list[1].start - (list[1].start % Page)
Pages(list) == (list[Len(list)].end - Base(list)) \div Page + 1

\* page_first: the first run that ends behind the start of the page
PageFirst(list, page) ==
    Min({r \in RunStarts(list) : RunLimit(list, r) > Base(list) + page * Page}
          \cup {Len(list) + 1})

IndexedFind(a) ==
    LET list == Sorted
        page == (a - Base(list)) \div Page
        run == Min({r \in RunStarts(list) : r >= PageFirst(list, page) /\ RunLimit(list, r) > a}
                     \cup {Len(list) + 1})
    IN  IF a < Base(list) \/ page >= Pages(list) THEN NoChunk
        ELSE IF run > Len(list) THEN NoChunk
        ELSE IF a < list[run].start \/ Offset(list, run, a) % Word # 0 THEN NoChunk
        ELSE InRun(list, run, a)

\* dolrecomp_find_original
Find(a) == IF lookup = "indexed" THEN IndexedFind(a) ELSE LinearFind(a)

(***************************************************************************)
(* The steps                                                               *)
(***************************************************************************)

DispatchInit ==
    /\ funcs = <<>>
    /\ lookup = "building"

\* function_list_add, for the chunks of one section after the other
AddChunk(c) ==
    /\ lookup = "building"
    /\ Len(funcs) < MostChunks
    /\ \A k \in DOMAIN funcs : c.end <= funcs[k].start \/ funcs[k].end <= c.start
    /\ funcs' = Append(funcs, c)
    /\ UNCHANGED lookup

\* emit_dispatch_helpers
EmitLookup(configured) ==
    /\ lookup = "building"
    /\ lookup' = IF configured = "indexed" /\ Indexable THEN "indexed" ELSE "linear"
    /\ UNCHANGED funcs

DispatchNext ==
    \/ \E c \in Chunks : AddChunk(c)
    \/ \E configured \in {"linear", "indexed"} : EmitLookup(configured)

DispatchSpec == DispatchInit /\ [][DispatchNext]_dpVars

(***************************************************************************)
(* Properties                                                              *)
(***************************************************************************)

Holds(c, a) == a >= c.start /\ a < c.end /\ (a - c.start) % Word = 0

\* The lookup the program was given finds, for every address, the chunk with an
\* instruction there, and none otherwise: the order of the sections, runs of
\* equal chunks, short and empty chunks, gaps and page boundaries change nothing.
LookupFindsChunk ==
    lookup # "building" =>
        \A a \in Probes :
            LET found == {funcs[k] : k \in {n \in DOMAIN funcs : Holds(funcs[n], a)}}
            IN  IF found = {} THEN Find(a) = NoChunk ELSE Find(a) \in found
=============================================================================
