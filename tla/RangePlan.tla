------------------------------ MODULE RangePlan ------------------------------
(***************************************************************************)
(* How the LLVM pipeline cuts the code sections into ranges, selects the   *)
(* ones a profile asks for, and batches them into objects.                 *)
(*                                                                         *)
(* An address is the number of an instruction.  Indices of ranges and of   *)
(* the selection queue start at 1.                                         *)
(***************************************************************************)
EXTENDS Integers, Sequences, FiniteSetsExt, Functions

CONSTANTS
    Sections,       \* the sections, in the container's order: [start, end]
    Codes,          \* the programs: address -> [op, linked, to]
    ExtraPoints,    \* sets of addresses: entry, symbols, misses, forced
    PatchSets,      \* what load_patches may return: sets of [start, end]
    HotChoices,     \* the profile's hot ranges: sequences without repetition
    EntryChoices,   \* sets of ranges with profiled misses or forced entries
    Chunk,          \* instructions of a range, at most
    Neighbors,      \* range_profile_neighbors
    CallDepth,      \* range_profile_call_closure_depth
    SuccessorDepth, \* range_profile_successor_closure_depth
    PerObject       \* ranges of an object, at most

VARIABLES
    program,    \* one of Codes
    extra,      \* the points that do not come from the code
    patches,    \* the patches
    planPhase,  \* "build", "seed", "calls", "successors", "batch", "planned"
    section,    \* the section at work
    next,       \* where the next range starts, or 0 before the section
    ranges,     \* the ranges, in the order they are built; compacted at last
    selected,   \* ranges marked as selected
    queue,      \* the selected ranges, in the order they were selected
    cursor,     \* the queue's element to visit
    closureEnd, \* where the closure's current depth ends
    depth,      \* depths done
    before,     \* ranges queued before the closure
    objects     \* the objects: [first, count] in ranges

planInput == <<program, extra, patches>>
closureVars == <<cursor, closureEnd, depth, before>>
planVars == <<planInput, planPhase, section, next, ranges, selected, queue,
              closureVars, objects>>

Address == UNION {Sections[s].start .. Sections[s].end - 1 : s \in DOMAIN Sections}

\* load_patches has checked the patches: inside a section, apart from each other
ASSUME PlanAssumption ==
    /\ Sections \in Seq([start : Nat, end : Nat]) /\ Sections # <<>>
    /\ \A s \in DOMAIN Sections : Sections[s].start <= Sections[s].end
    /\ Codes \subseteq [Address -> [op : STRING, linked : BOOLEAN, to : Nat]]
    /\ ExtraPoints \subseteq SUBSET Nat
    /\ \A P \in PatchSets :
          /\ P \subseteq [start : Nat, end : Nat]
          /\ \A p \in P :
                /\ p.start < p.end
                /\ \E s \in DOMAIN Sections :
                      Sections[s].start <= p.start /\ p.end <= Sections[s].end
          /\ \A p, q \in P : p = q \/ p.end <= q.start \/ q.end <= p.start
    /\ HotChoices \subseteq {hot \in Seq(Nat \ {0}) : IsInjective(hot)}
    /\ EntryChoices \subseteq SUBSET Nat
    /\ Chunk \in Nat \ {0} /\ PerObject \in Nat \ {0}
    /\ Neighbors \in Nat /\ CallDepth \in Nat /\ SuccessorDepth \in Nat

\* The sections are listed by address.  The loader does not see to it.
Ascending ==
    \A s, t \in DOMAIN Sections : s < t => Sections[s].end <= Sections[t].start

(***************************************************************************)
(* Partition points and ranges                                             *)
(***************************************************************************)

\* A patch starts at a
PatchAt(a) == {p \in patches : p.start = a}

(* Mutant: a patch ends the range before it no more.                        *)
EndsOnly == {p.end : p \in patches}

\* append_patch_points
PatchPoints == {p.start : p \in patches} \cup {p.end : p \in patches}

\* collect_llvm_partition_points, and what is appended to them
PartitionPoints ==
    LET called == {program[a].to : a \in {b \in Address :
                      program[b].op \in {"branch", "cond"} /\ program[b].linked}}
        behind == {a + 1 : a \in {b \in Address :
                      program[b].op = "return" /\ ~program[b].linked}}
    IN  ((extra \cup called \cup behind) \cap Address) \cup PatchPoints

\* next_llvm_partition_point
NextPoint(start, end) == Min({p \in PartitionPoints : p > start /\ p < end} \cup {end})

RangeEnd(start, sectionEnd) ==
    IF PatchAt(start) # {} THEN (CHOOSE p \in PatchAt(start) : TRUE).end
    ELSE NextPoint(start, Min({sectionEnd, start + Chunk}))

SectionSize(s) == Sections[s].end - Sections[s].start

\* The ranges the first s sections have room for, and all with their points
Room[s \in 0 .. Len(Sections)] ==
    IF s = 0 THEN 0 ELSE Room[s - 1] + (SectionSize(s) + Chunk - 1) \div Chunk

RangeCapacity == Cardinality(PartitionPoints) + Room[Len(Sections)]

(***************************************************************************)
(* Lookups                                                                 *)
(***************************************************************************)

\* llvm_range_for, llvm_range_index_for: a binary search, whose window is empty
\* or on the range after as many steps as there are ranges; 0 when there is none
RangeIndexFor(a) ==
    LET middle(w) == w.first + (w.last - w.first) \div 2
        narrowed(w) ==
            IF w.first >= w.last THEN w
            ELSE IF a < ranges[middle(w)].start THEN [w EXCEPT !.last = middle(w)]
            ELSE IF a >= ranges[middle(w)].end THEN [w EXCEPT !.first = middle(w) + 1]
            ELSE w
        search[k \in 0 .. Len(ranges)] ==
            IF k = 0 THEN [first |-> 1, last |-> Len(ranges) + 1]
            ELSE narrowed(search[k - 1])
        window == search[Len(ranges)]
    IN  IF window.first >= window.last THEN 0 ELSE middle(window)

\* llvm_section_for_range
SectionOf(r) ==
    CHOOSE s \in DOMAIN Sections : r.start >= Sections[s].start /\ r.end <= Sections[s].end

(***************************************************************************)
(* Selection.  q is [queue, selected].                                     *)
(***************************************************************************)

\* llvm_profile_select_address, with the index it has looked up
Select(q, i) ==
    IF i = 0 \/ i \in q.selected THEN q
    ELSE [queue |-> Append(q.queue, i), selected |-> q.selected \cup {i}]

SelectEach(q, indices) ==
    LET after[k \in 0 .. Len(indices)] ==
            IF k = 0 THEN q ELSE Select(after[k - 1], indices[k])
    IN  after[Len(indices)]

Left(i) == IF i > 1 /\ ranges[i - 1].end = ranges[i].start THEN i - 1 ELSE i
Right(i) ==
    IF i < Len(ranges) /\ ranges[i].end = ranges[i + 1].start THEN i + 1 ELSE i

\* A seed is queued, then its neighbors on both sides
QueueSeed(q, seed) ==
    LET step[k \in 0 .. Neighbors] ==
            IF k = 0
            THEN [q |-> [q EXCEPT !.queue = Append(@, seed)], l |-> seed, r |-> seed]
            ELSE LET s == step[k - 1]
                 IN  [q |-> Select(Select(s.q, Left(s.l)), Right(s.r)),
                      l |-> Left(s.l), r |-> Right(s.r)]
    IN  step[Neighbors].q

\* The hot ranges, all marked before the first is queued
SeedQueue(hot) ==
    LET after[k \in 0 .. Len(hot)] ==
            IF k = 0 THEN [queue |-> <<>>, selected |-> Range(hot)]
            ELSE QueueSeed(after[k - 1], hot[k])
    IN  after[Len(hot)]

\* All ranges, with 0 for those that are not in I
Only(I) == [i \in DOMAIN ranges |-> IF i \in I THEN i ELSE 0]

\* Ranges with profiled misses and forced entries, then the patches
WithEntries(q, entries) ==
    SelectEach(SelectEach(q, Only(entries)), Only({RangeIndexFor(p.start) : p \in patches}))

\* Where no range is
NoTarget == -1

\* Where the calls of a range go, by instruction
CallTargets(i) ==
    LET calls(a) == program[a].op \in {"branch", "cond"} /\ program[a].linked
        target(a) == IF calls(a) THEN program[a].to ELSE NoTarget
        r == ranges[i]
    IN  [k \in 1 .. r.end - r.start |-> target(r.start + k - 1)]

\* llvm_profile_instruction_has_fallthrough
HasFallthrough(a) == program[a].op \in {"plain", "cond", "conditional return"}

\* Where a range goes without a call: two targets an instruction, and its end
SuccessorTargets(i) ==
    LET jumps(a) == program[a].op \in {"branch", "cond"} /\ ~program[a].linked
        falls(a) == program[a].op \in {"cond", "conditional return"}
        jump(a) == IF jumps(a) THEN program[a].to ELSE NoTarget
        fall(a) == IF falls(a) THEN a + 1 ELSE NoTarget
        r == ranges[i]
        size == r.end - r.start
        behind == IF r.end < Sections[SectionOf(r)].end /\ HasFallthrough(r.end - 1)
                  THEN r.end ELSE NoTarget
    IN  [k \in 1 .. 2 * size + 1 |->
            IF k = 2 * size + 1 THEN behind
            ELSE IF k % 2 = 1 THEN jump(r.start + (k - 1) \div 2)
            ELSE fall(r.start + (k - 1) \div 2)]

ProfileTargets(phase_, i) ==
    IF PatchAt(ranges[i].start) # {} THEN <<>>
    ELSE IF phase_ = "calls" THEN CallTargets(i) ELSE SuccessorTargets(i)

\* The ranges at the targets of range i, as the closure selects them
TargetRanges(phase_, i) ==
    [k \in DOMAIN ProfileTargets(phase_, i) |-> RangeIndexFor(ProfileTargets(phase_, i)[k])]

Limit == IF planPhase = "calls" THEN CallDepth ELSE SuccessorDepth

(***************************************************************************)
(* The steps                                                               *)
(***************************************************************************)

PlanInit ==
    /\ program \in Codes
    /\ extra \in ExtraPoints
    /\ patches \in PatchSets
    /\ planPhase = "build"
    /\ section = 1
    /\ next = Sections[1].start
    /\ ranges = <<>>
    /\ selected = {}
    /\ queue = <<>>
    /\ cursor = 1
    /\ closureEnd = 1
    /\ depth = 0
    /\ before = 0
    /\ objects = <<>>

\* build_llvm_ranges: one range
BuildRange ==
    LET end == RangeEnd(next, Sections[section].end)
    IN  /\ planPhase = "build"
        /\ next < Sections[section].end
        /\ ranges' = Append(ranges, [start |-> next, end |-> end])
        /\ next' = end
        /\ UNCHANGED <<planInput, planPhase, section, selected, queue, closureVars, objects>>

\* The next section; behind the last one, without a profile all ranges stay
NextSection(profile) ==
    /\ planPhase = "build"
    /\ next >= Sections[section].end
    /\ IF section < Len(Sections)
       THEN /\ section' = section + 1
            /\ next' = Sections[section + 1].start
            /\ UNCHANGED planPhase
       ELSE /\ section' = 1
            /\ next' = 1
            /\ planPhase' = IF profile THEN "seed" ELSE "batch"
    /\ UNCHANGED <<planInput, ranges, selected, queue, closureVars, objects>>

\* select_profiled_llvm_ranges up to the closures.  The profile decides which
\* ranges are hot enough, in the order of their samples; there is one at least.
SelectSeeds(hot, entries) ==
    LET q == WithEntries(SeedQueue(hot), entries)
    IN  /\ planPhase = "seed"
        /\ Range(hot) \cup entries \subseteq DOMAIN ranges
        /\ queue' = q.queue
        /\ selected' = q.selected
        /\ planPhase' = "calls"
        /\ cursor' = 1
        /\ closureEnd' = Len(q.queue) + 1
        /\ depth' = 0
        /\ before' = Len(q.queue)
        /\ UNCHANGED <<planInput, section, next, ranges, objects>>

\* One range of the current depth of a closure
Visit(phase_) ==
    LET q == SelectEach([queue |-> queue, selected |-> selected],
                        TargetRanges(phase_, queue[cursor]))
        last == cursor + 1 = closureEnd
    IN  /\ planPhase = phase_
        /\ depth < Limit
        /\ cursor < closureEnd
        /\ queue' = q.queue
        /\ selected' = q.selected
        /\ cursor' = cursor + 1
        /\ closureEnd' = IF last THEN Len(q.queue) + 1 ELSE closureEnd
        /\ depth' = IF last THEN depth + 1 ELSE depth
        /\ UNCHANGED <<planInput, planPhase, section, next, ranges, before, objects>>

ClosureDone == depth >= Limit \/ cursor >= closureEnd

\* The successor closure starts again at the queue's front
EndCalls ==
    /\ planPhase = "calls"
    /\ ClosureDone
    /\ planPhase' = "successors"
    /\ cursor' = 1
    /\ closureEnd' = Len(queue) + 1
    /\ depth' = 0
    /\ before' = Len(queue)
    /\ UNCHANGED <<planInput, section, next, ranges, selected, queue, objects>>

\* The selected ranges are moved to the front, in their order
Compact ==
    /\ planPhase = "successors"
    /\ ClosureDone
    /\ ranges' = LET kept[i \in 0 .. Len(ranges)] ==
                         IF i = 0 THEN <<>>
                         ELSE IF i \in selected THEN Append(kept[i - 1], ranges[i])
                         ELSE kept[i - 1]
                 IN  kept[Len(ranges)]
    /\ planPhase' = "batch"
    /\ UNCHANGED <<planInput, section, next, selected, queue, closureVars, objects>>

\* emit_code_sections_llvm: the section's ranges, from next on, in objects
BatchSection ==
    LET inside(r) == r.start >= Sections[section].start /\ r.end <= Sections[section].end
        past == Min({i \in next .. Len(ranges) : ~inside(ranges[i])} \cup {Len(ranges) + 1})
        count == past - next
    IN  /\ planPhase = "batch"
        /\ objects' = objects \o
             [k \in 1 .. (count + PerObject - 1) \div PerObject |->
                [first |-> next + (k - 1) * PerObject,
                 count |-> Min({PerObject, count - (k - 1) * PerObject})]]
        /\ next' = past
        /\ IF section < Len(Sections)
           THEN section' = section + 1 /\ UNCHANGED planPhase
           ELSE planPhase' = "planned" /\ UNCHANGED section
        /\ UNCHANGED <<planInput, ranges, selected, queue, closureVars>>

PlanNext ==
    \/ BuildRange
    \/ \E profile \in BOOLEAN : NextSection(profile)
    \/ \E hot \in HotChoices, entries \in EntryChoices : SelectSeeds(hot, entries)
    \/ Visit("calls")
    \/ Visit("successors")
    \/ EndCalls
    \/ Compact
    \/ BatchSection

PlanSpec == PlanInit /\ [][PlanNext]_planVars

(***************************************************************************)
(* Properties                                                              *)
(***************************************************************************)

Built == planPhase \in {"seed", "calls", "successors"}

\* The ranges built so far follow each other without a gap inside a section,
\* there is room for all of them, none but a patch is longer than a chunk or
\* runs over a partition point, and every patch is a range of its own.
RangesTile ==
    planPhase \in {"build", "seed", "calls", "successors"} =>
        LET whole == {p \in patches : \E i \in DOMAIN ranges : ranges[i] = p}
        IN  /\ Len(ranges) <= RangeCapacity
            /\ \A i \in DOMAIN ranges :
                  /\ ranges[i].start < ranges[i].end
                  /\ \E s \in DOMAIN Sections :
                        /\ ranges[i].start >= Sections[s].start
                        /\ ranges[i].end <= Sections[s].end
                        /\ \/ ranges[i].start = Sections[s].start
                           \/ i > 1 /\ ranges[i - 1].end = ranges[i].start
                  /\ \/ ranges[i] \in patches
                     \/ /\ ranges[i].end - ranges[i].start <= Chunk
                        /\ \A p \in PartitionPoints :
                              p <= ranges[i].start \/ p >= ranges[i].end
            /\ Built => /\ whole = patches
                        /\ \A a \in Address : RangeIndexFor(a) # 0

\* Where the targets of a range are
Reached(phase_, i) == Range(TargetRanges(phase_, i)) \ {0}

\* The ranges at most n steps of a closure away from those in I
Within(I, phase_, n) ==
    LET within[k \in 0 .. n] ==
            IF k = 0 THEN I
            ELSE within[k - 1] \cup UNION {Reached(phase_, i) : i \in within[k - 1]}
    IN  within[n]

\* Every selected range is queued once, so the queue, which has room for every
\* range once, never overflows; and when a closure is over, exactly the ranges
\* within its depth have been added.
SelectionWithinDepth ==
    planPhase \in {"calls", "successors"} =>
        /\ IsInjective(queue)
        /\ Range(queue) = selected
        /\ ClosureDone =>
              selected = Within(Range(SubSeq(queue, 1, before)), planPhase, Limit)

\* Each range that is left is in one object, no range is left over, and the
\* patches are ranges still: the two checks of emit_code_sections_llvm hold.
ObjectsCoverRanges ==
    planPhase = "planned" =>
        /\ next = Len(ranges) + 1
        /\ \A p \in patches : RangeIndexFor(p.start) # 0 /\ ranges[RangeIndexFor(p.start)] = p
        /\ \A i \in DOMAIN ranges :
              Cardinality({k \in DOMAIN objects :
                 i \in objects[k].first .. objects[k].first + objects[k].count - 1}) = 1

\* Together: from the first range to the last object no instruction is lost or
\* translated twice, and what a profile selects is its seeds' surroundings, no
\* more and no less.
CodeCovered == RangesTile /\ SelectionWithinDepth /\ ObjectsCoverRanges
=============================================================================
