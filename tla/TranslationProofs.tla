-------------------------- MODULE TranslationProofs --------------------------
(***************************************************************************)
(* Proofs about what the translator works out before the code runs, for    *)
(* any code, modules, symbols and chunks.                                  *)
(*                                                                         *)
(* AbiPropagation: why the worklists end in summaries that are closed.  A  *)
(* range that is not queued has been merged with its present summary, so a *)
(* call can only be unmerged while its callee waits in the worklist.       *)
(*                                                                         *)
(* CallSites: a sweep that ends where it began has solved its equations at *)
(* every block, and a walk that obeys the equations block by block carries *)
(* the truth along.  The sweeps are recursive functions over the blocks,   *)
(* so the lemmas below first say what such a function computes.            *)
(*                                                                         *)
(* RelLayout: each module lies behind the ones before it, so what a field  *)
(* was written from, a target that is placed for good, is what it means.   *)
(*                                                                         *)
(* SymbolHeader: the table never fills up, so a probe meets a free slot or *)
(* the name itself, and among more suffixes than names one is free.        *)
(*                                                                         *)
(* AddressAnalysis: each operation on ranges covers the operation on the   *)
(* registers, so what is known of a register is true of its value.         *)
(*                                                                         *)
(* Dispatch: the chunks of a run are a stride apart and the runs follow    *)
(* each other, so the chunk the stride tells is the one at the address.    *)
(*                                                                         *)
(* RangePlan: below where the next range starts every instruction has its  *)
(* range, a closure has added what its visited ranges reach, and behind    *)
(* the ranges in objects none lies in a section that is done.              *)
(***************************************************************************)
EXTENDS AbiPropagation, CallSites, RelLayout, SymbolHeader, AddressAnalysis, Dispatch,
        RangePlan,
        FiniteSetTheorems, NaturalsInduction, WellFoundedInduction, TLAPS

-----------------------------------------------------------------------------
(* AbiPropagation                                                          *)

TypeOK ==
    /\ native \subseteq Fn
    /\ calls \subseteq Fn \X Fn
    /\ input \subseteq Fn
    /\ output \subseteq Fn
    /\ escape \subseteq Fn
    /\ work \subseteq Fn
    /\ step \in {"callers", "callees", "done"}

(* A call is merged: what its callee's summary has, its caller's has.       *)
MergedCall(c) ==
    /\ c[2] \in output => c[1] \in output
    /\ c[2] \in input /\ c \notin known => c[1] \in input

CallersMerged ==
    \A c \in Relation : step # "callers" \/ c[2] \notin work => MergedCall(c)

CalleesMerged ==
    /\ step = "callees" =>
          \A f \in Fn \ work : f \in escape \cup output => Callees(f) \subseteq escape
    /\ step = "done" => escape = {} \/ EscapesDown(escape)

IInv == TypeOK /\ CallersMerged /\ CalleesMerged /\ SummariesLeast

-----------------------------------------------------------------------------

LEMMA CallIsPair ==
    ASSUME TypeOK, NEW c \in Relation
    PROVE  c[1] \in Fn /\ c[2] \in Fn /\ c[1] \in Callers(c[2])
<1>1. c \in Fn \X Fn BY DEF TypeOK, Relation
<1>2. c = <<c[1], c[2]>> /\ c[1] \in Fn /\ c[2] \in Fn BY <1>1
<1> QED BY <1>2 DEF Callers

LEMMA InitIInv == AbiInit => IInv
<1> SUFFICES ASSUME AbiInit PROVE IInv OBVIOUS
<1>1. TypeOK BY DEF AbiInit, TypeOK
<1>2. CallersMerged BY <1>1, CallIsPair DEF AbiInit, CallersMerged
<1>3. CalleesMerged BY DEF AbiInit, CalleesMerged
<1>4. SummariesLeast BY DEF AbiInit, SummariesLeast
<1> QED BY <1>1, <1>2, <1>3, <1>4 DEF IInv

(* One callee leaves the worklist: its callers have what it has, and those  *)
(* that changed are queued.                                                 *)
LEMMA MergeCallersKeeps ==
    ASSUME IInv, NEW g \in Fn, MergeIntoCallers(g)
    PROVE  IInv'
<1> DEFINE needs == {f \in Callers(g) : g \in input /\ <<f, g>> \notin known}
           writes == {f \in Callers(g) : g \in output}
<1>1. /\ input' = input \cup needs
      /\ output' = output \cup writes
      /\ work' = (work \ {g}) \cup (needs \ input) \cup (writes \ output)
      /\ step = "callers" /\ step' = step /\ escape' = escape
      /\ native' = native /\ calls' = calls /\ known' = known
      /\ ownInput' = ownInput /\ ownOutput' = ownOutput
      BY DEF MergeIntoCallers, graph
<1>2. needs \subseteq Fn /\ writes \subseteq Fn BY DEF Callers
<1>3. TypeOK' BY <1>1, <1>2 DEF IInv, TypeOK
<1>4. Relation' = Relation BY <1>1 DEF Relation
<1>5. ASSUME NEW c \in Relation, c[2] \notin work'
      PROVE  MergedCall(c)'
  <2>1. c[1] \in Callers(c[2]) BY CallIsPair DEF IInv
  <2>2. c = <<c[1], c[2]>> BY DEF IInv, TypeOK, Relation
  <2>3. c[2] \in output' => c[2] \in output BY <1>1, <1>5
  <2>4. c[2] \in input' => c[2] \in input BY <1>1, <1>5
  <2>5. CASE c[2] = g
    <3>1. c[2] \in output => c[1] \in writes BY <2>1, <2>5
    <3>2. c[2] \in input /\ c \notin known => c[1] \in needs BY <2>1, <2>2, <2>5
    <3> QED BY <1>1, <2>3, <2>4, <3>1, <3>2 DEF MergedCall
  <2>6. CASE c[2] # g
    <3>1. c[2] \notin work BY <1>1, <1>5, <2>6
    <3>2. MergedCall(c) BY <3>1 DEF IInv, CallersMerged
    <3> QED BY <1>1, <2>3, <2>4, <3>2 DEF MergedCall
  <2> QED BY <2>5, <2>6
<1>6. CallersMerged' BY <1>1, <1>4, <1>5 DEF CallersMerged
<1>7. CalleesMerged' BY <1>1 DEF CalleesMerged
<1>8. ASSUME NEW S \in SUBSET Fn, ownOutput \subseteq S, ClosedOver(S, {})
      PROVE  output' \subseteq S
  <2>1. output \subseteq S BY <1>1, <1>8 DEF IInv, SummariesLeast
  <2>2. ASSUME NEW f \in writes PROVE f \in S
    <3>1. <<f, g>> \in Relation /\ g \in S BY <2>1, <2>2 DEF Callers
    <3>2. <<f, g>>[1] = f /\ <<f, g>>[2] = g OBVIOUS
    <3> QED BY <1>8, <3>1, <3>2 DEF ClosedOver
  <2> QED BY <1>1, <2>1, <2>2
<1>9. ASSUME NEW S \in SUBSET Fn, ownInput \subseteq S, ClosedOver(S, known)
      PROVE  input' \subseteq S
  <2>1. input \subseteq S BY <1>1, <1>9 DEF IInv, SummariesLeast
  <2>2. ASSUME NEW f \in needs PROVE f \in S
    <3>1. <<f, g>> \in Relation /\ g \in S /\ <<f, g>> \notin known
          BY <2>1, <2>2 DEF Callers
    <3>2. <<f, g>>[1] = f /\ <<f, g>>[2] = g OBVIOUS
    <3> QED BY <1>9, <3>1, <3>2 DEF ClosedOver
  <2> QED BY <1>1, <2>1, <2>2
<1>10. SummariesLeast'
  <2>1. ASSUME NEW S \in SUBSET Fn
        PROVE  /\ ownOutput' \subseteq S /\ ClosedOver(S, {})' => output' \subseteq S
               /\ ownInput' \subseteq S /\ ClosedOver(S, known)' => input' \subseteq S
    <3>1. ClosedOver(S, {})' => ClosedOver(S, {}) BY <1>4 DEF ClosedOver
    <3>2. ClosedOver(S, known)' => ClosedOver(S, known) BY <1>1, <1>4 DEF ClosedOver
    <3> QED BY <1>1, <1>8, <1>9, <3>1, <3>2
  <2> QED BY <2>1 DEF SummariesLeast
<1> QED BY <1>3, <1>6, <1>7, <1>10 DEF IInv

(* A caller leaves the second worklist: its callees' escapes hold what it   *)
(* holds, and those that changed are queued.                                *)
LEMMA MergeCalleesKeeps ==
    ASSUME IInv, NEW f \in Fn, MergeIntoCallees(f)
    PROVE  IInv'
<1> DEFINE held == {g \in Callees(f) : f \in escape \cup output}
<1>1. /\ escape' = escape \cup held
      /\ work' = (work \ {f}) \cup (held \ escape)
      /\ step = "callees" /\ step' = step
      /\ input' = input /\ output' = output
      /\ native' = native /\ calls' = calls /\ known' = known
      /\ ownInput' = ownInput /\ ownOutput' = ownOutput
      BY DEF MergeIntoCallees, graph
<1>2. held \subseteq Fn BY DEF Callees
<1>3. TypeOK' BY <1>1, <1>2 DEF IInv, TypeOK
<1>4. Relation' = Relation BY <1>1 DEF Relation
<1>5. CallersMerged' BY <1>1, <1>4 DEF IInv, CallersMerged, MergedCall
<1>6. ASSUME NEW h \in Fn \ work', h \in escape' \cup output
      PROVE  Callees(h)' \subseteq escape'
  <2>1. h \in escape \cup output BY <1>1, <1>6
  <2>2. Callees(h)' = Callees(h) BY <1>1, <1>4 DEF Callees
  <2>3. CASE h = f BY <1>1, <2>1, <2>2, <2>3
  <2>4. CASE h # f
    <3>1. h \notin work BY <1>1, <1>6, <2>4
    <3>2. Callees(h) \subseteq escape BY <1>1, <2>1, <3>1 DEF IInv, CalleesMerged
    <3> QED BY <1>1, <2>2, <3>2
  <2> QED BY <2>3, <2>4
<1>7. CalleesMerged' BY <1>1, <1>6 DEF CalleesMerged
<1>8. SummariesLeast' BY <1>1, <1>4 DEF IInv, SummariesLeast, ClosedOver
<1> QED BY <1>3, <1>5, <1>7, <1>8 DEF IInv

LEMMA FinishKeeps ==
    ASSUME IInv, NEW kept \in SUBSET native, NEW modern \in BOOLEAN, Finish(kept, modern)
    PROVE  IInv'
<1>1. /\ step = "callees" /\ work = {} /\ step' = "done"
      /\ escape' = {} \/ escape' = escape
      /\ native' \subseteq native /\ calls' = calls /\ known' = known
      /\ input' = input /\ output' = output /\ work' = work
      BY DEF Finish
<1>2. TypeOK' BY <1>1 DEF IInv, TypeOK
<1>3. Relation' \subseteq Relation BY <1>1 DEF Relation
<1>4. CallersMerged' BY <1>1, <1>3 DEF IInv, CallersMerged, MergedCall
<1>5. CalleesMerged'
  <2>1. ASSUME NEW f \in Fn PROVE Callees(f)' \subseteq Callees(f)
        BY <1>1, <1>3 DEF Callees
  <2>2. \A f \in Fn : f \in escape \cup output => Callees(f) \subseteq escape
        BY <1>1 DEF IInv, CalleesMerged
  <2>3. escape' = escape => EscapesDown(escape)' BY <1>1, <2>1, <2>2 DEF EscapesDown
  <2> QED BY <1>1, <2>3 DEF CalleesMerged
<1>6. SummariesLeast' BY <1>1 DEF SummariesLeast
<1> QED BY <1>2, <1>4, <1>5, <1>6 DEF IInv

LEMMA NextKeeps == IInv /\ [AbiNext]_apVars => IInv'
<1> SUFFICES ASSUME IInv, [AbiNext]_apVars PROVE IInv' OBVIOUS
<1>1. CASE \E g \in Fn : MergeIntoCallers(g) BY <1>1, MergeCallersKeeps
<1>2. CASE \E f \in Fn : MergeIntoCallees(f) BY <1>2, MergeCalleesKeeps
<1>3. CASE \E kept \in SUBSET native, modern \in BOOLEAN : Finish(kept, modern)
      BY <1>3, FinishKeeps
<1>4. CASE StartCallees
  <2> USE <1>4 DEF StartCallees, graph
  <2>1. TypeOK' BY DEF IInv, TypeOK
  <2>2. Relation' = Relation BY DEF Relation
  <2>3. CallersMerged' BY <2>2 DEF IInv, CallersMerged, MergedCall
  <2>4. CalleesMerged' BY DEF CalleesMerged
  <2>5. SummariesLeast' BY <2>2 DEF IInv, SummariesLeast, ClosedOver
  <2> QED BY <2>1, <2>3, <2>4, <2>5 DEF IInv
<1>5. CASE SecondRound
  <2> USE <1>5 DEF SecondRound, graph
  <2>1. TypeOK' BY DEF IInv, TypeOK
  <2>2. Relation' = Relation BY DEF Relation
  <2>3. CallersMerged' BY <2>2 DEF IInv, CallersMerged, MergedCall
  <2>4. CalleesMerged' BY DEF CalleesMerged
  <2>5. SummariesLeast' BY <2>2 DEF IInv, SummariesLeast, ClosedOver
  <2> QED BY <2>1, <2>3, <2>4, <2>5 DEF IInv
<1>6. CASE UNCHANGED apVars
  <2> USE <1>6 DEF apVars, graph
  <2>1. TypeOK' BY DEF IInv, TypeOK
  <2>2. Relation' = Relation BY DEF Relation
  <2>3. CallersMerged' BY <2>2 DEF IInv, CallersMerged, MergedCall
  <2>4. CalleesMerged' BY <2>2 DEF IInv, CalleesMerged, EscapesDown, Callees
  <2>5. SummariesLeast' BY <2>2 DEF IInv, SummariesLeast, ClosedOver
  <2> QED BY <2>1, <2>3, <2>4, <2>5 DEF IInv
<1> QED BY <1>1, <1>2, <1>3, <1>4, <1>5, <1>6 DEF AbiNext

LEMMA IInvIsExact == IInv => SummariesExact
<1> SUFFICES ASSUME IInv PROVE SummariesClosed
    BY DEF IInv, SummariesExact
<1>1. step # "callers" => ClosedOver(output, {}) /\ ClosedOver(input, known)
      BY DEF IInv, CallersMerged, MergedCall, ClosedOver
<1>2. step = "done" /\ escape # {} => EscapesDown(escape)
      BY DEF IInv, CalleesMerged
<1> QED BY <1>1, <1>2 DEF SummariesClosed

(* The summaries the worklists end with (abi_policy.cpp) are the least ones *)
(* closed over the calls, whatever the ranges, their calls and cycles, and  *)
(* the order in which the worklists are emptied.                            *)
THEOREM SummariesAreExact == AbiSpec => []SummariesExact
<1>1. AbiSpec => []IInv BY InitIInv, NextKeeps, PTL DEF AbiSpec
<1> QED BY <1>1, IInvIsExact, PTL

-----------------------------------------------------------------------------
(* Recursive functions on 0 .. N                                           *)

LEMMA LeastNumber ==
    ASSUME NEW T, T \subseteq Nat, T # {}
    PROVE  \E n \in T : \A m \in T : n <= m
<1>1. PICK n \in T : \A m \in T : ~(<<m, n>> \in OpToRel(<, Nat))
      BY WFMin, NatLessThanWellFounded
<1>2. \A m \in T : ~(m < n) BY <1>1 DEF OpToRel
<1> QED BY <1>2

(* A recursive function on 0 .. N exists: its step k is given as g[k].      *)
Runs(f, n, x, g) == f[0] = x /\ \A k \in 1 .. n : f[k] = g[k][f[k - 1]]

LEMMA RunExists ==
    ASSUME NEW N \in Nat, NEW S, NEW x \in S, NEW g \in [1 .. N -> [S -> S]]
    PROVE  \E f \in [0 .. N -> S] : Runs(f, N, x, g)
<1> DEFINE Has(n) == \E f \in [0 .. n -> S] : Runs(f, n, x, g)
           Bad == {n \in 0 .. N : ~Has(n)}
<1> SUFFICES ASSUME Bad # {} PROVE FALSE OBVIOUS
<1>1. PICK n \in Bad : \A m \in Bad : n <= m
      <2>1. Bad \subseteq Nat OBVIOUS
      <2> HIDE DEF Bad
      <2> QED BY <2>1, LeastNumber
<1>2. n \in 0 .. N /\ ~Has(n) BY <1>1
<1>3. CASE n = 0
  <2>1. [k \in 0 .. 0 |-> x] \in [0 .. n -> S] BY <1>3
  <2>2. Runs([k \in 0 .. 0 |-> x], n, x, g) BY <1>3 DEF Runs
  <2> QED BY <2>1, <2>2, <1>2
<1>4. CASE n # 0
  <2>1. n \in Nat /\ n - 1 \in 0 .. N /\ n \in 1 .. N BY <1>2, <1>4
  <2>2. Has(n - 1)
    <3>1. ~(n <= n - 1) BY <2>1
    <3>2. n - 1 \notin Bad
      <4> HIDE DEF Bad
      <4> QED BY <3>1, <1>1
    <3> QED BY <3>2, <2>1
  <2>3. PICK f \in [0 .. n - 1 -> S] : Runs(f, n - 1, x, g) BY <2>2
  <2> DEFINE h == [k \in 0 .. n |-> IF k = n THEN g[n][f[n - 1]] ELSE f[k]]
  <2>4. n - 1 \in 0 .. n - 1 /\ f[n - 1] \in S /\ g[n][f[n - 1]] \in S BY <2>1, <2>3
  <2>5. h \in [0 .. n -> S]
    <3> SUFFICES ASSUME NEW k \in 0 .. n PROVE h[k] \in S OBVIOUS
    <3>1. CASE k = n BY <3>1, <2>4
    <3>2. CASE k # n
      <4>1. k \in 0 .. n - 1 BY <3>2, <2>1
      <4> QED BY <4>1, <3>2, <2>3
    <3> QED BY <3>1, <3>2
  <2>6. h[0] = x BY <2>3, <1>4, <2>1 DEF Runs
  <2>7. ASSUME NEW k \in 1 .. n PROVE h[k] = g[k][h[k - 1]]
    <3>1. k - 1 \in 0 .. n - 1 /\ h[k - 1] = f[k - 1] BY <2>1
    <3>2. CASE k = n BY <3>1, <3>2
    <3>3. CASE k # n
      <4>1. k \in 1 .. n - 1 /\ h[k] = f[k] BY <3>3, <2>1
      <4> QED BY <4>1, <3>1, <2>3 DEF Runs
    <3> QED BY <3>2, <3>3
  <2>8. Runs(h, n, x, g)
    <3> HIDE DEF h
    <3> QED BY <2>6, <2>7 DEF Runs
  <2> HIDE DEF h
  <2> QED BY <2>5, <2>8, <1>2
<1> QED BY <1>3, <1>4

(* What each step of a run keeps holds all along it.                        *)
LEMMA RunStays ==
    ASSUME NEW N \in Nat, NEW S, NEW v, v[0] \in S,
           \A k \in 1 .. N : v[k - 1] \in S => v[k] \in S
    PROVE  \A k \in 0 .. N : v[k] \in S
<1> DEFINE Bad == {k \in 0 .. N : v[k] \notin S}
<1> SUFFICES ASSUME Bad # {} PROVE FALSE OBVIOUS
<1>1. PICK k \in Bad : \A m \in Bad : k <= m
      <2>1. Bad \subseteq Nat OBVIOUS
      <2> HIDE DEF Bad
      <2> QED BY <2>1, LeastNumber
<1>2. k \in 1 .. N /\ v[k] \notin S BY <1>1
<1>3. k - 1 \in 0 .. N /\ ~(k <= k - 1) BY <1>2
<1>4. k - 1 \notin Bad
  <2> HIDE DEF Bad
  <2> QED BY <1>3, <1>1
<1> QED BY <1>2, <1>3, <1>4

(* Step k of a sweep visits k - 1 only.  A sweep that ends where it began   *)
(* never moved.                                                             *)
LEMMA SweepStands ==
    ASSUME NEW N \in Nat, NEW v, v[N] = v[0],
           \A k \in 1 .. N : v[k] \ {k - 1} = v[k - 1] \ {k - 1}
    PROVE  \A k \in 0 .. N : v[k] = v[0]
<1> DEFINE Bad == {k \in 0 .. N : v[k] # v[0]}
<1> SUFFICES ASSUME Bad # {} PROVE FALSE OBVIOUS
<1>1. PICK k \in Bad : \A m \in Bad : k <= m
      <2>1. Bad \subseteq Nat OBVIOUS
      <2> HIDE DEF Bad
      <2> QED BY <2>1, LeastNumber
<1>2. k \in 0 .. N /\ v[k] # v[0] /\ k \in 1 .. N BY <1>1
<1>3. v[k - 1] = v[0]
  <2>1. k - 1 \in 0 .. N /\ ~(k <= k - 1) BY <1>2
  <2>2. k - 1 \notin Bad
    <3> HIDE DEF Bad
    <3> QED BY <2>1, <1>1
  <2> QED BY <2>1, <2>2
<1>4. v[k] \ {k - 1} = v[0] \ {k - 1} BY <1>2, <1>3
<1>5. ~(k - 1 \in v[k] <=> k - 1 \in v[0])
  <2> SUFFICES ASSUME k - 1 \in v[k] <=> k - 1 \in v[0] PROVE FALSE OBVIOUS
  <2>1. \A e : e \in v[k] <=> e \in v[0] BY <1>4
  <2>2. v[k] = v[0] BY <2>1
  <2> QED BY <2>2, <1>2
<1> DEFINE Late == {j \in k .. N : ~(k - 1 \in v[j] <=> k - 1 \in v[k])}
<1>6. N \in Late BY <1>2, <1>5
<1>7. PICK j \in Late : \A m \in Late : j <= m
      <2>1. Late \subseteq Nat BY <1>2
      <2> HIDE DEF Late
      <2> QED BY <2>1, <1>6, LeastNumber
<1>8. j \in k .. N /\ ~(k - 1 \in v[j] <=> k - 1 \in v[k]) BY <1>7
<1>9. j - 1 \in k .. N /\ j \in 1 .. N /\ j - 1 # k - 1 /\ ~(j <= j - 1)
  <2>1. j # k BY <1>8
  <2> QED BY <2>1, <1>2, <1>8
<1>10. k - 1 \in v[j - 1] <=> k - 1 \in v[k]
  <2>1. j - 1 \notin Late
    <3> HIDE DEF Late
    <3> QED BY <1>9, <1>7
  <2> QED BY <1>9, <2>1
<1>11. v[j] \ {j - 1} = v[j - 1] \ {j - 1} BY <1>9
<1> QED BY <1>8, <1>9, <1>10, <1>11

LEMMA Elements ==
    ASSUME NEW S, NEW s \in Seq(S)
    PROVE  Len(s) \in Nat /\ \A i \in 1 .. Len(s) : s[i] \in S
OBVIOUS

(* Division.                                                                *)
LEMMA DivMod ==
    ASSUME NEW a \in Nat \ {0}, NEW x \in Int
    PROVE  x = a * (x \div a) + (x % a) /\ x % a \in 0 .. a - 1 /\ x \div a \in Int
OBVIOUS

LEMMA ModUnique ==
    ASSUME NEW a \in Nat \ {0}, NEW q \in Int, NEW r \in 0 .. a - 1, NEW x \in Int, x = a * q + r
    PROVE  x % a = r /\ x \div a = q
<1> DEFINE p == x \div a
           s == x % a
<1>1. x = a * p + s /\ s \in 0 .. a - 1 /\ p \in Int BY DivMod
<1> HIDE DEF p, s
<1>2. a * (p - q) = r - s BY <1>1
<1>3. p = q
  <2>1. CASE p > q
    <3>1. a * (p - q) >= a BY <1>1, <2>1
    <3> QED BY <1>1, <1>2, <3>1
  <2>2. CASE p < q
    <3>1. a * (p - q) <= 0 - a BY <1>1, <2>2
    <3> QED BY <1>1, <1>2, <3>1
  <2> QED BY <1>1, <2>1, <2>2
<1>4. s = r BY <1>1, <1>3
<1> QED BY <1>3, <1>4 DEF p, s

LEMMA RoundedUp ==
    ASSUME NEW v \in Nat, NEW a \in Nat \ {0}
    PROVE  ((v + a - 1) \div a) * a \in Nat /\ ((v + a - 1) \div a) * a >= v
<1> DEFINE x == v + a - 1
           q == x \div a
           r == x % a
<1>1. x \in Int /\ x = v + a - 1 OBVIOUS
<1> HIDE DEF x
<1>2. x = a * q + r /\ r \in 0 .. a - 1 /\ q \in Int BY <1>1, DivMod
<1> HIDE DEF q, r
<1>3. a * q = q * a /\ q * a \in Int BY <1>2
<1> DEFINE p == q * a
<1>4. p \in Int /\ x = p + r BY <1>2, <1>3
<1> HIDE DEF p
<1>5. p >= v BY <1>1, <1>2, <1>4
<1>6. p \in Nat BY <1>4, <1>5
<1> QED BY <1>5, <1>6 DEF q, p, x

-----------------------------------------------------------------------------
(* CallSites                                                               *)

LEMMA VisitsStay ==
    ASSUME NEW b \in Blocks, NEW out \in SUBSET Blocks
    PROVE  DefiniteVisit(b, out) \in SUBSET Blocks /\ DirtyVisit(b, out) \in SUBSET Blocks
BY DEF DefiniteVisit, DirtyVisit

LEMMA DefiniteSweeps ==
    ASSUME NEW out \in SUBSET Blocks
    PROVE  \E v : /\ v[0] = out /\ v[LastBlock + 1] = DefiniteSweep(out)
                 /\ \A k \in 1 .. LastBlock + 1 : v[k] = DefiniteVisit(k - 1, v[k - 1])
<1> DEFINE R(v) == v = [k \in 0 .. LastBlock + 1 |->
                          IF k = 0 THEN out ELSE DefiniteVisit(k - 1, v[k - 1])]
           g == [k \in 1 .. LastBlock + 1 |-> [x \in SUBSET Blocks |-> DefiniteVisit(k - 1, x)]]
           visited == CHOOSE v : R(v)
<1>1. LastBlock + 1 \in Nat
      /\ \A k \in 1 .. LastBlock + 1 : k - 1 \in Blocks /\ k - 1 \in 0 .. LastBlock + 1
      BY CallsAssumption DEF Blocks
<1>2. g \in [1 .. LastBlock + 1 -> [SUBSET Blocks -> SUBSET Blocks]] BY <1>1, VisitsStay
<1>3. PICK f \in [0 .. LastBlock + 1 -> SUBSET Blocks] : Runs(f, LastBlock + 1, out, g)
  <2> HIDE DEF g
  <2> QED BY <1>1, <1>2, RunExists
<1>4. R(f)
  <2> SUFFICES ASSUME NEW k \in 0 .. LastBlock + 1
               PROVE  f[k] = IF k = 0 THEN out ELSE DefiniteVisit(k - 1, f[k - 1])
      OBVIOUS
  <2>1. CASE k = 0 BY <2>1, <1>3 DEF Runs
  <2>2. CASE k # 0
    <3>1. k \in 1 .. LastBlock + 1 BY <2>2, <1>1
    <3>2. f[k] = g[k][f[k - 1]] /\ f[k - 1] \in SUBSET Blocks BY <3>1, <1>1, <1>3 DEF Runs
    <3> QED BY <3>1, <3>2, <2>2
  <2> QED BY <2>1, <2>2
<1>5. R(visited)
  <2> HIDE DEF R
  <2> QED BY <1>4
<1>6. visited[LastBlock + 1] = DefiniteSweep(out) BY DEF DefiniteSweep
<1> HIDE DEF visited, g
<1>7. /\ visited[0] = out
      /\ \A k \in 1 .. LastBlock + 1 : visited[k] = DefiniteVisit(k - 1, visited[k - 1])
  <2>1. 0 \in 0 .. LastBlock + 1
        /\ \A k \in 1 .. LastBlock + 1 : k \in 0 .. LastBlock + 1 /\ k # 0
        BY <1>1
  <2> QED BY <1>5, <2>1
<1> HIDE DEF R
<1> QED BY <1>6, <1>7

LEMMA DefiniteSettles ==
    ASSUME NEW out \in SUBSET Blocks
    PROVE  /\ DefiniteSweep(out) \in SUBSET Blocks
           /\ DefiniteSweep(out) = out =>
                \A b \in Blocks : b \in out <=> DefiniteIn(b, out) \/ b \in defs
<1>1. PICK v : /\ v[0] = out /\ v[LastBlock + 1] = DefiniteSweep(out)
               /\ \A k \in 1 .. LastBlock + 1 : v[k] = DefiniteVisit(k - 1, v[k - 1])
      BY DefiniteSweeps
<1>2. LastBlock + 1 \in Nat /\ \A k \in 1 .. LastBlock + 1 : k - 1 \in Blocks
      BY CallsAssumption DEF Blocks
<1>3. DefiniteSweep(out) \in SUBSET Blocks
  <2>1. \A k \in 1 .. LastBlock + 1 : v[k - 1] \in SUBSET Blocks => v[k] \in SUBSET Blocks
        BY <1>1, <1>2, VisitsStay
  <2>2. \A k \in 0 .. LastBlock + 1 : v[k] \in SUBSET Blocks BY <1>1, <1>2, <2>1, RunStays
  <2> QED BY <1>1, <1>2, <2>2
<1>4. ASSUME DefiniteSweep(out) = out, NEW b \in Blocks
      PROVE  b \in out <=> DefiniteIn(b, out) \/ b \in defs
  <2>1. \A k \in 1 .. LastBlock + 1 : v[k] \ {k - 1} = v[k - 1] \ {k - 1}
        BY <1>1 DEF DefiniteVisit
  <2>2. \A k \in 0 .. LastBlock + 1 : v[k] = out BY <1>1, <1>2, <1>4, <2>1, SweepStands
  <2>3. /\ b + 1 \in 1 .. LastBlock + 1 /\ b \in 0 .. LastBlock + 1
        /\ b + 1 \in 0 .. LastBlock + 1 /\ b + 1 - 1 = b
        BY CallsAssumption DEF Blocks
  <2>4. out = DefiniteVisit(b, out) BY <1>1, <2>2, <2>3
  <2> QED BY <2>4 DEF DefiniteVisit
<1> QED BY <1>3, <1>4

LEMMA DirtySweeps ==
    ASSUME NEW out \in SUBSET Blocks
    PROVE  \E v : /\ v[0] = out /\ v[LastBlock + 1] = DirtySweep(out)
                 /\ \A k \in 1 .. LastBlock + 1 : v[k] = DirtyVisit(k - 1, v[k - 1])
<1> DEFINE R(v) == v = [k \in 0 .. LastBlock + 1 |->
                          IF k = 0 THEN out ELSE DirtyVisit(k - 1, v[k - 1])]
           g == [k \in 1 .. LastBlock + 1 |-> [x \in SUBSET Blocks |-> DirtyVisit(k - 1, x)]]
           visited == CHOOSE v : R(v)
<1>1. LastBlock + 1 \in Nat
      /\ \A k \in 1 .. LastBlock + 1 : k - 1 \in Blocks /\ k - 1 \in 0 .. LastBlock + 1
      BY CallsAssumption DEF Blocks
<1>2. g \in [1 .. LastBlock + 1 -> [SUBSET Blocks -> SUBSET Blocks]] BY <1>1, VisitsStay
<1>3. PICK f \in [0 .. LastBlock + 1 -> SUBSET Blocks] : Runs(f, LastBlock + 1, out, g)
  <2> HIDE DEF g
  <2> QED BY <1>1, <1>2, RunExists
<1>4. R(f)
  <2> SUFFICES ASSUME NEW k \in 0 .. LastBlock + 1
               PROVE  f[k] = IF k = 0 THEN out ELSE DirtyVisit(k - 1, f[k - 1])
      OBVIOUS
  <2>1. CASE k = 0 BY <2>1, <1>3 DEF Runs
  <2>2. CASE k # 0
    <3>1. k \in 1 .. LastBlock + 1 BY <2>2, <1>1
    <3>2. f[k] = g[k][f[k - 1]] /\ f[k - 1] \in SUBSET Blocks BY <3>1, <1>1, <1>3 DEF Runs
    <3> QED BY <3>1, <3>2, <2>2
  <2> QED BY <2>1, <2>2
<1>5. R(visited)
  <2> HIDE DEF R
  <2> QED BY <1>4
<1>6. visited[LastBlock + 1] = DirtySweep(out) BY DEF DirtySweep
<1> HIDE DEF visited, g
<1>7. /\ visited[0] = out
      /\ \A k \in 1 .. LastBlock + 1 : visited[k] = DirtyVisit(k - 1, visited[k - 1])
  <2>1. 0 \in 0 .. LastBlock + 1
        /\ \A k \in 1 .. LastBlock + 1 : k \in 0 .. LastBlock + 1 /\ k # 0
        BY <1>1
  <2> QED BY <1>5, <2>1
<1> HIDE DEF R
<1> QED BY <1>6, <1>7

LEMMA DirtySettles ==
    ASSUME NEW out \in SUBSET Blocks
    PROVE  /\ DirtySweep(out) \in SUBSET Blocks
           /\ DirtySweep(out) = out =>
                \A b \in Blocks : b \in out <=> DirtyIn(b, out) \/ b \in defs \cup PostCallDefs
<1>1. PICK v : /\ v[0] = out /\ v[LastBlock + 1] = DirtySweep(out)
               /\ \A k \in 1 .. LastBlock + 1 : v[k] = DirtyVisit(k - 1, v[k - 1])
      BY DirtySweeps
<1>2. LastBlock + 1 \in Nat /\ \A k \in 1 .. LastBlock + 1 : k - 1 \in Blocks
      BY CallsAssumption DEF Blocks
<1>3. DirtySweep(out) \in SUBSET Blocks
  <2>1. \A k \in 1 .. LastBlock + 1 : v[k - 1] \in SUBSET Blocks => v[k] \in SUBSET Blocks
        BY <1>1, <1>2, VisitsStay
  <2>2. \A k \in 0 .. LastBlock + 1 : v[k] \in SUBSET Blocks BY <1>1, <1>2, <2>1, RunStays
  <2> QED BY <1>1, <1>2, <2>2
<1>4. ASSUME DirtySweep(out) = out, NEW b \in Blocks
      PROVE  b \in out <=> DirtyIn(b, out) \/ b \in defs \cup PostCallDefs
  <2>1. \A k \in 1 .. LastBlock + 1 : v[k] \ {k - 1} = v[k - 1] \ {k - 1}
        BY <1>1 DEF DirtyVisit
  <2>2. \A k \in 0 .. LastBlock + 1 : v[k] = out BY <1>1, <1>2, <1>4, <2>1, SweepStands
  <2>3. /\ b + 1 \in 1 .. LastBlock + 1 /\ b \in 0 .. LastBlock + 1
        /\ b + 1 \in 0 .. LastBlock + 1 /\ b + 1 - 1 = b
        BY CallsAssumption DEF Blocks
  <2>4. out = DirtyVisit(b, out) BY <1>1, <2>2, <2>3
  <2> QED BY <2>4 DEF DirtyVisit
<1> QED BY <1>3, <1>4

(* The bits the walk carries, and the analyses' answers at rest.            *)
CallsTypeOK ==
    /\ definite \in SUBSET Blocks
    /\ dirty \in SUBSET Blocks
    /\ at \in Blocks \cup {Other}
    /\ phase # "walk" => at = Other

(* A pass that changed nothing left a solution of its equations.            *)
Settled ==
    /\ phase \in {"dirty", "walk"} =>
         \A b \in Blocks : b \in definite <=> DefiniteIn(b, definite) \/ b \in defs
    /\ phase = "walk" =>
         \A b \in Blocks : b \in dirty <=> DirtyIn(b, dirty) \/ b \in defs \cup PostCallDefs

(* What the walk did is what the analyses say of the block it has reached.  *)
Tracked ==
    /\ (Walking /\ way # "strayed" /\ unpublished) => DirtyIn(at, dirty)
    /\ (Walking /\ way = "known" /\ start = 0 /\ DefiniteIn(at, definite)) => defined

CallsInv == CallsTypeOK /\ Settled /\ Tracked

LEMMA OtherIsNoBlock == Other \notin Blocks /\ 0 \in Blocks
BY CallsAssumption DEF Other, Blocks

LEMMA CallsStart == CallsInit => CallsInv
<1> SUFFICES ASSUME CallsInit PROVE CallsInv OBVIOUS
<1>1. CallsTypeOK BY DEF CallsInit, CallsTypeOK
<1>2. Settled BY DEF CallsInit, Settled
<1>3. Tracked BY DEF CallsInit, Tracked, Walking
<1> QED BY <1>1, <1>2, <1>3 DEF CallsInv

(* The graph is that of the code, which no step changes.                    *)
LEMMA GraphStays ==
    ASSUME UNCHANGED <<term, defs>>
    PROVE  /\ \A b : Successors(b)' = Successors(b) /\ Targets(b)' = Targets(b)
           /\ \A b : Predecessors(b)' = Predecessors(b)
           /\ PostCallDefs' = PostCallDefs
<1>1. \A b : Targets(b)' = Targets(b) BY DEF Targets, NextAddress
<1>2. \A b : Continuation(b)' = Continuation(b) BY DEF Continuation
<1>3. \A b : Successors(b)' = Successors(b) BY <1>1, <1>2 DEF Successors
<1>4. \A b : Predecessors(b)' = Predecessors(b) BY <1>3 DEF Predecessors
<1>5. PostCallDefs' = PostCallDefs BY <1>1 DEF PostCallDefs
<1> QED BY <1>1, <1>3, <1>4, <1>5

LEMMA SettledStays ==
    ASSUME Settled, UNCHANGED <<term, defs, phase, definite, dirty>> PROVE Settled'
BY GraphStays DEF Settled, DefiniteIn, DirtyIn

LEMMA DefinitePass == CallsInv /\ SweepDefinite => CallsInv'
<1> SUFFICES ASSUME CallsInv, SweepDefinite PROVE CallsInv' OBVIOUS
<1>1. CallsTypeOK /\ Settled /\ Tracked BY DEF CallsInv
<1>2. /\ phase = "definite" /\ phase' \in {"definite", "dirty"}
      /\ definite' = DefiniteSweep(definite)
      /\ UNCHANGED <<term, defs, dirty, at>>
      /\ phase' = "dirty" => DefiniteSweep(definite) = definite
      BY DEF SweepDefinite
<1>3. /\ definite' \in SUBSET Blocks
      /\ phase' = "dirty" =>
           \A b \in Blocks : b \in definite <=> DefiniteIn(b, definite) \/ b \in defs
      BY <1>1, <1>2, DefiniteSettles DEF CallsTypeOK
<1>4. CallsTypeOK' BY <1>1, <1>2, <1>3 DEF CallsTypeOK
<1>5. Settled' BY <1>2, <1>3, GraphStays DEF Settled, DefiniteIn
<1>6. Tracked' BY <1>2 DEF Tracked, Walking
<1> QED BY <1>4, <1>5, <1>6 DEF CallsInv

LEMMA DirtyPass == CallsInv /\ SweepDirty => CallsInv'
<1> SUFFICES ASSUME CallsInv, SweepDirty PROVE CallsInv' OBVIOUS
<1>1. CallsTypeOK /\ Settled /\ Tracked BY DEF CallsInv
<1>2. /\ phase = "dirty" /\ phase' \in {"dirty", "walk"}
      /\ dirty' = DirtySweep(dirty)
      /\ UNCHANGED <<term, defs, definite, at>>
      /\ phase' = "walk" => DirtySweep(dirty) = dirty
      BY DEF SweepDirty
<1>3. /\ dirty' \in SUBSET Blocks
      /\ phase' = "walk" =>
           \A b \in Blocks : b \in dirty <=> DirtyIn(b, dirty) \/ b \in defs \cup PostCallDefs
      BY <1>1, <1>2, DirtySettles DEF CallsTypeOK
<1>4. at' = Other /\ CallsTypeOK' BY <1>1, <1>2, <1>3 DEF CallsTypeOK
<1>5. Settled' BY <1>1, <1>2, <1>3, GraphStays DEF Settled, DefiniteIn, DirtyIn
<1>6. Tracked' BY <1>4, OtherIsNoBlock DEF Tracked, Walking
<1> QED BY <1>4, <1>5, <1>6 DEF CallsInv

(* A successor's masks hold what is so behind the block before it.          *)
LEMMA SuccessorsSee ==
    ASSUME CallsInv, Walking, NEW b \in Blocks, b \in Successors(at)
    PROVE  /\ (at \in dirty => DirtyIn(b, dirty)) /\ (DefiniteIn(b, definite) => at \in definite)
           /\ (at \in defs \cup PostCallDefs \/ DirtyIn(at, dirty)) => at \in dirty
           /\ at \in definite => DefiniteIn(at, definite) \/ at \in defs
<1>1. at \in Blocks /\ phase = "walk" /\ at \in Predecessors(b) BY DEF Walking, Predecessors
<1>2. Settled BY DEF CallsInv
<1>3. at \in dirty => DirtyIn(b, dirty) BY <1>1 DEF DirtyIn
<1>4. DefiniteIn(b, definite) => at \in definite BY <1>1 DEF DefiniteIn
<1>5. at \in dirty <=> DirtyIn(at, dirty) \/ at \in defs \cup PostCallDefs
      BY <1>1, <1>2 DEF Settled
<1>6. at \in definite <=> DefiniteIn(at, definite) \/ at \in defs
      BY <1>1, <1>2 DEF Settled
<1> QED BY <1>3, <1>4, <1>5, <1>6

Fixed == UNCHANGED <<term, defs, phase, definite, dirty>>

(* What a step of the walk must show.                                       *)
LEMMA WalkKeeps ==
    ASSUME CallsInv, Fixed, phase = "walk", at' \in Blocks \cup {Other},
           at' \in Blocks => Tracked'
    PROVE  CallsInv'
<1>1. CallsTypeOK /\ Settled /\ Tracked BY DEF CallsInv
<1>2. CallsTypeOK' BY <1>1 DEF CallsTypeOK, Fixed
<1>3. Settled' BY <1>1, SettledStays DEF Fixed
<1>4. Tracked' BY DEF Tracked, Walking
<1> QED BY <1>2, <1>3, <1>4 DEF CallsInv

LEMMA DirtyInStays ==
    ASSUME Fixed, at' \in Blocks
    PROVE  /\ DirtyIn(at, dirty)' <=> DirtyIn(at', dirty)
           /\ DefiniteIn(at, definite)' <=> DefiniteIn(at', definite)
BY GraphStays DEF Fixed, DirtyIn, DefiniteIn

LEMMA Goes ==
    ASSUME CallsInv, Walking, Fixed, NEW b \in Blocks, Goto(b) PROVE CallsInv'
<1>1. /\ at' = b /\ start' = start /\ unpublished' = (unpublished \/ at \in defs)
      /\ defined' = (defined \/ at \in defs)
      /\ way' = IF b \in Successors(at) THEN way ELSE "strayed"
      BY DEF Goto
<1>2. CallsTypeOK /\ Settled /\ Tracked BY DEF CallsInv
<1>3. CASE b \in Successors(at)
  <2>1. way' = way BY <1>1, <1>3
  <2>2. ASSUME way # "strayed", unpublished' PROVE DirtyIn(b, dirty)
    <3>1. unpublished => DirtyIn(at, dirty) BY <1>2, <2>2 DEF Tracked
    <3> QED BY <1>1, <1>3, <2>2, <3>1, SuccessorsSee
  <2>3. ASSUME way = "known", start = 0, DefiniteIn(b, definite) PROVE defined'
    <3>1. DefiniteIn(at, definite) => defined BY <1>2, <2>3 DEF Tracked
    <3> QED BY <1>1, <1>3, <2>3, <3>1, SuccessorsSee
  <2>4. Tracked' BY <1>1, <2>1, <2>2, <2>3, DirtyInStays DEF Tracked
  <2> QED BY <1>1, <2>4, WalkKeeps DEF Walking
<1>4. CASE b \notin Successors(at)
  <2>1. way' = "strayed" BY <1>1, <1>4
  <2>2. Tracked' BY <2>1 DEF Tracked
  <2> QED BY <1>1, <2>2, WalkKeeps DEF Walking
<1> QED BY <1>3, <1>4

LEMMA Leaves ==
    ASSUME CallsInv, Walking, Fixed, Leave PROVE CallsInv'
BY WalkKeeps, OtherIsNoBlock DEF Walking, Leave

LEMMA CallsGo == ASSUME CallsInv, CallNative PROVE CallsInv'
<1>1. /\ Walking /\ Fixed /\ Native \in Targets(at) /\ Continuation(at) # {}
      /\ at' = at + 1 /\ way' = way /\ start' = start
      /\ unpublished' = (unpublished \/ at \in defs \/ CalleeDefines)
      /\ defined' = (defined \/ at \in defs)
      BY DEF CallNative, Fixed
<1>2. CallsTypeOK /\ Settled /\ Tracked BY DEF CallsInv
<1>3. at \in Blocks /\ phase = "walk" BY <1>1 DEF Walking
<1>4. at + 1 \in Successors(at) /\ at + 1 \in Blocks /\ term[at].linked
      BY <1>1, <1>3, CallsAssumption DEF Continuation, Successors, Blocks
<1>5. CalleeDefines => at \in PostCallDefs BY <1>1, <1>3, <1>4 DEF PostCallDefs
<1>6. ASSUME way # "strayed", unpublished' PROVE DirtyIn(at + 1, dirty)
  <2>1. unpublished => DirtyIn(at, dirty) BY <1>1, <1>2, <1>6 DEF Tracked
  <2> QED BY <1>1, <1>4, <1>5, <1>6, <2>1, SuccessorsSee
<1>7. ASSUME way = "known", start = 0, DefiniteIn(at + 1, definite) PROVE defined'
  <2>1. DefiniteIn(at, definite) => defined BY <1>1, <1>2, <1>7 DEF Tracked
  <2> QED BY <1>1, <1>4, <1>7, <2>1, SuccessorsSee
<1>8. Tracked' BY <1>1, <1>4, <1>6, <1>7, DirtyInStays DEF Tracked
<1> QED BY <1>1, <1>3, <1>4, <1>8, WalkKeeps

LEMMA Interprets == ASSUME CallsInv, Interpret PROVE CallsInv'
<1>1. /\ Walking /\ Fixed /\ at < LastBlock /\ at' = at + 1 /\ ~unpublished' /\ way' # "known"
      BY DEF Interpret, Fixed
<1>2. at + 1 \in Blocks BY <1>1, CallsAssumption DEF Walking, Blocks
<1>3. Tracked' BY <1>1 DEF Tracked
<1> QED BY <1>1, <1>2, <1>3, WalkKeeps DEF Walking

LEMMA Enters == ASSUME CallsInv, NEW b \in Blocks, EnterAt(b) PROVE CallsInv'
<1>1. /\ phase = "walk" /\ Fixed /\ at' = b /\ start' = b /\ ~unpublished'
      BY DEF EnterAt, Fixed
<1>2. start' = 0 => ~DefiniteIn(at, definite)' BY <1>1 DEF DefiniteIn
<1>3. Tracked' BY <1>1, <1>2 DEF Tracked
<1> QED BY <1>1, <1>3, WalkKeeps

(* Every step keeps the invariant.                                         *)
LEMMA CallsSteps == CallsInv /\ [CallsNext]_csVars => CallsInv'
<1> SUFFICES ASSUME CallsInv, [CallsNext]_csVars PROVE CallsInv' OBVIOUS
<1>1. CASE SweepDefinite BY <1>1, DefinitePass
<1>2. CASE SweepDirty BY <1>2, DirtyPass
<1>3. ASSUME NEW b \in Blocks, EnterAt(b) PROVE CallsInv' BY <1>3, Enters
<1>4. CASE Jump
  <2>1. Walking /\ Fixed BY <1>4 DEF Jump, Fixed
  <2>2. Leave \/ \E b \in Blocks : Goto(b) BY <1>4 DEF Jump
  <2> QED BY <2>1, <2>2, Goes, Leaves
<1>5. CASE JumpIndirect
  <2>1. Walking /\ Fixed BY <1>5 DEF JumpIndirect, Fixed
  <2>2. Leave \/ \E b \in Continuations : Goto(b) BY <1>5 DEF JumpIndirect
  <2>3. Continuations \subseteq Blocks
        BY CallsAssumption DEF Continuations, Continuation, Blocks
  <2> QED BY <2>1, <2>2, <2>3, Goes, Leaves
<1>6. CASE CallNative BY <1>6, CallsGo
<1>7. CASE Interpret BY <1>7, Interprets
<1>8. CASE SideExit BY <1>8, Leaves DEF SideExit, Fixed
<1>9. CASE UNCHANGED csVars
  <2>1. /\ Fixed /\ UNCHANGED <<at, start, unpublished, defined, way>>
        BY <1>9 DEF csVars, Fixed
  <2>2. CallsTypeOK' BY <2>1 DEF CallsInv, CallsTypeOK, Fixed
  <2>3. Settled' BY <2>1, SettledStays DEF CallsInv, Fixed
  <2>4. Tracked' BY <2>1, GraphStays DEF CallsInv, Tracked, Walking, Fixed, DirtyIn, DefiniteIn
  <2> QED BY <2>2, <2>3, <2>4 DEF CallsInv
<1> QED BY <1>1, <1>2, <1>3, <1>4, <1>5, <1>6, <1>7, <1>8, <1>9 DEF CallsNext

LEMMA CallsInvariant == CallsSpec => []CallsInv
BY CallsStart, CallsSteps, PTL DEF CallsSpec

(* The mask of a call names the register whenever its local may be newer,   *)
(* for any code and any walk the analyses can see.                          *)
THEOREM CallsCovered == CallsSpec => []MasksCoverCalls
<1>1. CallsInv => MasksCoverCalls BY DEF CallsInv, Tracked, MasksCoverCalls, MayDirtyBefore
<1> QED BY <1>1, CallsInvariant, PTL

(* What the analyses call definitely defined was written, on every way from *)
(* the first instruction.                                                   *)
THEOREM DefiniteSound == CallsSpec => []DefiniteIsDefined
<1>1. CallsInv => DefiniteIsDefined BY DEF CallsInv, Tracked, DefiniteIsDefined
<1> QED BY <1>1, CallsInvariant, PTL

-----------------------------------------------------------------------------
(* RelLayout                                                               *)

RelSections == Seq([offset : Nat, size : Nat, executable : BOOLEAN])
RelEntries ==
    Seq([type : STRING, delta : Nat, section : Nat, symbol : 0 .. HalfSize * HalfSize - 1])
RelImports == Seq([module : Nat, entries : RelEntries])
ModuleEntries == SUBSET [section : Nat, offset : Nat]
RelFiles ==
    [ id : Nat, size : Nat, fix : Nat, bss : Nat, bssAlign : Nat \ {0},
      sections : RelSections, entries : ModuleEntries, imports : RelImports ]

(* A module that is placed: its sections fit its file and the address space,*)
(* and all of it lies below whatever comes behind.                          *)
Fitting(m) ==
    /\ \A i \in 1 .. Len(File(m).sections) :
         HasFileData(File(m).sections[i]) =>
            Fits(File(m).sections[i].offset, File(m).sections[i].size, File(m).size)
    /\ File(m).fix \in 1 .. File(m).size
    /\ BssEnd(File(m), bases[m])[Len(File(m).sections)] < AddressSpace
ModuleEnd(m) == bases[m] + File(m).size + File(m).bss

PlacedInv ==
    /\ directory \in Seq(RelFiles)
    /\ nextBase \in Nat /\ bases \in Seq(Nat) /\ Len(bases) <= Len(directory)
    /\ loading \in {"load", "relocate", "done", "failed"}
    /\ loading \in {"relocate", "done"} => Len(bases) = Len(directory)
    /\ \A m \in Placed : Fitting(m) /\ ModuleEnd(m) <= nextBase /\ ModuleEnd(m) < AddressSpace
    /\ \A m, n \in Placed : m < n => ModuleEnd(m) <= bases[n]
    /\ \A m, n \in Placed : File(m).id = File(n).id => m = n

LEMMA FileFields ==
    ASSUME NEW f \in RelFiles
    PROVE  /\ f.id \in Nat /\ f.size \in Nat /\ f.fix \in Nat /\ f.bss \in Nat
           /\ f.bssAlign \in Nat \ {0} /\ f.sections \in RelSections /\ f.imports \in RelImports
           /\ Len(f.sections) \in Nat
           /\ \A i \in 1 .. Len(f.sections) :
                f.sections[i].size \in Nat /\ f.sections[i].offset \in Nat
<1>1. /\ f.id \in Nat /\ f.size \in Nat /\ f.fix \in Nat /\ f.bss \in Nat
      /\ f.bssAlign \in Nat \ {0} /\ f.sections \in RelSections /\ f.imports \in RelImports
      BY DEF RelFiles
<1>2. Len(f.sections) \in Nat BY <1>1 DEF RelSections
<1>3. \A i \in 1 .. Len(f.sections) :
         f.sections[i] \in [offset : Nat, size : Nat, executable : BOOLEAN]
      BY <1>1, Elements DEF RelSections
<1> QED BY <1>1, <1>2, <1>3

LEMMA AlignedUp ==
    ASSUME NEW v \in Nat, NEW a \in Nat \ {0}
    PROVE  AlignUp(v, a) \in Nat /\ AlignUp(v, a) >= v
BY RoundedUp DEF AlignUp

LEMMA BssEndRuns ==
    ASSUME NEW f \in RelFiles, NEW base \in Nat
    PROVE  /\ BssEnd(f, base)[0] = AlignUp(base + f.fix, f.bssAlign)
           /\ \A i \in 1 .. Len(f.sections) :
                BssEnd(f, base)[i] =
                   IF IsBss(f.sections[i])
                   THEN AlignUp(BssEnd(f, base)[i - 1] + f.sections[i].size, f.bssAlign)
                   ELSE BssEnd(f, base)[i - 1]
<1> DEFINE N == Len(f.sections)
           R(v) == v = [i \in 0 .. N |->
                          IF i = 0 THEN AlignUp(base + f.fix, f.bssAlign)
                          ELSE IF IsBss(f.sections[i])
                          THEN AlignUp(v[i - 1] + f.sections[i].size, f.bssAlign)
                          ELSE v[i - 1]]
           g == [i \in 1 .. N |-> [x \in Nat |->
                    IF IsBss(f.sections[i]) THEN AlignUp(x + f.sections[i].size, f.bssAlign)
                    ELSE x]]
           end == CHOOSE v : R(v)
<1>1. /\ N \in Nat /\ f.bssAlign \in Nat \ {0} /\ f.fix \in Nat
      /\ \A i \in 1 .. N : f.sections[i].size \in Nat
      BY FileFields
<1>2. ASSUME NEW x \in Nat PROVE AlignUp(x, f.bssAlign) \in Nat BY <1>1, AlignedUp
<1>3. g \in [1 .. N -> [Nat -> Nat]]
  <2>1. ASSUME NEW i \in 1 .. N, NEW x \in Nat
        PROVE  (IF IsBss(f.sections[i]) THEN AlignUp(x + f.sections[i].size, f.bssAlign)
                ELSE x) \in Nat
    <3>1. x + f.sections[i].size \in Nat BY <1>1
    <3> QED BY <3>1, <1>2
  <2> QED BY <2>1
<1>4. AlignUp(base + f.fix, f.bssAlign) \in Nat
  <2>1. base + f.fix \in Nat BY <1>1
  <2> QED BY <2>1, <1>2
<1>5. PICK h \in [0 .. N -> Nat] : Runs(h, N, AlignUp(base + f.fix, f.bssAlign), g)
  <2> HIDE DEF g, N
  <2> QED BY <1>1, <1>3, <1>4, RunExists
<1> HIDE DEF N
<1>6. R(h)
  <2> SUFFICES ASSUME NEW i \in 0 .. N
               PROVE  h[i] = IF i = 0 THEN AlignUp(base + f.fix, f.bssAlign)
                             ELSE IF IsBss(f.sections[i])
                             THEN AlignUp(h[i - 1] + f.sections[i].size, f.bssAlign)
                             ELSE h[i - 1]
      OBVIOUS
  <2>1. CASE i = 0 BY <2>1, <1>5 DEF Runs
  <2>2. CASE i # 0
    <3>1. i \in 1 .. N /\ i - 1 \in 0 .. N BY <2>2, <1>1
    <3>2. h[i] = g[i][h[i - 1]] /\ h[i - 1] \in Nat BY <3>1, <1>5 DEF Runs
    <3> QED BY <3>1, <3>2, <2>2
  <2> QED BY <2>1, <2>2
<1>7. R(end)
  <2> HIDE DEF R
  <2> QED BY <1>6
<1>8. end = BssEnd(f, base) BY DEF BssEnd, N
<1> HIDE DEF end, g
<1>9. /\ end[0] = AlignUp(base + f.fix, f.bssAlign)
      /\ \A i \in 1 .. N : end[i] = IF IsBss(f.sections[i])
                                    THEN AlignUp(end[i - 1] + f.sections[i].size, f.bssAlign)
                                    ELSE end[i - 1]
  <2>1. 0 \in 0 .. N /\ \A i \in 1 .. N : i \in 0 .. N /\ i # 0 BY <1>1
  <2> QED BY <1>7, <2>1
<1> HIDE DEF R
<1> QED BY <1>8, <1>9 DEF N

LEMMA BssEndGrows ==
    ASSUME NEW f \in RelFiles, NEW base \in Nat
    PROVE  /\ \A i \in 0 .. Len(f.sections) :
                BssEnd(f, base)[i] \in Nat /\ BssEnd(f, base)[i] >= base
           /\ \A i \in 1 .. Len(f.sections) :
                IsBss(f.sections[i]) =>
                   BssEnd(f, base)[i - 1] + f.sections[i].size
                      <= BssEnd(f, base)[Len(f.sections)]
<1> DEFINE N == Len(f.sections)
           end == BssEnd(f, base)
<1>1. /\ N \in Nat /\ f.bssAlign \in Nat \ {0} /\ f.fix \in Nat
      /\ \A i \in 1 .. N : f.sections[i].size \in Nat
      BY FileFields
<1>2. \A x \in Nat : AlignUp(x, f.bssAlign) \in Nat /\ AlignUp(x, f.bssAlign) >= x
      BY <1>1, AlignedUp
<1>3. /\ end[0] = AlignUp(base + f.fix, f.bssAlign)
      /\ \A i \in 1 .. N : end[i] = IF IsBss(f.sections[i])
                                    THEN AlignUp(end[i - 1] + f.sections[i].size, f.bssAlign)
                                    ELSE end[i - 1]
      BY BssEndRuns
<1> HIDE DEF N, end
<1>4. ASSUME NEW i \in 1 .. N, end[i - 1] \in Nat
      PROVE  /\ end[i] \in Nat /\ end[i - 1] <= end[i]
             /\ IsBss(f.sections[i]) => end[i - 1] + f.sections[i].size <= end[i]
  <2>1. f.sections[i].size \in Nat /\ end[i - 1] + f.sections[i].size \in Nat BY <1>1, <1>4
  <2>2. CASE IsBss(f.sections[i])
    <3>1. end[i] \in Nat /\ end[i] >= end[i - 1] + f.sections[i].size BY <1>2, <1>3, <2>1, <2>2
    <3> QED BY <3>1, <2>1, <1>4
  <2>3. CASE ~IsBss(f.sections[i]) BY <1>3, <1>4, <2>3
  <2> QED BY <2>2, <2>3
<1>5. \A i \in 0 .. N : end[i] \in {x \in Nat : x >= base}
  <2>1. base + f.fix \in Nat /\ base + f.fix >= base BY <1>1
  <2>2. end[0] \in {x \in Nat : x >= base} BY <1>2, <1>3, <2>1
  <2>3. \A i \in 1 .. N :
           end[i - 1] \in {x \in Nat : x >= base} => end[i] \in {x \in Nat : x >= base}
        BY <1>4
  <2> HIDE DEF end, N
  <2> QED BY <1>1, <2>2, <2>3, RunStays
<1>6. ASSUME NEW i \in 1 .. N PROVE end[i] <= end[N]
  <2> DEFINE S == {x \in Nat : x >= end[i]}
             u == [k \in 0 .. N - i |-> end[i + k]]
  <2>1. N - i \in Nat /\ i \in 0 .. N BY <1>1
  <2>2. u[0] \in S BY <2>1, <1>5
  <2>3. \A k \in 1 .. N - i : u[k - 1] \in S => u[k] \in S
    <3> TAKE k \in 1 .. N - i
    <3>1. i + k \in 1 .. N /\ (i + k) - 1 = i + (k - 1) /\ k - 1 \in 0 .. N - i /\ k \in 0 .. N - i
          /\ i + (k - 1) \in 0 .. N
          BY <1>1
    <3>2. end[i + k] \in Nat /\ end[i + (k - 1)] <= end[i + k] BY <3>1, <1>4, <1>5
    <3>3. end[i] \in Nat /\ end[i + (k - 1)] \in Nat BY <3>1, <2>1, <1>5
    <3> QED BY <3>1, <3>2, <3>3
  <2>4. \A k \in 0 .. N - i : u[k] \in S
    <3> HIDE DEF u, S
    <3> QED BY <2>1, <2>2, <2>3, RunStays
  <2>5. N - i \in 0 .. N - i /\ i + (N - i) = N BY <1>1
  <2> QED BY <2>4, <2>5
<1>7. \A i \in 1 .. N : IsBss(f.sections[i]) => end[i - 1] + f.sections[i].size <= end[N]
  <2> TAKE i \in 1 .. N
  <2>1. i - 1 \in 0 .. N /\ i \in 0 .. N /\ N \in 0 .. N BY <1>1
  <2>2. end[i - 1] \in Nat /\ end[i] \in Nat /\ end[N] \in Nat BY <2>1, <1>5
  <2> QED BY <2>2, <1>1, <1>4, <1>6
<1> QED BY <1>5, <1>7 DEF N, end

LEMMA PlacedFiles ==
    ASSUME PlacedInv, NEW m \in Placed
    PROVE  File(m) \in RelFiles /\ bases[m] \in Nat
BY DEF PlacedInv, Placed, File

LEMMA Addresses ==
    ASSUME PlacedInv, NEW m \in Placed, NEW i \in 1 .. Len(File(m).sections)
    PROVE  AddressOf(m, i) \in Nat /\ AddressOf(m, i) >= bases[m] /\ bases[m] \in Nat
<1>1. File(m) \in RelFiles /\ bases[m] \in Nat BY PlacedFiles
<1>2. Len(File(m).sections) \in Nat /\ File(m).sections[i].offset \in Nat
      BY <1>1, FileFields
<1>3. i - 1 \in 0 .. Len(File(m).sections) BY <1>2
<1>4. BssEnd(File(m), bases[m])[i - 1] \in Nat /\ BssEnd(File(m), bases[m])[i - 1] >= bases[m]
      BY <1>1, <1>3, BssEndGrows
<1> QED BY <1>1, <1>2, <1>4 DEF AddressOf, AddressIn

(* Where a section lies: between its module's base and what ends its file   *)
(* or its zero-filled memory.                                               *)
LEMMA SectionsInside ==
    ASSUME PlacedInv, NEW m \in Placed, NEW i \in 1 .. Len(File(m).sections),
           File(m).sections[i].size # 0
    PROVE  /\ AddressOf(m, i) \in Nat /\ File(m).sections[i].size \in Nat /\ bases[m] \in Nat
           /\ bases[m] <= AddressOf(m, i)
           /\ AddressOf(m, i) + File(m).sections[i].size < AddressSpace
           /\ ~Padded(m) => AddressOf(m, i) + File(m).sections[i].size <= ModuleEnd(m)
<1>1. /\ File(m) \in RelFiles /\ bases[m] \in Nat /\ AddressSpace \in Nat
      BY RelAssumption DEF PlacedInv, Placed, File, AddressSpace
<1>2. /\ File(m).size \in Nat /\ File(m).bss \in Nat /\ Len(File(m).sections) \in Nat
      /\ File(m).sections[i].size \in Nat /\ File(m).sections[i].offset \in Nat
      BY <1>1, FileFields
<1>3. Fitting(m) /\ ModuleEnd(m) < AddressSpace BY DEF PlacedInv
<1>4. CASE IsBss(File(m).sections[i])
  <2>1. AddressOf(m, i) = BssEnd(File(m), bases[m])[i - 1] BY <1>4 DEF AddressOf, AddressIn
  <2>2. i - 1 \in 0 .. Len(File(m).sections) /\ Len(File(m).sections) \in 0 .. Len(File(m).sections)
        BY <1>2
  <2>3. /\ BssEnd(File(m), bases[m])[i - 1] \in Nat /\ BssEnd(File(m), bases[m])[i - 1] >= bases[m]
        /\ BssEnd(File(m), bases[m])[Len(File(m).sections)] \in Nat
        /\ BssEnd(File(m), bases[m])[i - 1] + File(m).sections[i].size
              <= BssEnd(File(m), bases[m])[Len(File(m).sections)]
        BY <1>1, <1>4, <2>2, BssEndGrows
  <2>4. BssEnd(File(m), bases[m])[Len(File(m).sections)] < AddressSpace BY <1>3 DEF Fitting
  <2>5. ~Padded(m) => BssEnd(File(m), bases[m])[Len(File(m).sections)] <= ModuleEnd(m)
    <3>1. ModuleEnd(m) = bases[m] + File(m).size + File(m).bss /\ ModuleEnd(m) \in Nat
          BY <1>1, <1>2 DEF ModuleEnd
    <3> QED BY <3>1, <2>3 DEF Padded
  <2>6. ModuleEnd(m) \in Nat BY <1>1, <1>2 DEF ModuleEnd
  <2> HIDE DEF ModuleEnd
  <2> QED BY <1>1, <1>2, <2>1, <2>3, <2>4, <2>5, <2>6
<1>5. CASE ~IsBss(File(m).sections[i])
  <2>1. AddressOf(m, i) = bases[m] + File(m).sections[i].offset BY <1>5 DEF AddressOf, AddressIn
  <2>2. Fits(File(m).sections[i].offset, File(m).sections[i].size, File(m).size)
        BY <1>3, <1>5 DEF Fitting, HasFileData
  <2>3. File(m).sections[i].offset + File(m).sections[i].size <= File(m).size
        BY <1>2, <2>2 DEF Fits
  <2>4. ModuleEnd(m) = bases[m] + File(m).size + File(m).bss BY DEF ModuleEnd
  <2> DEFINE o == File(m).sections[i].offset
             k == File(m).sections[i].size
             b == bases[m]
  <2>5. o \in Nat /\ k \in Nat /\ b \in Nat /\ AddressOf(m, i) = b + o BY <1>1, <1>2, <2>1
  <2>6. o + k <= File(m).size /\ ModuleEnd(m) = b + File(m).size + File(m).bss BY <2>3, <2>4
  <2> HIDE DEF o, k, b
  <2>7. b + o + k <= ModuleEnd(m) BY <1>2, <2>5, <2>6
  <2>8. b + o + k < AddressSpace BY <1>1, <1>2, <1>3, <2>5, <2>6, <2>7
  <2> QED BY <2>5, <2>7, <2>8 DEF o, k, b
<1> QED BY <1>4, <1>5

LEMMA InvKeepsApart == PlacedInv => ModulesApart
<1> SUFFICES ASSUME PlacedInv, NEW m \in Placed, NEW n \in Placed, m < n, ~Padded(m),
                    NEW i \in 1 .. Len(File(m).sections), NEW j \in 1 .. Len(File(n).sections)
             PROVE  Extent(m, i) \cap Extent(n, j) = {}
    BY DEF ModulesApart
<1>1. File(m) \in RelFiles /\ File(n) \in RelFiles BY DEF PlacedInv, Placed, File
<1>2. CASE File(m).sections[i].size = 0 \/ File(n).sections[j].size = 0
  <2>1. ASSUME NEW a \in Int PROVE a .. a + 0 - 1 = {} OBVIOUS
  <2> QED BY <1>2, <2>1, Addresses DEF Extent
<1>3. CASE File(m).sections[i].size # 0 /\ File(n).sections[j].size # 0
  <2>1. /\ AddressOf(m, i) \in Nat /\ File(m).sections[i].size \in Nat /\ bases[m] \in Nat
        /\ AddressOf(m, i) + File(m).sections[i].size <= ModuleEnd(m)
        BY <1>3, SectionsInside
  <2>2. /\ AddressOf(n, j) \in Nat /\ File(n).sections[j].size \in Nat /\ bases[n] \in Nat
        /\ bases[n] <= AddressOf(n, j)
        BY <1>3, SectionsInside
  <2>3. ModuleEnd(m) <= bases[n] BY DEF PlacedInv
  <2>4. File(m).size \in Nat /\ File(m).bss \in Nat BY <1>1, FileFields
  <2>5. ModuleEnd(m) \in Nat BY <2>1, <2>4 DEF ModuleEnd
  <2>6. AddressOf(m, i) + File(m).sections[i].size <= AddressOf(n, j) BY <2>1, <2>2, <2>3, <2>5
  <2>7. ASSUME NEW x \in Nat, NEW y \in Nat, NEW k \in Nat, NEW l \in Nat, x + k <= y
        PROVE  (x .. x + k - 1) \cap (y .. y + l - 1) = {}
        BY <2>7
  <2> QED BY <2>1, <2>2, <2>6, <2>7 DEF Extent
<1> QED BY <1>2, <1>3

(* The arithmetic of the relocation types: what the processor computes from *)
(* what was written is the target.                                          *)
LEMMA WrittenMeans ==
    ASSUME NEW type, NEW target \in 0 .. AddressSpace - 1, NEW from \in Nat,
           type # "none", Writable(type, target - from)
    PROVE  Means(type, Written(type, target, from), target, from) = target
<1>1. /\ HalfSize \in Nat \ {0} /\ HalfSize % 2 = 0
      /\ Reach \in Nat \ {0} /\ AddressSpace = HalfSize * HalfSize
      BY RelAssumption DEF AddressSpace
<1> DEFINE q == target \div HalfSize
           r == target % HalfSize
<1>2. target \in Nat /\ target < HalfSize * HalfSize BY <1>1
<1>3. target = HalfSize * q + r /\ r \in 0 .. HalfSize - 1 /\ q \in Int BY <1>1, <1>2, DivMod
<1>4. CASE type = "addr32" BY <1>4 DEF Means, Written
<1>5. CASE type = "lo"
  <2>1. Means(type, Written(type, target, from), target, from) = q * HalfSize + r
        BY <1>5 DEF Means, Written
  <2> HIDE DEF q, r
  <2> QED BY <1>1, <1>3, <2>1
<1>6. CASE type = "hi"
  <2>1. Means(type, Written(type, target, from), target, from) = q * HalfSize + r
        BY <1>6 DEF Means, Written
  <2> HIDE DEF q, r
  <2> QED BY <1>1, <1>3, <2>1
<1>7. CASE type = "rel"
  <2> DEFINE delta == target - from
             v == delta % (2 * Reach)
  <2>1. delta \in 0 - Reach .. Reach - 1 /\ delta \in Int BY <1>1, <1>7 DEF Writable
  <2>2. Means(type, Written(type, target, from), target, from) =
           from + (IF v >= (2 * Reach) \div 2 THEN v - 2 * Reach ELSE v)
        BY <1>7 DEF Means, Written, SignedBelow
  <2>3. (2 * Reach) \div 2 = Reach BY <1>1
  <2>4. from + delta = target BY <1>2
  <2> DEFINE m == 2 * Reach
  <2>5. m \in Nat \ {0} /\ m = Reach + Reach BY <1>1
  <2> HIDE DEF delta
  <2>6. CASE delta >= 0
    <3>1. delta = m * 0 + delta /\ delta \in 0 .. m - 1 BY <1>1, <2>1, <2>6
    <3> HIDE DEF m
    <3>2. delta % m = delta BY <2>1, <2>5, <3>1, ModUnique
    <3> QED BY <1>1, <2>1, <2>2, <2>3, <2>4, <2>6, <3>2 DEF m
  <2>7. CASE delta < 0
    <3>1. delta = m * (0 - 1) + (delta + m) /\ delta + m \in 0 .. m - 1 /\ 0 - 1 \in Int
          BY <1>1, <2>1, <2>7
    <3> HIDE DEF m
    <3>2. delta % m = delta + m
      <4> DEFINE z == delta + m
      <4>1. delta = m * (0 - 1) + z /\ z \in 0 .. m - 1 /\ 0 - 1 \in Int BY <3>1
      <4> HIDE DEF z
      <4>2. delta % m = z BY <2>1, <2>5, <4>1, ModUnique
      <4> QED BY <4>2 DEF z
    <3>3. delta + m >= Reach BY <1>1, <2>1, <2>5
    <3>4. v = delta + m BY <3>2 DEF m
    <3> HIDE DEF v
    <3>5. IF v >= (2 * Reach) \div 2 THEN v - 2 * Reach = delta ELSE v = delta
          BY <1>1, <2>1, <2>3, <2>5, <3>3, <3>4 DEF m
    <3> QED BY <2>2, <2>4, <3>5
  <2> QED BY <2>1, <2>6, <2>7
<1>8. CASE type = "ha"
  <2> DEFINE h == HalfSize \div 2
             v == ((target + h) \div HalfSize) % HalfSize
             low == IF r >= h THEN r - HalfSize ELSE r
  <2>1. Means(type, Written(type, target, from), target, from)
          = ((v * HalfSize) + low) % (HalfSize * HalfSize)
        BY <1>1, <1>8 DEF Means, Written, SignedBelow
  <2>2. HalfSize = h + h /\ h \in Nat BY <1>1
  <2> HIDE DEF h, q, r
  <2>3. q \in 0 .. HalfSize - 1
    <3>1. q >= 0
      <4>1. q < 0 => HalfSize * q <= 0 - HalfSize BY <1>1, <1>3
      <4> QED BY <1>1, <1>2, <1>3, <4>1
    <3>2. q < HalfSize
      <4>1. q >= HalfSize => HalfSize * q >= HalfSize * HalfSize BY <1>1, <1>3
      <4> QED BY <1>1, <1>2, <1>3, <4>1
    <3> QED BY <1>1, <1>3, <3>1, <3>2
  <2>4. HalfSize * HalfSize \in Nat \ {0} BY <1>1
  <2>5. CASE r < h
    <3>1. target + h = HalfSize * q + (r + h) /\ r + h \in 0 .. HalfSize - 1 /\ target + h \in Int
          BY <1>1, <1>2, <1>3, <2>2, <2>5
    <3>2. (target + h) \div HalfSize = q
      <4> DEFINE y == target + h
                 z == r + h
      <4>1. y = HalfSize * q + z /\ z \in 0 .. HalfSize - 1 /\ y \in Int BY <3>1
      <4> HIDE DEF y, z
      <4>2. y \div HalfSize = q BY <1>1, <1>3, <4>1, ModUnique
      <4> QED BY <4>2 DEF y
    <3>3. q = HalfSize * 0 + q /\ q \in Int BY <1>1, <1>3
    <3>4. q % HalfSize = q BY <1>1, <2>3, <3>3, ModUnique
    <3>5. v = q /\ low = r BY <1>3, <2>2, <2>5, <3>2, <3>4
    <3>6. (v * HalfSize) + low = target BY <1>1, <1>3, <3>5
    <3> HIDE DEF v, low
    <3>7. target = (HalfSize * HalfSize) * 0 + target /\ target \in 0 .. HalfSize * HalfSize - 1
          BY <1>1, <1>2, <2>4
    <3>8. target % (HalfSize * HalfSize) = target BY <1>2, <2>4, <3>7, ModUnique
    <3> QED BY <2>1, <3>6, <3>8
  <2>6. CASE r >= h
    <3>1. /\ target + h = HalfSize * (q + 1) + (r + h - HalfSize)
          /\ r + h - HalfSize \in 0 .. HalfSize - 1
          /\ target + h \in Int /\ q + 1 \in Int
          BY <1>1, <1>2, <1>3, <2>2, <2>6
    <3>2. (target + h) \div HalfSize = q + 1
      <4> DEFINE y == target + h
                 z == r + h - HalfSize
                 q1 == q + 1
      <4>1. y = HalfSize * q1 + z /\ z \in 0 .. HalfSize - 1 /\ y \in Int /\ q1 \in Int BY <3>1
      <4> HIDE DEF y, z, q1
      <4>2. y \div HalfSize = q1 BY <1>1, <4>1, ModUnique
      <4> QED BY <4>2 DEF y, q1
    <3>3. low = r - HalfSize BY <2>6
    <3>4. CASE q + 1 < HalfSize
      <4>1. q + 1 = HalfSize * 0 + (q + 1) /\ q + 1 \in 0 .. HalfSize - 1 BY <1>1, <2>3, <3>4
      <4>2. (q + 1) % HalfSize = q + 1 BY <1>1, <4>1, ModUnique
      <4>3. v = q + 1 BY <3>2, <4>2
      <4>4. (v * HalfSize) + low = target
        <5>1. (q + 1) * HalfSize = HalfSize * q + HalfSize BY <1>1, <1>3
        <5> HIDE DEF v, low
        <5> QED BY <1>1, <1>3, <3>3, <4>3, <5>1
      <4> HIDE DEF v, low
      <4>5. target = (HalfSize * HalfSize) * 0 + target /\ target \in 0 .. HalfSize * HalfSize - 1
            BY <1>1, <1>2, <2>4
      <4>6. target % (HalfSize * HalfSize) = target BY <1>2, <2>4, <4>5, ModUnique
      <4> QED BY <2>1, <4>4, <4>6
    <3>5. CASE q + 1 >= HalfSize
      <4>1. q + 1 = HalfSize BY <1>1, <2>3, <3>5
      <4>2. HalfSize = HalfSize * 1 + 0 /\ 0 \in 0 .. HalfSize - 1 BY <1>1
      <4>3. HalfSize % HalfSize = 0 BY <1>1, <4>2, ModUnique
      <4>4. v = 0 BY <3>2, <4>1, <4>3
      <4>5. (v * HalfSize) + low = r - HalfSize BY <1>1, <1>3, <3>3, <4>4
      <4>6. HalfSize * q = HalfSize * HalfSize - HalfSize
        <5>1. q = HalfSize - 1 BY <1>1, <1>3, <4>1
        <5> QED BY <1>1, <5>1
      <4>7. r - HalfSize = (HalfSize * HalfSize) * (0 - 1) + target
            BY <1>1, <1>2, <1>3, <2>4, <4>6
      <4> HIDE DEF v, low
      <4>8. target \in 0 .. HalfSize * HalfSize - 1 /\ r - HalfSize \in Int /\ 0 - 1 \in Int
            BY <1>1, <1>2, <1>3, <2>4
      <4>9. (r - HalfSize) % (HalfSize * HalfSize) = target BY <2>4, <4>7, <4>8, ModUnique
      <4> QED BY <2>1, <4>5, <4>9
    <3> QED BY <1>1, <2>3, <3>4, <3>5
  <2> QED BY <1>3, <2>2, <2>5, <2>6
<1> QED BY <1>4, <1>5, <1>6, <1>7, <1>8 DEF Writable

(* The position: the section was selected by the last entry that selects    *)
(* one, and the offset is the sum of the distances behind it (d is that sum *)
(* entry by entry).                                                         *)
Distances(entries, c, upto, d) ==
    /\ d \in [c .. upto -> Nat] /\ d[c] = 0
    /\ \A k \in c + 1 .. upto : d[k] = d[k - 1] + entries[k].delta
SelectedBy(entries, c, upto, s) ==
    /\ c \in 1 .. upto /\ entries[c].type = "section" /\ entries[c].section = s
    /\ \A j \in c + 1 .. upto : entries[j].type # "section"
ReaderAt(entries, upto, s, o) ==
    \E c \in 1 .. upto :
        /\ SelectedBy(entries, c, upto, s)
        /\ \E d : Distances(entries, c, upto, d) /\ d[upto] = o

InImport ==
    /\ reading.module <= Len(directory) /\ reading.import <= Len(Imports)

ReadingInv ==
    /\ reading \in [module : Nat \ {0}, import : Nat \ {0}, entry : Nat \ {0}]
    /\ relSection \in Nat /\ offset \in Nat
    /\ loading = "load" => relSection = 0 /\ fields = [p \in {} |-> 0]
    /\ loading = "relocate" /\ relSection # 0 =>
         InImport /\ ReaderAt(ImportEntries, reading.entry - 1, relSection, offset)

(* A patched field, and the entry that describes it.                        *)
EntryAt(w) == File(w.module).imports[w.import].entries[w.entry]
PatchedBy(p, w, value) ==
    LET e == EntryAt(w)
        id == File(w.module).imports[w.import].module
        from == AddressOf(p[1], p[2]) + p[3]
    IN /\ p = << p[1], p[2], p[3] >> /\ p[1] = w.module
       /\ w.module \in Placed /\ w.import \in 1 .. Len(File(w.module).imports)
       /\ w.entry \in 1 .. Len(File(w.module).imports[w.import].entries)
       /\ ReaderAt(File(w.module).imports[w.import].entries, w.entry, p[2], p[3])
       /\ p[2] \in 1 .. Len(File(p[1]).sections) /\ p[3] \in Nat
       /\ HasTarget(id, e) /\ e.type # "none"
       /\ Writable(e.type, TargetAddress(id, e) - from)
       /\ value = Written(e.type, TargetAddress(id, e), from)
FieldsInv == \A p \in DOMAIN fields : PatchedBy(p, fields[p].by, fields[p].value)

RelInv == PlacedInv /\ ReadingInv /\ FieldsInv

LEMMA PositionIsPlace ==
    ASSUME NEW w, NEW s, NEW o, w.entry \in Nat,
           ReaderAt(File(w.module).imports[w.import].entries, w.entry, s, o)
    PROVE  PlaceOf(w) = << w.module, s, o >>
<1> DEFINE entries == File(w.module).imports[w.import].entries
           Ok(k) == /\ entries[k].type = "section"
                    /\ \A j \in k + 1 .. w.entry : entries[j].type # "section"
           chosen == CHOOSE k \in 1 .. w.entry : Ok(k)
           R(v) == v = [k \in chosen .. w.entry |->
                          IF k = chosen THEN 0 ELSE v[k - 1] + entries[k].delta]
           distance == CHOOSE v : R(v)
<1>1. PICK c \in 1 .. w.entry :
         /\ SelectedBy(entries, c, w.entry, s)
         /\ \E d : Distances(entries, c, w.entry, d) /\ d[w.entry] = o
      BY DEF ReaderAt
<1>2. PICK d : Distances(entries, c, w.entry, d) /\ d[w.entry] = o BY <1>1
<1>3. PlaceOf(w) = << w.module, entries[chosen].section, distance[w.entry] >> BY DEF PlaceOf
<1> HIDE DEF entries
<1>4. chosen = c
  <2>1. c \in 1 .. w.entry /\ Ok(c) BY <1>1 DEF SelectedBy
  <2>2. ASSUME NEW k \in 1 .. w.entry, Ok(k) PROVE k = c
    <3>1. ~(k < c) BY <2>1, <2>2
    <3>2. ~(c < k) BY <2>1, <2>2
    <3> QED BY <3>1, <3>2
  <2> HIDE DEF Ok
  <2> QED BY <2>1, <2>2
<1> HIDE DEF chosen
<1>5. R(d)
  <2>1. d = [k \in c .. w.entry |-> d[k]] /\ d[c] = 0 BY <1>2 DEF Distances
  <2>2. \A k \in c .. w.entry : d[k] = IF k = c THEN 0 ELSE d[k - 1] + entries[k].delta
        BY <1>2 DEF Distances
  <2> QED BY <1>4, <2>1, <2>2
<1>6. R(distance)
  <2> HIDE DEF R
  <2> QED BY <1>5
<1> HIDE DEF distance
<1>7. \A k \in c .. w.entry : distance[k] = d[k]
  <2> DEFINE Bad == {k \in c .. w.entry : distance[k] # d[k]}
  <2> SUFFICES ASSUME Bad # {} PROVE FALSE OBVIOUS
  <2>1. PICK k \in Bad : \A m \in Bad : k <= m
    <3>1. Bad \subseteq Nat OBVIOUS
    <3> HIDE DEF Bad
    <3> QED BY <3>1, LeastNumber
  <2>2. k \in c .. w.entry /\ distance[k] # d[k] BY <2>1
  <2>3. CASE k = c
    <3>1. distance[c] = 0 /\ d[c] = 0 BY <1>4, <1>5, <1>6, <2>2, <2>3
    <3> QED BY <2>2, <2>3, <3>1
  <2>4. CASE k # c
    <3>1. k - 1 \in c .. w.entry /\ ~(k <= k - 1) BY <2>2, <2>4
    <3>2. distance[k - 1] = d[k - 1]
      <4>1. k - 1 \notin Bad BY <2>1, <3>1
      <4> QED BY <3>1, <4>1
    <3>3. distance[k] = distance[k - 1] + entries[k].delta BY <1>4, <1>6, <2>2, <2>4
    <3>4. d[k] = d[k - 1] + entries[k].delta BY <1>4, <1>5, <2>2, <2>4
    <3> QED BY <2>2, <3>2, <3>3, <3>4
  <2> QED BY <2>3, <2>4
<1>8. distance[w.entry] = o BY <1>1, <1>2, <1>7
<1>9. entries[c].section = s BY <1>1 DEF SelectedBy
<1> QED BY <1>3, <1>4, <1>8, <1>9

LEMMA TargetsInSpace ==
    ASSUME PlacedInv, NEW id, NEW e, e.symbol \in 0 .. AddressSpace - 1, HasTarget(id, e)
    PROVE  TargetAddress(id, e) \in 0 .. AddressSpace - 1
<1>1. CASE id = 0 BY <1>1 DEF TargetAddress
<1>2. CASE id # 0
  <2> DEFINE m == CHOOSE k \in Imported(id) : TRUE
  <2>1. PICK k \in Imported(id) : InSection(k, e.section, e.symbol) BY <1>2 DEF HasTarget
  <2>2. m \in Imported(id) /\ m = k BY <2>1 DEF Imported, PlacedInv
  <2>3. TargetAddress(id, e) = AddressOf(m, e.section) + e.symbol BY <1>2 DEF TargetAddress
  <2> HIDE DEF m
  <2>4. m \in Placed /\ e.section \in 1 .. Len(File(m).sections)
        /\ File(m).sections[e.section].size # 0 /\ e.symbol <= File(m).sections[e.section].size
        BY <2>1, <2>2 DEF Imported, InSection
  <2>5. /\ AddressOf(m, e.section) \in Nat /\ File(m).sections[e.section].size \in Nat
        /\ AddressOf(m, e.section) + File(m).sections[e.section].size < AddressSpace
        BY <2>4, SectionsInside
  <2>6. AddressSpace \in Nat /\ e.symbol \in Nat BY RelAssumption DEF AddressSpace
  <2> QED BY <2>3, <2>4, <2>5, <2>6
<1> QED BY <1>1, <1>2

LEMMA InvMeansTargets == RelInv => RelocationsMeanTargets
<1> SUFFICES ASSUME RelInv, NEW p \in DOMAIN fields
             PROVE  LET w == fields[p].by
                        import == File(w.module).imports[w.import]
                        e == import.entries[w.entry]
                        target == TargetAddress(import.module, e)
                    IN /\ PlaceOf(w) = p
                       /\ Means(e.type, fields[p].value, target, AddressOf(p[1], p[2]) + p[3])
                             = target
    BY DEF RelocationsMeanTargets
<1> DEFINE w == fields[p].by
           import == File(w.module).imports[w.import]
           e == import.entries[w.entry]
           target == TargetAddress(import.module, e)
           from == AddressOf(p[1], p[2]) + p[3]
<1>1. PatchedBy(p, w, fields[p].value) BY DEF RelInv, FieldsInv
<1>2. /\ p = << p[1], p[2], p[3] >> /\ p[1] = w.module /\ w.module \in Placed
      /\ w.import \in 1 .. Len(File(w.module).imports) /\ w.entry \in 1 .. Len(import.entries)
      /\ ReaderAt(import.entries, w.entry, p[2], p[3])
      /\ p[2] \in 1 .. Len(File(p[1]).sections) /\ p[3] \in Nat
      /\ HasTarget(import.module, e) /\ e.type # "none" /\ Writable(e.type, target - from)
      /\ fields[p].value = Written(e.type, target, from)
      BY <1>1 DEF PatchedBy, EntryAt
<1> HIDE DEF w
<1>3. File(w.module) \in RelFiles BY <1>2, PlacedFiles DEF RelInv
<1>4. import \in [module : Nat, entries : RelEntries]
      BY <1>2, <1>3, FileFields, Elements DEF RelImports
<1>5. e \in [type : STRING, delta : Nat, section : Nat, symbol : 0 .. HalfSize * HalfSize - 1]
      BY <1>2, <1>4, Elements DEF RelEntries
<1>6. e.symbol \in 0 .. AddressSpace - 1 BY <1>5 DEF AddressSpace
<1>7. w.entry \in Nat
  <2>1. Len(import.entries) \in Nat BY <1>4, Elements DEF RelEntries
  <2> HIDE DEF import
  <2> QED BY <1>2, <2>1
<1> HIDE DEF e, import
<1>8. target \in 0 .. AddressSpace - 1 BY <1>2, <1>6, TargetsInSpace DEF RelInv
<1>9. from \in Nat BY <1>2, Addresses DEF RelInv
<1> HIDE DEF target, from
<1>10. PlaceOf(w) = p
  <2>1. ReaderAt(File(w.module).imports[w.import].entries, w.entry, p[2], p[3]) BY <1>2 DEF import
  <2>2. PlaceOf(w) = << w.module, p[2], p[3] >> BY <1>7, <2>1, PositionIsPlace
  <2> QED BY <1>2, <2>2
<1>11. Means(e.type, fields[p].value, target, from) = target
       BY <1>2, <1>8, <1>9, WrittenMeans
<1> QED BY <1>10, <1>11 DEF e, import, target, from, w

-----------------------------------------------------------------------------

LEMMA RelInitInv == RelInit => RelInv
<1> SUFFICES ASSUME RelInit PROVE RelInv OBVIOUS
<1>1. directory \in Seq(RelFiles)
      BY RelAssumption DEF RelInit, RelFiles, RelSections, RelImports, RelEntries, ModuleEntries
<1>2. Len(directory) \in Nat BY <1>1, Elements
<1>3. Placed = {} BY DEF RelInit, Placed
<1>4. PlacedInv BY <1>1, <1>2, <1>3, RelAssumption DEF RelInit, PlacedInv
<1>5. ReadingInv BY DEF RelInit, ReadingInv
<1>6. FieldsInv BY DEF RelInit, FieldsInv
<1> QED BY <1>4, <1>5, <1>6 DEF RelInv

(* A step that changes neither the directory nor the bases.                 *)
LEMMA SamePlaces ==
    ASSUME directory' = directory, bases' = bases, nextBase' = nextBase, PlacedInv,
           loading' \in {"load", "relocate", "done", "failed"},
           loading' \in {"relocate", "done"} => Len(bases) = Len(directory)
    PROVE  PlacedInv' /\ \A p, w, v : PatchedBy(p, w, v) => PatchedBy(p, w, v)'
<1>1. Placed' = Placed /\ \A m : File(m)' = File(m) /\ ModuleEnd(m)' = ModuleEnd(m)
      BY DEF Placed, File, ModuleEnd
<1>2. \A m : Fitting(m)' = Fitting(m)
      BY DEF Fitting, File, HasFileData, IsBss, Fits, BssEnd, AddressSpace
<1>3. PlacedInv' BY <1>1, <1>2 DEF PlacedInv
<1>4. \A m, i : AddressOf(m, i)' = AddressOf(m, i)
      BY DEF AddressOf, AddressIn, File, BssEnd, IsBss, AlignUp
<1>5. \A id, e : HasTarget(id, e)' = HasTarget(id, e)
      BY DEF HasTarget, Imported, InSection, Placed, File
<1>6. \A id, e : TargetAddress(id, e)' = TargetAddress(id, e)
  BY DEF TargetAddress, AddressOf, AddressIn, Imported, Placed, File, BssEnd, IsBss, AlignUp
<1>7. ASSUME NEW p, NEW w, NEW v, PatchedBy(p, w, v) PROVE PatchedBy(p, w, v)'
      BY <1>1, <1>4, <1>5, <1>6, <1>7 DEF PatchedBy, EntryAt
<1> QED BY <1>3, <1>7

LEMMA LoadKeeps ==
    ASSUME RelInv, LoadImage PROVE RelInv'
<1> PICK n : n = Len(bases) + 1 OBVIOUS
<1> DEFINE f == File(n)
<1>1. /\ loading = "load" /\ Len(bases) < Len(directory) /\ Len(bases) \in Nat
      /\ bases \in Seq(Nat) /\ directory \in Seq(RelFiles) /\ nextBase \in Nat
      BY DEF LoadImage, RelInv, PlacedInv
<1>2. CASE Fail
  <2>1. PlacedInv' BY <1>2, SamePlaces DEF Fail, RelInv
  <2>2. ReadingInv' BY <1>2 DEF Fail, RelInv, ReadingInv
  <2>3. FieldsInv' BY <1>1, <1>2 DEF Fail, RelInv, ReadingInv, FieldsInv
  <2> QED BY <2>1, <2>2, <2>3 DEF RelInv
<1>3. CASE ~Fail
  <2>1. /\ ValidImage(f) /\ ~(\E m \in Placed : File(m).id = f.id) /\ NextBase(f) < AddressSpace
        /\ bases' = Append(bases, nextBase) /\ nextBase' = NextBase(f)
        /\ UNCHANGED << directory, loading, reading, relSection, offset, fields >>
    <3>1. ~(NextBase(f) >= AddressSpace) /\ NextBase(f) \in Int /\ AddressSpace \in Int
          => NextBase(f) < AddressSpace
          OBVIOUS
    <3>2. f \in RelFiles BY <1>1 DEF File
    <3>3. nextBase + f.size + f.bss \in Nat BY <1>1, <3>2, FileFields
    <3>4. NextBase(f) \in Int BY <3>3, AlignedUp, RelAssumption DEF NextBase
    <3>5. AddressSpace \in Int BY RelAssumption DEF AddressSpace
    <3> QED BY <1>3, <3>1, <3>4, <3>5 DEF LoadImage
  <2>2. f \in RelFiles /\ f.size \in Nat /\ f.bss \in Nat BY <1>1, FileFields DEF File
  <2>3. Placed' = Placed \cup {n} /\ bases'[n] = nextBase /\ \A m \in Placed : bases'[m] = bases[m]
        BY <1>1, <2>1 DEF Placed
  <2>4. \A m : File(m)' = File(m) BY <2>1 DEF File
  <2>5. \A m \in Placed : Fitting(m)' /\ ModuleEnd(m)' = ModuleEnd(m)
    <3> TAKE m \in Placed
    <3>1. Fitting(m) BY DEF RelInv, PlacedInv
    <3> QED BY <2>3, <2>4, <3>1 DEF Fitting, ModuleEnd, AddressSpace
  <2>6. Fitting(n)'
    <3>1. BssEnd(f, nextBase)[Len(f.sections)] < AddressSpace /\ f.fix \in 1 .. f.size
          /\ \A i \in 1 .. Len(f.sections) :
                HasFileData(f.sections[i]) => Fits(f.sections[i].offset, f.sections[i].size, f.size)
          BY <2>1 DEF ValidImage
    <3> QED BY <2>3, <2>4, <3>1 DEF Fitting, AddressSpace
  <2>7. NextBase(f) \in Nat /\ nextBase + f.size + f.bss <= NextBase(f)
    <3>1. nextBase + f.size + f.bss \in Nat BY <1>1, <2>2
    <3> QED BY <3>1, AlignedUp, RelAssumption DEF NextBase
  <2>8. ModuleEnd(n)' = nextBase + f.size + f.bss BY <2>3, <2>4 DEF ModuleEnd
  <2>9. AddressSpace \in Nat /\ \A m \in Placed : ModuleEnd(m) \in Nat
    <3>1. AddressSpace \in Nat BY RelAssumption DEF AddressSpace
    <3>2. ASSUME NEW m \in Placed PROVE ModuleEnd(m) \in Nat
      <4>1. bases[m] \in Nat /\ File(m).size \in Nat /\ File(m).bss \in Nat
            BY PlacedFiles, FileFields DEF RelInv
      <4> QED BY <4>1 DEF ModuleEnd
    <3> QED BY <3>1, <3>2
  <2>10. \A m \in Placed : ModuleEnd(m) <= nextBase /\ ModuleEnd(m) < AddressSpace
         BY DEF RelInv, PlacedInv
  <2>11. \A m \in Placed' :
            Fitting(m)' /\ ModuleEnd(m)' <= nextBase' /\ ModuleEnd(m)' < AddressSpace
    <3> TAKE m \in Placed'
    <3>1. CASE m \in Placed
      <4>1. ModuleEnd(m) <= NextBase(f) BY <1>1, <2>2, <2>7, <2>9, <2>10, <3>1
      <4> QED BY <2>1, <2>5, <2>10, <3>1, <4>1
    <3>2. CASE m = n
      <4>1. ModuleEnd(n)' < AddressSpace BY <1>1, <2>1, <2>2, <2>7, <2>8, <2>9
      <4> QED BY <2>1, <2>6, <2>7, <2>8, <3>2, <4>1
    <3> QED BY <2>3, <3>1, <3>2
  <2>12. \A m, k \in Placed' : m < k => ModuleEnd(m)' <= bases'[k]
    <3> SUFFICES ASSUME NEW m \in Placed', NEW k \in Placed', m < k PROVE ModuleEnd(m)' <= bases'[k]
        OBVIOUS
    <3>1. m \in Placed BY <1>1, <2>3 DEF Placed
    <3>2. CASE k \in Placed BY <2>3, <2>5, <3>1, <3>2 DEF RelInv, PlacedInv
    <3>3. CASE k = n BY <2>3, <2>5, <2>10, <3>1, <3>3
    <3> QED BY <2>3, <3>2, <3>3
  <2>13. \A m, k \in Placed' : File(m)'.id = File(k)'.id => m = k
         BY <2>1, <2>3, <2>4 DEF RelInv, PlacedInv
  <2>14. bases' \in Seq(Nat) /\ Len(bases') = Len(bases) + 1 BY <1>1, <2>1
  <2>15. Len(bases') <= Len(directory)
    <3>1. Len(directory) \in Nat BY <1>1, Elements
    <3> QED BY <1>1, <2>14, <3>1
  <2>16. PlacedInv'
    <3>1. AddressSpace' = AddressSpace BY DEF AddressSpace
    <3> QED BY <1>1, <2>1, <2>7, <2>11, <2>12, <2>13, <2>14, <2>15, <3>1 DEF PlacedInv
  <2>17. ReadingInv' BY <1>1, <2>1 DEF RelInv, ReadingInv
  <2>18. FieldsInv' BY <1>1, <2>1 DEF RelInv, ReadingInv, FieldsInv
  <2> QED BY <2>16, <2>17, <2>18 DEF RelInv
<1> QED BY <1>2, <1>3

(* A step on a position: the next entry moves it.                           *)
LEMMA PositionMoves ==
    ASSUME NEW entries \in RelEntries, NEW k \in 1 .. Len(entries), NEW s, NEW o \in Nat,
           ReaderAt(entries, k - 1, s, o), entries[k].type # "section"
    PROVE  ReaderAt(entries, k, s, o + entries[k].delta)
<1>1. PICK c \in 1 .. k - 1 :
         SelectedBy(entries, c, k - 1, s) /\ \E d : Distances(entries, c, k - 1, d) /\ d[k - 1] = o
      BY DEF ReaderAt
<1>2. PICK d : Distances(entries, c, k - 1, d) /\ d[k - 1] = o BY <1>1
<1>3. entries[k].delta \in Nat /\ Len(entries) \in Nat
  <2>1. entries[k] \in [ type : STRING, delta : Nat, section : Nat,
                         symbol : 0 .. HalfSize * HalfSize - 1 ]
        BY Elements DEF RelEntries
  <2>2. Len(entries) \in Nat BY Elements DEF RelEntries
  <2> QED BY <2>1, <2>2
<1>4. k \in Nat /\ c \in 1 .. k /\ c < k BY <1>1, <1>3
<1> DEFINE e == [j \in c .. k |-> IF j = k THEN o + entries[k].delta ELSE d[j]]
<1>5. e \in [c .. k -> Nat] /\ e[c] = 0 /\ e[k] = o + entries[k].delta
  <2>1. \A j \in c .. k : j # k => j \in c .. k - 1 BY <1>4
  <2>2. \A j \in c .. k - 1 : d[j] \in Nat BY <1>2 DEF Distances
  <2>3. d[c] = 0 BY <1>2 DEF Distances
  <2> QED BY <1>3, <1>4, <2>1, <2>2, <2>3
<1>6. \A j \in c + 1 .. k : e[j] = e[j - 1] + entries[j].delta
  <2> TAKE j \in c + 1 .. k
  <2>1. CASE j = k
    <3>1. e[k - 1] = d[k - 1] BY <1>4
    <3> QED BY <1>2, <1>5, <2>1, <3>1
  <2>2. CASE j # k
    <3>1. j \in c + 1 .. k - 1 /\ j - 1 \in c .. k /\ j - 1 # k /\ j \in c .. k BY <1>4, <2>2
    <3>2. d[j] = d[j - 1] + entries[j].delta BY <1>2, <3>1 DEF Distances
    <3> QED BY <2>2, <3>1, <3>2
  <2> QED BY <2>1, <2>2
<1>7. SelectedBy(entries, c, k, s)
  <2>1. \A j \in c + 1 .. k : j = k \/ j \in c + 1 .. k - 1 BY <1>4
  <2> QED BY <1>1, <1>4, <2>1 DEF SelectedBy
<1> HIDE DEF e
<1>8. Distances(entries, c, k, e) BY <1>5, <1>6 DEF Distances
<1> QED BY <1>4, <1>5, <1>7, <1>8 DEF ReaderAt

LEMMA PositionStarts ==
    ASSUME NEW entries \in RelEntries, NEW k \in 1 .. Len(entries), entries[k].type = "section"
    PROVE  ReaderAt(entries, k, entries[k].section, 0)
<1>1. Len(entries) \in Nat BY Elements DEF RelEntries
<1>2. k \in Nat /\ k \in 1 .. k /\ k + 1 .. k = {} BY <1>1
<1> DEFINE d == [j \in k .. k |-> 0]
<1>3. d \in [k .. k -> Nat] /\ d[k] = 0 BY <1>2
<1> HIDE DEF d
<1>4. Distances(entries, k, k, d) BY <1>2, <1>3 DEF Distances
<1>5. SelectedBy(entries, k, k, entries[k].section) BY <1>2 DEF SelectedBy
<1> QED BY <1>2, <1>3, <1>4, <1>5 DEF ReaderAt

LEMMA FailKeeps == ASSUME RelInv, Fail PROVE RelInv'
<1>1. PlacedInv' /\ \A p, w, v : PatchedBy(p, w, v) => PatchedBy(p, w, v)'
      BY SamePlaces DEF Fail, RelInv
<1>2. ReadingInv' BY DEF Fail, RelInv, ReadingInv
<1>3. FieldsInv' BY <1>1 DEF Fail, RelInv, FieldsInv
<1> QED BY <1>1, <1>2, <1>3 DEF RelInv

LEMMA RelocateKeeps == ASSUME RelInv, Relocate PROVE RelInv'
<1>1. /\ loading = "relocate" /\ InImport /\ Len(bases) = Len(directory)
      /\ directory \in Seq(RelFiles) /\ relSection \in Nat /\ offset \in Nat
      /\ reading \in [module : Nat \ {0}, import : Nat \ {0}, entry : Nat \ {0}]
      BY DEF Relocate, InImport, RelInv, PlacedInv, ReadingInv
<1>2. /\ reading.module \in Placed /\ File(reading.module) \in RelFiles
      /\ reading.import \in 1 .. Len(Imports) /\ Imports \in RelImports
  <2>1. Len(directory) \in Nat BY <1>1, Elements
  <2>2. reading.module \in Placed BY <1>1, <2>1 DEF Placed, InImport
  <2>3. File(reading.module) \in RelFiles BY <2>2, PlacedFiles DEF RelInv
  <2>4. Imports \in RelImports BY <2>3, FileFields DEF Imports
  <2>5. Len(Imports) \in Nat BY <2>4, Elements DEF RelImports
  <2> QED BY <1>1, <2>2, <2>3, <2>4, <2>5 DEF InImport
<1>3. ImportEntries \in RelEntries /\ Len(ImportEntries) \in Nat
  <2>1. Imports[reading.import] \in [module : Nat, entries : RelEntries]
        BY <1>2, Elements DEF RelImports
  <2>2. ImportEntries \in RelEntries BY <2>1 DEF ImportEntries
  <2> QED BY <2>2, Elements DEF RelEntries
<1>4. CASE reading.entry > Len(ImportEntries)
      BY <1>4, FailKeeps DEF Relocate
<1>5. CASE ~(reading.entry > Len(ImportEntries))
  <2>1. reading.entry \in 1 .. Len(ImportEntries) BY <1>1, <1>3, <1>5
  <2>2. Entry \in [type : STRING, delta : Nat, section : Nat, symbol : 0 .. HalfSize * HalfSize - 1]
        BY <1>3, <2>1, Elements DEF RelEntries, Entry
  <2>3. Moved \in Nat BY <1>1, <2>2 DEF Moved
  <2>4. SelectSection \/ SkipEntry \/ Patch \/ EndImport BY <1>5 DEF Relocate
  <2>5. ASSUME UNCHANGED << directory, bases, nextBase, loading >>
        PROVE  /\ PlacedInv' /\ \A p, w, v : PatchedBy(p, w, v) => PatchedBy(p, w, v)'
        BY <1>1, <2>5, SamePlaces DEF RelInv
  \* the entry is passed; the import stays
  <2>6. ASSUME UNCHANGED << directory, bases, nextBase, loading >>, NextEntry
        PROVE  /\ reading' \in [module : Nat \ {0}, import : Nat \ {0}, entry : Nat \ {0}]
               /\ InImport' /\ ImportEntries' = ImportEntries
               /\ reading'.entry - 1 = reading.entry
    <3>1. /\ reading' = [reading EXCEPT !.entry = reading.entry + 1]
          BY <2>6 DEF NextEntry
    <3>2. reading'.module = reading.module /\ reading'.import = reading.import
          /\ reading'.entry = reading.entry + 1
          BY <1>1, <3>1
    <3>3. Imports' = Imports BY <2>6, <3>2 DEF Imports, File
    <3> QED BY <1>1, <2>6, <3>1, <3>2, <3>3 DEF InImport, ImportEntries
  <2>7. relSection # 0 => ReaderAt(ImportEntries, reading.entry - 1, relSection, offset)
        BY <1>1 DEF RelInv, ReadingInv
  <2>8. Entry.type # "section" /\ relSection # 0 =>
           ReaderAt(ImportEntries, reading.entry, relSection, Moved)
    <3> SUFFICES ASSUME Entry.type # "section", relSection # 0
                 PROVE  ReaderAt(ImportEntries, reading.entry, relSection, Moved)
        OBVIOUS
    <3>1. PICK k \in 1 .. Len(ImportEntries) : k = reading.entry BY <2>1
    <3>2. /\ ReaderAt(ImportEntries, k - 1, relSection, offset) /\ ImportEntries[k].type # "section"
          /\ Moved = offset + ImportEntries[k].delta
          BY <2>7, <3>1 DEF Entry, Moved
    <3>3. ReaderAt(ImportEntries, k, relSection, offset + ImportEntries[k].delta)
      <4> HIDE DEF ImportEntries
      <4> QED BY <1>1, <1>3, <3>2, PositionMoves
    <3> QED BY <3>1, <3>2, <3>3
  <2>9. CASE SelectSection
    <3>1. CASE Fail BY <3>1, FailKeeps
    <3>2. CASE ~Fail
      <4>1. /\ Entry.type = "section" /\ Entry.section \in 1 .. Len(File(reading.module).sections)
            /\ relSection' = Entry.section /\ offset' = 0 /\ NextEntry
            /\ UNCHANGED << directory, loading, nextBase, bases, fields >>
            BY <2>9, <3>2 DEF SelectSection
      <4>2. ReaderAt(ImportEntries, reading.entry, Entry.section, 0)
            BY <1>3, <2>1, <4>1, PositionStarts DEF Entry
      <4>3. ReadingInv' BY <1>1, <2>2, <2>6, <4>1, <4>2 DEF ReadingInv
      <4>4. FieldsInv' BY <2>5, <4>1 DEF RelInv, FieldsInv
      <4> QED BY <2>5, <4>1, <4>3, <4>4 DEF RelInv
    <3> QED BY <3>1, <3>2
  <2>10. CASE SkipEntry
    <3>1. /\ Entry.type = "nop" /\ offset' = Moved /\ NextEntry
          /\ UNCHANGED << directory, loading, nextBase, bases, relSection, fields >>
          BY <2>10 DEF SkipEntry, Skip
    <3>2. ReadingInv' BY <1>1, <2>3, <2>6, <2>8, <3>1 DEF ReadingInv
    <3>3. FieldsInv' BY <2>5, <3>1 DEF RelInv, FieldsInv
    <3> QED BY <2>5, <3>1, <3>2, <3>3 DEF RelInv
  <2>11. CASE EndImport
    <3>1. /\ reading' = [reading EXCEPT !.import = reading.import + 1, !.entry = 1]
          /\ relSection' = 0 /\ offset' = 0
          /\ UNCHANGED << directory, loading, nextBase, bases, fields >>
          BY <2>11 DEF EndImport
    <3>2. reading' \in [module : Nat \ {0}, import : Nat \ {0}, entry : Nat \ {0}]
      <4>1. reading.import + 1 \in Nat \ {0} /\ 1 \in Nat \ {0} BY <1>1
      <4> QED BY <1>1, <3>1, <4>1
    <3>3. ReadingInv' BY <1>1, <3>1, <3>2 DEF ReadingInv
    <3>4. FieldsInv' BY <2>5, <3>1 DEF RelInv, FieldsInv
    <3> QED BY <2>5, <3>1, <3>3, <3>4 DEF RelInv
  <2>12. CASE Patch
    <3> DEFINE id == Imports[reading.import].module
               here == AddressOf(reading.module, relSection) + Moved
               to == TargetAddress(id, Entry)
               place == << reading.module, relSection, Moved >>
    <3>1. CASE Fail BY <3>1, FailKeeps
    <3>2. CASE ~Fail
      <4>1. /\ Entry.type \notin {"section", "nop", "end"}
            /\ HasTarget(id, Entry) /\ InSection(reading.module, relSection, Moved)
            /\ Entry.type = "none" \/ Writable(Entry.type, to - here)
            /\ offset' = Moved /\ NextEntry
            /\ fields' = IF Entry.type = "none" THEN fields
                         ELSE [ p \in DOMAIN fields \cup { place } |->
                                  IF p = place
                                  THEN [ by |-> reading, value |-> Written(Entry.type, to, here) ]
                                  ELSE fields[p] ]
            /\ UNCHANGED << directory, loading, nextBase, bases, relSection >>
            BY <2>12, <3>2 DEF Patch
      <4>2. relSection \in 1 .. Len(File(reading.module).sections) /\ relSection # 0
            BY <4>1 DEF InSection
      <4>3. /\ Entry = EntryAt(reading)
            /\ ImportEntries = File(reading.module).imports[reading.import].entries
            /\ id = File(reading.module).imports[reading.import].module
            /\ Imports = File(reading.module).imports
            BY DEF Entry, EntryAt, ImportEntries, Imports
      <4>4. ReadingInv' BY <1>1, <2>3, <2>6, <2>8, <4>1, <4>2 DEF ReadingInv
      <4>5. CASE Entry.type = "none"
        <5>1. FieldsInv' BY <2>5, <4>1, <4>5 DEF RelInv, FieldsInv
        <5> QED BY <2>5, <4>1, <4>4, <5>1 DEF RelInv
      <4>6. CASE Entry.type # "none"
        <5>1. PatchedBy(place, reading, Written(Entry.type, to, here))
          <6>1. place[1] = reading.module /\ place[2] = relSection /\ place[3] = Moved OBVIOUS
          <6>2. ReaderAt(ImportEntries, reading.entry, relSection, Moved) BY <2>8, <4>1, <4>2
          <6>3. Writable(Entry.type, to - here) BY <4>1, <4>6
          <6> HIDE DEF place
          <6> QED BY <1>2, <2>1, <2>3, <4>1, <4>2, <4>3, <4>6, <6>1, <6>2, <6>3 DEF PatchedBy, place
        <5>2. PICK q, w, v : q = place /\ w = reading /\ v = Written(Entry.type, to, here) OBVIOUS
        <5>3. PatchedBy(q, w, v)' BY <2>5, <4>1, <5>1, <5>2
        <5>4. /\ DOMAIN fields' = DOMAIN fields \cup {q}
              /\ fields'[q].by = w /\ fields'[q].value = v
              /\ \A p \in DOMAIN fields : p # q => fields'[p] = fields[p]
              BY <4>1, <4>6, <5>2
        <5>5. \A p \in DOMAIN fields : PatchedBy(p, fields[p].by, fields[p].value)
              BY DEF RelInv, FieldsInv
        <5>6. ASSUME NEW p \in DOMAIN fields'
              PROVE  PatchedBy(p, fields[p].by, fields[p].value)'
          <6>1. CASE p = q BY <5>3, <5>4, <6>1
          <6>2. CASE p # q
            <7>1. p \in DOMAIN fields /\ fields'[p] = fields[p] BY <5>4, <6>2
            <7>2. PICK x, y : x = fields[p].by /\ y = fields[p].value OBVIOUS
            <7>3. PatchedBy(p, x, y)' BY <2>5, <4>1, <5>5, <7>1, <7>2
            <7> QED BY <7>1, <7>2, <7>3
          <6> QED BY <6>1, <6>2
        <5>7. FieldsInv' BY <5>6 DEF FieldsInv
        <5> QED BY <2>5, <4>1, <4>4, <5>7 DEF RelInv
      <4> QED BY <4>5, <4>6
    <3> QED BY <3>1, <3>2
  <2> QED BY <2>4, <2>9, <2>10, <2>11, <2>12
<1> QED BY <1>4, <1>5

LEMMA NextModuleKeeps ==
    ASSUME RelInv, NextModule PROVE RelInv'
<1>1. /\ loading = "relocate" /\ reading.import > Len(Imports) /\ reading.module <= Len(directory)
      /\ reading' = [ module |-> reading.module + 1, import |-> 1, entry |-> 1 ]
      /\ loading' \in {"relocate", "done"}
      /\ UNCHANGED << directory, nextBase, bases, relSection, offset, fields >>
      BY DEF NextModule
<1>2. Len(bases) = Len(directory) BY <1>1 DEF RelInv, PlacedInv
<1>3. PlacedInv' /\ \A p, w, v : PatchedBy(p, w, v) => PatchedBy(p, w, v)'
      BY <1>1, <1>2, SamePlaces DEF RelInv
<1>4. reading \in [module : Nat \ {0}, import : Nat \ {0}, entry : Nat \ {0}]
      BY DEF RelInv, ReadingInv
<1>5. relSection = 0
  <2>1. PICK m \in Nat : m = reading.module BY <1>4
  <2>2. Len(Imports) \in Nat
    <3>1. m \in Placed
      <4>1. Len(directory) \in Nat BY Elements DEF RelInv, PlacedInv
      <4> QED BY <1>1, <1>2, <1>4, <2>1, <4>1 DEF Placed
    <3>2. Imports \in RelImports BY <2>1, <3>1, PlacedFiles, FileFields DEF RelInv, Imports
    <3> QED BY <3>2, Elements DEF RelImports
  <2>3. ~InImport BY <1>1, <1>4, <2>2 DEF InImport
  <2> QED BY <1>1, <2>3 DEF RelInv, ReadingInv
<1>6. ReadingInv' BY <1>1, <1>4, <1>5 DEF RelInv, ReadingInv
<1>7. FieldsInv' BY <1>1, <1>3 DEF RelInv, FieldsInv
<1> QED BY <1>3, <1>6, <1>7 DEF RelInv

LEMMA StartKeeps == ASSUME RelInv, StartRelocating PROVE RelInv'
<1>1. PlacedInv' /\ \A p, w, v : PatchedBy(p, w, v) => PatchedBy(p, w, v)'
      BY SamePlaces DEF StartRelocating, RelInv
<1>2. ReadingInv' BY DEF StartRelocating, RelInv, ReadingInv
<1>3. FieldsInv' BY <1>1 DEF StartRelocating, RelInv, FieldsInv
<1> QED BY <1>1, <1>2, <1>3 DEF RelInv

LEMMA RelInvKept == ASSUME RelInv, [RelNext]_relVars PROVE RelInv'
<1>1. CASE LoadImage BY <1>1, LoadKeeps
<1>2. CASE StartRelocating BY <1>2, StartKeeps
<1>3. CASE Relocate BY <1>3, RelocateKeeps
<1>4. CASE NextModule BY <1>4, NextModuleKeeps
<1>5. CASE UNCHANGED relVars
  <2>1. PlacedInv' /\ \A p, w, v : PatchedBy(p, w, v) => PatchedBy(p, w, v)'
        BY <1>5, SamePlaces DEF relVars, RelInv, PlacedInv
  <2>2. ReadingInv'
    <3>1. InImport' = InImport /\ ImportEntries' = ImportEntries
          BY <1>5 DEF relVars, InImport, ImportEntries, Imports, File
    <3> QED BY <1>5, <3>1 DEF relVars, RelInv, ReadingInv
  <2>3. FieldsInv' BY <1>5, <2>1 DEF relVars, RelInv, FieldsInv
  <2> QED BY <2>1, <2>2, <2>3 DEF RelInv
<1> QED BY <1>1, <1>2, <1>3, <1>4, <1>5 DEF RelNext

(* No section of a module lies where a section of another does.             *)
THEOREM ModulesStayApart == RelSpec => []ModulesApart
<1>1. RelInit => RelInv BY RelInitInv
<1>2. RelInv /\ [RelNext]_relVars => RelInv' BY RelInvKept
<1>3. RelInv => ModulesApart BY InvKeepsApart DEF RelInv
<1> QED BY <1>1, <1>2, <1>3, PTL DEF RelSpec

(* What the processor computes from a patched field is the address that the *)
(* entry names, and the field is the one the entry describes.               *)
THEOREM RelocatedFieldsMean == RelSpec => []RelocationsMeanTargets
<1>1. RelInit => RelInv BY RelInitInv
<1>2. RelInv /\ [RelNext]_relVars => RelInv' BY RelInvKept
<1>3. RelInv => RelocationsMeanTargets BY InvMeansTargets
<1> QED BY <1>1, <1>2, <1>3, PTL DEF RelSpec

-----------------------------------------------------------------------------
(* SymbolHeader                                                            *)

Emitted == [identifier : Seq(Nat), address : Nat, size : Nat]
SymTypeOK ==
    /\ lines \in Nat /\ lines <= MostLines
    /\ symbols \in Seq(Lines) /\ Len(symbols) <= lines
    /\ index \in Nat
    /\ emitted \in Seq(Emitted)

(* The hash table: a slot for each symbol emitted, found by probing from    *)
(* the slot its identifier hashes to, and room for more.                    *)
TableInv ==
    /\ slots \in [0 .. Capacity - 1 -> 0 .. Len(emitted)]
    /\ \A k, l \in 0 .. Capacity - 1 : slots[k] # 0 /\ slots[k] = slots[l] => k = l
    /\ \A i \in 1 .. Len(emitted) :
         /\ Hash(emitted[i].identifier) \in Nat
         /\ \E probe \in 0 .. Capacity - 1 :
              /\ slots[Slot(emitted[i].identifier, probe)] = i
              /\ \A u \in 0 .. probe - 1 : slots[Slot(emitted[i].identifier, u)] # 0
    /\ Len(emitted) <= Cardinality(CodeSymbols \cap (1 .. index - 1))

HeaderInv ==
    /\ SymTypeOK /\ HeaderIsSound
    /\ IF index = 0 THEN emitted = << >> ELSE TableInv

LEMMA LeastIsMin ==
    ASSUME NEW T, T \subseteq Nat, T # {}
    PROVE  Min(T) \in T /\ \A m \in T : Min(T) <= m
<1>1. \E n \in T : \A m \in T : n <= m BY LeastNumber
<1> QED BY <1>1 DEF Min

LEMMA CodeSymbolsFinite ==
    ASSUME SymTypeOK
    PROVE  /\ IsFiniteSet(CodeSymbols) /\ Cardinality(CodeSymbols) \in Nat
           /\ Cardinality(CodeSymbols) <= Len(symbols)
<1>1. Len(symbols) \in Nat BY Elements DEF SymTypeOK
<1>2. IsFiniteSet(1 .. Len(symbols)) /\ Cardinality(1 .. Len(symbols)) = Len(symbols)
  <2> DEFINE N == Len(symbols)
  <2>1. N \in Nat BY <1>1
  <2> HIDE DEF N
  <2>2. IsFiniteSet(1 .. N) /\ Cardinality(1 .. N) = IF 1 > N THEN 0 ELSE N - 1 + 1
        BY <2>1, FS_Interval
  <2>3. IsFiniteSet(1 .. N) /\ Cardinality(1 .. N) = N BY <2>1, <2>2
  <2> QED BY <2>3 DEF N
<1>3. CodeSymbols \in SUBSET (1 .. Len(symbols)) BY DEF CodeSymbols
<1> HIDE DEF CodeSymbols
<1>4. IsFiniteSet(CodeSymbols) /\ Cardinality(CodeSymbols) <= Len(symbols)
      BY <1>2, <1>3, FS_Subset
<1> QED BY <1>4, FS_CardinalityType

LEMMA CapacityEnough ==
    ASSUME SymTypeOK
    PROVE  /\ Capacity \in Nat /\ Capacity >= 2
           /\ Capacity >= 2 * Cardinality(CodeSymbols)
<1> DEFINE N == Len(symbols)
           R(v) == v = [k \in 0 .. N |-> IF k = 0 THEN LeastCapacity ELSE v[k - 1] * 2]
           g == [k \in 1 .. N |-> [x \in Nat |-> x * 2]]
           doubled == CHOOSE v : R(v)
           enough == { doubled[k] : k \in 0 .. N } \ 0 .. 2 * Cardinality(CodeSymbols) - 1
<1>1. N \in Nat BY Elements DEF SymTypeOK
<1>2. Capacity = Min(enough) BY DEF Capacity
<1> HIDE DEF N
<1>3. PICK h \in [0 .. N -> Nat] : Runs(h, N, LeastCapacity, g)
  <2>1. g \in [1 .. N -> [Nat -> Nat]] /\ LeastCapacity \in Nat BY DEF LeastCapacity
  <2> HIDE DEF g
  <2> QED BY <1>1, <2>1, RunExists
<1>4. R(h)
  <2> SUFFICES ASSUME NEW k \in 0 .. N
               PROVE  h[k] = IF k = 0 THEN LeastCapacity ELSE h[k - 1] * 2
      OBVIOUS
  <2>1. CASE k = 0 BY <2>1, <1>3 DEF Runs
  <2>2. CASE k # 0
    <3>1. k \in 1 .. N /\ k - 1 \in 0 .. N BY <2>2, <1>1
    <3>2. h[k] = g[k][h[k - 1]] /\ h[k - 1] \in Nat BY <3>1, <1>3 DEF Runs
    <3> QED BY <3>1, <3>2, <2>2
  <2> QED BY <2>1, <2>2
<1>5. R(doubled)
  <2> HIDE DEF R
  <2> QED BY <1>4
<1> HIDE DEF doubled, g
<1>6. doubled[0] = 2 /\ \A k \in 1 .. N : doubled[k] = doubled[k - 1] * 2
  <2>1. 0 \in 0 .. N /\ \A k \in 1 .. N : k \in 0 .. N /\ k # 0 BY <1>1
  <2> QED BY <1>5, <2>1 DEF LeastCapacity
<1> HIDE DEF R
<1>7. \A k \in 0 .. N : doubled[k] \in Nat /\ doubled[k] >= 2 * (k + 1)
  <2> DEFINE Bad == {k \in 0 .. N : ~(doubled[k] \in Nat /\ doubled[k] >= 2 * (k + 1))}
  <2> SUFFICES ASSUME Bad # {} PROVE FALSE OBVIOUS
  <2>1. PICK k \in Bad : \A m \in Bad : k <= m
    <3>1. Bad \subseteq Nat OBVIOUS
    <3> HIDE DEF Bad
    <3> QED BY <3>1, LeastNumber
  <2>2. k \in 0 .. N /\ ~(doubled[k] \in Nat /\ doubled[k] >= 2 * (k + 1)) BY <2>1
  <2>3. k # 0 BY <1>6, <2>2
  <2>4. k - 1 \in 0 .. N /\ ~(k <= k - 1) /\ k \in 1 .. N BY <1>1, <2>2, <2>3
  <2>5. k - 1 \notin Bad BY <2>1, <2>4
  <2>6. doubled[k - 1] \in Nat /\ doubled[k - 1] >= 2 * k BY <2>4, <2>5
  <2>7. doubled[k] = doubled[k - 1] * 2 BY <1>6, <2>4
  <2> QED BY <2>2, <2>3, <2>6, <2>7
<1>8. Cardinality(CodeSymbols) \in Nat /\ Cardinality(CodeSymbols) <= N
      BY CodeSymbolsFinite DEF N
<1> DEFINE c == Cardinality(CodeSymbols)
<1> HIDE DEF c
<1>9. N \in 0 .. N /\ doubled[N] >= 2 * c /\ doubled[N] \in Nat BY <1>1, <1>7, <1>8 DEF c
<1>10. doubled[N] \in enough BY <1>8, <1>9 DEF c
<1>11. enough \subseteq Nat /\ \A x \in enough : x >= 2 /\ x >= 2 * c
  <2> SUFFICES ASSUME NEW x \in enough PROVE x \in Nat /\ x >= 2 /\ x >= 2 * c OBVIOUS
  <2>1. PICK k \in 0 .. N : x = doubled[k] OBVIOUS
  <2>2. x \in Nat /\ x >= 2 * (k + 1) BY <1>7, <2>1
  <2>3. x \notin 0 .. 2 * c - 1 BY DEF c
  <2> QED BY <1>8, <2>2, <2>3 DEF c
<1> HIDE DEF enough
<1>12. Min(enough) \in enough BY <1>10, <1>11, LeastIsMin
<1> QED BY <1>2, <1>11, <1>12 DEF c

(* More places than numbers: two places share one.                          *)
LEMMA Pigeons ==
    ASSUME NEW m \in Nat, NEW n \in Nat, n <= m, NEW f \in [0 .. m -> 1 .. n]
    PROVE  \E k, l \in 0 .. m : k # l /\ f[k] = f[l]
<1>1. IsFiniteSet(0 .. m) /\ Cardinality(0 .. m) = m + 1
  <2>1. IsFiniteSet(0 .. m) /\ Cardinality(0 .. m) = IF 0 > m THEN 0 ELSE m - 0 + 1
        BY FS_Interval
  <2> QED BY <2>1
<1>2. IsFiniteSet(1 .. n) /\ Cardinality(1 .. n) = n
  <2>1. IsFiniteSet(1 .. n) /\ Cardinality(1 .. n) = IF 1 > n THEN 0 ELSE n - 1 + 1
        BY FS_Interval
  <2> QED BY <2>1
<1> DEFINE S == 0 .. m
           T == 1 .. n
<1>3. IsFiniteSet(S) /\ IsFiniteSet(T) /\ Cardinality(T) < Cardinality(S) /\ f \in [S -> T]
      BY <1>1, <1>2
<1> HIDE DEF S, T
<1>4. \E k, l \in S : k # l /\ f[k] = f[l] BY <1>3, FS_PigeonHole
<1> QED BY <1>4 DEF S

(* Some slot is empty, and probing comes to it.                             *)
LEMMA EmptySlot ==
    ASSUME SymTypeOK, TableInv
    PROVE  \E k \in 0 .. Capacity - 1 : slots[k] = 0
<1> DEFINE C == Capacity
           n == Len(emitted)
           done == CodeSymbols \cap (1 .. index - 1)
<1>1. C \in Nat /\ C >= 2 /\ C >= 2 * Cardinality(CodeSymbols) BY CapacityEnough
<1>2. n \in Nat BY Elements DEF SymTypeOK
<1>3. n < C
  <2>1. IsFiniteSet(CodeSymbols) /\ Cardinality(CodeSymbols) \in Nat BY CodeSymbolsFinite
  <2>2. done \in SUBSET CodeSymbols OBVIOUS
  <2> HIDE DEF done
  <2>3. Cardinality(done) <= Cardinality(CodeSymbols) /\ Cardinality(done) \in Nat
        BY <2>1, <2>2, FS_Subset, FS_CardinalityType
  <2>4. n <= Cardinality(done) BY DEF TableInv, done
  <2> DEFINE c == Cardinality(CodeSymbols)
             d == Cardinality(done)
  <2> HIDE DEF c, d
  <2>5. n <= d /\ d <= c /\ c \in Nat /\ d \in Nat /\ C >= 2 * c BY <1>1, <2>1, <2>3, <2>4 DEF c, d
  <2> HIDE DEF n, C
  <2> QED BY <1>1, <1>2, <2>5
<1>4. slots \in [0 .. C - 1 -> 0 .. n]
      /\ \A k, l \in 0 .. C - 1 : slots[k] # 0 /\ slots[k] = slots[l] => k = l
      BY DEF TableInv
<1> SUFFICES ASSUME \A k \in 0 .. C - 1 : slots[k] # 0 PROVE FALSE OBVIOUS
<1> HIDE DEF C, n
<1>5. slots \in [0 .. C - 1 -> 1 .. n] BY <1>2, <1>4
<1>6. C - 1 \in Nat /\ n <= C - 1 BY <1>1, <1>2, <1>3
<1>7. \E k, l \in 0 .. C - 1 : k # l /\ slots[k] = slots[l] BY <1>2, <1>5, <1>6, Pigeons
<1> QED BY <1>4, <1>7

LEMMA SlotIs ==
    ASSUME SymTypeOK, TableInv, NEW id, Hash(id) \in Nat, NEW probe \in Nat
    PROVE  /\ Slot(id, probe) = (Hash(id) + probe) % Capacity
           /\ Slot(id, probe) \in 0 .. Capacity - 1
<1>1. Capacity \in Nat /\ Capacity >= 2 BY CapacityEnough
<1>2. DOMAIN slots = 0 .. Capacity - 1 BY DEF TableInv
<1> DEFINE C == Capacity
           h == Hash(id) + probe
<1>3. C \in Nat \ {0} /\ C - 1 \in Int /\ 0 \in Int BY <1>1
<1>4. Slot(id, probe) = h % Cardinality(0 .. C - 1) BY <1>2 DEF Slot
<1>5. h \in Int OBVIOUS
<1> HIDE DEF C, h
<1>6. Cardinality(0 .. C - 1) = IF 0 > C - 1 THEN 0 ELSE (C - 1) - 0 + 1 BY <1>3, FS_Interval
<1>7. Cardinality(0 .. C - 1) = C BY <1>3, <1>6
<1>8. h % C \in 0 .. C - 1 BY <1>3, <1>5, DivMod
<1> QED BY <1>4, <1>7, <1>8 DEF C, h

LEMMA ProbingEnds ==
    ASSUME SymTypeOK, TableInv, NEW id, Hash(id) \in Nat
    PROVE  /\ FirstEmpty(id) \in 0 .. Capacity - 1 /\ slots[Slot(id, FirstEmpty(id))] = 0
           /\ \A u \in 0 .. FirstEmpty(id) - 1 : slots[Slot(id, u)] # 0
<1> DEFINE C == Capacity
           h == Hash(id)
           empty == { probe \in 0 .. Cardinality(DOMAIN slots) - 1 : slots[Slot(id, probe)] = 0 }
<1>1. C \in Nat \ {0} BY CapacityEnough
<1>2. h \in Nat OBVIOUS
<1>3. Cardinality(DOMAIN slots) = C
  <2>1. DOMAIN slots = 0 .. C - 1 BY DEF TableInv
  <2>2. C - 1 \in Int /\ 0 \in Int BY <1>1
  <2> HIDE DEF C
  <2>3. Cardinality(0 .. C - 1) = IF 0 > C - 1 THEN 0 ELSE (C - 1) - 0 + 1 BY <2>2, FS_Interval
  <2> QED BY <1>1, <2>1, <2>3
<1>4. \A probe \in 0 .. C - 1 : Slot(id, probe) = (h + probe) % C BY <1>1, SlotIs
<1>5. PICK k \in 0 .. C - 1 : slots[k] = 0 BY EmptySlot
<1> HIDE DEF C, h
<1> DEFINE q == (k - h) \div C
           s == (k - h) % C
<1>6. k - h = C * q + s /\ s \in 0 .. C - 1 /\ q \in Int
  <2> DEFINE x == k - h
  <2>1. x \in Int BY <1>1, <1>2
  <2>2. x \div C = q /\ x % C = s OBVIOUS
  <2> HIDE DEF x, q, s
  <2>3. x = C * q + s /\ s \in 0 .. C - 1 /\ q \in Int BY <1>1, <2>1, <2>2, DivMod
  <2> QED BY <2>3 DEF x
<1> HIDE DEF q, s
<1>7. (h + s) % C = k
  <2> DEFINE x == h + s
             p == 0 - q
  <2>1. x \in Int /\ p \in Int /\ k \in 0 .. C - 1 BY <1>1, <1>2, <1>6
  <2>2. C * p = 0 - C * q BY <1>1, <1>6
  <2>3. x = C * p + k BY <1>1, <1>2, <1>6, <2>1, <2>2
  <2> HIDE DEF x, p
  <2>4. x % C = k BY <1>1, <2>1, <2>3, ModUnique
  <2> QED BY <2>4 DEF x
<1>8. s \in empty BY <1>3, <1>4, <1>5, <1>6, <1>7
<1>9. FirstEmpty(id) = Min(empty) BY DEF FirstEmpty
<1>10. empty \subseteq Nat /\ empty \subseteq 0 .. C - 1 /\ \A u \in empty : slots[Slot(id, u)] = 0
       BY <1>3
<1>11. \A u \in 0 .. C - 1 : u \in empty \/ slots[Slot(id, u)] # 0 BY <1>3
<1> HIDE DEF empty
<1>12. Min(empty) \in empty /\ \A m \in empty : Min(empty) <= m BY <1>8, <1>10, LeastIsMin
<1>13. \A u \in 0 .. Min(empty) - 1 : slots[Slot(id, u)] # 0
  <2> TAKE u \in 0 .. Min(empty) - 1
  <2>1. Min(empty) \in 0 .. C - 1 BY <1>10, <1>12
  <2>2. u \in 0 .. C - 1 /\ ~(Min(empty) <= u) BY <1>1, <2>1
  <2> QED BY <1>11, <1>12, <2>2
<1> QED BY <1>9, <1>10, <1>12, <1>13 DEF C

(* The table answers whether a symbol emitted has the identifier.           *)
LEMMA TakenIff ==
    ASSUME SymTypeOK, TableInv, NEW id, Hash(id) \in Nat
    PROVE  IsTaken(id) <=> \E i \in 1 .. Len(emitted) : emitted[i].identifier = id
<1> DEFINE e == FirstEmpty(id)
<1>1. /\ e \in 0 .. Capacity - 1 /\ slots[Slot(id, e)] = 0
      /\ \A u \in 0 .. e - 1 : slots[Slot(id, u)] # 0
      BY ProbingEnds
<1>2. Capacity \in Nat /\ Len(emitted) \in Nat BY CapacityEnough, Elements DEF SymTypeOK
<1>3. ASSUME IsTaken(id) PROVE \E i \in 1 .. Len(emitted) : emitted[i].identifier = id
  <2>1. PICK u \in 0 .. e - 1 : emitted[slots[Slot(id, u)]].identifier = id BY <1>3 DEF IsTaken
  <2>2. slots[Slot(id, u)] # 0 /\ u \in Nat BY <1>1, <2>1
  <2>3. Slot(id, u) \in 0 .. Capacity - 1 BY <2>2, SlotIs
  <2>4. slots[Slot(id, u)] \in 0 .. Len(emitted) BY <2>3 DEF TableInv
  <2>5. slots[Slot(id, u)] \in 1 .. Len(emitted) BY <1>2, <2>2, <2>4
  <2> QED BY <2>1, <2>5
<1>4. ASSUME NEW i \in 1 .. Len(emitted), emitted[i].identifier = id PROVE IsTaken(id)
  <2>1. PICK probe \in 0 .. Capacity - 1 :
           slots[Slot(id, probe)] = i /\ \A u \in 0 .. probe - 1 : slots[Slot(id, u)] # 0
    <3>1. \E probe \in 0 .. Capacity - 1 :
             /\ slots[Slot(emitted[i].identifier, probe)] = i
             /\ \A u \in 0 .. probe - 1 : slots[Slot(emitted[i].identifier, u)] # 0
          BY DEF TableInv
    <3> QED BY <1>4, <3>1
  <2> HIDE DEF e
  <2>2. probe # e BY <1>1, <2>1
  <2>3. ~(e < probe) BY <1>1, <1>2, <2>1
  <2>4. probe \in 0 .. e - 1 BY <1>1, <1>2, <2>1, <2>2, <2>3
  <2> QED BY <1>4, <2>1, <2>4 DEF IsTaken, e
<1> QED BY <1>3, <1>4

(* Some suffix is free: more suffixes are tried than symbols are emitted.   *)
LEMMA SuffixesDiffer ==
    ASSUME NEW base \in Seq(Nat), NEW a \in Nat, NEW m \in Nat, NEW k \in Nat,
           Suffixed(base, a, m) = Suffixed(base, a, k)
    PROVE  m = k
<1> DEFINE n == Len(base)
<1>1. n \in Nat OBVIOUS
<1>2. \A x \in Nat : << a, x >> \in Seq(Nat) /\ Len(<< a, x >>) = 2 OBVIOUS
<1>3. Append(base, a) \in Seq(Nat) /\ Len(Append(base, a)) = n + 1 OBVIOUS
<1>4. ASSUME NEW x \in Nat
      PROVE  /\ Len(base \o << a, x >>) = n + 2
             /\ (base \o << a, x >>)[n + 2] = x
  <2>1. Len(base \o << a, x >>) = n + 2 BY <1>2
  <2>2. (base \o << a, x >>)[n + 2] = << a, x >>[n + 2 - n] BY <1>1, <1>2, <2>1
  <2> QED BY <1>1, <2>1, <2>2
<1> HIDE DEF n
<1>5. CASE m = 0 /\ k # 0 BY <1>1, <1>3, <1>4, <1>5 DEF Suffixed
<1>6. CASE m # 0 /\ k = 0 BY <1>1, <1>3, <1>4, <1>6 DEF Suffixed
<1>7. CASE m # 0 /\ k # 0 BY <1>4, <1>7 DEF Suffixed
<1> QED BY <1>5, <1>6, <1>7

LEMMA MadeIsFree ==
    ASSUME HeaderInv, index > 0, NEW line \in Lines, NEW other \in Lines
    PROVE  LET made == Identifier(IdentifierOf(line.name), other.address)
           IN  made \in Seq(Nat) /\ Hash(made) \in Nat /\ ~IsTaken(made)
<1> DEFINE base == IdentifierOf(line.name)
           a == other.address
           n == Len(emitted)
           free == { k \in 0 .. n : ~IsTaken(Suffixed(base, a, k)) }
<1>1. SymTypeOK /\ TableInv BY DEF HeaderInv
<1>2. /\ base \in Seq(Nat) /\ Hash(base) \in Nat /\ a \in Nat
      /\ \A k \in 0 .. MostLines : Hash(Suffixed(base, a, k)) \in Nat
      BY HeaderAssumption
<1>3. n \in Nat /\ n <= MostLines /\ MostLines \in Nat
  <2>1. n \in Nat /\ Len(symbols) \in Nat BY <1>1, Elements DEF SymTypeOK
  <2> DEFINE done == CodeSymbols \cap (1 .. index - 1)
             c == Cardinality(CodeSymbols)
             d == Cardinality(done)
  <2>2. IsFiniteSet(CodeSymbols) /\ c \in Nat /\ c <= Len(symbols) BY <1>1, CodeSymbolsFinite
  <2>3. done \in SUBSET CodeSymbols OBVIOUS
  <2> HIDE DEF done
  <2>4. d <= c /\ d \in Nat BY <2>2, <2>3, FS_Subset, FS_CardinalityType
  <2>5. n <= d BY <1>1 DEF TableInv, done
  <2> HIDE DEF n, c, d
  <2>6. Len(symbols) <= MostLines /\ MostLines \in Nat
    <3>1. Len(symbols) <= lines /\ lines <= MostLines /\ lines \in Nat BY <1>1 DEF SymTypeOK
    <3>2. MostLines \in Nat BY HeaderAssumption
    <3> QED BY <2>1, <3>1, <3>2
  <2> QED BY <2>1, <2>2, <2>4, <2>5, <2>6
<1> HIDE DEF base, a
<1>4. free # {}
  <2> SUFFICES ASSUME free = {} PROVE FALSE OBVIOUS
  <2>1. ASSUME NEW k \in 0 .. n
        PROVE  \E i \in 1 .. n : emitted[i].identifier = Suffixed(base, a, k)
    <3>1. IsTaken(Suffixed(base, a, k)) OBVIOUS
    <3>2. Hash(Suffixed(base, a, k)) \in Nat BY <1>2, <1>3
    <3> QED BY <1>1, <3>1, <3>2, TakenIff
  <2> DEFINE f == [k \in 0 .. n |-> CHOOSE i \in 1 .. n :
                      emitted[i].identifier = Suffixed(base, a, k)]
  <2>2. \A k \in 0 .. n : f[k] \in 1 .. n /\ emitted[f[k]].identifier = Suffixed(base, a, k)
        BY <2>1
  <2>3. f \in [0 .. n -> 1 .. n]
    <3>1. f = [k \in 0 .. n |-> f[k]] OBVIOUS
    <3> HIDE DEF f
    <3> QED BY <2>2, <3>1
  <2> HIDE DEF f, n
  <2>4. n <= n BY <1>3
  <2>7. PICK k, l \in 0 .. n : k # l /\ f[k] = f[l] BY <1>3, <2>3, <2>4, Pigeons
  <2>8. Suffixed(base, a, k) = Suffixed(base, a, l) BY <2>2, <2>7
  <2>9. k \in Nat /\ l \in Nat BY <1>3
  <2> QED BY <1>2, <2>7, <2>8, <2>9, SuffixesDiffer
<1>5. Min(free) \in 0 .. n /\ ~IsTaken(Suffixed(base, a, Min(free)))
  <2>1. free \subseteq Nat BY <1>3
  <2>2. \A k \in free : k \in 0 .. n /\ ~IsTaken(Suffixed(base, a, k)) OBVIOUS
  <2> HIDE DEF free
  <2> QED BY <1>4, <2>1, <2>2, LeastIsMin
<1> DEFINE suffix == Min(free)
<1> HIDE DEF suffix
<1>6. suffix \in 0 .. MostLines /\ suffix \in Nat BY <1>3, <1>5 DEF suffix
<1>7. Suffixed(base, a, suffix) \in Seq(Nat)
  <2>1. << a, suffix >> \in Seq(Nat) BY <1>2, <1>6
  <2> QED BY <1>2, <1>6, <2>1 DEF Suffixed
<1>8. Identifier(base, a) = IF ~IsTaken(base) THEN base ELSE Suffixed(base, a, suffix)
      BY DEF Identifier, suffix
<1>9. Hash(Suffixed(base, a, suffix)) \in Nat /\ ~IsTaken(Suffixed(base, a, suffix))
      BY <1>2, <1>5, <1>6 DEF suffix
<1>10. Identifier(base, a) \in Seq(Nat) /\ Hash(Identifier(base, a)) \in Nat
       /\ ~IsTaken(Identifier(base, a))
       BY <1>2, <1>7, <1>8, <1>9
<1> QED BY <1>10 DEF base, a

(* A symbol with a size lies inside its section.                            *)
LEMMA SizeFits ==
    ASSUME SymTypeOK, NEW i \in CodeSymbols
    PROVE  /\ i \in 1 .. Len(symbols) /\ symbols[i] \in Lines /\ symbols[i].address \in Nat
           /\ ResolvedSize(i) \in Nat
           /\ \E s \in Inside(symbols[i].address) :
                symbols[i].address + ResolvedSize(i) <= s.address + s.size
<1> DEFINE a == symbols[i].address
           s == CHOOSE t \in Inside(a) : TRUE
<1>1. i \in 1 .. Len(symbols) /\ HasSection(i) BY DEF CodeSymbols
<1>2. symbols[i] \in Lines BY <1>1, Elements DEF SymTypeOK
<1>3. a \in Nat /\ symbols[i].size \in Nat BY <1>2, HeaderAssumption
<1>4. s \in Inside(a) BY <1>1 DEF HasSection
<1>5. SectionEnd(i) = s.address + s.size BY DEF SectionEnd
<1> HIDE DEF s
<1>6. s \in [address : Nat, size : Nat] /\ a \in s.address .. s.address + s.size - 1
      BY <1>4, HeaderAssumption DEF Inside
<1>7. s.address \in Nat /\ s.size \in Nat /\ a < s.address + s.size BY <1>3, <1>6
<1> DEFINE end == s.address + s.size
<1>8. end \in Nat /\ a < end /\ SectionEnd(i) = end BY <1>5, <1>7
<1> HIDE DEF end, a
<1>9. CASE symbols[i].size # 0
  <2>1. ResolvedSize(i) = IF symbols[i].size > end - a THEN 0 ELSE symbols[i].size
        BY <1>8, <1>9 DEF ResolvedSize, a
  <2>2. ResolvedSize(i) \in Nat /\ a + ResolvedSize(i) <= end BY <1>3, <1>8, <2>1
  <2> QED BY <1>1, <1>2, <1>3, <1>4, <2>2 DEF a, end
<1>10. CASE symbols[i].size = 0
  <2>1. ResolvedSize(i) = (IF Followers(i) = {} THEN end ELSE Min(Followers(i))) - a
        BY <1>8, <1>10 DEF ResolvedSize, a
  <2>2. \A f \in Followers(i) : f \in Nat /\ f > a /\ f < end
    <3> SUFFICES ASSUME NEW f \in Followers(i) PROVE f \in Nat /\ f > a /\ f < end OBVIOUS
    <3>1. Len(symbols) \in Nat BY Elements DEF SymTypeOK
    <3>2. PICK k \in i + 1 .. Len(symbols) :
             f = symbols[k].address /\ symbols[k].address > a /\ symbols[k].address < end
          BY <1>8 DEF Followers, a
    <3>3. k \in 1 .. Len(symbols) BY <1>1, <3>1
    <3>4. symbols[k] \in Lines BY <3>3, Elements DEF SymTypeOK
    <3> QED BY <3>2, <3>4, HeaderAssumption
  <2>3. Followers(i) # {} => Min(Followers(i)) \in Followers(i)
    <3>1. Followers(i) \subseteq Nat BY <2>2
    <3> QED BY <3>1, LeastIsMin
  <2>4. ResolvedSize(i) \in Nat /\ a + ResolvedSize(i) <= end BY <1>3, <1>8, <2>1, <2>2, <2>3 DEF a
  <2> QED BY <1>1, <1>2, <1>3, <1>4, <2>4 DEF a, end
<1> QED BY <1>9, <1>10

-----------------------------------------------------------------------------

LEMMA SymInitInv == SymInit => HeaderInv
<1> SUFFICES ASSUME SymInit PROVE HeaderInv OBVIOUS
<1>1. SymTypeOK BY HeaderAssumption DEF SymInit, SymTypeOK
<1>2. HeaderIsSound BY DEF SymInit, HeaderIsSound
<1> QED BY <1>1, <1>2 DEF SymInit, HeaderInv

LEMMA LoadedTyped ==
    ASSUME SymTypeOK, NEW line \in Lines, NEW made \in Loaded(line)
    PROVE  made \in Seq(Lines) /\ Len(made) <= Len(symbols) + 1
<1> DEFINE same == { i \in 1 .. Len(symbols) : Same(symbols[i], line) }
           behind == Cardinality({ i \in 1 .. Len(symbols) : Before(symbols[i], line) })
<1>1. symbols \in Seq(Lines) /\ Len(symbols) \in Nat BY Elements DEF SymTypeOK
<1>2. CASE same = {}
  <2>1. made = InsertedAt(behind, line) BY <1>2 DEF Loaded
  <2>2. behind \in 0 .. Len(symbols)
    <3> DEFINE n == Len(symbols)
               S == { i \in 1 .. n : Before(symbols[i], line) }
    <3>1. n \in Nat /\ S \in SUBSET (1 .. n) BY <1>1
    <3>2. behind = Cardinality(S) OBVIOUS
    <3> HIDE DEF n, S
    <3>3. IsFiniteSet(1 .. n) /\ Cardinality(1 .. n) = n
      <4>1. IsFiniteSet(1 .. n) /\ Cardinality(1 .. n) = IF 1 > n THEN 0 ELSE n - 1 + 1
            BY <3>1, FS_Interval
      <4> QED BY <3>1, <4>1
    <3>4. Cardinality(S) <= n /\ Cardinality(S) \in Nat
          BY <3>1, <3>3, FS_Subset, FS_CardinalityType
    <3> HIDE DEF behind
    <3> QED BY <3>1, <3>2, <3>4 DEF n
  <2> HIDE DEF behind, same
  <2>3. SubSeq(symbols, 1, behind) \in Seq(Lines) /\ Len(SubSeq(symbols, 1, behind)) = behind
        BY <1>1, <2>2
  <2>4. /\ SubSeq(symbols, behind + 1, Len(symbols)) \in Seq(Lines)
        /\ Len(SubSeq(symbols, behind + 1, Len(symbols))) = Len(symbols) - behind
        BY <1>1, <2>2
  <2>5. << line >> \in Seq(Lines) /\ Len(<< line >>) = 1 OBVIOUS
  <2> DEFINE b == SubSeq(symbols, 1, behind)
             c == SubSeq(symbols, behind + 1, Len(symbols))
  <2>6. made = (b \o << line >>) \o c BY <2>1 DEF InsertedAt
  <2>7. b \in Seq(Lines) /\ c \in Seq(Lines) /\ Len(b) + Len(c) = Len(symbols)
    <3>1. b \in Seq(Lines) /\ Len(b) = behind BY <2>3
    <3>2. c \in Seq(Lines) /\ Len(c) = Len(symbols) - behind BY <2>4
    <3>3. behind \in Int BY <2>2
    <3> HIDE DEF b, c
    <3> QED BY <1>1, <3>1, <3>2, <3>3
  <2> HIDE DEF b, c
  <2>8. b \o << line >> \in Seq(Lines) /\ Len(b \o << line >>) = Len(b) + 1 BY <2>5, <2>7
  <2> DEFINE d == b \o << line >>
  <2> HIDE DEF d
  <2>9. d \o c \in Seq(Lines) /\ Len(d \o c) = Len(d) + Len(c) /\ Len(b) \in Nat /\ Len(c) \in Nat
        BY <2>7, <2>8 DEF d
  <2> QED BY <1>1, <2>6, <2>7, <2>8, <2>9 DEF d
<1>3. CASE same # {}
  <2>1. PICK i \in same : \E kept \in Merged(symbols[i], line) : made = [symbols EXCEPT ![i] = kept]
        BY <1>3 DEF Loaded
  <2> PICK kept \in Merged(symbols[i], line) : made = [symbols EXCEPT ![i] = kept] BY <2>1
  <2>2. i \in 1 .. Len(symbols) OBVIOUS
  <2>3. kept \in Lines
    <3>1. symbols[i] \in Lines BY <1>1, <2>2, Elements
    <3> QED BY <3>1 DEF Merged
  <2> HIDE DEF same
  <2> QED BY <1>1, <2>2, <2>3
<1> QED BY <1>2, <1>3

LEMMA SameTable ==
    ASSUME symbols' = symbols
    PROVE  CodeSymbols' = CodeSymbols /\ Capacity' = Capacity
BY DEF CodeSymbols, Capacity, ResolvedSize, HasSection, SectionEnd, Followers, Inside

LEMMA StartKeepsHeader == ASSUME HeaderInv, StartHeader PROVE HeaderInv'
<1>1. /\ index = 0 /\ index' = 1 /\ slots' = [ k \in 0 .. Capacity - 1 |-> 0 ]
      /\ UNCHANGED << lines, symbols, emitted >> /\ emitted = << >>
      BY DEF StartHeader, HeaderInv
<1>2. SymTypeOK' BY <1>1 DEF HeaderInv, SymTypeOK
<1>3. HeaderIsSound' BY <1>1 DEF HeaderIsSound
<1>4. CodeSymbols' = CodeSymbols /\ Capacity' = Capacity BY <1>1, SameTable
<1>5. Capacity \in Nat BY CapacityEnough DEF HeaderInv
<1>6. CodeSymbols \cap (1 .. 1 - 1) = {} OBVIOUS
<1>7. Len(emitted) = 0 BY <1>1
<1>8. TableInv'
  <2>1. slots' \in [0 .. Capacity' - 1 -> 0 .. Len(emitted')] BY <1>1, <1>4, <1>7
  <2>2. \A k \in 0 .. Capacity' - 1 : slots'[k] = 0 BY <1>1, <1>4
  <2>3. 1 .. Len(emitted') = {} BY <1>1, <1>7
  <2>4. Len(emitted') <= Cardinality(CodeSymbols' \cap (1 .. index' - 1))
        BY <1>1, <1>6, <1>7, FS_EmptySet
  <2> QED BY <2>1, <2>2, <2>3, <2>4 DEF TableInv
<1> QED BY <1>1, <1>2, <1>3, <1>8 DEF HeaderInv

LEMMA EmitKeepsHeader == ASSUME HeaderInv, EmitSymbol PROVE HeaderInv'
<1> DEFINE n == Len(emitted)
           s == symbols[index]
<1>1. /\ index \in 1 .. Len(symbols) /\ index' = index + 1 /\ UNCHANGED << lines, symbols >>
      /\ SymTypeOK /\ HeaderIsSound /\ TableInv
      /\ symbols \in Seq(Lines) /\ Len(symbols) \in Nat
      /\ emitted \in Seq(Emitted) /\ n \in Nat
      BY Elements DEF EmitSymbol, HeaderInv, SymTypeOK
<1>2. /\ CodeSymbols' = CodeSymbols /\ Capacity' = Capacity /\ Capacity \in Nat
      /\ IsFiniteSet(CodeSymbols)
      BY <1>1, SameTable, CapacityEnough, CodeSymbolsFinite
<1> DEFINE done == CodeSymbols \cap (1 .. index - 1)
           doneNext == CodeSymbols \cap (1 .. index' - 1)
<1>3. n <= Cardinality(done) BY <1>1 DEF TableInv
<1>4. IsFiniteSet(done) BY <1>2, FS_Subset
<1>5. CASE index \notin CodeSymbols
  <2>1. UNCHANGED << emitted, slots >> BY <1>5 DEF EmitSymbol
  <2>2. doneNext = done BY <1>1, <1>5
  <2>3. TableInv'
    <3>1. \A id, probe : Slot(id, probe)' = Slot(id, probe) BY <2>1 DEF Slot
    <3> HIDE DEF done, doneNext
    <3>2. n <= Cardinality(doneNext) BY <1>3, <2>2
    <3> QED BY <1>1, <1>2, <2>1, <3>1, <3>2 DEF TableInv, doneNext
  <2> QED BY <1>1, <2>1, <2>3 DEF HeaderInv, SymTypeOK, HeaderIsSound
<1>6. CASE index \in CodeSymbols
  <2> PICK made, place :
        /\ made = Identifier(IdentifierOf(s.name), s.address)
        /\ place = Slot(made, FirstEmpty(made))
      OBVIOUS
  <2> DEFINE item == [ identifier |-> made, address |-> s.address, size |-> ResolvedSize(index) ]
  <2>1. /\ emitted' = Append(emitted, item) /\ slots' = [slots EXCEPT ![place] = n + 1]
        BY <1>6 DEF EmitSymbol
  <2>2. /\ s \in Lines /\ s.address \in Nat /\ ResolvedSize(index) \in Nat
        /\ \E t \in Inside(s.address) : s.address + ResolvedSize(index) <= t.address + t.size
        BY <1>1, <1>6, SizeFits
  <2>3. made \in Seq(Nat) /\ Hash(made) \in Nat /\ ~IsTaken(made)
    <3>1. index > 0 BY <1>1
    <3>2. PICK line \in Lines : line = s BY <2>2
    <3>3. LET m == Identifier(IdentifierOf(line.name), line.address)
          IN  m \in Seq(Nat) /\ Hash(m) \in Nat /\ ~IsTaken(m)
          BY <3>1, MadeIsFree
    <3> HIDE DEF s
    <3> QED BY <3>2, <3>3
  <2>4. \A i \in 1 .. n : emitted[i].identifier # made BY <1>1, <2>3, TakenIff
  <2>5. item \in Emitted BY <2>2, <2>3 DEF Emitted
  <2>6. /\ emitted' \in Seq(Emitted) /\ Len(emitted') = n + 1
        /\ emitted'[n + 1] = item /\ \A i \in 1 .. n : emitted'[i] = emitted[i]
        BY <1>1, <2>1, <2>5
  <2>7. SymTypeOK' BY <1>1, <2>6 DEF SymTypeOK
  <2>8. \A i \in 1 .. n + 1 : i = n + 1 \/ i \in 1 .. n BY <1>1
  <2>9. HeaderIsSound'
    <3>1. \A i, j \in 1 .. n + 1 : emitted'[i].identifier = emitted'[j].identifier => i = j
      <4>1. \A i, j \in 1 .. n : emitted[i].identifier = emitted[j].identifier => i = j
            BY <1>1 DEF HeaderIsSound
      <4>2. emitted'[n + 1].identifier = made BY <2>6
      <4> QED BY <2>4, <2>6, <2>8, <4>1, <4>2
    <3>2. \A i \in 1 .. n + 1 :
             \E t \in Inside(emitted'[i].address) :
                emitted'[i].address + emitted'[i].size <= t.address + t.size
      <4> TAKE i \in 1 .. n + 1
      <4>1. CASE i = n + 1
        <5>1. emitted'[i].address = s.address /\ emitted'[i].size = ResolvedSize(index)
              BY <2>6, <4>1
        <5> QED BY <2>2, <5>1
      <4>2. CASE i \in 1 .. n BY <1>1, <2>6, <4>2 DEF HeaderIsSound
      <4> QED BY <2>8, <4>1, <4>2
    <3> QED BY <2>6, <3>1, <3>2 DEF HeaderIsSound, Inside
  <2>10. /\ place \in 0 .. Capacity - 1 /\ slots[place] = 0
         /\ FirstEmpty(made) \in 0 .. Capacity - 1
         /\ \A u \in 0 .. FirstEmpty(made) - 1 : slots[Slot(made, u)] # 0
    <3>1. FirstEmpty(made) \in 0 .. Capacity - 1 /\ slots[Slot(made, FirstEmpty(made))] = 0
          /\ \A u \in 0 .. FirstEmpty(made) - 1 : slots[Slot(made, u)] # 0
          BY <1>1, <2>3, ProbingEnds
    <3>2. FirstEmpty(made) \in Nat BY <1>2, <3>1
    <3>3. place \in 0 .. Capacity - 1 BY <1>1, <2>3, <3>2, SlotIs
    <3> QED BY <3>1, <3>3
  <2>11. \A id, probe : Slot(id, probe)' = Slot(id, probe)
    <3>1. DOMAIN slots' = DOMAIN slots BY <2>1
    <3> QED BY <3>1 DEF Slot
  <2>12. /\ slots \in [0 .. Capacity - 1 -> 0 .. n]
         /\ \A k, l \in 0 .. Capacity - 1 : slots[k] # 0 /\ slots[k] = slots[l] => k = l
         BY <1>1 DEF TableInv
  <2>13. /\ slots'[place] = n + 1
         /\ \A k \in 0 .. Capacity - 1 : k # place => slots'[k] = slots[k]
         BY <2>1, <2>10, <2>12
  <2>14. slots' \in [0 .. Capacity - 1 -> 0 .. n + 1]
    <3> DEFINE P == 0 .. Capacity - 1
    <3>1. n + 1 \in 0 .. n + 1 /\ \A x \in 0 .. n : x \in 0 .. n + 1 BY <1>1
    <3>2. slots \in [P -> 0 .. n + 1] BY <2>12, <3>1
    <3> HIDE DEF P
    <3> QED BY <2>1, <3>1, <3>2 DEF P
  <2>15. \A k, l \in 0 .. Capacity - 1 : slots'[k] # 0 /\ slots'[k] = slots'[l] => k = l
    <3>1. \A k \in 0 .. Capacity - 1 : slots[k] # n + 1 BY <1>1, <2>12
    <3> QED BY <2>12, <2>13, <3>1
  <2>16. \A i \in 1 .. n + 1 :
            /\ Hash(emitted'[i].identifier) \in Nat
            /\ \E probe \in 0 .. Capacity - 1 :
                 /\ slots'[Slot(emitted'[i].identifier, probe)] = i
                 /\ \A u \in 0 .. probe - 1 : slots'[Slot(emitted'[i].identifier, u)] # 0
    <3> TAKE i \in 1 .. n + 1
    <3>1. CASE i = n + 1
      <4>1. emitted'[i].identifier = made BY <2>6, <3>1
      <4>2. slots'[Slot(made, FirstEmpty(made))] = i BY <2>13, <3>1
      <4>3. \A u \in 0 .. FirstEmpty(made) - 1 : slots'[Slot(made, u)] # 0
        <5> TAKE u \in 0 .. FirstEmpty(made) - 1
        <5>1. u \in Nat /\ slots[Slot(made, u)] # 0 BY <2>10
        <5>2. Slot(made, u) \in 0 .. Capacity - 1 BY <1>1, <2>3, <5>1, SlotIs
        <5> QED BY <2>10, <2>13, <5>1, <5>2
      <4> QED BY <2>3, <2>10, <4>1, <4>2, <4>3
    <3>2. CASE i \in 1 .. n
      <4> PICK id : id = emitted[i].identifier OBVIOUS
      <4>1. emitted'[i].identifier = id BY <2>6, <3>2
      <4>2. Hash(id) \in Nat BY <1>1, <3>2 DEF TableInv
      <4>3. PICK probe \in 0 .. Capacity - 1 :
               slots[Slot(id, probe)] = i /\ \A u \in 0 .. probe - 1 : slots[Slot(id, u)] # 0
        <5>1. \E probe \in 0 .. Capacity - 1 :
                 /\ slots[Slot(emitted[i].identifier, probe)] = i
                 /\ \A u \in 0 .. probe - 1 : slots[Slot(emitted[i].identifier, u)] # 0
              BY <1>1, <3>2 DEF TableInv
        <5> QED BY <5>1
      <4>4. \A u \in Nat : Slot(id, u) \in 0 .. Capacity - 1 BY <1>1, <4>2, SlotIs
      <4>5. \A u \in Nat : slots[Slot(id, u)] # 0 => slots'[Slot(id, u)] = slots[Slot(id, u)]
            BY <2>10, <2>13, <4>4
      <4>6. probe \in Nat /\ \A u \in 0 .. probe - 1 : u \in Nat BY <1>2
      <4>7. slots'[Slot(id, probe)] = i BY <3>2, <4>3, <4>5, <4>6
      <4>8. \A u \in 0 .. probe - 1 : slots'[Slot(id, u)] # 0 BY <4>3, <4>5, <4>6
      <4> QED BY <4>1, <4>2, <4>7, <4>8
    <3> QED BY <2>8, <3>1, <3>2
  <2>17. n + 1 <= Cardinality(doneNext)
    <3>1. doneNext = done \cup {index} /\ index \notin done BY <1>1, <1>6
    <3> HIDE DEF done, doneNext
    <3>2. Cardinality(doneNext) = Cardinality(done) + 1 BY <1>4, <3>1, FS_AddElement
    <3>3. Cardinality(done) \in Nat BY <1>4, FS_CardinalityType
    <3> QED BY <1>1, <1>3, <3>2, <3>3
  <2> HIDE DEF doneNext
  <2>18. TableInv'
    <3>1. Capacity' = Capacity /\ Len(emitted') = n + 1 BY <1>2, <2>6
    <3>2. \A i \in 1 .. n + 1 :
            /\ Hash(emitted'[i].identifier) \in Nat
            /\ \E probe \in 0 .. Capacity - 1 :
                 /\ slots'[Slot(emitted[i].identifier, probe)'] = i
                 /\ \A u \in 0 .. probe - 1 : slots'[Slot(emitted[i].identifier, u)'] # 0
          BY <2>11, <2>16
    <3>3. n + 1 <= Cardinality(CodeSymbols' \cap (1 .. index' - 1)) BY <1>2, <2>17 DEF doneNext
    <3> HIDE DEF n
    <3> QED BY <2>14, <2>15, <3>1, <3>2, <3>3 DEF TableInv
  <2>19. index' # 0 BY <1>1
  <2> QED BY <2>7, <2>9, <2>18, <2>19 DEF HeaderInv
<1> QED BY <1>5, <1>6

LEMMA HeaderInvKept == ASSUME HeaderInv, [SymNext]_syVars PROVE HeaderInv'
<1>1. CASE ReadLine
  <2>1. /\ index = 0 /\ lines < MostLines /\ lines' = lines + 1 /\ emitted = << >>
        /\ UNCHANGED << index, emitted, slots >>
        BY <1>1 DEF ReadLine, HeaderInv
  <2>2. symbols' = symbols \/ \E line \in Lines : symbols' \in Loaded(line)
        BY <1>1 DEF ReadLine
  <2>3. SymTypeOK /\ lines \in Nat /\ symbols \in Seq(Lines) /\ Len(symbols) <= lines
        /\ Len(symbols) \in Nat
        BY Elements DEF HeaderInv, SymTypeOK
  <2>4. symbols' \in Seq(Lines) /\ Len(symbols') <= Len(symbols) + 1
        BY <2>2, <2>3, LoadedTyped
  <2>5. Len(symbols') \in Nat BY <2>4, Elements
  <2>6. SymTypeOK' BY <2>1, <2>3, <2>4, <2>5, HeaderAssumption DEF SymTypeOK
  <2>7. HeaderIsSound' BY <2>1 DEF HeaderInv, HeaderIsSound, Inside
  <2> QED BY <2>1, <2>6, <2>7 DEF HeaderInv
<1>2. CASE StartHeader BY <1>2, StartKeepsHeader
<1>3. CASE EmitSymbol BY <1>3, EmitKeepsHeader
<1>4. CASE UNCHANGED syVars
  <2>1. /\ lines' = lines /\ symbols' = symbols /\ index' = index
        /\ emitted' = emitted /\ slots' = slots
        BY <1>4 DEF syVars
  <2>2. SymTypeOK' BY <2>1 DEF HeaderInv, SymTypeOK
  <2>3. HeaderIsSound' BY <2>1 DEF HeaderInv, HeaderIsSound, Inside
  <2>4. CodeSymbols' = CodeSymbols /\ Capacity' = Capacity BY <2>1, SameTable
  <2>5. \A id, probe : Slot(id, probe)' = Slot(id, probe) BY <2>1 DEF Slot
  <2>6. index # 0 => TableInv' BY <2>1, <2>4, <2>5 DEF HeaderInv, TableInv
  <2> QED BY <2>1, <2>2, <2>3, <2>6 DEF HeaderInv
<1> QED BY <1>1, <1>2, <1>3, <1>4 DEF SymNext

(* No two symbols of the header share an identifier, and each lies inside   *)
(* its section.                                                             *)
THEOREM HeaderStaysSound == SymSpec => []HeaderIsSound
<1>1. SymInit => HeaderInv BY SymInitInv
<1>2. HeaderInv /\ [SymNext]_syVars => HeaderInv' BY HeaderInvKept
<1>3. HeaderInv => HeaderIsSound BY DEF HeaderInv
<1> QED BY <1>1, <1>2, <1>3, PTL DEF SymSpec

-----------------------------------------------------------------------------
(* AddressAnalysis                                                         *)

AbstractValue ==
    { v \in [lower : Nat, upper : Nat, bounded : BOOLEAN] :
        v.bounded => v.lower <= v.upper /\ v.upper <= Maximum }

(* What is known of a register is true of its value.                        *)
Covers(v, x) == v.bounded => v.lower <= x /\ x <= v.upper

AddressInv ==
    /\ code \in [Position -> Instructions]
    /\ pos \in Position \cup {-1}
    /\ reg \in Value
    /\ pos \in Position => analysed
    /\ analysed => knows = Analysed
    /\ pos \in Position /\ ~resumed => Covers(knows[pos], reg)
    /\ resumed => ~(SwitchEntries \subseteq Leaders)

LEMMA PowerIs ==
    /\ \A k \in 0 .. RegisterBits : Power[k] \in Nat \ {0}
    /\ Maximum \in Nat
<1> DEFINE N == RegisterBits
           R(v) == v = [k \in 0 .. N |-> IF k = 0 THEN 1 ELSE v[k - 1] * 2]
           S == Nat \ {0}
           g == [k \in 1 .. N |-> [x \in S |-> x * 2]]
           power == CHOOSE v : R(v)
<1>1. N \in Nat BY AddressAssumption
<1>2. Power = power BY DEF Power
<1>3. PICK h \in [0 .. N -> S] : Runs(h, N, 1, g)
  <2>1. g \in [1 .. N -> [S -> S]] /\ 1 \in S OBVIOUS
  <2> HIDE DEF g, N, S
  <2> QED BY <1>1, <2>1, RunExists
<1> HIDE DEF N
<1>4. R(h)
  <2> SUFFICES ASSUME NEW k \in 0 .. N
               PROVE  h[k] = IF k = 0 THEN 1 ELSE h[k - 1] * 2
      OBVIOUS
  <2>1. CASE k = 0 BY <2>1, <1>3 DEF Runs
  <2>2. CASE k # 0
    <3>1. k \in 1 .. N /\ k - 1 \in 0 .. N BY <2>2, <1>1
    <3>2. h[k] = g[k][h[k - 1]] /\ h[k - 1] \in S BY <3>1, <1>3 DEF Runs
    <3> QED BY <3>1, <3>2, <2>2
  <2> QED BY <2>1, <2>2
<1>5. R(power)
  <2> HIDE DEF R
  <2> QED BY <1>4
<1> HIDE DEF power, g
<1>6. power[0] \in S /\ \A k \in 1 .. N : power[k - 1] \in S => power[k] \in S
  <2>1. 0 \in 0 .. N /\ \A k \in 1 .. N : k \in 0 .. N /\ k # 0 BY <1>1
  <2>2. power[0] = 1 /\ \A k \in 1 .. N : power[k] = power[k - 1] * 2 BY <1>5, <2>1
  <2> QED BY <2>2
<1> HIDE DEF R, S
<1>7. \A k \in 0 .. N : power[k] \in S BY <1>1, <1>6, RunStays
<1>8. N \in 0 .. N BY <1>1
<1> QED BY <1>2, <1>7, <1>8 DEF N, S, Maximum

LEMMA RangeIs ==
    ASSUME NEW l \in Nat, NEW u \in Nat
    PROVE  /\ RangeValue(l, u) \in AbstractValue
           /\ \A x : l <= x /\ x <= u => Covers(RangeValue(l, u), x)
BY PowerIs DEF RangeValue, AbstractValue, Covers, Unknown

LEMMA SmallMod == ASSUME NEW x \in Value PROVE x % (Maximum + 1) = x
<1>1. Maximum \in Nat /\ x \in Int /\ 0 <= x /\ x <= Maximum BY PowerIs DEF Value
<1> DEFINE a == Maximum + 1
<1>2. a \in Nat \ {0} /\ x \in 0 .. a - 1 /\ x \in Int BY <1>1
<1>3. x = a * 0 + x BY <1>2
<1> HIDE DEF a
<1>4. x % a = x BY <1>2, <1>3, ModUnique
<1> QED BY <1>4 DEF a

LEMMA WrapsIn == ASSUME NEW x \in Int PROVE x % (Maximum + 1) \in Value
<1> DEFINE a == Maximum + 1
<1>1. a \in Nat \ {0} BY PowerIs
<1> HIDE DEF a
<1>2. x % a \in 0 .. a - 1 BY <1>1, DivMod
<1> QED BY <1>2, PowerIs DEF a, Value

LEMMA KnownIs ==
    ASSUME NEW x \in Int
    PROVE  /\ Known(x) \in AbstractValue
           /\ Exact(Known(x)) /\ Known(x).lower = x % (Maximum + 1)
           /\ Covers(Known(x), x % (Maximum + 1))
<1>1. x % (Maximum + 1) \in Value BY WrapsIn
<1> DEFINE y == x % (Maximum + 1)
<1>2. Known(x) = RangeValue(y, y) BY DEF Known
<1> HIDE DEF y
<1>3. y \in Nat /\ y <= Maximum BY <1>1, PowerIs DEF y, Value
<1>4. RangeValue(y, y) = [lower |-> y, upper |-> y, bounded |-> TRUE]
      BY <1>3, PowerIs DEF RangeValue
<1>5. RangeValue(y, y) \in AbstractValue BY <1>3, RangeIs
<1> QED BY <1>2, <1>3, <1>4, <1>5 DEF y, Exact, Covers

LEMMA Shifted ==
    ASSUME NEW p \in Nat \ {0}, NEW x \in Nat, NEW u \in Nat, x <= u
    PROVE  /\ x \div p \in Nat /\ x \div p <= u \div p /\ x \div p <= x
           /\ x * p \in Nat /\ x * p <= u * p
           /\ \A m \in Nat : u <= m \div p => u * p <= m
<1>1. x = p * (x \div p) + (x % p) /\ x % p \in 0 .. p - 1 /\ x \div p \in Int BY DivMod
<1>2. u = p * (u \div p) + (u % p) /\ u % p \in 0 .. p - 1 /\ u \div p \in Int BY DivMod
<1> DEFINE q == x \div p
           r == x % p
           s == u \div p
           t == u % p
<1>3. /\ q \in Int /\ s \in Int /\ r \in 0 .. p - 1 /\ t \in 0 .. p - 1
      /\ x = p * q + r /\ u = p * s + t
      BY <1>1, <1>2
<1> HIDE DEF q, r, s, t
<1>4. q >= 0
  <2> SUFFICES ASSUME q + 1 <= 0 PROVE FALSE BY <1>3
  <2>1. p * (q + 1) <= 0 BY <1>3
  <2>2. p * (q + 1) = p * q + p BY <1>3
  <2> QED BY <1>3, <2>1, <2>2
<1>5. q <= s
  <2> SUFFICES ASSUME s + 1 <= q PROVE FALSE BY <1>3
  <2>1. PICK d \in Nat : q = s + 1 + d BY <1>3
  <2>2. p * q = p * s + p + p * d /\ p * d \in Nat BY <1>3, <2>1
  <2> QED BY <1>3, <2>2
<1>6. q <= x
  <2>1. p * q >= q BY <1>3, <1>4
  <2> QED BY <1>3, <2>1
<1>7. x * p \in Nat /\ x * p <= u * p
  <2>1. PICK d \in Nat : u = x + d BY <1>3
  <2>2. u * p = x * p + d * p /\ d * p \in Nat BY <2>1
  <2> QED BY <2>2
<1>8. ASSUME NEW m \in Nat, u <= m \div p PROVE u * p <= m
  <2>1. m = p * (m \div p) + (m % p) /\ m % p \in 0 .. p - 1 /\ m \div p \in Int BY DivMod
  <2>2. PICK w \in Int : w = m \div p BY <2>1
  <2>3. PICK d \in Nat : w = u + d BY <1>8, <2>2
  <2>4. p * w = u * p + p * d /\ p * d \in Nat BY <2>2, <2>3
  <2>5. m >= p * w BY <2>1, <2>2
  <2> QED BY <2>4, <2>5
<1> QED BY <1>3, <1>4, <1>5, <1>6, <1>7, <1>8 DEF q, s

(* Arithmetic on what covers two values covers the result.                  *)
LEMMA BinaryCovers ==
    ASSUME NEW op \in Arithmetic, NEW left \in AbstractValue, NEW right \in AbstractValue,
           NEW x \in Value, NEW y \in Value, Covers(left, x), Covers(right, y),
           op = "and" => Exact(right),
           op \in {"lshr", "shl"} => y < RegisterBits
    PROVE  /\ Compute(op, x, y) \in Value
           /\ BinaryValue(op, left, right) \in AbstractValue
           /\ Covers(BinaryValue(op, left, right), Compute(op, x, y))
<1> DEFINE z == Compute(op, x, y)
           v == BinaryValue(op, left, right)
<1>1. x \in Nat /\ y \in Nat /\ x <= Maximum /\ y <= Maximum /\ Maximum \in Nat
      BY PowerIs DEF Value
<1>2. /\ left.lower \in Nat /\ left.upper \in Nat /\ right.lower \in Nat /\ right.upper \in Nat
      /\ left.bounded => left.lower <= x /\ x <= left.upper /\ left.upper <= Maximum
      /\ right.bounded => right.lower <= y /\ y <= right.upper /\ right.upper <= Maximum
      BY DEF AbstractValue, Covers
<1>3. op \in {"lshr", "shl"} => Power[y] \in Nat \ {0}
  <2>1. y < RegisterBits => y \in 0 .. RegisterBits BY <1>1, AddressAssumption
  <2> QED BY <2>1, PowerIs
<1>4. z \in Value
  <2>1. CASE op \in {"add", "sub"}
    <3>1. x + y \in Int /\ x - y \in Int BY <1>1
    <3> QED BY <2>1, <3>1, WrapsIn DEF Compute
  <2>2. CASE op = "and"
    <3>1. z = x % (y + 1) BY <2>2 DEF Compute, Masked
    <3>2. y + 1 \in Nat \ {0} /\ x \in Int BY <1>1
    <3>3. x % (y + 1) \in 0 .. y BY <1>1
    <3> QED BY <1>1, <3>1, <3>3 DEF Value
  <2>3. CASE op = "lshr"
    <3>1. z = x \div Power[y] BY <2>3 DEF Compute
    <3>2. Power[y] \in Nat \ {0} BY <1>3, <2>3
    <3>3. x \div Power[y] \in Nat /\ x \div Power[y] <= x BY <1>1, <3>2, Shifted
    <3> QED BY <1>1, <3>1, <3>3 DEF Value
  <2>4. CASE op = "shl"
    <3>1. z = (x * Power[y]) % (Maximum + 1) BY <2>4 DEF Compute
    <3>2. Power[y] \in Nat \ {0} BY <1>3, <2>4
    <3>3. x * Power[y] \in Int BY <1>1, <3>2, Shifted
    <3> QED BY <3>1, <3>3, WrapsIn
  <2> QED BY <2>1, <2>2, <2>3, <2>4 DEF Arithmetic
<1>5. Unknown \in AbstractValue /\ Covers(Unknown, z) BY DEF Unknown, AbstractValue, Covers
<1>6. CASE Exact(left) /\ Exact(right)
  <2>1. x = left.lower /\ y = right.lower BY <1>1, <1>2, <1>6 DEF Exact
  <2>2. v = Known(z) BY <1>6, <2>1 DEF BinaryValue
  <2>3. z \in Int BY <1>1, <1>4 DEF Value
  <2>4. z % (Maximum + 1) = z BY <1>4, SmallMod
  <2> HIDE DEF z, v
  <2> QED BY <1>4, <2>2, <2>3, <2>4, KnownIs DEF v, z
<1>7. CASE ~(Exact(left) /\ Exact(right)) /\ op = "and"
  <2>1. Exact(right) /\ v = RangeValue(0, right.lower) BY <1>7 DEF BinaryValue
  <2>2. y = right.lower BY <1>1, <1>2, <2>1 DEF Exact
  <2>3. x % (y + 1) \in 0 .. y BY <1>1
  <2>4. z = x % (y + 1) BY <1>7 DEF Compute, Masked
  <2> HIDE DEF z, v
  <2> QED BY <1>1, <1>4, <2>1, <2>2, <2>3, <2>4, RangeIs DEF z, v
<1>8. CASE ~(Exact(left) /\ Exact(right)) /\ op # "and" /\ ~(left.bounded /\ right.bounded)
  <2>1. v = Unknown BY <1>8 DEF BinaryValue
  <2> QED BY <1>4, <1>5, <2>1
<1>9. CASE ~(Exact(left) /\ Exact(right)) /\ op # "and" /\ left.bounded /\ right.bounded
  <2>1. CASE op = "add"
    <3>1. v = IF left.upper <= Maximum - right.upper
              THEN RangeValue(left.lower + right.lower, left.upper + right.upper) ELSE Unknown
          BY <1>9, <2>1 DEF BinaryValue
    <3>2. z = (x + y) % (Maximum + 1) BY <2>1 DEF Compute
    <3>3. CASE left.upper <= Maximum - right.upper
      <4>1. x + y \in Value BY <1>1, <1>2, <1>9, <3>3 DEF Value
      <4>2. z = x + y BY <3>2, <4>1, SmallMod
      <4>3. /\ left.lower + right.lower \in Nat /\ left.upper + right.upper \in Nat
            /\ left.lower + right.lower <= x + y /\ x + y <= left.upper + right.upper
            BY <1>1, <1>2, <1>9
      <4>4. v = RangeValue(left.lower + right.lower, left.upper + right.upper) BY <3>1, <3>3
      <4> HIDE DEF v, z
      <4> QED BY <1>4, <4>2, <4>3, <4>4, RangeIs DEF v, z
    <3> QED BY <1>4, <1>5, <3>1, <3>3
  <2>2. CASE op = "sub"
    <3>1. v = IF left.lower >= right.upper
              THEN RangeValue(left.lower - right.upper, left.upper - right.lower) ELSE Unknown
          BY <1>9, <2>2 DEF BinaryValue
    <3>2. z = (x - y) % (Maximum + 1) BY <2>2 DEF Compute
    <3>3. CASE left.lower >= right.upper
      <4>1. x - y \in Value BY <1>1, <1>2, <1>9, <3>3 DEF Value
      <4>2. z = x - y BY <3>2, <4>1, SmallMod
      <4>3. /\ left.lower - right.upper \in Nat /\ left.upper - right.lower \in Nat
            /\ left.lower - right.upper <= x - y /\ x - y <= left.upper - right.lower
            BY <1>1, <1>2, <1>9, <3>3
      <4>4. v = RangeValue(left.lower - right.upper, left.upper - right.lower) BY <3>1, <3>3
      <4> HIDE DEF v, z
      <4> QED BY <1>4, <4>2, <4>3, <4>4, RangeIs DEF v, z
    <3> QED BY <1>4, <1>5, <3>1, <3>3
  <2>3. CASE op = "lshr"
    <3> DEFINE p == Power[right.lower]
    <3>1. v = IF Exact(right) /\ right.lower < RegisterBits
              THEN RangeValue(left.lower \div p, left.upper \div p) ELSE Unknown
          BY <1>9, <2>3 DEF BinaryValue
    <3>2. CASE Exact(right) /\ right.lower < RegisterBits
      <4>1. y = right.lower BY <1>1, <1>2, <3>2 DEF Exact
      <4>2. p \in Nat \ {0} /\ z = x \div p BY <1>3, <2>3, <4>1 DEF Compute
      <4>3. v = RangeValue(left.lower \div p, left.upper \div p) BY <3>1, <3>2
      <4> HIDE DEF p, v, z
      <4>4. /\ left.lower \div p \in Nat /\ x \div p \in Nat /\ left.upper \div p \in Nat
            /\ left.lower \div p <= x \div p /\ x \div p <= left.upper \div p
            BY <1>1, <1>2, <1>9, <4>2, Shifted
      <4> QED BY <1>4, <4>2, <4>3, <4>4, RangeIs DEF v, z
    <3> QED BY <1>4, <1>5, <3>1, <3>2
  <2>4. CASE op = "shl"
    <3> DEFINE p == Power[right.lower]
               fits == Exact(right) /\ right.lower < RegisterBits /\ left.upper <= Maximum \div p
    <3>1. v = IF fits THEN RangeValue(left.lower * p, left.upper * p) ELSE Unknown
          BY <1>9, <2>4 DEF BinaryValue
    <3>2. CASE fits
      <4>1. y = right.lower BY <1>1, <1>2, <3>2 DEF Exact
      <4>2. p \in Nat \ {0} /\ z = (x * p) % (Maximum + 1) BY <1>3, <2>4, <4>1 DEF Compute
      <4>3. v = RangeValue(left.lower * p, left.upper * p) BY <3>1, <3>2
      <4>4. left.upper <= Maximum \div p BY <3>2
      <4> HIDE DEF p, v, z
      <4>5. /\ left.lower * p \in Nat /\ x * p \in Nat /\ left.upper * p \in Nat
            /\ left.lower * p <= x * p /\ x * p <= left.upper * p
            BY <1>1, <1>2, <1>9, <4>2, Shifted
      <4>6. left.upper * p <= Maximum BY <1>1, <1>2, <4>2, <4>4, Shifted
      <4>7. x * p \in Value BY <1>1, <4>5, <4>6 DEF Value
      <4>8. z = x * p BY <4>2, <4>7, SmallMod
      <4> QED BY <1>4, <4>3, <4>5, <4>8, RangeIs DEF v, z
    <3> HIDE DEF fits
    <3> QED BY <1>4, <1>5, <3>1, <3>2
  <2> QED BY <1>9, <2>1, <2>2, <2>3, <2>4 DEF Arithmetic
<1> QED BY <1>6, <1>7, <1>8, <1>9

LEMMA SelectCovers ==
    ASSUME NEW yes \in AbstractValue, NEW no \in AbstractValue
    PROVE  /\ SelectValue(yes, no) \in AbstractValue
           /\ \A x \in Value : Covers(yes, x) \/ Covers(no, x) => Covers(SelectValue(yes, no), x)
<1>1. Unknown \in AbstractValue /\ \A x : Covers(Unknown, x) BY DEF Unknown, AbstractValue, Covers
<1>2. CASE ~(yes.bounded /\ no.bounded) BY <1>1, <1>2 DEF SelectValue
<1>3. CASE yes.bounded /\ no.bounded
  <2> DEFINE l == IF yes.lower < no.lower THEN yes.lower ELSE no.lower
             u == IF yes.upper > no.upper THEN yes.upper ELSE no.upper
  <2>1. SelectValue(yes, no) = RangeValue(l, u) BY <1>3 DEF SelectValue
  <2>2. /\ yes.lower \in Nat /\ yes.upper \in Nat /\ no.lower \in Nat /\ no.upper \in Nat
        BY DEF AbstractValue
  <2>3. /\ l \in Nat /\ u \in Nat /\ l <= yes.lower /\ l <= no.lower
        /\ yes.upper <= u /\ no.upper <= u
        BY <2>2
  <2> HIDE DEF l, u
  <2>4. ASSUME NEW x \in Value, Covers(yes, x) \/ Covers(no, x) PROVE l <= x /\ x <= u
        BY <1>3, <2>2, <2>3, <2>4, PowerIs DEF Covers, Value
  <2> QED BY <2>1, <2>3, <2>4, RangeIs
<1> QED BY <1>2, <1>3

(* An instruction leaves what its abstract value covers.                    *)
LEMMA OpCovers ==
    ASSUME code \in [Position -> Instructions], NEW b \in Position, NEW v \in AbstractValue
    PROVE  /\ AfterOp(b, v) \in AbstractValue
           /\ pos = b /\ reg \in Value /\ Covers(v, reg) =>
                Results \subseteq Value /\ \A x \in Results : Covers(AfterOp(b, v), x)
<1> DEFINE i == code[b]
           y == i.k
<1>1. i \in Instructions OBVIOUS
<1>2. /\ y \in Value /\ (i.op \in {"lshr", "shl"} => y < RegisterBits) /\ Entered \subseteq Value
      BY <1>1, AddressAssumption
<1>3. y \in Int BY <1>2, PowerIs DEF Value
<1>4. /\ Known(y) \in AbstractValue /\ Exact(Known(y)) /\ Covers(Known(y), y)
      BY <1>2, <1>3, KnownIs, SmallMod
<1>5. Unknown \in AbstractValue /\ \A x : Covers(Unknown, x) BY DEF Unknown, AbstractValue, Covers
<1>6. CASE i.op = "const"
  <2>1. AfterOp(b, v) = Known(y) BY <1>6 DEF AfterOp, Arithmetic
  <2>2. pos = b => Results = {y} BY <1>6 DEF Results, Arithmetic
  <2> QED BY <1>2, <1>4, <2>1, <2>2
<1>7. CASE i.op \in Arithmetic
  <2>1. i.op # "const" BY <1>7 DEF Arithmetic
  <2>2. AfterOp(b, v) = BinaryValue(i.op, v, Known(y)) BY <1>7, <2>1 DEF AfterOp, Arithmetic
  <2>3. pos = b => Results = {Compute(i.op, reg, y)} BY <1>7, <2>1 DEF Results, Arithmetic
  <2>4. 0 \in Value BY PowerIs DEF Value
  <2>5. \E x \in Value : Covers(v, x)
    <3>1. CASE v.bounded
      <4>1. v.lower \in Value BY <3>1, PowerIs DEF AbstractValue, Value
      <4>2. Covers(v, v.lower) BY <3>1 DEF AbstractValue, Covers
      <4> QED BY <4>1, <4>2
    <3>2. CASE ~v.bounded BY <2>4, <3>2 DEF Covers
    <3> QED BY <3>1, <3>2
  <2> HIDE DEF i, y
  <2>6. \A x \in Value : Covers(v, x) =>
           /\ Compute(i.op, x, y) \in Value
           /\ BinaryValue(i.op, v, Known(y)) \in AbstractValue
           /\ Covers(BinaryValue(i.op, v, Known(y)), Compute(i.op, x, y))
        BY <1>2, <1>4, <1>7, BinaryCovers
  <2> QED BY <2>2, <2>3, <2>5, <2>6
<1>8. CASE i.op = "double"
  <2>1. AfterOp(b, v) = BinaryValue("add", v, v) /\ "add" \in Arithmetic
        BY <1>8 DEF AfterOp, Arithmetic
  <2>2. pos = b => Results = {Compute("add", reg, reg)} BY <1>8 DEF Results, Arithmetic
  <2>3. \E x \in Value : Covers(v, x)
    <3>1. CASE v.bounded
      <4>1. v.lower \in Value BY <3>1, PowerIs DEF AbstractValue, Value
      <4>2. Covers(v, v.lower) BY <3>1 DEF AbstractValue, Covers
      <4> QED BY <4>1, <4>2
    <3>2. CASE ~v.bounded
      <4>1. 0 \in Value BY PowerIs DEF Value
      <4> QED BY <3>2, <4>1 DEF Covers
    <3> QED BY <3>1, <3>2
  <2>4. \A x \in Value : Covers(v, x) =>
           /\ Compute("add", x, x) \in Value
           /\ BinaryValue("add", v, v) \in AbstractValue
           /\ Covers(BinaryValue("add", v, v), Compute("add", x, x))
        BY <2>1, BinaryCovers
  <2> QED BY <2>1, <2>2, <2>3, <2>4
<1>9. CASE i.op = "select"
  <2>1. AfterOp(b, v) = SelectValue(v, Known(y)) BY <1>9 DEF AfterOp, Arithmetic
  <2>2. pos = b => Results = {reg, y} BY <1>9 DEF Results, Arithmetic
  <2> HIDE DEF y
  <2> QED BY <1>2, <1>4, <2>1, <2>2, SelectCovers
<1>10. CASE i.op \in {"unknown", "fallback"}
  <2>1. AfterOp(b, v) = Unknown BY <1>10 DEF AfterOp, Arithmetic
  <2>2. pos = b => Results = Entered BY <1>10 DEF Results, Arithmetic
  <2> QED BY <1>2, <1>5, <2>1, <2>2
<1>11. CASE i.op \notin Arithmetic \cup {"const", "double", "select", "unknown", "fallback"}
  <2>1. AfterOp(b, v) = v BY <1>11 DEF AfterOp
  <2>2. pos = b => Results = {reg} BY <1>11 DEF Results
  <2> QED BY <2>1, <2>2
<1> QED BY <1>6, <1>7, <1>8, <1>9, <1>10, <1>11

(* The analysis goes from block to block, and starts anew at a leader.      *)
LEMMA AnalysedIs ==
    ASSUME code \in [Position -> Instructions]
    PROVE  \A b \in Position :
             /\ Analysed[b] \in AbstractValue
             /\ b \in Leaders => Analysed[b] = Unknown
             /\ b \notin Leaders =>
                    b - 1 \in Position /\ Analysed[b] = AfterOp(b - 1, Analysed[b - 1])
<1> DEFINE N == Final
           R(v) == v = [b \in Position |->
                           IF b \in Leaders THEN Unknown ELSE AfterOp(b - 1, v[b - 1])]
           S == AbstractValue
           g == [k \in 1 .. N |->
                    [x \in S |-> IF k \in Leaders THEN Unknown ELSE AfterOp(k - 1, x)]]
           state == CHOOSE v : R(v)
<1>1. N \in Nat /\ Position = 0 .. N /\ Unknown \in S /\ 0 \in Leaders
      BY AddressAssumption DEF Position, Unknown, AbstractValue, Leaders
<1>2. Analysed = state BY DEF Analysed
<1>3. PICK h \in [0 .. N -> S] : Runs(h, N, Unknown, g)
  <2>1. g \in [1 .. N -> [S -> S]]
    <3> SUFFICES ASSUME NEW k \in 1 .. N, NEW x \in S
                 PROVE  (IF k \in Leaders THEN Unknown ELSE AfterOp(k - 1, x)) \in S
        OBVIOUS
    <3>1. k - 1 \in Position BY <1>1
    <3> QED BY <1>1, <3>1, OpCovers
  <2> HIDE DEF g, N, S
  <2> QED BY <1>1, <2>1, RunExists
<1> HIDE DEF N
<1>4. R(h)
  <2> SUFFICES ASSUME NEW k \in Position
               PROVE  h[k] = IF k \in Leaders THEN Unknown ELSE AfterOp(k - 1, h[k - 1])
      BY <1>1
  <2>1. CASE k = 0 BY <1>1, <2>1, <1>3 DEF Runs
  <2>2. CASE k # 0
    <3>1. k \in 1 .. N /\ k - 1 \in 0 .. N BY <2>2, <1>1
    <3>2. h[k] = g[k][h[k - 1]] /\ h[k - 1] \in S BY <3>1, <1>3 DEF Runs
    <3> QED BY <3>1, <3>2, <2>2
  <2> QED BY <2>1, <2>2
<1>5. R(state)
  <2> HIDE DEF R
  <2> QED BY <1>4
<1> HIDE DEF state, g
<1>6. \A b \in Position : state[b] = IF b \in Leaders THEN Unknown ELSE AfterOp(b - 1, state[b - 1])
      BY <1>5
<1> HIDE DEF R, S
<1>7. state[0] \in S /\ \A k \in 1 .. N : state[k - 1] \in S => state[k] \in S
  <2>1. 0 \in Position /\ \A k \in 1 .. N : k \in Position /\ k - 1 \in Position BY <1>1
  <2> QED BY <1>1, <1>6, <2>1, OpCovers DEF S
<1>8. \A k \in 0 .. N : state[k] \in S BY <1>1, <1>7, RunStays
<1>9. \A b \in Position : b \notin Leaders => b - 1 \in Position BY <1>1
<1> QED BY <1>1, <1>2, <1>6, <1>8, <1>9 DEF S

LEMMA AddressInitInv == AddressInit => AddressInv
BY PowerIs, AddressAssumption DEF AddressInit, AddressInv, Position, Value

LEMMA AddressInvKept == ASSUME AddressInv, [AddressNext]_aaVars PROVE AddressInv'
<1>1. /\ code \in [Position -> Instructions] /\ reg \in Value
      /\ pos \in Position \cup {-1} /\ -1 \notin Position
      /\ pos \in Position => analysed
      /\ analysed => knows = Analysed
      /\ pos \in Position /\ ~resumed => Covers(knows[pos], reg)
      /\ resumed => ~(SwitchEntries \subseteq Leaders)
      BY DEF AddressInv, Position
<1>2. CASE Analyze
  <2>1. /\ ~analysed /\ analysed' = TRUE /\ knows' = Analysed
        /\ code' = code /\ pos' = pos /\ reg' = reg /\ entryPoints' = entryPoints
        /\ resumed' = resumed
        BY <1>2 DEF Analyze
  <2>2. Analysed' = Analysed
        BY <2>1 DEF Analysed, AfterOp, Leaders, FallsThrough, Jumps
  <2>3. (SwitchEntries \subseteq Leaders)' <=> (SwitchEntries \subseteq Leaders)
        BY <2>1 DEF SwitchEntries, RegionLeaders, RunsAsService, Leaders, FallsThrough, Jumps
  <2> QED BY <1>1, <2>1, <2>2, <2>3 DEF AddressInv
<1>3. ASSUME code' = code, entryPoints' = entryPoints
      PROVE  /\ Analysed' = Analysed
             /\ (SwitchEntries \subseteq Leaders)' <=> (SwitchEntries \subseteq Leaders)
  <2>1. Analysed' = Analysed BY <1>3 DEF Analysed, AfterOp, Leaders, FallsThrough, Jumps
  <2>2. SwitchEntries' = SwitchEntries /\ Leaders' = Leaders
        BY <1>3 DEF SwitchEntries, RegionLeaders, RunsAsService, Leaders, FallsThrough, Jumps
  <2> QED BY <2>1, <2>2
<1>4. ASSUME NEW b \in Position, NEW v \in Entered, EnterBlock(b, v) PROVE AddressInv'
  <2>1. /\ analysed /\ pos' = b /\ reg' = v /\ resumed' = (b \notin Leaders)
        /\ code' = code /\ knows' = knows /\ analysed' = analysed
        /\ entryPoints' = entryPoints /\ b \in SwitchEntries
        BY <1>4 DEF EnterBlock
  <2>2. b \in Leaders => knows[b] = Unknown BY <1>1, <2>1, AnalysedIs
  <2>3. v \in Value BY AddressAssumption
  <2>4. ~resumed' => Covers(knows'[pos'], reg')
    <3>1. ~resumed' => b \in Leaders BY <2>1
    <3>2. ~resumed' => knows'[pos'] = Unknown BY <2>1, <2>2, <3>1
    <3>3. Covers(Unknown, reg') BY DEF Covers, Unknown
    <3> QED BY <3>2, <3>3
  <2> QED BY <1>1, <1>3, <2>1, <2>3, <2>4 DEF AddressInv
<1>5. CASE ExecuteOp
  <2> DEFINE after == IF pos < Final THEN pos + 1 ELSE -1
             targets == Jumps(pos) \cup (IF code[pos].op = "branch" THEN {} ELSE {after})
                          \cup (IF MayLeave(pos) THEN {-1} ELSE {})
  <2>1. /\ pos \in Position /\ pos' \in targets /\ reg' \in Results
        /\ resumed' = (resumed /\ pos' \notin Leaders)
        /\ code' = code /\ knows' = knows /\ analysed' = analysed
        /\ entryPoints' = entryPoints
        BY <1>5 DEF ExecuteOp
  <2>2. analysed /\ knows = Analysed /\ knows[pos] \in AbstractValue BY <1>1, <2>1, AnalysedIs
  <2>3. /\ after \in Position \cup {-1}
        /\ after \in Position => after = pos + 1 /\ after - 1 = pos /\ after > 0
        BY <2>1, AddressAssumption DEF Position
  <2> HIDE DEF after
  <2>4. Jumps(pos) \subseteq Position /\ Jumps(pos) \subseteq Leaders
    <3>1. code[pos] \in Instructions BY <1>1, <2>1
    <3>2. Jumps(pos) \subseteq Position BY <3>1, AddressAssumption DEF Jumps
    <3> QED BY <2>1, <3>2 DEF Leaders
  <2>5. pos' \in Position /\ pos' \notin Leaders =>
           FallsThrough(pos) /\ pos' = pos + 1 /\ pos' - 1 = pos
    <3> SUFFICES ASSUME pos' \in Position, pos' \notin Leaders
                 PROVE  FallsThrough(pos) /\ pos' = pos + 1 /\ pos' - 1 = pos
        OBVIOUS
    <3>1. pos' = after BY <1>1, <2>1, <2>4
    <3>2. pos' = pos + 1 /\ pos' - 1 = pos /\ pos' > 0 BY <2>3, <3>1
    <3>3. FallsThrough(pos' - 1) BY <3>2 DEF Leaders
    <3> QED BY <3>2, <3>3
  <2>6. pos' \in Position \cup {-1} BY <2>1, <2>3, <2>4
  <2>7. reg' \in Value
    <3>1. CASE Covers(knows[pos], reg) BY <1>1, <2>1, <2>2, <3>1, OpCovers
    <3>2. Unknown \in AbstractValue /\ Covers(Unknown, reg) BY DEF Unknown, AbstractValue, Covers
    <3> QED BY <1>1, <2>1, <3>2, OpCovers
  <2>8. ASSUME pos' \in Position, ~resumed' PROVE Covers(knows[pos'], reg')
    <3>1. CASE pos' \in Leaders
      <4>1. knows[pos'] = Unknown BY <1>1, <2>2, <2>8, <3>1, AnalysedIs
      <4> QED BY <4>1 DEF Covers, Unknown
    <3>2. CASE pos' \notin Leaders
      <4>1. ~resumed /\ Covers(knows[pos], reg) BY <1>1, <2>1, <2>8, <3>2
      <4>2. knows[pos'] = AfterOp(pos, knows[pos])
            BY <1>1, <2>2, <2>5, <2>8, <3>2, AnalysedIs
      <4>3. Covers(AfterOp(pos, knows[pos]), reg') BY <1>1, <2>1, <2>2, <4>1, OpCovers
      <4> QED BY <4>2, <4>3
    <3> QED BY <3>1, <3>2
  <2> HIDE DEF targets
  <2> QED BY <1>1, <1>3, <2>1, <2>2, <2>6, <2>7, <2>8 DEF AddressInv
<1>6. CASE UNCHANGED aaVars
  <2>1. /\ code' = code /\ knows' = knows /\ analysed' = analysed /\ pos' = pos
        /\ reg' = reg /\ entryPoints' = entryPoints /\ resumed' = resumed
        BY <1>6 DEF aaVars
  <2> QED BY <1>1, <1>3, <2>1 DEF AddressInv
<1> QED BY <1>2, <1>4, <1>5, <1>6 DEF AddressNext

(* All addresses between two of a window are normalized alike.              *)
LEMMA WindowNormalized ==
    ASSUME NEW address \in Nat, NEW alias \in {0, Alias}, InWindow(address, alias)
    PROVE  Normalized(address) = address - alias
<1> DEFINE x == address - alias
           q == x \div Alias
           r == x % Alias
<1>1. /\ Alias \in Nat \ {0} /\ x \in Int /\ x \in WindowBase .. WindowBase + WindowSize - 1
      BY AddressAssumption DEF InWindow
<1>2. (x \div Alias) % 2 = 0 BY <1>1, AddressAssumption
<1>3. x = Alias * q + r /\ r \in 0 .. Alias - 1 /\ q \in Int BY <1>1, DivMod
<1>4. q % 2 = 0 BY <1>2
<1>5. address = x + alias BY <1>1
<1> HIDE DEF x, q, r
<1>6. CASE alias = 0
  <2>1. address \div Alias = q BY <1>1, <1>3, <1>5, <1>6, ModUnique
  <2>2. Normalized(address) = address - 0 * Alias BY <1>4, <2>1 DEF Normalized
  <2> QED BY <1>1, <1>6, <2>2
<1>7. CASE alias = Alias
  <2>1. address = Alias * (q + 1) + r BY <1>1, <1>3, <1>5, <1>7
  <2>2. address \div Alias = q + 1
    <3>1. q + 1 \in Int /\ address \in Int BY <1>3
    <3> DEFINE s == q + 1
    <3>2. s \in Int /\ address = Alias * s + r BY <2>1, <3>1
    <3> HIDE DEF s
    <3>3. address \div Alias = s BY <1>1, <1>3, <3>1, <3>2, ModUnique
    <3> QED BY <3>3 DEF s
  <2>3. (q + 1) % 2 = 1 BY <1>3, <1>4
  <2>4. Normalized(address) = address - 1 * Alias BY <2>2, <2>3 DEF Normalized
  <2> QED BY <1>1, <1>7, <2>4
<1> QED BY <1>6, <1>7

(* An access compiled without a check stays inside the memory, and one      *)
(* compiled as a FIFO write goes to the FIFO, whatever entry of the switch  *)
(* the code came in by - but for those the analysis knows no leader at,     *)
(* until the next leader: behind an MSR write, at and behind an instruction *)
(* service, at a configured entry point.  A range without them has no       *)
(* exception.                                                               *)
THEOREM AccessesStayProven == AddressSpec => []AccessIsWhereProven
<1>1. AddressInit => AddressInv BY AddressInitInv
<1>2. AddressInv /\ [AddressNext]_aaVars => AddressInv' BY AddressInvKept
<1>3. AddressInv => AccessIsWhereProven
  <2> SUFFICES ASSUME AddressInv, pos \in Position,
                      ~(resumed /\ ~(SwitchEntries \subseteq Leaders))
               PROVE  LET address == Compute("add", reg, code[pos].k)
                      IN  /\ Proven(AccessAddress(pos)) =>
                               Normalized(address) - WindowBase \in 0 .. WindowSize - AccessWidth
                          /\ Domain(AccessAddress(pos)) = "fifo" => address \in Fifo
      BY DEF AccessIsWhereProven
  <2> DEFINE address == Compute("add", reg, code[pos].k)
             v == AccessAddress(pos)
  <2>1. /\ code \in [Position -> Instructions] /\ reg \in Value
        /\ ~resumed /\ knows = Analysed /\ Covers(knows[pos], reg)
        BY DEF AddressInv
  <2>2. knows[pos] \in AbstractValue BY <2>1, AnalysedIs
  <2>3. code[pos].k \in Value BY <2>1, AddressAssumption
  <2>4. /\ Known(code[pos].k) \in AbstractValue /\ Covers(Known(code[pos].k), code[pos].k)
    <3>1. code[pos].k \in Int BY <2>3, PowerIs DEF Value
    <3> QED BY <2>3, <3>1, KnownIs, SmallMod
  <2>5. address \in Value /\ v \in AbstractValue /\ Covers(v, address)
    <3>1. "add" \in Arithmetic BY DEF Arithmetic
    <3> QED BY <2>1, <2>2, <2>3, <2>4, <3>1, BinaryCovers DEF AccessAddress
  <2> HIDE DEF address, v
  <2>6. address \in Nat /\ v.lower \in Nat /\ v.upper \in Nat
        BY <2>5, PowerIs DEF Value, AbstractValue
  <2>7. ASSUME Domain(v) = "fifo" PROVE address \in Fifo
    <3>1. v.bounded /\ v.lower = v.upper /\ v.lower \in Fifo BY <2>7 DEF Domain, Exact
    <3>2. address = v.lower BY <2>5, <2>6, <3>1 DEF Covers
    <3> QED BY <3>1, <3>2
  <2>8. ASSUME Proven(v) PROVE Normalized(address) - WindowBase \in 0 .. WindowSize - AccessWidth
    <3>1. /\ v.bounded
          /\ \E alias \in {0, Alias} : InWindow(v.lower, alias) /\ InWindow(v.upper, alias)
          BY <2>8 DEF Proven, Domain
    <3>2. PICK alias \in {0, Alias} : InWindow(v.lower, alias) /\ InWindow(v.upper, alias) BY <3>1
    <3>3. v.lower <= address /\ address <= v.upper BY <2>5, <3>1 DEF Covers
    <3>4. alias \in Nat /\ WindowBase \in Nat /\ WindowSize \in Nat /\ AccessWidth \in Nat
          BY AddressAssumption
    <3>5. InWindow(address, alias) BY <2>6, <3>2, <3>3, <3>4 DEF InWindow
    <3>6. /\ Normalized(v.lower) = v.lower - alias /\ Normalized(v.upper) = v.upper - alias
          /\ Normalized(address) = address - alias
          BY <2>6, <3>2, <3>5, WindowNormalized
    <3>7. /\ v.lower - alias >= WindowBase
          /\ v.upper - alias - WindowBase <= WindowSize - AccessWidth
          BY <2>8, <3>6 DEF Proven
    <3> QED BY <2>6, <3>3, <3>4, <3>6, <3>7
  <2> QED BY <2>7, <2>8 DEF address, v
<1> QED BY <1>1, <1>2, <1>3, PTL DEF AddressSpec

-----------------------------------------------------------------------------
(* Dispatch                                                                *)

DispatchInv == funcs \in Seq(Chunks) /\ (lookup = "indexed" => Indexable)

LEMMA ChunkIs ==
    ASSUME NEW list \in Seq(Chunks)
    PROVE  /\ Len(list) \in Nat
           /\ \A i \in 1 .. Len(list) :
                list[i] \in Chunks /\ list[i].start \in Nat /\ list[i].end \in Nat
                /\ Width(list[i]) = list[i].end - list[i].start /\ Width(list[i]) \in Int
<1>1. Len(list) \in Nat /\ \A i \in 1 .. Len(list) : list[i] \in Chunks BY Elements
<1>2. \A c \in Chunks : c.start \in Nat /\ c.end \in Nat BY DispatchAssumption
<1> QED BY <1>1, <1>2 DEF Width

(* In a run each chunk begins where the one before it ends, and all but the *)
(* last are as wide as the first.                                           *)
Joined(list, first, k) ==
    /\ list[first].start < list[first].end /\ Width(list[first]) % Word = 0
    /\ list[k - 1].end = list[k].start
    /\ list[k].start < list[k].end
    /\ Width(list[k]) <= Width(list[first])
    /\ Width(list[k - 1]) = Width(list[first])

LEMMA RunEndIs ==
    ASSUME NEW list \in Seq(Chunks), NEW first \in 1 .. Len(list)
    PROVE  /\ RunEnd(list, first) \in first + 1 .. Len(list) + 1
           /\ \A k \in first + 1 .. RunEnd(list, first) - 1 : Joined(list, first, k)
<1> DEFINE stride == Width(list[first])
           joins(k) == /\ list[k - 1].end = list[k].start
                       /\ list[k].start < list[k].end
                       /\ Width(list[k]) <= stride
                       /\ k - 1 = first \/ Width(list[k - 1]) = stride
           stops == {k \in first + 1 .. Len(list) : ~joins(k)} \cup {Len(list) + 1}
           alone == list[first].start >= list[first].end \/ stride % Word # 0
           e == RunEnd(list, first)
<1>1. Len(list) \in Nat /\ first \in Nat /\ first >= 1 /\ first <= Len(list) BY ChunkIs
<1>2. e = IF alone THEN first + 1 ELSE Min(stops) BY DEF RunEnd
<1>3. stops \subseteq first + 1 .. Len(list) + 1 /\ Len(list) + 1 \in stops BY <1>1
<1>4. CASE alone
  <2>1. e = first + 1 BY <1>2, <1>4
  <2> HIDE DEF e
  <2>2. first + 1 .. e - 1 = {} /\ e \in first + 1 .. Len(list) + 1 BY <1>1, <2>1
  <2> QED BY <2>2 DEF e
<1>5. CASE ~alone
  <2>1. e = Min(stops) BY <1>2, <1>5
  <2>2. stops \subseteq Nat BY <1>1, <1>3
  <2> HIDE DEF stops, e
  <2>3. e \in stops /\ \A m \in stops : e <= m BY <1>3, <2>1, <2>2, LeastIsMin
  <2>4. e \in first + 1 .. Len(list) + 1 BY <1>3, <2>3
  <2>5. ASSUME NEW k \in first + 1 .. e - 1 PROVE Joined(list, first, k)
    <3>1. k \in first + 1 .. Len(list) /\ ~(e <= k) BY <1>1, <2>4
    <3>2. k \notin stops BY <2>3, <3>1
    <3>3. joins(k) BY <3>1, <3>2 DEF stops
    <3>4. list[first].start < list[first].end /\ stride % Word = 0 BY <1>1, <1>5, ChunkIs
    <3>5. k - 1 = first \/ k - 1 # first OBVIOUS
    <3>6. Width(list[k - 1]) = stride BY <3>3
    <3> QED BY <3>3, <3>4, <3>6 DEF Joined
  <2> QED BY <2>4, <2>5 DEF e
<1> QED BY <1>4, <1>5

(* The runs follow each other from the first chunk to the last.             *)
LEMMA RunStartsAre ==
    ASSUME NEW list \in Seq(Chunks)
    PROVE  /\ RunStarts(list) \subseteq 1 .. Len(list)
           /\ \A i \in 1 .. Len(list) : \E r \in RunStarts(list) : r <= i /\ i < RunEnd(list, r)
           /\ \A r, s \in RunStarts(list) : r < s => RunEnd(list, r) <= s
<1> DEFINE N == Len(list)
           S == 1 .. N + 1
           after(x) == IF x > N THEN x ELSE RunEnd(list, x)
           R(v) == v = [k \in 0 .. N |-> IF k = 0 THEN 1
                                         ELSE IF v[k - 1] > N THEN v[k - 1]
                                         ELSE RunEnd(list, v[k - 1])]
           g == [k \in 1 .. N |-> [x \in S |-> after(x)]]
           runStart == CHOOSE v : R(v)
<1>1. N \in Nat BY ChunkIs
<1>2. RunStarts(list) = {runStart[k] : k \in 0 .. N} \ {N + 1} BY DEF RunStarts
<1>3. \A x \in S : after(x) \in S /\ after(x) >= x /\ (x <= N => after(x) > x)
  <2> SUFFICES ASSUME NEW x \in S PROVE after(x) \in S /\ after(x) >= x /\ (x <= N => after(x) > x)
      OBVIOUS
  <2>1. CASE x > N BY <1>1, <2>1
  <2>2. CASE ~(x > N)
    <3>1. x \in 1 .. Len(list) BY <1>1, <2>2
    <3>2. RunEnd(list, x) \in x + 1 .. Len(list) + 1 BY <3>1, RunEndIs
    <3> QED BY <1>1, <2>2, <3>2
  <2> QED BY <2>1, <2>2
<1>4. PICK h \in [0 .. N -> S] : Runs(h, N, 1, g)
  <2>1. g \in [1 .. N -> [S -> S]] /\ 1 \in S BY <1>1, <1>3
  <2> HIDE DEF g, N, S
  <2> QED BY <1>1, <2>1, RunExists
<1> HIDE DEF N, S
<1>5. R(h)
  <2> SUFFICES ASSUME NEW k \in 0 .. N
               PROVE  h[k] = IF k = 0 THEN 1 ELSE after(h[k - 1])
      OBVIOUS
  <2>1. CASE k = 0 BY <2>1, <1>4 DEF Runs
  <2>2. CASE k # 0
    <3>1. k \in 1 .. N /\ k - 1 \in 0 .. N BY <2>2, <1>1
    <3>2. h[k] = g[k][h[k - 1]] /\ h[k - 1] \in S BY <3>1, <1>4 DEF Runs
    <3> QED BY <3>1, <3>2, <2>2
  <2> QED BY <2>1, <2>2
<1>6. R(runStart)
  <2> HIDE DEF R
  <2> QED BY <1>5
<1> HIDE DEF runStart, g
<1>7. runStart[0] = 1 /\ \A k \in 1 .. N : runStart[k] = after(runStart[k - 1])
  <2>1. 0 \in 0 .. N /\ \A k \in 1 .. N : k \in 0 .. N /\ k # 0 BY <1>1
  <2> QED BY <1>6, <2>1
<1> HIDE DEF R, after
<1>8. \A k \in 0 .. N : runStart[k] \in S
  <2>1. 1 \in S BY <1>1 DEF S
  <2>2. \A k \in 1 .. N : runStart[k - 1] \in S => runStart[k] \in S BY <1>3, <1>7
  <2> QED BY <1>1, <1>7, <2>1, <2>2, RunStays
<1>9. \A k \in 0 .. N : runStart[k] \in Nat /\ runStart[k] >= 1 /\ runStart[k] <= N + 1
      BY <1>1, <1>8 DEF S
<1>10. runStart[N] = N + 1
  <2> DEFINE Bad == {k \in 0 .. N : ~(runStart[k] > k)}
  <2> SUFFICES ASSUME Bad # {} PROVE FALSE
    <3>1. N \in 0 .. N BY <1>1
    <3> QED BY <1>1, <1>9, <3>1
  <2>1. PICK k \in Bad : \A m \in Bad : k <= m
    <3>1. Bad \subseteq Nat OBVIOUS
    <3> HIDE DEF Bad
    <3> QED BY <3>1, LeastNumber
  <2>2. k \in 0 .. N /\ ~(runStart[k] > k) /\ k # 0 BY <1>7, <2>1
  <2>3. k - 1 \in 0 .. N /\ k \in 1 .. N /\ ~(k <= k - 1) BY <1>1, <2>2
  <2>4. k - 1 \notin Bad BY <2>1, <2>3
  <2>5. runStart[k - 1] > k - 1 BY <2>3, <2>4
  <2>6. runStart[k - 1] \in S /\ runStart[k] = after(runStart[k - 1]) BY <1>7, <1>8, <2>3
  <2>7. runStart[k - 1] <= N => runStart[k] > runStart[k - 1] BY <1>3, <2>6
  <2>8. runStart[k] >= runStart[k - 1] BY <1>3, <2>6
  <2> QED BY <1>1, <1>9, <2>2, <2>3, <2>5, <2>7, <2>8
<1>11. RunStarts(list) \subseteq 1 .. N BY <1>1, <1>2, <1>9
<1>12. ASSUME NEW i \in 1 .. N PROVE \E r \in RunStarts(list) : r <= i /\ i < RunEnd(list, r)
  <2> DEFINE Past == {k \in 0 .. N : runStart[k] > i}
  <2>1. N \in Past BY <1>1, <1>10
  <2>2. PICK k \in Past : \A m \in Past : k <= m
    <3>1. Past \subseteq Nat OBVIOUS
    <3> HIDE DEF Past
    <3> QED BY <2>1, <3>1, LeastNumber
  <2>3. k \in 0 .. N /\ runStart[k] > i /\ k # 0 BY <1>7, <2>2
  <2>4. k - 1 \in 0 .. N /\ k \in 1 .. N /\ ~(k <= k - 1) BY <1>1, <2>3
  <2>5. k - 1 \notin Past BY <2>2, <2>4
  <2>6. runStart[k - 1] <= i /\ runStart[k - 1] # N + 1 /\ ~(runStart[k - 1] > N)
        BY <1>1, <1>9, <2>4, <2>5
  <2>7. runStart[k] = RunEnd(list, runStart[k - 1]) BY <1>7, <2>4, <2>6 DEF after
  <2>8. runStart[k - 1] \in RunStarts(list) BY <1>2, <2>4, <2>6
  <2> QED BY <2>3, <2>6, <2>7, <2>8
<1>13. ASSUME NEW j \in 0 .. N, NEW k \in j + 1 .. N, runStart[j] <= N
       PROVE  runStart[k] >= RunEnd(list, runStart[j])
  <2> DEFINE e == RunEnd(list, runStart[j])
             Bad == {m \in j + 1 .. N : ~(runStart[m] >= e)}
  <2>1. j + 1 \in 1 .. N /\ runStart[j + 1] = e
    <3>1. j + 1 \in 1 .. N /\ j + 1 - 1 = j BY <1>1
    <3>2. ~(runStart[j] > N) BY <1>1, <1>9, <1>13
    <3> QED BY <1>7, <3>1, <3>2 DEF after
  <2>2. j + 1 \in 0 .. N BY <2>1
  <2> HIDE DEF e
  <2>3. e \in Nat BY <1>9, <2>1, <2>2
  <2> SUFFICES ASSUME Bad # {} PROVE FALSE BY DEF e
  <2>4. PICK m \in Bad : \A n \in Bad : m <= n
    <3>1. Bad \subseteq Nat OBVIOUS
    <3> HIDE DEF Bad
    <3> QED BY <3>1, LeastNumber
  <2>5. m \in j + 1 .. N /\ ~(runStart[m] >= e) BY <2>4
  <2>6. m # j + 1 BY <2>1, <2>3, <2>5
  <2>7. m - 1 \in j + 1 .. N /\ m - 1 \in 0 .. N /\ m \in 1 .. N /\ m \in 0 .. N /\ ~(m <= m - 1)
        BY <1>1, <2>5, <2>6
  <2>8. m - 1 \notin Bad BY <2>4, <2>7
  <2>9. runStart[m - 1] >= e BY <2>7, <2>8
  <2>10. runStart[m] >= runStart[m - 1] BY <1>3, <1>7, <1>8, <2>7
  <2> QED BY <1>9, <2>3, <2>5, <2>7, <2>9, <2>10
<1>14. ASSUME NEW r \in RunStarts(list), NEW s \in RunStarts(list), r < s PROVE RunEnd(list, r) <= s
  <2>1. PICK j \in 0 .. N : runStart[j] = r BY <1>2
  <2>2. PICK k \in 0 .. N : runStart[k] = s BY <1>2
  <2>3. r \in 1 .. N /\ s \in 1 .. N BY <1>11
  <2>4. ~(k < j)
    <3> SUFFICES ASSUME k < j PROVE FALSE OBVIOUS
    <3>1. j \in k + 1 .. N BY <1>1
    <3>2. r >= RunEnd(list, s) BY <1>13, <2>1, <2>2, <2>3, <3>1
    <3>3. RunEnd(list, s) \in s + 1 .. N + 1 BY <2>3, RunEndIs DEF N
    <3> QED BY <1>14, <2>3, <3>2, <3>3
  <2>5. k \in j + 1 .. N BY <1>1, <1>14, <2>1, <2>2, <2>3, <2>4
  <2>6. runStart[j] <= N BY <1>1, <2>1, <2>3
  <2>7. s >= RunEnd(list, r) BY <1>13, <2>1, <2>2, <2>5, <2>6
  <2>8. RunEnd(list, r) \in Int BY <1>1, <2>3, RunEndIs DEF N
  <2> QED BY <2>3, <2>7, <2>8
<1> QED BY <1>11, <1>12, <1>14 DEF N

LEMMA Multiples ==
    ASSUME NEW x \in Int, NEW w \in Int
    PROVE  /\ x * w \in Int /\ w * x = x * w /\ (x + 1) * w = x * w + w /\ 0 * w = 0
OBVIOUS

LEMMA Products ==
    ASSUME NEW x \in Int, NEW y \in Int, NEW w \in Nat, x + 1 <= y
    PROVE  x * w + w <= y * w /\ x * w \in Int /\ y * w \in Int
<1> DEFINE d == y - x - 1
<1>1. d \in Nat /\ y = x + 1 + d OBVIOUS
<1> HIDE DEF d
<1>2. d * w \in Nat BY <1>1
<1>3. y * w = x * w + w + d * w BY <1>1
<1>4. x * w \in Int BY <1>1
<1> QED BY <1>2, <1>3, <1>4

LEMMA Divides ==
    ASSUME NEW x \in Int, x % Word = 0
    PROVE  \E n \in Int : x = Word * n
<1> DEFINE n == x \div Word
<1>1. x = Word * n + (x % Word) /\ n \in Int BY DispatchAssumption, DivMod
<1> HIDE DEF n
<1>2. Word * n \in Int BY <1>1, DispatchAssumption
<1> QED BY <1>1, <1>2

LEMMA Divided ==
    ASSUME NEW a \in Nat \ {0}, NEW q \in Int, NEW x \in Int, x = a * q
    PROVE  x % a = 0
OBVIOUS

LEMMA SumDivides ==
    ASSUME NEW x \in Int, NEW y \in Int, NEW m \in Int, x % Word = 0, y % Word = 0
    PROVE  (x + m * y) % Word = 0
<1>1. PICK i \in Int : x = Word * i BY Divides
<1>2. PICK j \in Int : y = Word * j BY Divides
<1> DEFINE p == i + m * j
           z == x + m * y
<1>3. Word \in Nat \ {0} BY DispatchAssumption
<1>4. Word * p = Word * i + m * (Word * j) /\ p \in Int BY <1>3
<1>5. z = Word * p
  <2>1. z = Word * i + m * (Word * j) BY <1>1, <1>2
  <2> QED BY <1>4, <2>1
<1>6. p \in Int /\ z \in Int BY <1>4
<1> HIDE DEF p, z
<1>7. z % Word = 0 BY <1>3, <1>5, <1>6, Divided, Zenon
<1> QED BY <1>7 DEF z

(* The chunks of a run are a stride apart, the last one may be shorter.     *)
LEMMA RunIs ==
    ASSUME NEW list \in Seq(Chunks), NEW first \in 1 .. Len(list),
           NEW i \in first .. RunEnd(list, first) - 1
    PROVE  /\ i \in 1 .. Len(list)
           /\ list[i].start = list[first].start + (i - first) * Width(list[first])
           /\ list[i].end <= list[i].start + Width(list[first])
           /\ i # RunEnd(list, first) - 1 => list[i].end = list[i].start + Width(list[first])
<1> DEFINE e == RunEnd(list, first)
           w == Width(list[first])
           origin == list[first].start
           Off == {k \in first .. e - 1 : list[k].start # origin + (k - first) * w}
<1>1. Len(list) \in Nat /\ e \in first + 1 .. Len(list) + 1 /\ w \in Int /\ origin \in Nat
      BY ChunkIs, RunEndIs
<1>2. \A k \in first + 1 .. e - 1 : Joined(list, first, k) BY RunEndIs
<1>3. \A k \in first .. e - 1 : k \in 1 .. Len(list) /\ list[k].start \in Nat
                               /\ list[k].end \in Nat
  <2> SUFFICES ASSUME NEW k \in first .. e - 1
               PROVE  k \in 1 .. Len(list) /\ list[k].start \in Nat /\ list[k].end \in Nat
      OBVIOUS
  <2>1. k \in 1 .. Len(list) BY <1>1
  <2> QED BY <2>1, ChunkIs
<1>4. \A k \in first .. e - 1 : Width(list[k]) = list[k].end - list[k].start BY DEF Width
<1>5. ASSUME NEW k \in first .. e - 1, k # e - 1
      PROVE  k + 1 \in first + 1 .. e - 1 /\ Width(list[k]) = w /\ list[k].end = list[k + 1].start
  <2>1. k + 1 \in first + 1 .. e - 1 /\ k + 1 - 1 = k BY <1>1, <1>5
  <2> QED BY <1>2, <2>1 DEF Joined
<1> HIDE DEF e, w, origin
<1>6. Off = {}
  <2> SUFFICES ASSUME Off # {} PROVE FALSE OBVIOUS
  <2>1. PICK k \in Off : \A m \in Off : k <= m
    <3>1. Off \subseteq Nat BY <1>3
    <3> HIDE DEF Off
    <3> QED BY <3>1, LeastNumber
  <2>2. k \in first .. e - 1 /\ list[k].start # origin + (k - first) * w BY <2>1
  <2>3. k # first
    <3> SUFFICES ASSUME k = first PROVE FALSE OBVIOUS
    <3>1. k - first = 0 /\ first \in Int BY <1>1
    <3>2. (k - first) * w = 0 BY <1>1, <3>1, Multiples
    <3>3. list[k].start = origin BY DEF origin
    <3>4. list[k].start # origin + 0 BY <2>2, <3>2
    <3> QED BY <1>1, <3>3, <3>4
  <2> DEFINE p == k - 1
  <2>4. p \in first .. e - 1 /\ p # e - 1 /\ ~(k <= p) /\ p + 1 = k BY <1>1, <2>2, <2>3
  <2> HIDE DEF p
  <2>5. list[p].start = origin + (p - first) * w BY <2>1, <2>4
  <2>6. Width(list[p]) = w /\ list[p].end = list[k].start
    <3>1. Width(list[p]) = w /\ list[p].end = list[p + 1].start BY <1>5, <2>4
    <3> QED BY <2>4, <3>1
  <2>7. list[k].start = list[p].start + w
    <3>1. Width(list[p]) = list[p].end - list[p].start BY <1>4, <2>4
    <3>2. list[p].end \in Nat /\ list[p].start \in Nat BY <1>3, <2>4
    <3> DEFINE x == list[p].start
               y == list[p].end
               z == list[k].start
    <3>3. w = y - x /\ z = y BY <2>6, <3>1
    <3>4. x \in Int /\ y \in Int BY <3>2
    <3> HIDE DEF Off, x, y, z
    <3>5. z = x + w BY <3>3, <3>4
    <3> QED BY <3>5 DEF x, z
  <2> DEFINE d == p - first
  <2>8. d \in Int /\ k - first = d + 1 /\ p - first = d
    <3>1. p \in Int /\ first \in Int /\ k = p + 1 BY <1>1, <2>4
    <3> HIDE DEF Off
    <3> QED BY <3>1
  <2> HIDE DEF d
  <2>9. (k - first) * w = d * w + w /\ (p - first) * w = d * w /\ d * w \in Int
        BY <1>1, <2>8, Multiples
  <2> QED BY <1>1, <2>2, <2>5, <2>7, <2>8, <2>9
<1>7. i \in first .. e - 1 BY DEF e
<1>8. list[i].start = origin + (i - first) * w BY <1>6, <1>7
<1>9. Width(list[i]) <= w
  <2>1. CASE i = first BY <2>1, <1>1 DEF w
  <2>2. CASE i # first
    <3>1. i \in first + 1 .. e - 1 BY <1>1, <1>7, <2>2
    <3> QED BY <1>2, <3>1 DEF Joined, w
  <2> QED BY <2>1, <2>2
<1>10. i # e - 1 => Width(list[i]) = w BY <1>5, <1>7
<1>11. list[i].end <= list[i].start + w BY <1>1, <1>3, <1>4, <1>7, <1>9
<1>12. i # e - 1 => list[i].end = list[i].start + w BY <1>1, <1>3, <1>4, <1>7, <1>10
<1> QED BY <1>3, <1>7, <1>8, <1>11, <1>12 DEF e, w, origin

(* An address above the first chunk of a run, below its limit and at an     *)
(* instruction is in the chunk the stride tells, and in no other.           *)
Hit(list, first, a) ==
    /\ a >= list[first].start
    /\ a < RunLimit(list, first)
    /\ Offset(list, first, a) % Word = 0

LEMMA InRunIs ==
    ASSUME NEW list \in Seq(Chunks), NEW first \in 1 .. Len(list), NEW a \in Nat,
           Hit(list, first, a)
    PROVE  \E i \in first .. RunEnd(list, first) - 1 :
               i \in 1 .. Len(list) /\ InRun(list, first, a) = list[i] /\ Holds(list[i], a)
<1> DEFINE e == RunEnd(list, first)
           w == Width(list[first])
           origin == list[first].start
           o == a - origin
           q == o \div w
           r == o % w
           i == first + q
<1>1. Len(list) \in Nat /\ e \in first + 1 .. Len(list) + 1 /\ w \in Int /\ origin \in Nat
      BY ChunkIs, RunEndIs
<1>2. \A k \in first .. e - 1 :
         /\ k \in 1 .. Len(list)
         /\ list[k].start = origin + (k - first) * w
         /\ list[k].end <= list[k].start + w
         /\ k # e - 1 => list[k].end = list[k].start + w
      BY RunIs
<1>3. \A k \in first .. e - 1 : list[k].start \in Nat /\ list[k].end \in Nat
      BY <1>2, ChunkIs
<1>4. a >= origin /\ a < list[e - 1].end /\ o % Word = 0 BY DEF Hit, RunLimit, Offset
<1>5. InRun(list, first, a) = list[i] BY DEF InRun, Offset
<1>6. e # first + 1 => w % Word = 0
  <2> SUFFICES ASSUME e # first + 1 PROVE w % Word = 0 OBVIOUS
  <2>1. first + 1 \in first + 1 .. e - 1 BY <1>1
  <2>2. Joined(list, first, first + 1) BY <2>1, RunEndIs
  <2> QED BY <2>2 DEF Joined
<1> HIDE DEF e, w, origin, i
<1>7. o \in Nat BY <1>1, <1>4
<1> HIDE DEF o
<1> DEFINE d == e - 1 - first
<1>8. e - 1 \in first .. e - 1 /\ d \in Nat BY <1>1
<1>9. list[e - 1].end <= origin + d * w + w /\ d * w \in Int
  <2>1. list[e - 1].start = origin + d * w /\ list[e - 1].end <= list[e - 1].start + w
        BY <1>2, <1>8
  <2>2. d * w \in Int BY <1>1, <1>8, Multiples
  <2> QED BY <1>1, <1>3, <1>8, <2>1, <2>2
<1>10. o < d * w + w
  <2>1. a < origin + d * w + w BY <1>1, <1>3, <1>4, <1>8, <1>9
  <2> QED BY <1>1, <1>9, <2>1 DEF o
<1>11. w \in Nat \ {0}
  <2> HIDE DEF d
  <2>1. ASSUME w <= 0 PROVE d * w <= 0
    <3>1. d * w \in Int /\ d \in Nat /\ w \in Int /\ w <= 0 BY <1>1, <1>8, <1>9, <2>1
    <3> QED BY <3>1
  <2> QED BY <1>1, <1>7, <1>9, <1>10, <2>1
<1>12. o = w * q + r /\ r \in 0 .. w - 1 /\ q \in Int
  <2>1. o \in Int /\ o \div w = q /\ o % w = r BY <1>7
  <2> HIDE DEF q, r
  <2> QED BY <1>11, <2>1, DivMod
<1> HIDE DEF q, r
<1>13. q \in 0 .. d
  <2> HIDE DEF d
  <2>1. d \in Nat /\ q \in Int /\ w \in Nat /\ w * q = q * w /\ 0 * w = 0
        BY <1>8, <1>11, <1>12, Multiples
  <2>2. q * w + r < d * w + w /\ q * w + r >= 0 /\ r < w /\ r >= 0 /\ r \in Int
        BY <1>7, <1>10, <1>11, <1>12, <2>1
  <2>3. ASSUME q + 1 <= 0 PROVE FALSE
    <3>1. q * w + w <= 0 /\ q * w \in Int BY <2>1, <2>3, Products
    <3> DEFINE v == q * w
    <3>2. v + w <= 0 /\ v \in Int /\ v + r >= 0 BY <2>2, <3>1
    <3> HIDE DEF v
    <3> QED BY <2>1, <2>2, <3>2
  <2>4. ASSUME d + 1 <= q PROVE FALSE
    <3>1. d * w + w <= q * w /\ d * w \in Int /\ q * w \in Int BY <2>1, <2>4, Products
    <3> DEFINE v == q * w
               f == d * w
    <3>2. f + w <= v /\ f \in Int /\ v \in Int /\ v + r < f + w BY <2>2, <3>1
    <3> HIDE DEF v, f
    <3> QED BY <2>1, <2>2, <3>2
  <2>5. ~(q + 1 <= 0) /\ ~(d + 1 <= q) BY <2>3, <2>4
  <2> QED BY <2>1, <2>5
<1>14. i \in first .. e - 1 /\ i - first = q BY <1>1, <1>8, <1>13 DEF i
<1> HIDE DEF d
<1>15. list[i].start = origin + w * q /\ w * q \in Int
  <2>1. list[i].start = origin + q * w BY <1>2, <1>14
  <2> QED BY <1>12, <1>11, <2>1, Multiples
<1>16. a - list[i].start = r
  <2>1. o = a - origin BY DEF o
  <2> DEFINE v == w * q
  <2>2. o = v + r /\ v \in Int /\ list[i].start = origin + v /\ r \in Int BY <1>12, <1>15
  <2> DEFINE s == list[i].start
  <2>3. o = v + r /\ v \in Int /\ s = origin + v /\ r \in Int /\ origin \in Int
        BY <1>1, <2>2
  <2> HIDE DEF s, v
  <2>4. a - s = r BY <2>1, <2>3
  <2> QED BY <2>4 DEF s
<1>17. a >= list[i].start BY <1>3, <1>12, <1>14, <1>16
<1>18. a < list[i].end
  <2>1. CASE i = e - 1 BY <1>4, <2>1
  <2>2. CASE i # e - 1
    <3>1. list[i].end = list[i].start + w BY <1>2, <1>14, <2>2
    <3> QED BY <1>3, <1>11, <1>12, <1>14, <1>16, <3>1
  <2> QED BY <2>1, <2>2
<1>19. r % Word = 0
  <2>1. Word \in Nat \ {0} BY DispatchAssumption
  <2>2. CASE e = first + 1
    <3>1. d = 0 BY <1>1, <2>2 DEF d
    <3>2. q = 0 BY <1>13, <3>1
    <3>3. w * q = 0 BY <1>11, <3>2
    <3>4. o = r BY <1>12, <3>3
    <3> QED BY <1>4, <3>4
  <2>3. CASE e # first + 1
    <3> DEFINE m == -q
    <3>1. m \in Int /\ m * w = -(w * q) BY <1>11, <1>12
    <3> HIDE DEF m
    <3>2. r = o + m * w BY <1>7, <1>12, <1>15, <3>1
    <3>3. o \in Int /\ w \in Int /\ r \in Int BY <1>7, <1>11, <1>12
    <3>4. o % Word = 0 BY <1>4 DEF o
    <3>5. w % Word = 0 BY <1>6, <2>3
    <3>6. m \in Int BY <3>1
    <3>7. (o + m * w) % Word = 0 BY <3>3, <3>4, <3>5, <3>6, SumDivides, Zenon
    <3> QED BY <3>2, <3>7
  <2> QED BY <2>2, <2>3
<1>20. Holds(list[i], a) BY <1>16, <1>17, <1>18, <1>19 DEF Holds
<1>21. i \in first .. e - 1 /\ i \in 1 .. Len(list) BY <1>2, <1>14
<1> QED BY <1>5, <1>20, <1>21 DEF e

(* Conversely, an address at an instruction of a chunk of a run is above    *)
(* the first chunk, below the limit and at an instruction of the run.       *)
LEMMA HitsAre ==
    ASSUME NEW list \in Seq(Chunks), NEW first \in 1 .. Len(list), NEW a \in Nat,
           NEW i \in first .. RunEnd(list, first) - 1, Holds(list[i], a)
    PROVE  Hit(list, first, a)
<1> DEFINE e == RunEnd(list, first)
           w == Width(list[first])
           origin == list[first].start
           last == e - 1
<1>1. Len(list) \in Nat /\ e \in first + 1 .. Len(list) + 1 /\ w \in Int /\ origin \in Nat
      BY ChunkIs, RunEndIs
<1>2. \A k \in first .. e - 1 :
         /\ k \in 1 .. Len(list)
         /\ list[k].start = origin + (k - first) * w
         /\ list[k].end <= list[k].start + w
         /\ k # e - 1 => list[k].end = list[k].start + w
      BY RunIs
<1>3. \A k \in first .. e - 1 : list[k].start \in Nat /\ list[k].end \in Nat
      BY <1>2, ChunkIs
<1>4. e # first + 1 => w % Word = 0 /\ w > 0
  <2> SUFFICES ASSUME e # first + 1 PROVE w % Word = 0 /\ w > 0 OBVIOUS
  <2>1. first + 1 \in first + 1 .. e - 1 BY <1>1
  <2>2. Joined(list, first, first + 1) BY <2>1, RunEndIs
  <2>3. w = list[first].end - list[first].start BY DEF Width
  <2>4. list[first].end \in Nat BY ChunkIs
  <2> QED BY <1>1, <2>2, <2>3, <2>4 DEF Joined
<1>5. \A k \in first + 1 .. e - 1 : list[k].start < list[k].end BY RunEndIs DEF Joined
<1>6. a >= list[i].start /\ a < list[i].end /\ (a - list[i].start) % Word = 0 BY DEF Holds
<1>7. i \in first .. e - 1 /\ last \in first .. e - 1 /\ last = e - 1 BY <1>1
<1> HIDE DEF e, w, origin, last
<1>8. CASE e = first + 1
  <2>1. i = first /\ last = first BY <1>1, <1>7, <1>8
  <2>2. a >= origin /\ a < list[last].end /\ (a - origin) % Word = 0
        BY <1>6, <2>1 DEF origin
  <2> QED BY <1>7, <2>2 DEF Hit, RunLimit, Offset, e, origin
<1>9. CASE e # first + 1
  <2>1. w \in Nat /\ w > 0 /\ w % Word = 0 /\ Word \in Nat \ {0}
        BY <1>1, <1>4, <1>9, DispatchAssumption
  <2> DEFINE d == i - first
             f == last - first
  <2>2. d \in Nat /\ f \in Nat /\ d <= f BY <1>1, <1>7
  <2>3. list[i].start = origin + d * w /\ list[last].start = origin + f * w
        BY <1>2, <1>7
  <2>4. i = last \/ d + 1 <= f BY <1>1, <1>7
  <2> HIDE DEF d, f
  <2>5. d * w \in Nat /\ f * w \in Nat BY <2>1, <2>2
  <2>6. a >= origin BY <1>1, <1>3, <1>6, <1>7, <2>3, <2>5
  <2>7. a < list[last].end
    <3>1. CASE i = last BY <1>6, <3>1
    <3>2. CASE i # last
      <4>1. d + 1 <= f BY <2>4, <3>2
      <4>2. (d + 1) * w <= f * w /\ (d + 1) * w = d * w + w BY <2>1, <2>2, <4>1
      <4>3. list[i].end <= list[i].start + w BY <1>2, <1>7
      <4>4. last \in first + 1 .. e - 1 BY <1>1, <1>7, <1>9
      <4>5. list[last].start < list[last].end BY <1>5, <4>4
      <4>6. list[i].start + w = origin + (d * w + w) BY <1>1, <2>1, <2>3, <2>5
      <4>7. list[i].start + w <= list[last].start BY <1>1, <2>1, <2>3, <2>5, <4>2, <4>6
      <4>8. /\ list[last].start \in Nat /\ list[last].end \in Nat
            /\ list[i].start \in Nat /\ list[i].end \in Nat
            BY <1>3, <1>7
      <4>9. a < list[i].end BY <1>6
      <4>10. a < list[last].start
        <5> DEFINE x == list[i].end
                   y == list[i].start + w
                   z == list[last].start
        <5>1. a < x /\ x <= y /\ y <= z BY <4>3, <4>7, <4>9
        <5>2. x \in Int /\ y \in Int /\ z \in Int BY <2>1, <4>8
        <5> HIDE DEF x, y, z
        <5>3. a < z BY <5>1, <5>2
        <5> QED BY <5>3 DEF z
      <4> QED BY <4>5, <4>8, <4>10
    <3> QED BY <3>1, <3>2
  <2>8. (a - origin) % Word = 0
    <3> DEFINE x == a - origin
               y == a - list[i].start
    <3>1. x \in Int /\ y \in Int BY <1>1, <1>3, <1>7
    <3>2. x = y + d * w BY <1>1, <1>3, <1>7, <2>3, <2>5
    <3>3. y % Word = 0 BY <1>6
    <3> HIDE DEF x, y
    <3>4. d \in Int /\ w \in Int BY <2>1, <2>2
    <3>5. w % Word = 0 BY <2>1
    <3>6. (y + d * w) % Word = 0 BY <3>1, <3>3, <3>4, <3>5, SumDivides, Zenon
    <3> QED BY <3>2, <3>6 DEF x
  <2> QED BY <1>7, <2>6, <2>7, <2>8 DEF Hit, RunLimit, Offset, e, origin
<1> QED BY <1>8, <1>9

(* What a lookup owes: a chunk with an instruction at the address if the    *)
(* list has one, and otherwise no chunk.                                    *)
Answer(list, a, c) ==
    IF \E i \in 1 .. Len(list) : Holds(list[i], a)
    THEN \E i \in 1 .. Len(list) : c = list[i] /\ Holds(list[i], a)
    ELSE c = NoChunk

LEMMA LinearIs ==
    ASSUME funcs \in Seq(Chunks), NEW a \in Nat
    PROVE  Answer(funcs, a, LinearFind(a))
<1> DEFINE hits == {r \in RunStarts(funcs) : Hit(funcs, r, a)}
<1>1. LinearFind(a) = IF hits = {} THEN NoChunk ELSE InRun(funcs, Min(hits), a)
      BY DEF LinearFind, Hit
<1>2. Len(funcs) \in Nat /\ RunStarts(funcs) \subseteq 1 .. Len(funcs) BY ChunkIs, RunStartsAre
<1>3. ASSUME NEW i \in 1 .. Len(funcs), Holds(funcs[i], a) PROVE hits # {}
  <2>1. PICK r \in RunStarts(funcs) : r <= i /\ i < RunEnd(funcs, r) BY RunStartsAre
  <2>2. r \in 1 .. Len(funcs) BY <1>2
  <2>3. RunEnd(funcs, r) \in r + 1 .. Len(funcs) + 1 BY <2>2, RunEndIs
  <2>4. i \in r .. RunEnd(funcs, r) - 1 BY <1>2, <2>1, <2>2, <2>3
  <2>5. Hit(funcs, r, a) BY <1>3, <2>2, <2>4, HitsAre
  <2> QED BY <2>5
<1>4. ASSUME hits # {}
      PROVE  \E i \in 1 .. Len(funcs) : LinearFind(a) = funcs[i] /\ Holds(funcs[i], a)
  <2> DEFINE r == Min(hits)
  <2>1. hits \subseteq Nat BY <1>2
  <2>2. r \in hits
    <3> HIDE DEF hits
    <3> QED BY <1>4, <2>1, LeastIsMin
  <2> HIDE DEF r
  <2>3. r \in 1 .. Len(funcs) /\ Hit(funcs, r, a) BY <1>2, <2>2
  <2>4. LinearFind(a) = InRun(funcs, r, a) BY <1>1, <1>4 DEF r
  <2> QED BY <2>3, <2>4, InRunIs
<1> HIDE DEF hits
<1>5. CASE hits = {}
  <2>1. ~ \E i \in 1 .. Len(funcs) : Holds(funcs[i], a) BY <1>3, <1>5
  <2> QED BY <1>1, <1>5, <2>1 DEF Answer
<1>6. CASE hits # {}
  <2>1. \E i \in 1 .. Len(funcs) : LinearFind(a) = funcs[i] /\ Holds(funcs[i], a)
        BY <1>4, <1>6
  <2> QED BY <2>1 DEF Answer
<1> QED BY <1>5, <1>6

(* The indexed lookup works on a list in which the chunks are not empty and *)
(* follow each other: what lies before the first run that ends behind the   *)
(* page ends before the address.                                            *)
Ordered(list) ==
    /\ list \in Seq(Chunks) /\ Len(list) >= 1
    /\ \A i \in 1 .. Len(list) : list[i].start < list[i].end
    /\ \A i, j \in 1 .. Len(list) : i < j => list[i].end <= list[j].start

LEMMA IndexedIs ==
    ASSUME Ordered(Sorted), NEW a \in Nat
    PROVE  Answer(Sorted, a, IndexedFind(a))
<1> DEFINE list == Sorted
           N == Len(list)
           base == Base(list)
           page == (a - base) \div Page
           behind == {r \in RunStarts(list) : RunLimit(list, r) > base + page * Page}
           first == PageFirst(list, page)
           later == {r \in RunStarts(list) : r >= first /\ RunLimit(list, r) > a}
           run == Min(later \cup {N + 1})
           answer == IndexedFind(a)
<1>1. answer = IF a < base \/ page >= Pages(list) THEN NoChunk
               ELSE IF run > N THEN NoChunk
               ELSE IF a < list[run].start \/ Offset(list, run, a) % Word # 0 THEN NoChunk
               ELSE InRun(list, run, a)
      BY DEF IndexedFind
<1>2. first = Min(behind \cup {N + 1}) BY DEF PageFirst
<1>3. Pages(list) = (list[N].end - base) \div Page + 1 BY DEF Pages
<1>4. base = list[1].start - (list[1].start % Page) BY DEF Base
<1> HIDE DEF list
<1>5. list \in Seq(Chunks) /\ N \in Nat /\ N >= 1 BY ChunkIs DEF Ordered, list
<1>6. \A i \in 1 .. N : list[i].start \in Nat /\ list[i].end \in Nat
                      /\ list[i].start < list[i].end
      BY <1>5, ChunkIs DEF Ordered, list
<1>7. \A i, j \in 1 .. N : i < j => list[i].end <= list[j].start BY DEF Ordered, list
<1>8. \A r \in RunStarts(list) :
         /\ r \in 1 .. N /\ RunEnd(list, r) \in r + 1 .. N + 1
         /\ RunEnd(list, r) - 1 \in 1 .. N
         /\ RunLimit(list, r) = list[RunEnd(list, r) - 1].end
         /\ RunLimit(list, r) \in Nat
  <2> SUFFICES ASSUME NEW r \in RunStarts(list)
               PROVE  /\ r \in 1 .. N /\ RunEnd(list, r) \in r + 1 .. N + 1
                      /\ RunEnd(list, r) - 1 \in 1 .. N
                      /\ RunLimit(list, r) = list[RunEnd(list, r) - 1].end
                      /\ RunLimit(list, r) \in Nat
      OBVIOUS
  <2>1. r \in 1 .. N BY <1>5, RunStartsAre
  <2>2. RunEnd(list, r) \in r + 1 .. N + 1 BY <1>5, <2>1, RunEndIs
  <2>3. RunEnd(list, r) - 1 \in 1 .. N BY <1>5, <2>1, <2>2
  <2>4. RunLimit(list, r) = list[RunEnd(list, r) - 1].end BY DEF RunLimit
  <2> QED BY <1>6, <2>1, <2>2, <2>3, <2>4
<1>9. base \in Int /\ base <= list[1].start /\ Page \in Nat \ {0}
  <2>1. Page \in Nat \ {0} BY DispatchAssumption
  <2>2. 1 \in 1 .. N BY <1>5
  <2>3. list[1].start \in Nat BY <1>6, <2>2
  <2> DEFINE x == list[1].start
             y == x % Page
  <2>4. x \in Int /\ x % Page = y BY <2>3
  <2> HIDE DEF x, y
  <2>5. y \in 0 .. Page - 1 BY <2>1, <2>4, DivMod
  <2>6. base = x - y BY <1>4 DEF x, y
  <2> HIDE DEF base
  <2>7. base \in Int /\ base <= x BY <2>1, <2>4, <2>5, <2>6
  <2> QED BY <2>1, <2>7 DEF x
<1> HIDE DEF base
<1>10. later \cup {N + 1} \subseteq Nat /\ behind \cup {N + 1} \subseteq Nat BY <1>5, <1>8
<1> HIDE DEF later, behind, answer, page, first
<1>11. run \in later \cup {N + 1} /\ \A m \in later \cup {N + 1} : run <= m
  <2>1. later \cup {N + 1} # {} OBVIOUS
  <2> QED BY <1>10, <2>1, LeastIsMin
<1>12. first \in behind \cup {N + 1} /\ \A m \in behind \cup {N + 1} : first <= m
  <2>1. behind \cup {N + 1} # {} OBVIOUS
  <2> QED BY <1>2, <1>10, <2>1, LeastIsMin
<1> HIDE DEF run
<1>13. ASSUME NEW i \in 1 .. N, Holds(list[i], a)
       PROVE  \E k \in 1 .. N : answer = list[k] /\ Holds(list[k], a)
  <2>1. PICK r \in RunStarts(list) : r <= i /\ i < RunEnd(list, r) BY <1>5, RunStartsAre
  <2>2. r \in 1 .. N /\ RunEnd(list, r) \in r + 1 .. N + 1 BY <1>8
  <2>3. i \in r .. RunEnd(list, r) - 1 BY <1>5, <2>1, <2>2
  <2>4. Hit(list, r, a) BY <1>5, <1>13, <2>2, <2>3, HitsAre
  <2>5. a >= list[r].start /\ a < RunLimit(list, r) /\ Offset(list, r, a) % Word = 0
        BY <2>4 DEF Hit
  <2>6. a >= base
    <3>1. list[1].start <= list[r].start
      <4>1. CASE r = 1 BY <1>6, <2>2, <4>1
      <4>2. CASE r # 1
        <5>1. 1 \in 1 .. N /\ 1 < r BY <1>5, <2>2, <4>2
        <5>2. list[1].end <= list[r].start BY <1>7, <2>2, <5>1
        <5> QED BY <1>6, <2>2, <5>1, <5>2
      <4> QED BY <4>1, <4>2
    <3>2. 1 \in 1 .. N BY <1>5
    <3> QED BY <1>6, <1>9, <2>2, <2>5, <3>1, <3>2
  <2>7. a < list[N].end
    <3>1. i \in 1 .. N /\ N \in 1 .. N /\ a < list[i].end BY <1>5, <1>13 DEF Holds
    <3>2. CASE i = N BY <3>1, <3>2
    <3>3. CASE i # N
      <4>1. i < N BY <1>5, <3>3
      <4>2. list[i].end <= list[N].start BY <1>7, <3>1, <4>1
      <4> QED BY <1>6, <3>1, <4>2
    <3> QED BY <3>2, <3>3
  <2> DEFINE o == a - base
             t == list[N].end - base
             rest == o % Page
             pages == t \div Page
             over == t % Page
  <2>8. o \in Nat /\ t \in Nat /\ o < t
    <3>1. N \in 1 .. N BY <1>5
    <3> QED BY <1>6, <1>9, <2>6, <2>7, <3>1
  <2>9. page = o \div Page BY DEF page
  <2>10. o % Page = rest /\ t \div Page = pages /\ t % Page = over OBVIOUS
  <2>11. Pages(list) = pages + 1 BY <1>3
  <2>12. base + o = a BY <1>9
  <2> HIDE DEF o, t, rest, pages, over
  <2>13. o = Page * page + rest /\ rest \in 0 .. Page - 1 /\ page \in Int
    <3>1. o \in Int BY <2>8
    <3> QED BY <1>9, <2>9, <2>10, <3>1, DivMod
  <2>14. t = Page * pages + over /\ over \in 0 .. Page - 1 /\ pages \in Int
    <3>1. t \in Int BY <2>8
    <3> QED BY <1>9, <2>10, <3>1, DivMod
  <2>15. page < Pages(list)
    <3> SUFFICES ASSUME page >= pages + 1 PROVE FALSE BY <2>11, <2>13, <2>14
    <3> DEFINE u == page * Page
               v == pages * Page
    <3>1. Page \in Nat /\ pages + 1 <= page BY <1>9, <2>13, <2>14
    <3>2. v + Page <= u /\ v \in Int /\ u \in Int BY <2>13, <2>14, <3>1, Products
    <3>3. u = Page * page /\ v = Page * pages BY <2>13, <2>14, <3>1, Multiples
    <3> HIDE DEF u, v
    <3>4. o = u + rest /\ t = v + over /\ rest \in 0 .. Page - 1 /\ over \in 0 .. Page - 1
          BY <2>13, <2>14, <3>3
    <3> QED BY <2>8, <3>1, <3>2, <3>4
  <2>16. a >= base + page * Page
    <3>1. page * Page = Page * page /\ Page * page \in Int BY <1>9, <2>13
    <3> QED BY <1>9, <2>12, <2>13, <3>1
  <2>17. r \in behind
    <3>1. page * Page \in Int BY <1>9, <2>13
    <3>2. RunLimit(list, r) \in Nat BY <1>8
    <3>3. RunLimit(list, r) > base + page * Page BY <1>9, <2>5, <2>16, <3>1, <3>2
    <3> QED BY <3>3 DEF behind
  <2>18. r \in later
    <3>1. first <= r BY <1>12, <2>17
    <3>2. first \in Nat BY <1>10, <1>12
    <3>3. RunLimit(list, r) > a BY <1>8, <2>5
    <3> QED BY <2>2, <3>1, <3>2, <3>3 DEF later
  <2>19. run <= r /\ run \in Nat BY <1>10, <1>11, <2>18
  <2>20. run \in RunStarts(list) /\ RunLimit(list, run) > a
    <3>1. run # N + 1 BY <1>5, <2>2, <2>19
    <3> QED BY <1>11, <3>1 DEF later
  <2>21. run = r
    <3> SUFFICES ASSUME run < r PROVE FALSE BY <2>2, <2>19
    <3> DEFINE last == RunEnd(list, run) - 1
    <3>1. RunEnd(list, run) <= r BY <1>5, <2>20, RunStartsAre
    <3>2. last \in 1 .. N /\ last < r /\ RunLimit(list, run) = list[last].end
          BY <1>8, <2>2, <2>20, <3>1
    <3> HIDE DEF last
    <3>3. list[last].end <= list[r].start BY <1>7, <2>2, <3>2
    <3> QED BY <1>6, <2>2, <2>5, <2>20, <3>2, <3>3
  <2>22. answer = InRun(list, r, a)
    <3>1. ~(a < base) /\ ~(page >= Pages(list)) /\ ~(run > N)
      <4>1. ~(page >= Pages(list)) BY <2>11, <2>13, <2>14, <2>15
      <4> QED BY <1>5, <1>9, <2>2, <2>6, <2>19, <2>21, <4>1
    <3>2. ~(a < list[run].start) /\ Offset(list, run, a) % Word = 0 BY <1>6, <2>2, <2>5, <2>21
    <3> QED BY <1>1, <2>21, <3>1, <3>2
  <2> QED BY <1>5, <2>2, <2>4, <2>22, InRunIs
<1>14. ASSUME answer # NoChunk
       PROVE  \E k \in 1 .. N : Holds(list[k], a)
  <2>1. ~(run > N) /\ ~(a < list[run].start) /\ Offset(list, run, a) % Word = 0
        BY <1>1, <1>14
  <2>2. run \in RunStarts(list) /\ RunLimit(list, run) > a
    <3>1. run # N + 1 BY <1>5, <2>1
    <3> QED BY <1>11, <3>1 DEF later
  <2>3. run \in 1 .. N /\ RunLimit(list, run) \in Nat BY <1>8, <2>2
  <2>4. Hit(list, run, a) BY <1>6, <2>1, <2>2, <2>3 DEF Hit
  <2> QED BY <1>5, <2>3, <2>4, InRunIs
<1>15. CASE \E i \in 1 .. N : Holds(list[i], a)
  <2>1. \E k \in 1 .. N : answer = list[k] /\ Holds(list[k], a) BY <1>13, <1>15
  <2> QED BY <1>15, <2>1 DEF Answer, list, answer
<1>16. CASE ~ \E i \in 1 .. N : Holds(list[i], a)
  <2>1. answer = NoChunk BY <1>14, <1>16
  <2> QED BY <1>16, <2>1 DEF Answer, list, answer
<1> QED BY <1>15, <1>16

(* Sorted is the list of the chunks that are not empty, in the order of     *)
(* their starts: a chunk's rank, the number of chunks that start below it,  *)
(* is different for each and leaves no place free.                          *)
LEMMA SortedIs ==
    ASSUME funcs \in Seq(Chunks), Indexable
    PROVE  /\ Ordered(Sorted)
           /\ \A c \in Solid : \E i \in 1 .. Len(Sorted) : Sorted[i] = c
           /\ \A i \in 1 .. Len(Sorted) : Sorted[i] \in Solid
<1> DEFINE solid == Solid
           C == Cardinality(solid)
           below(c) == {d \in solid : d.start < c.start}
           rank(c) == Cardinality(below(c))
           list == Sorted
           taken == {k \in 1 .. Len(funcs) : funcs[k].start < funcs[k].end}
           pick == [k \in taken |-> funcs[k]]
           ranks == [c \in solid |-> rank(c)]
<1>1. Len(funcs) \in Nat /\ DOMAIN funcs = 1 .. Len(funcs) /\ solid # {}
      BY ChunkIs DEF Indexable
<1>2. \A k \in 1 .. Len(funcs) : funcs[k] \in Chunks /\ funcs[k].start \in Nat
                               /\ funcs[k].end \in Nat
      BY ChunkIs
<1>3. \A c \in solid : \E k \in 1 .. Len(funcs) : c = funcs[k] /\ c.start < c.end
      BY <1>1 DEF Solid
<1>4. \A c \in solid : c \in Chunks /\ c.start \in Nat /\ c.end \in Nat /\ c.start < c.end
      BY <1>2, <1>3
<1>5. \A c, d \in solid : c # d => c.end <= d.start \/ d.end <= c.start
  <2> SUFFICES ASSUME NEW c \in solid, NEW d \in solid, c # d
               PROVE  c.end <= d.start \/ d.end <= c.start
      OBVIOUS
  <2>1. PICK k \in 1 .. Len(funcs) : c = funcs[k] /\ c.start < c.end BY <1>3
  <2>2. PICK l \in 1 .. Len(funcs) : d = funcs[l] /\ d.start < d.end BY <1>3
  <2>3. k # l BY <2>1, <2>2
  <2>4. \A m, n \in 1 .. Len(funcs) : m < n =>
           \/ funcs[m].start >= funcs[m].end
           \/ funcs[n].start >= funcs[n].end
           \/ funcs[m].end <= funcs[n].start
           \/ funcs[n].end <= funcs[m].start
        BY <1>1 DEF Indexable
  <2>5. ~(c.start >= c.end) /\ ~(d.start >= d.end) BY <1>4
  <2>6. CASE k < l BY <2>1, <2>2, <2>4, <2>5, <2>6
  <2>7. CASE l < k BY <2>1, <2>2, <2>4, <2>5, <2>7
  <2> QED BY <1>1, <2>3, <2>6, <2>7
<1>6. IsFiniteSet(solid)
  <2>1. IsFiniteSet(1 .. Len(funcs))
    <3>1. 1 \in Int /\ Len(funcs) \in Int BY <1>1
    <3> QED BY <3>1, FS_Interval
  <2>2. taken \in SUBSET (1 .. Len(funcs)) OBVIOUS
  <2>3. IsFiniteSet(taken)
    <3> HIDE DEF taken
    <3> QED BY <2>1, <2>2, FS_Subset
  <2>4. solid = {funcs[k] : k \in taken} BY <1>1 DEF Solid
  <2> HIDE DEF taken, solid
  <2>5. pick \in [taken -> solid] BY <2>4
  <2>6. \A c \in solid : \E k \in taken : pick[k] = c BY <2>4
  <2> HIDE DEF pick
  <2>7. pick \in Surjection(taken, solid) BY <2>5, <2>6 DEF Surjection
  <2> QED BY <2>3, <2>7, FS_Surjection
<1> HIDE DEF solid, taken, pick
<1>7. C \in Nat /\ C >= 1
  <2>1. C \in Nat BY <1>6, FS_CardinalityType
  <2>2. C # 0 BY <1>1, <1>6, FS_EmptySet
  <2> HIDE DEF C
  <2> QED BY <2>1, <2>2
<1> HIDE DEF C
<1>8. \A c \in solid : IsFiniteSet(below(c)) /\ rank(c) \in 0 .. C - 1
  <2> SUFFICES ASSUME NEW c \in solid PROVE IsFiniteSet(below(c)) /\ rank(c) \in 0 .. C - 1
      OBVIOUS
  <2> DEFINE b == below(c)
  <2>1. b \in SUBSET solid /\ b # solid BY <1>4
  <2> HIDE DEF b
  <2>2. IsFiniteSet(b) /\ Cardinality(b) <= Cardinality(solid)
        /\ Cardinality(b) # Cardinality(solid)
        BY <1>6, <2>1, FS_Subset
  <2>3. Cardinality(b) \in Nat BY <2>2, FS_CardinalityType
  <2>4. Cardinality(b) \in 0 .. C - 1 BY <1>7, <2>2, <2>3 DEF C
  <2> QED BY <2>2, <2>4 DEF b
<1>9. \A c, d \in solid : c.start < d.start => rank(c) < rank(d)
  <2> SUFFICES ASSUME NEW c \in solid, NEW d \in solid, c.start < d.start
               PROVE  rank(c) < rank(d)
      OBVIOUS
  <2> DEFINE b == below(c)
             e == below(d)
  <2>1. IsFiniteSet(e) /\ Cardinality(e) \in Nat /\ Cardinality(b) \in Nat
    <3>1. IsFiniteSet(e) /\ IsFiniteSet(b) BY <1>8
    <3> HIDE DEF e, b
    <3> QED BY <3>1, FS_CardinalityType
  <2>2. b \in SUBSET e
    <3> SUFFICES ASSUME NEW x \in b PROVE x \in e OBVIOUS
    <3>1. x \in solid /\ x.start < c.start OBVIOUS
    <3>2. x.start \in Nat /\ c.start \in Nat /\ d.start \in Nat BY <1>4, <3>1
    <3>3. x.start < d.start BY <3>1, <3>2
    <3> QED BY <3>1, <3>3
  <2>3. c \in e /\ c \notin b BY <1>4
  <2>4. rank(c) = Cardinality(b) /\ rank(d) = Cardinality(e) OBVIOUS
  <2> HIDE DEF b, e, rank
  <2>5. Cardinality(b) <= Cardinality(e) /\ Cardinality(b) # Cardinality(e)
        BY <2>1, <2>2, <2>3, FS_Subset
  <2> QED BY <2>1, <2>4, <2>5
<1> HIDE DEF rank
<1>10. \A c, d \in solid : c # d => c.start < d.start \/ d.start < c.start
  <2> SUFFICES ASSUME NEW c \in solid, NEW d \in solid, c # d
               PROVE  c.start < d.start \/ d.start < c.start
      OBVIOUS
  <2>1. c.end <= d.start \/ d.end <= c.start BY <1>5
  <2> QED BY <1>4, <2>1
<1>11. \A c, d \in solid : rank(c) = rank(d) => c = d
  <2> SUFFICES ASSUME NEW c \in solid, NEW d \in solid, rank(c) = rank(d), c # d PROVE FALSE
      OBVIOUS
  <2>1. rank(c) < rank(d) \/ rank(d) < rank(c) BY <1>9, <1>10
  <2>2. rank(c) \in 0 .. C - 1 /\ rank(d) \in 0 .. C - 1 BY <1>8
  <2> QED BY <1>7, <2>1, <2>2
<1>12. \A k \in 0 .. C - 1 : \E c \in solid : rank(c) = k
  <2> DEFINE T == 0 .. C - 1
  <2>1. IsFiniteSet(T) /\ Cardinality(T) = C
    <3> DEFINE u == C - 1
    <3>1. 0 \in Int /\ u \in Int /\ ~(0 > u) /\ u - 0 + 1 = C /\ T = 0 .. u BY <1>7
    <3> HIDE DEF u, T
    <3>2. IsFiniteSet(0 .. u) /\ Cardinality(0 .. u) = IF 0 > u THEN 0 ELSE u - 0 + 1
          BY <3>1, FS_Interval
    <3> QED BY <3>1, <3>2
  <2>2. ranks \in [solid -> T] BY <1>8
  <2>3. \A c \in solid : ranks[c] = rank(c) OBVIOUS
  <2> HIDE DEF ranks, T
  <2>4. ranks \in Injection(solid, T) BY <1>11, <2>2, <2>3 DEF Injection, IsInjective
  <2>5. ranks \in Surjection(solid, T) BY <1>6, <2>1, <2>4, FS_Injection DEF C
  <2> QED BY <2>3, <2>5 DEF Surjection, T
<1>13. list = [i \in 1 .. C |-> CHOOSE c \in solid : rank(c) = i - 1]
       BY DEF Sorted, C, solid, rank
<1> HIDE DEF list
<1>14. \A i \in 1 .. C : list[i] \in solid /\ rank(list[i]) = i - 1
  <2> SUFFICES ASSUME NEW i \in 1 .. C PROVE list[i] \in solid /\ rank(list[i]) = i - 1
      OBVIOUS
  <2>1. i - 1 \in 0 .. C - 1 BY <1>7
  <2>2. \E c \in solid : rank(c) = i - 1 BY <1>12, <2>1
  <2>3. list[i] = CHOOSE c \in solid : rank(c) = i - 1 BY <1>13
  <2> QED BY <2>2, <2>3
<1>15. Len(list) = C /\ list \in Seq(Chunks)
  <2>1. \A i \in 1 .. C : list[i] \in Chunks BY <1>4, <1>14
  <2>2. list \in [1 .. C -> Chunks] BY <1>13, <2>1
  <2> QED BY <1>7, <2>2
<1>16. \A i \in 1 .. C : list[i].start < list[i].end BY <1>4, <1>14
<1>17. \A i, j \in 1 .. C : i < j => list[i].end <= list[j].start
  <2> SUFFICES ASSUME NEW i \in 1 .. C, NEW j \in 1 .. C, i < j
               PROVE  list[i].end <= list[j].start
      OBVIOUS
  <2> DEFINE c == list[i]
             d == list[j]
  <2>1. c \in solid /\ d \in solid /\ rank(c) = i - 1 /\ rank(d) = j - 1 BY <1>14
  <2> HIDE DEF c, d
  <2>2. ~(rank(d) < rank(c)) /\ rank(c) # rank(d) BY <1>7, <2>1
  <2>3. ~(d.start < c.start) BY <1>9, <2>1, <2>2
  <2>4. c # d BY <2>2
  <2>5. c.end <= d.start \/ d.end <= c.start BY <1>5, <2>1, <2>4
  <2>6. c.end <= d.start BY <1>4, <2>1, <2>3, <2>5
  <2> QED BY <2>6 DEF c, d
<1>18. \A c \in solid : \E i \in 1 .. C : list[i] = c
  <2> SUFFICES ASSUME NEW c \in solid PROVE \E i \in 1 .. C : list[i] = c OBVIOUS
  <2> DEFINE i == rank(c) + 1
  <2>1. rank(c) \in 0 .. C - 1 BY <1>8
  <2>2. i \in 1 .. C /\ i - 1 = rank(c) BY <1>7, <2>1
  <2> HIDE DEF i
  <2>3. list[i] \in solid /\ rank(list[i]) = rank(c) BY <1>14, <2>2
  <2> QED BY <1>11, <2>2, <2>3
<1>19. Ordered(list) BY <1>7, <1>15, <1>16, <1>17 DEF Ordered
<1> QED BY <1>14, <1>15, <1>18, <1>19 DEF list, solid

-----------------------------------------------------------------------------

LEMMA DispatchInvKept == DispatchSpec => []DispatchInv
<1>1. DispatchInit => DispatchInv BY DEF DispatchInit, DispatchInv
<1>2. DispatchInv /\ [DispatchNext]_dpVars => DispatchInv'
  <2> SUFFICES ASSUME DispatchInv, [DispatchNext]_dpVars PROVE DispatchInv' OBVIOUS
  <2> USE DEF DispatchInv
  <2>1. ASSUME NEW c \in Chunks, AddChunk(c) PROVE DispatchInv' BY <2>1 DEF AddChunk
  <2>2. ASSUME NEW how \in {"linear", "indexed"}, EmitLookup(how) PROVE DispatchInv'
    <3>1. funcs' = funcs BY <2>2 DEF EmitLookup
    <3>2. Indexable' = Indexable BY <3>1 DEF Indexable, Solid
    <3>3. lookup' = "indexed" => Indexable BY <2>2 DEF EmitLookup
    <3> QED BY <3>1, <3>2, <3>3
  <2>3. CASE UNCHANGED dpVars
    <3>1. funcs' = funcs /\ lookup' = lookup BY <2>3 DEF dpVars
    <3>2. Indexable' = Indexable BY <3>1 DEF Indexable, Solid
    <3> QED BY <3>1, <3>2
  <2> QED BY <2>1, <2>2, <2>3 DEF DispatchNext
<1> QED BY <1>1, <1>2, PTL DEF DispatchSpec

(* The generated lookup, linear or indexed, finds the chunk with an         *)
(* instruction at an address when the list has one, and none otherwise,     *)
(* for every list of chunks a pipeline may emit and every address.          *)
THEOREM LookupsFindChunks == DispatchSpec => []LookupFindsChunk
<1>1. DispatchInv => LookupFindsChunk
  <2> SUFFICES ASSUME DispatchInv, lookup # "building", NEW a \in Probes
               PROVE  LET found == {funcs[k] : k \in {n \in DOMAIN funcs : Holds(funcs[n], a)}}
                      IN  IF found = {} THEN Find(a) = NoChunk ELSE Find(a) \in found
      BY DEF LookupFindsChunk
  <2>1. a \in Nat /\ funcs \in Seq(Chunks) BY DispatchAssumption DEF DispatchInv
  <2>2. DOMAIN funcs = 1 .. Len(funcs) BY <2>1
  <2>3. Answer(funcs, a, Find(a))
    <3>1. CASE lookup # "indexed" BY <2>1, <3>1, LinearIs DEF Find
    <3>2. CASE lookup = "indexed"
      <4>1. Indexable BY <3>2 DEF DispatchInv
      <4>2. Ordered(Sorted) BY <2>1, <4>1, SortedIs
      <4>3. Answer(Sorted, a, Find(a)) BY <2>1, <3>2, <4>2, IndexedIs DEF Find
      <4>4. ASSUME NEW i \in 1 .. Len(Sorted), Holds(Sorted[i], a)
            PROVE  \E k \in 1 .. Len(funcs) : Sorted[i] = funcs[k] /\ Holds(funcs[k], a)
        <5>1. Sorted[i] \in Solid BY <2>1, <4>1, SortedIs
        <5>2. \E k \in 1 .. Len(funcs) : Sorted[i] = funcs[k] BY <2>2, <5>1 DEF Solid
        <5> QED BY <4>4, <5>2
      <4>5. ASSUME NEW k \in 1 .. Len(funcs), Holds(funcs[k], a)
            PROVE  \E i \in 1 .. Len(Sorted) : Holds(Sorted[i], a)
        <5>1. funcs[k].start \in Nat /\ funcs[k].end \in Nat BY <2>1, ChunkIs
        <5>2. funcs[k].start < funcs[k].end BY <2>1, <4>5, <5>1 DEF Holds
        <5>3. funcs[k] \in Solid BY <2>2, <5>2 DEF Solid
        <5>4. \E i \in 1 .. Len(Sorted) : Sorted[i] = funcs[k] BY <2>1, <4>1, <5>3, SortedIs
        <5> QED BY <4>5, <5>4
      <4>6. CASE \E i \in 1 .. Len(Sorted) : Holds(Sorted[i], a)
        <5>1. PICK i \in 1 .. Len(Sorted) : Find(a) = Sorted[i] /\ Holds(Sorted[i], a)
              BY <4>3, <4>6 DEF Answer
        <5>2. \E k \in 1 .. Len(funcs) : Find(a) = funcs[k] /\ Holds(funcs[k], a)
              BY <4>4, <5>1
        <5> QED BY <5>2 DEF Answer
      <4>7. CASE ~ \E i \in 1 .. Len(Sorted) : Holds(Sorted[i], a)
        <5>1. Find(a) = NoChunk BY <4>3, <4>7 DEF Answer
        <5>2. ~ \E k \in 1 .. Len(funcs) : Holds(funcs[k], a) BY <4>5, <4>7
        <5> QED BY <5>1, <5>2 DEF Answer
      <4> QED BY <4>6, <4>7
    <3> QED BY <3>1, <3>2
  <2> DEFINE found == {funcs[k] : k \in {n \in DOMAIN funcs : Holds(funcs[n], a)}}
  <2>4. CASE \E i \in 1 .. Len(funcs) : Holds(funcs[i], a)
    <3>1. PICK i \in 1 .. Len(funcs) : Find(a) = funcs[i] /\ Holds(funcs[i], a)
          BY <2>3, <2>4 DEF Answer
    <3>2. Find(a) \in found BY <2>2, <3>1
    <3> QED BY <3>2
  <2>5. CASE ~ \E i \in 1 .. Len(funcs) : Holds(funcs[i], a)
    <3>1. Find(a) = NoChunk BY <2>3, <2>5 DEF Answer
    <3>2. found = {} BY <2>2, <2>5
    <3> QED BY <3>1, <3>2
  <2> QED BY <2>4, <2>5
<1> QED BY <1>1, DispatchInvKept, PTL

-----------------------------------------------------------------------------
(* RangePlan                                                               *)

Spans(r, a) == r.start <= a /\ a < r.end
Lies(r, s) == Sections[s].start <= r.start /\ r.end <= Sections[s].end

PlanTypes ==
    /\ program \in Codes /\ extra \in ExtraPoints /\ patches \in PatchSets
    /\ planPhase \in {"build", "seed", "calls", "successors", "batch", "planned"}
    /\ section \in DOMAIN Sections
    /\ next \in Nat
    /\ ranges \in Seq([start : Nat, end : Nat])

(* Ranges hold an instruction, lie in a section and follow each other.     *)
InOrder ==
    \A i \in DOMAIN ranges :
        /\ ranges[i].start < ranges[i].end
        /\ \E s \in DOMAIN Sections : Lies(ranges[i], s)
        /\ \A j \in DOMAIN ranges : i < j => ranges[i].end <= ranges[j].start

(* Range i begins where its section begins or the range before it ends.    *)
Abuts(i) ==
    \E s \in DOMAIN Sections :
        /\ Lies(ranges[i], s)
        /\ \/ ranges[i].start = Sections[s].start
           \/ i > 1 /\ ranges[i - 1].end = ranges[i].start

(* Range i is a patch, or as short as the chunk and the points ask for.    *)
Cut(i) ==
    \/ ranges[i] \in patches
    \/ /\ ranges[i].end - ranges[i].start <= Chunk
       /\ \A p \in PartitionPoints : p <= ranges[i].start \/ p >= ranges[i].end

Tiled == Built \/ planPhase = "build" => \A i \in DOMAIN ranges : Abuts(i) /\ Cut(i)

SectionRoom(s) == (SectionSize(s) + Chunk - 1) \div Chunk
PointsUpTo(a) == {p \in PartitionPoints : p <= a}

(* Each range but k of this section's ended at a point or with a section.  *)
RoomLeft(k) ==
    /\ Len(ranges) <= Cardinality(PointsUpTo(next)) + Room[section - 1] + k
    /\ k <= SectionRoom(section)
    /\ next < Sections[section].end => k * Chunk <= next - Sections[section].start

(* Everything below next has its range, and the room is not used up.       *)
Building ==
    planPhase = "build" =>
        /\ Sections[section].start <= next /\ next <= Sections[section].end
        /\ \/ next = Sections[section].start
           \/ ranges # <<>> /\ ranges[Len(ranges)].end = next
        /\ \A i \in DOMAIN ranges : ranges[i].end <= next
        /\ \A a \in Address : a < next => \E i \in DOMAIN ranges : Spans(ranges[i], a)
        /\ \A p \in patches : p.start < next => \E i \in DOMAIN ranges : ranges[i] = p
        /\ \E k \in Nat : RoomLeft(k)

(* Once they are built, the ranges hold every instruction.                 *)
WholeCode ==
    Built => /\ section = 1 /\ next = 1
             /\ \A a \in Address : \E i \in DOMAIN ranges : Spans(ranges[i], a)
             /\ Len(ranges) <= RangeCapacity

PatchesKept ==
    planPhase # "build" => \A p \in patches : \E i \in DOMAIN ranges : ranges[i] = p

Around(d) == Within(Range(SubSeq(queue, 1, before)), planPhase, d)

(* A closure has queued all that is depth steps away from its start, and of*)
(* what is one more away, what the ranges it has visited reach.            *)
Closing ==
    planPhase \in {"calls", "successors"} =>
        /\ queue \in Seq(DOMAIN ranges) /\ IsInjective(queue)
        /\ Range(queue) = selected
        /\ \A p \in patches : \E i \in selected : ranges[i] = p
        /\ cursor \in 1 .. closureEnd
        /\ closureEnd \in 1 .. Len(queue) + 1
        /\ depth \in 0 .. Limit
        /\ before \in 0 .. Len(queue)
        /\ {queue[k] : k \in 1 .. closureEnd - 1} = Around(depth)
        /\ \A k \in 1 .. cursor - 1 : Reached(planPhase, queue[k]) \subseteq selected
        /\ \A k \in closureEnd .. Len(queue) :
              \E j \in 1 .. cursor - 1 : queue[k] \in Reached(planPhase, queue[j])
        /\ cursor = closureEnd \/ depth = Limit => closureEnd = Len(queue) + 1

InObject(i) == {k \in DOMAIN objects : i \in objects[k].first .. objects[k].first + objects[k].count - 1}

(* The ranges below next are in one object each, and the rest lies in the  *)
(* sections that are left.                                                 *)
Batching ==
    /\ objects \in Seq([first : Nat, count : Nat])
    /\ planPhase \notin {"batch", "planned"} => objects = <<>>
    /\ planPhase \in {"batch", "planned"} =>
        /\ next \in 1 .. Len(ranges) + 1
        /\ \A i \in DOMAIN ranges : Cardinality(InObject(i)) = IF i < next THEN 1 ELSE 0
        /\ planPhase = "batch" =>
              \A i \in next .. Len(ranges) :
                  \E s \in section .. Len(Sections) : Lies(ranges[i], s)
        /\ planPhase = "planned" => next = Len(ranges) + 1

PlanInv == PlanTypes /\ InOrder /\ Tiled /\ Building /\ WholeCode /\ PatchesKept /\ Closing /\ Batching

-----------------------------------------------------------------------------

(* What holds of 0 and of each number after one it holds of.               *)
LEMMA UpTo ==
    ASSUME NEW N \in Nat, NEW P, 0 \in P, \A k \in 1 .. N : k - 1 \in P => k \in P
    PROVE  0 .. N \subseteq P
<1> DEFINE v == [k \in 0 .. N |-> k]
<1>1. v[0] \in P OBVIOUS
<1>2. \A k \in 1 .. N : v[k - 1] \in P => v[k] \in P
  <2> SUFFICES ASSUME NEW k \in 1 .. N, v[k - 1] \in P PROVE v[k] \in P OBVIOUS
  <2>1. k - 1 \in 0 .. N /\ k \in 0 .. N OBVIOUS
  <2> QED BY <2>1
<1>3. \A k \in 0 .. N : v[k] \in P
  <2> HIDE DEF v
  <2> QED BY <1>1, <1>2, RunStays
<1> QED BY <1>3

Ranges == ranges \in Seq([start : Nat, end : Nat]) /\ InOrder

LEMMA RangesTyped ==
    ASSUME ranges \in Seq([start : Nat, end : Nat])
    PROVE  /\ Len(ranges) \in Nat /\ DOMAIN ranges = 1 .. Len(ranges)
           /\ \A i \in 1 .. Len(ranges) :
                 /\ ranges[i] \in [start : Nat, end : Nat]
                 /\ ranges[i].start \in Nat /\ ranges[i].end \in Nat
<1>1. Len(ranges) \in Nat /\ \A i \in 1 .. Len(ranges) : ranges[i] \in [start : Nat, end : Nat]
      BY Elements
<1> QED BY <1>1

(* The search finds the range around an address, which is the only one.    *)
LEMMA SearchIs ==
    ASSUME Ranges, NEW a \in Int
    PROVE  /\ RangeIndexFor(a) \in 0 .. Len(ranges)
           /\ RangeIndexFor(a) # 0 => Spans(ranges[RangeIndexFor(a)], a)
           /\ \A i \in DOMAIN ranges : Spans(ranges[i], a) => RangeIndexFor(a) = i
<1> DEFINE N == Len(ranges)
           middle(w) == w.first + (w.last - w.first) \div 2
           narrowed(w) ==
               IF w.first >= w.last THEN w
               ELSE IF a < ranges[middle(w)].start THEN [w EXCEPT !.last = middle(w)]
               ELSE IF a >= ranges[middle(w)].end THEN [w EXCEPT !.first = middle(w) + 1]
               ELSE w
           whole == [first |-> 1, last |-> Len(ranges) + 1]
           R(v) == v = [k \in 0 .. Len(ranges) |-> IF k = 0 THEN whole ELSE narrowed(v[k - 1])]
           S == {w \in [first : 1 .. N + 1, last : 1 .. N + 1] :
                    /\ w.first <= w.last
                    /\ \A i \in 1 .. N : Spans(ranges[i], a) => w.first <= i /\ i < w.last}
           g == [k \in 1 .. N |-> [w \in S |-> narrowed(w)]]
           search == CHOOSE v : R(v)
           window == search[Len(ranges)]
           found(w) == w.first < w.last /\ Spans(ranges[middle(w)], a)
<1>1. /\ N \in Nat /\ DOMAIN ranges = 1 .. N
      /\ \A i \in 1 .. N : ranges[i].start \in Nat /\ ranges[i].end \in Nat
      BY RangesTyped DEF Ranges
<1>2. RangeIndexFor(a) = IF window.first >= window.last THEN 0 ELSE middle(window)
      BY DEF RangeIndexFor
<1>3. \A i, j \in 1 .. N : i < j => ranges[i].end <= ranges[j].start
      BY <1>1 DEF Ranges, InOrder
<1>4. \A i \in 1 .. N : ranges[i].start < ranges[i].end
      BY <1>1 DEF Ranges, InOrder
<1> HIDE DEF N
<1>5. whole \in S BY <1>1 DEF N
<1>6. ASSUME NEW w \in S
      PROVE  /\ w.first \in 1 .. N + 1 /\ w.last \in 1 .. N + 1 /\ w.first <= w.last
             /\ w.first < w.last => /\ middle(w) \in 1 .. N /\ w.first <= middle(w)
                                    /\ middle(w) < w.last
      BY <1>1, <1>6
<1>7. ASSUME NEW w \in S
      PROVE  /\ narrowed(w) \in S
             /\ found(w) => narrowed(w) = w
             /\ ~found(w) /\ w.first < w.last =>
                   narrowed(w).last - narrowed(w).first < w.last - w.first
             /\ w.first >= w.last => narrowed(w) = w
  <2> DEFINE m == middle(w)
  <2>1. /\ w.first \in 1 .. N + 1 /\ w.last \in 1 .. N + 1 /\ w.first <= w.last
        /\ w.first < w.last => m \in 1 .. N /\ w.first <= m /\ m < w.last
        BY <1>6, <1>7
  <2>2. \A i \in 1 .. N : Spans(ranges[i], a) => w.first <= i /\ i < w.last BY <1>7
  <2>3. w \in [first : 1 .. N + 1, last : 1 .. N + 1] BY <1>7
  <2> HIDE DEF m
  <2>4. CASE w.first >= w.last BY <1>7, <2>4, <2>1
  <2>5. CASE w.first < w.last /\ a < ranges[m].start
    <3>1. ~(w.first >= w.last) /\ m \in 1 .. N BY <2>1, <2>5
    <3>2. narrowed(w) = [w EXCEPT !.last = m] BY <2>5, <3>1 DEF m
    <3>3. /\ [w EXCEPT !.last = m].last = m /\ [w EXCEPT !.last = m].first = w.first
          /\ [w EXCEPT !.last = m] \in [first : 1 .. N + 1, last : 1 .. N + 1]
          BY <1>1, <2>3, <3>1
    <3>4. ASSUME NEW i \in 1 .. N, Spans(ranges[i], a) PROVE w.first <= i /\ i < m
      <4>1. w.first <= i BY <2>2, <3>4
      <4>2. a >= ranges[i].start BY <1>1, <3>4 DEF Spans
      <4>3. i # m BY <1>1, <2>5, <4>2
      <4>4. ~(m < i)
        <5> SUFFICES ASSUME m < i PROVE FALSE OBVIOUS
        <5>1. ranges[m].end <= ranges[i].start /\ ranges[m].start < ranges[m].end
              BY <1>3, <1>4, <3>1
        <5> QED BY <1>1, <2>5, <3>1, <4>2, <5>1
      <4> QED BY <3>1, <4>1, <4>3, <4>4
    <3>5. ~found(w) BY <1>1, <2>5, <3>1 DEF Spans, m
    <3> DEFINE n == [w EXCEPT !.last = m]
    <3> HIDE DEF narrowed, found
    <3>6. n.first <= n.last BY <2>1, <2>5, <3>3
    <3>7. n \in S BY <3>3, <3>4, <3>6
    <3>8. n.last - n.first < w.last - w.first BY <2>1, <2>5, <3>1, <3>3
    <3>9. narrowed(w) = n BY <3>2
    <3> HIDE DEF n
    <3> QED BY <2>5, <2>1, <3>5, <3>7, <3>8, <3>9
  <2>6. CASE w.first < w.last /\ a >= ranges[m].end
    <3>1. ~(w.first >= w.last) /\ m \in 1 .. N BY <2>1, <2>6
    <3>2. ~(a < ranges[m].start) BY <1>1, <1>4, <2>6, <3>1
    <3>3. narrowed(w) = [w EXCEPT !.first = m + 1] BY <2>6, <3>1, <3>2 DEF m
    <3>4. /\ [w EXCEPT !.first = m + 1].last = w.last
          /\ [w EXCEPT !.first = m + 1].first = m + 1
          /\ [w EXCEPT !.first = m + 1] \in [first : 1 .. N + 1, last : 1 .. N + 1]
          BY <1>1, <2>3, <3>1
    <3>5. ASSUME NEW i \in 1 .. N, Spans(ranges[i], a) PROVE m + 1 <= i /\ i < w.last
      <4>1. i < w.last BY <2>2, <3>5
      <4>2. a < ranges[i].end BY <1>1, <3>5 DEF Spans
      <4>3. i # m BY <1>1, <2>6, <4>2
      <4>4. ~(i < m)
        <5> SUFFICES ASSUME i < m PROVE FALSE OBVIOUS
        <5>1. ranges[i].end <= ranges[m].start /\ ranges[m].start < ranges[m].end
              BY <1>3, <1>4, <3>1
        <5> QED BY <1>1, <2>6, <3>1, <4>2, <5>1
      <4> QED BY <3>1, <4>1, <4>3, <4>4
    <3>6. ~found(w) BY <1>1, <2>6, <3>1 DEF Spans, m
    <3> DEFINE n == [w EXCEPT !.first = m + 1]
    <3> HIDE DEF narrowed, found
    <3>7. n.first <= n.last BY <2>1, <2>6, <3>1, <3>4
    <3>8. n \in S BY <3>4, <3>5, <3>7
    <3>9. n.last - n.first < w.last - w.first BY <2>1, <2>6, <3>1, <3>4
    <3>10. narrowed(w) = n BY <3>3
    <3> HIDE DEF n
    <3> QED BY <2>6, <2>1, <3>6, <3>8, <3>9, <3>10
  <2>7. CASE w.first < w.last /\ ~(a < ranges[m].start) /\ ~(a >= ranges[m].end)
    <3>1. ~(w.first >= w.last) /\ m \in 1 .. N BY <2>1, <2>7
    <3>2. narrowed(w) = w BY <2>7, <3>1 DEF m
    <3>3. found(w) BY <1>1, <2>7, <3>1 DEF Spans, m
    <3> HIDE DEF S, narrowed, found
    <3> QED BY <1>7, <3>1, <3>2, <3>3
  <2> HIDE DEF S, narrowed, found
  <2> QED BY <2>1, <2>4, <2>5, <2>6, <2>7
<1> HIDE DEF narrowed, S
<1>8. PICK h \in [0 .. N -> S] : Runs(h, N, whole, g)
  <2>1. g \in [1 .. N -> [S -> S]] BY <1>7
  <2> HIDE DEF g, whole
  <2> QED BY <1>1, <1>5, <2>1, RunExists
<1>9. R(h)
  <2>1. ASSUME NEW k \in 0 .. N
        PROVE  h[k] = IF k = 0 THEN whole ELSE narrowed(h[k - 1])
    <3>1. CASE k = 0 BY <1>8, <3>1 DEF Runs
    <3>2. CASE k # 0
      <4>1. k \in 1 .. N /\ k - 1 \in 0 .. N BY <1>1, <3>2
      <4>2. h[k] = g[k][h[k - 1]] /\ h[k - 1] \in S BY <1>8, <3>2, <4>1 DEF Runs
      <4> QED BY <3>2, <4>1, <4>2
    <3> QED BY <3>1, <3>2
  <2> QED BY <1>8, <2>1 DEF N
<1>10. R(search)
  <2> HIDE DEF R
  <2> QED BY <1>9
<1> HIDE DEF search, g
<1>11. search[0] = whole /\ \A k \in 1 .. N : search[k] = narrowed(search[k - 1])
  <2>1. search = [k \in 0 .. N |-> IF k = 0 THEN whole ELSE narrowed(search[k - 1])]
        BY <1>10 DEF N
  <2> HIDE DEF whole
  <2>2. 0 \in 0 .. N /\ \A k \in 1 .. N : k \in 0 .. N /\ k # 0 BY <1>1
  <2> QED BY <2>1, <2>2
<1>12. \A k \in 0 .. N : search[k] \in S BY <1>1, <1>5, <1>7, <1>11, RunStays
<1> DEFINE P == {k \in 0 .. N : found(search[k]) \/ search[k].last - search[k].first <= N - k}
<1>13. 0 .. N \subseteq P
  <2>1. 0 \in P BY <1>1, <1>11 DEF N
  <2>2. ASSUME NEW k \in 1 .. N, k - 1 \in P PROVE k \in P
    <3> DEFINE w == search[k - 1]
    <3>1. w \in S /\ k \in 0 .. N /\ k - 1 \in 0 .. N BY <1>1, <1>12
    <3>2. search[k] = narrowed(w) /\ search[k] \in S BY <1>11, <1>12, <3>1
    <3>3. found(w) \/ w.last - w.first <= N - (k - 1) BY <2>2
    <3> HIDE DEF w, found
    <3>4. CASE found(w)
      <4>1. search[k] = w BY <1>7, <3>1, <3>2, <3>4
      <4> QED BY <3>1, <3>4, <4>1
    <3>5. CASE ~found(w) /\ w.first < w.last
      <4>1. search[k].last - search[k].first < w.last - w.first BY <1>7, <3>1, <3>2, <3>5
      <4>2. search[k].last \in Int /\ search[k].first \in Int /\ w.first \in Int /\ w.last \in Int
            BY <1>1, <1>6, <3>1, <3>2
      <4>3. search[k].last - search[k].first <= N - k BY <1>1, <3>3, <3>5, <4>1, <4>2
      <4> QED BY <3>1, <4>3
    <3>6. CASE w.first >= w.last
      <4>1. search[k] = w BY <1>7, <3>1, <3>2, <3>6
      <4>2. w.last - w.first <= N - k BY <1>1, <1>6, <3>1, <3>6
      <4> QED BY <3>1, <4>1, <4>2
    <3>7. w.first \in Int /\ w.last \in Int BY <1>1, <1>6, <3>1
    <3> QED BY <3>4, <3>5, <3>6, <3>7
  <2> HIDE DEF P
  <2> QED BY <1>1, <2>1, <2>2, UpTo
<1>14. window \in S /\ (found(window) \/ window.last - window.first <= 0)
  <2>1. N \in 0 .. N BY <1>1
  <2>2. N \in P BY <1>13, <2>1
  <2> QED BY <1>1, <1>12, <2>1, <2>2 DEF N
<1> HIDE DEF search, whole
<1>15. window.first \in Int /\ window.last \in Int BY <1>1, <1>6, <1>14
<1>16. \A i \in 1 .. N : Spans(ranges[i], a) => window.first <= i /\ i < window.last
       BY <1>14 DEF S
<1>17. CASE window.first >= window.last
  <2>1. RangeIndexFor(a) = 0 BY <1>2, <1>17
  <2>2. \A i \in 1 .. N : ~Spans(ranges[i], a) BY <1>15, <1>16, <1>17
  <2> QED BY <1>1, <2>1, <2>2 DEF N
<1>18. CASE window.first < window.last
  <2>1. RangeIndexFor(a) = middle(window) /\ found(window) BY <1>2, <1>14, <1>15, <1>18
  <2>2. middle(window) \in 1 .. N BY <1>6, <1>14, <1>18
  <2>3. Spans(ranges[middle(window)], a) BY <2>1
  <2> HIDE DEF window, middle
  <2>4. ASSUME NEW i \in 1 .. N, Spans(ranges[i], a) PROVE middle(window) = i
    <3> DEFINE m == middle(window)
    <3>1. m \in 1 .. N /\ Spans(ranges[m], a) BY <2>2, <2>3
    <3> HIDE DEF m
    <3>2. ~(i < m) BY <1>1, <1>3, <2>4, <3>1 DEF Spans
    <3>3. ~(m < i) BY <1>1, <1>3, <2>4, <3>1 DEF Spans
    <3> QED BY <3>1, <3>2, <3>3 DEF m
  <2>5. RangeIndexFor(a) \in 0 .. N /\ DOMAIN ranges = 1 .. N BY <1>1, <2>1, <2>2
  <2> QED BY <2>1, <2>2, <2>3, <2>4, <2>5 DEF N
<1> QED BY <1>15, <1>17, <1>18

(* A selection: what is queued is selected, but for those in P, which wait. *)
Good(q, D, P) ==
    /\ q \in [queue : Seq(D), selected : SUBSET D]
    /\ IsInjective(q.queue)
    /\ Range(q.queue) = q.selected \ P
    /\ P \subseteq q.selected

Grown(q, r) ==
    /\ Len(q.queue) <= Len(r.queue)
    /\ \A k \in 1 .. Len(q.queue) : r.queue[k] = q.queue[k]
    /\ q.selected \subseteq r.selected

(* What is new in the queue is in I, and it is all that is new.             *)
Adds(q, r, I) ==
    \A k \in Len(q.queue) + 1 .. Len(r.queue) : r.queue[k] \in I

(* The ranges among a sequence of ranges and zeros.                         *)
Members(is) == {is[k] : k \in 1 .. Len(is)} \ {0}

Has(q, I) == I \subseteq q.selected

LEMMA Appended ==
    ASSUME NEW D, NEW s \in Seq(D), NEW e \in D
    PROVE  /\ Append(s, e) \in Seq(D) /\ Len(s) \in Nat /\ Len(Append(s, e)) = Len(s) + 1
           /\ \A k \in 1 .. Len(s) : Append(s, e)[k] = s[k]
           /\ Append(s, e)[Len(s) + 1] = e
           /\ Range(Append(s, e)) = Range(s) \cup {e}
           /\ IsInjective(s) /\ e \notin Range(s) => IsInjective(Append(s, e))
<1>1. /\ Append(s, e) \in Seq(D) /\ Len(s) \in Nat /\ Len(Append(s, e)) = Len(s) + 1
      /\ \A k \in 1 .. Len(s) : Append(s, e)[k] = s[k]
      /\ Append(s, e)[Len(s) + 1] = e
      OBVIOUS
<1>2. DOMAIN s = 1 .. Len(s) /\ DOMAIN Append(s, e) = 1 .. Len(s) + 1 OBVIOUS
<1> DEFINE t == Append(s, e)
           n == Len(s)
<1>3. /\ n \in Nat /\ DOMAIN s = 1 .. n /\ DOMAIN t = 1 .. n + 1
      /\ \A k \in 1 .. n : t[k] = s[k]
      /\ t[n + 1] = e
      BY <1>1, <1>2
<1> HIDE DEF t, n
<1>4. \A k \in 1 .. n + 1 : k \in 1 .. n \/ k = n + 1 BY <1>3
<1>5. Range(t) = Range(s) \cup {e}
  <2>1. \A x \in Range(t) : x \in Range(s) \cup {e} BY <1>3, <1>4 DEF Range
  <2>2. \A x \in Range(s) : x \in Range(t)
    <3>1. \A k \in 1 .. n : k \in 1 .. n + 1 BY <1>3
    <3> QED BY <1>3, <3>1 DEF Range
  <2>3. e \in Range(t)
    <3>1. n + 1 \in 1 .. n + 1 BY <1>3
    <3> QED BY <1>3, <3>1 DEF Range
  <2> QED BY <2>1, <2>2, <2>3
<1>6. ASSUME IsInjective(s), e \notin Range(s) PROVE IsInjective(t)
  <2>1. \A k \in 1 .. n : s[k] # e BY <1>3, <1>6 DEF Range
  <2>2. SUFFICES ASSUME NEW j \in 1 .. n + 1, NEW k \in 1 .. n + 1, t[j] = t[k] PROVE j = k
        BY <1>3 DEF IsInjective
  <2>3. CASE j \in 1 .. n /\ k \in 1 .. n BY <1>3, <1>6, <2>2, <2>3 DEF IsInjective
  <2>4. CASE j = n + 1 /\ k \in 1 .. n BY <1>3, <2>1, <2>2, <2>4
  <2>5. CASE j \in 1 .. n /\ k = n + 1 BY <1>3, <2>1, <2>2, <2>5
  <2> QED BY <1>4, <2>2, <2>3, <2>4, <2>5
<1> QED BY <1>1, <1>5, <1>6 DEF t

LEMMA SelectIs ==
    ASSUME NEW D, D \subseteq Nat \ {0}, NEW P, NEW q, Good(q, D, P), NEW i \in D \cup {0}
    PROVE  /\ Good(Select(q, i), D, P)
           /\ Grown(q, Select(q, i))
           /\ Has(Select(q, i), {i} \ {0})
           /\ Adds(q, Select(q, i), {i} \ {0})
<1>1. q.queue \in Seq(D) /\ q.selected \subseteq D /\ Len(q.queue) \in Nat
      BY DEF Good
<1>2. CASE i = 0 \/ i \in q.selected
  <2>1. Select(q, i) = q BY <1>2 DEF Select
  <2>2. \A k \in Len(q.queue) + 1 .. Len(q.queue) : FALSE BY <1>1
  <2>3. Grown(q, q) BY <1>1 DEF Grown
  <2> QED BY <1>2, <2>1, <2>2, <2>3 DEF Adds, Has
<1>3. CASE ~(i = 0 \/ i \in q.selected)
  <2> DEFINE r == [queue |-> Append(q.queue, i), selected |-> q.selected \cup {i}]
             n == Len(q.queue)
             t == Append(q.queue, i)
  <2>1. Select(q, i) = r BY <1>3 DEF Select
  <2>2. i \in D /\ i # 0 BY <1>3
  <2>3. i \notin Range(q.queue) /\ i \notin P BY <1>3 DEF Good
  <2>4. /\ t \in Seq(D) /\ Len(t) = n + 1
        /\ \A k \in 1 .. n : t[k] = q.queue[k]
        /\ t[n + 1] = i
        /\ Range(t) = Range(q.queue) \cup {i}
        /\ IsInjective(t)
        BY <1>1, <2>2, <2>3, Appended DEF Good
  <2>5. n \in Nat BY <1>1
  <2>6. r.queue = t /\ r.selected = q.selected \cup {i} OBVIOUS
  <2>7. r \in [queue : Seq(D), selected : SUBSET D] BY <1>1, <2>2, <2>4
  <2> HIDE DEF r, t, n
  <2>8. Good(r, D, P)
    <3>1. Range(r.queue) = r.selected \ P BY <2>3, <2>4, <2>6 DEF Good
    <3> QED BY <2>4, <2>6, <2>7, <3>1 DEF Good
  <2>9. Grown(q, r) BY <2>4, <2>5, <2>6 DEF Grown, n
  <2>10. \A k \in n + 1 .. n + 1 : k = n + 1 BY <2>5
  <2>11. \A k \in Len(q.queue) + 1 .. Len(r.queue) : r.queue[k] = i
         BY <2>4, <2>6, <2>10 DEF n
  <2>12. i \in r.selected BY <2>6
  <2> QED BY <2>1, <2>2, <2>8, <2>9, <2>11, <2>12 DEF Adds, Has
<1> QED BY <1>2, <1>3

LEMMA GrownOn ==
    ASSUME NEW q, NEW r, NEW s, Grown(q, r), Grown(r, s),
           Len(q.queue) \in Nat, Len(r.queue) \in Nat, Len(s.queue) \in Nat
    PROVE  Grown(q, s)
<1>1. Len(q.queue) <= Len(s.queue) BY DEF Grown
<1>2. \A k \in 1 .. Len(q.queue) : k \in 1 .. Len(r.queue) BY DEF Grown
<1> QED BY <1>1, <1>2 DEF Grown

(* What is selected in turn has been added to the queue, each range once.  *)
LEMMA SelectEachIs ==
    ASSUME NEW D, D \subseteq Nat \ {0}, NEW P, NEW q, Good(q, D, P),
           NEW is, Len(is) \in Nat, \A k \in 1 .. Len(is) : is[k] \in D \cup {0}
    PROVE  /\ Good(SelectEach(q, is), D, P)
           /\ Grown(q, SelectEach(q, is))
           /\ Has(SelectEach(q, is), Members(is))
           /\ Adds(q, SelectEach(q, is), Members(is))
<1> DEFINE N == Len(is)
           R(v) == v = [k \in 0 .. Len(is) |-> IF k = 0 THEN q ELSE Select(v[k - 1], is[k])]
           S == {r \in [queue : Seq(D), selected : SUBSET D] : Good(r, D, P)}
           g == [k \in 1 .. N |-> [r \in S |-> Select(r, is[k])]]
           after == CHOOSE v : R(v)
<1>1. N \in Nat /\ q \in S BY DEF Good
<1>2. SelectEach(q, is) = after[Len(is)] BY DEF SelectEach
<1>3. ASSUME NEW r \in S, NEW k \in 1 .. N PROVE Select(r, is[k]) \in S
  <2>1. Good(r, D, P) /\ is[k] \in D \cup {0} OBVIOUS
  <2>2. Good(Select(r, is[k]), D, P) BY <2>1, SelectIs
  <2> QED BY <2>2 DEF Good
<1> HIDE DEF N, S
<1>4. PICK h \in [0 .. N -> S] : Runs(h, N, q, g)
  <2>1. g \in [1 .. N -> [S -> S]] BY <1>3
  <2> HIDE DEF g
  <2> QED BY <1>1, <2>1, RunExists
<1>5. R(h)
  <2>1. ASSUME NEW k \in 0 .. N
        PROVE  h[k] = IF k = 0 THEN q ELSE Select(h[k - 1], is[k])
    <3>1. CASE k = 0 BY <1>4, <3>1 DEF Runs
    <3>2. CASE k # 0
      <4>1. k \in 1 .. N /\ k - 1 \in 0 .. N BY <1>1, <3>2
      <4>2. h[k] = g[k][h[k - 1]] /\ h[k - 1] \in S BY <1>4, <4>1 DEF Runs
      <4> QED BY <3>2, <4>1, <4>2
    <3> QED BY <3>1, <3>2
  <2> QED BY <2>1 DEF N
<1>6. R(after)
  <2> HIDE DEF R
  <2> QED BY <1>5
<1> HIDE DEF after, g
<1>7. after[0] = q /\ \A k \in 1 .. N : after[k] = Select(after[k - 1], is[k])
  <2>1. after = [k \in 0 .. N |-> IF k = 0 THEN q ELSE Select(after[k - 1], is[k])]
        BY <1>6 DEF N
  <2>2. 0 \in 0 .. N /\ \A k \in 1 .. N : k \in 0 .. N /\ k # 0 BY <1>1
  <2> QED BY <2>1, <2>2
<1>8. \A k \in 0 .. N : after[k] \in S
  <2>1. after[0] \in S /\ \A k \in 1 .. N : after[k - 1] \in S => after[k] \in S
        BY <1>1, <1>3, <1>7
  <2> QED BY <1>1, <2>1, RunStays
<1>9. \A r \in S : Good(r, D, P) /\ Len(r.queue) \in Nat BY DEF S, Good
<1> DEFINE Upto(k) == {is[j] : j \in 1 .. k} \ {0}
           Done(k) == /\ Grown(q, after[k])
                      /\ Has(after[k], Upto(k))
                      /\ Adds(q, after[k], Upto(k))
           T == {k \in 0 .. N : Done(k)}
<1>10. Done(0)
  <2>1. Grown(q, q) /\ \A m \in Len(q.queue) + 1 .. Len(q.queue) : FALSE
        BY <1>1, <1>9 DEF Grown
  <2>2. Upto(0) = {} OBVIOUS
  <2> QED BY <1>7, <2>1, <2>2 DEF Adds, Has
<1>11. ASSUME NEW k \in 1 .. N, Done(k - 1) PROVE Done(k)
  <2> DEFINE r == after[k - 1]
             t == after[k]
             i == is[k]
  <2>1. k - 1 \in 0 .. N /\ k \in 0 .. N BY <1>1
  <2>2. r \in S /\ t \in S /\ t = Select(r, i) BY <1>7, <1>8, <2>1
  <2>3. Good(r, D, P) /\ Len(r.queue) \in Nat /\ Len(t.queue) \in Nat /\ Len(q.queue) \in Nat
        BY <1>1, <1>9, <2>2
  <2>4. i \in D \cup {0} BY DEF N
  <2>5. Grown(q, r) /\ Has(r, Upto(k - 1)) /\ Adds(q, r, Upto(k - 1)) BY <1>11
  <2>6. Upto(k) = Upto(k - 1) \cup ({i} \ {0})
    <3>1. \A j \in 1 .. k : j \in 1 .. k - 1 \/ j = k BY <1>1
    <3>2. k \in 1 .. k /\ \A j \in 1 .. k - 1 : j \in 1 .. k BY <1>1
    <3>3. Upto(k) \subseteq Upto(k - 1) \cup ({i} \ {0}) BY <3>1
    <3>4. Upto(k - 1) \cup ({i} \ {0}) \subseteq Upto(k) BY <3>2
    <3> QED BY <3>3, <3>4
  <2> HIDE DEF r, t, i, Upto
  <2>7. Grown(r, t) /\ Has(t, {i} \ {0}) /\ Adds(r, t, {i} \ {0}) BY <2>2, <2>3, <2>4, SelectIs
  <2>8. Grown(q, t) BY <2>3, <2>5, <2>7, GrownOn
  <2>9. Has(t, Upto(k)) BY <2>5, <2>6, <2>7 DEF Has, Grown
  <2>10. Adds(q, t, Upto(k))
    <3> SUFFICES ASSUME NEW m \in Len(q.queue) + 1 .. Len(t.queue) PROVE t.queue[m] \in Upto(k)
        BY DEF Adds
    <3>1. CASE m \in Len(r.queue) + 1 .. Len(t.queue) BY <2>6, <2>7, <3>1 DEF Adds
    <3>2. CASE m \notin Len(r.queue) + 1 .. Len(t.queue)
      <4>1. m \in Len(q.queue) + 1 .. Len(r.queue) /\ m \in 1 .. Len(r.queue)
            BY <2>3, <3>2
      <4>2. r.queue[m] \in Upto(k - 1) BY <2>5, <4>1 DEF Adds
      <4>3. t.queue[m] = r.queue[m] BY <2>7, <4>1 DEF Grown
      <4> QED BY <2>6, <4>2, <4>3
    <3> QED BY <3>1, <3>2
  <2> QED BY <2>8, <2>9, <2>10 DEF t
<1> HIDE DEF Done
<1>12. 0 .. N \subseteq T
  <2>1. 0 \in T BY <1>1, <1>10
  <2>2. \A k \in 1 .. N : k - 1 \in T => k \in T BY <1>1, <1>11
  <2> HIDE DEF T
  <2> QED BY <1>1, <2>1, <2>2, UpTo
<1>13. Done(N) /\ after[N] \in S BY <1>1, <1>8, <1>12
<1>14. Good(after[N], D, P) BY <1>9, <1>13
<1> QED BY <1>2, <1>13, <1>14 DEF Done, N, Members

Selections(D) == [queue : Seq(D), selected : SUBSET D]

LEMMA SelectTyped ==
    ASSUME NEW D, NEW q \in Selections(D), NEW i \in D \cup {0}
    PROVE  Select(q, i) \in Selections(D)
BY DEF Select, Selections

LEMMA NeighborsIn ==
    ASSUME ranges \in Seq([start : Nat, end : Nat]), NEW i \in DOMAIN ranges
    PROVE  Left(i) \in DOMAIN ranges /\ Right(i) \in DOMAIN ranges
<1>1. Len(ranges) \in Nat /\ DOMAIN ranges = 1 .. Len(ranges) BY RangesTyped
<1> DEFINE n == Len(ranges)
<1>2. n \in Nat /\ i \in 1 .. n BY <1>1
<1>3. i \in DOMAIN ranges OBVIOUS
<1>4. i > 1 => i - 1 \in 1 .. n BY <1>2
<1>5. i < n => i + 1 \in 1 .. n BY <1>2
<1>6. Left(i) \in DOMAIN ranges BY <1>1, <1>3, <1>4 DEF Left
<1>7. Right(i) \in DOMAIN ranges BY <1>1, <1>3, <1>5 DEF Right
<1> QED BY <1>6, <1>7

LEMMA QueueSeedIs ==
    ASSUME ranges \in Seq([start : Nat, end : Nat]), NEW q \in Selections(DOMAIN ranges),
           NEW seed \in DOMAIN ranges, NEW P
    PROVE  /\ QueueSeed(q, seed) \in Selections(DOMAIN ranges)
           /\ Good(q, DOMAIN ranges, P) /\ seed \in P =>
                 Good(QueueSeed(q, seed), DOMAIN ranges, P \ {seed})
<1> DEFINE N == Neighbors
           D == DOMAIN ranges
           C == Good(q, D, P) /\ seed \in P
           x == [q |-> [q EXCEPT !.queue = Append(@, seed)], l |-> seed, r |-> seed]
           moved(s) == [q |-> Select(Select(s.q, Left(s.l)), Right(s.r)),
                        l |-> Left(s.l), r |-> Right(s.r)]
           R(v) == v = [k \in 0 .. Neighbors |->
                           IF k = 0
                           THEN [q |-> [q EXCEPT !.queue = Append(@, seed)], l |-> seed, r |-> seed]
                           ELSE LET s == v[k - 1]
                                IN  [q |-> Select(Select(s.q, Left(s.l)), Right(s.r)),
                                     l |-> Left(s.l), r |-> Right(s.r)]]
           S == {s \in [q : Selections(D), l : D, r : D] : C => Good(s.q, D, P \ {seed})}
           g == [k \in 1 .. N |-> [s \in S |-> moved(s)]]
           run == CHOOSE v : R(v)
<1>1. N \in Nat BY PlanAssumption
<1>2. QueueSeed(q, seed) = run[Neighbors].q BY DEF QueueSeed
<1>3. D \subseteq Nat \ {0} BY RangesTyped
<1>4. x \in S
  <2> DEFINE t == Append(q.queue, seed)
             p == [q EXCEPT !.queue = t]
  <2>1. q.queue \in Seq(D) /\ q.selected \in SUBSET D BY DEF Selections
  <2>2. p.queue = t /\ p.selected = q.selected /\ t \in Seq(D) /\ p \in Selections(D)
        BY <2>1, Appended DEF Selections
  <2>3. x.q = p /\ x.l = seed /\ x.r = seed /\ x \in [q : Selections(D), l : D, r : D] BY <2>2
  <2>4. ASSUME C PROVE Good(p, D, P \ {seed})
    <3>1. /\ IsInjective(q.queue) /\ Range(q.queue) = q.selected \ P
          /\ P \subseteq q.selected /\ seed \in P
          BY <2>4 DEF Good
    <3>2. seed \notin Range(q.queue) BY <3>1
    <3>3. IsInjective(t) /\ Range(t) = Range(q.queue) \cup {seed} BY <2>1, <3>1, <3>2, Appended
    <3>4. Range(t) = q.selected \ (P \ {seed}) BY <3>1, <3>3
    <3> QED BY <2>2, <3>1, <3>3, <3>4 DEF Good, Selections
  <2> HIDE DEF x, C, p
  <2> QED BY <2>3, <2>4
<1>5. ASSUME NEW s \in S PROVE moved(s) \in S
  <2>1. s.q \in Selections(D) /\ s.l \in D /\ s.r \in D OBVIOUS
  <2>2. Left(s.l) \in D /\ Right(s.r) \in D BY <2>1, NeighborsIn
  <2> DEFINE a == Left(s.l)
             b == Right(s.r)
             u == Select(s.q, a)
             w == Select(u, b)
  <2>3. u \in Selections(D) BY <2>1, <2>2, SelectTyped
  <2>4. w \in Selections(D) BY <2>2, <2>3, SelectTyped
  <2>5. moved(s) = [q |-> w, l |-> a, r |-> b] OBVIOUS
  <2>6. ASSUME C PROVE Good(w, D, P \ {seed})
    <3> DEFINE p == P \ {seed}
    <3>1. Good(s.q, D, p) BY <2>6
    <3> HIDE DEF p, w, a, b, D
    <3>2. Good(u, D, p) BY <1>3, <2>2, <3>1, SelectIs DEF a
    <3> HIDE DEF u
    <3>3. Good(w, D, p) BY <1>3, <2>2, <3>2, SelectIs DEF w, b
    <3> QED BY <3>3 DEF p
  <2> HIDE DEF a, b, u, w, C
  <2>7. a \in D /\ b \in D BY <2>2 DEF a, b
  <2>8. [q |-> w, l |-> a, r |-> b].q = w OBVIOUS
  <2>9. [q |-> w, l |-> a, r |-> b] \in S BY <2>4, <2>6, <2>7, <2>8
  <2> QED BY <2>5, <2>9
<1> HIDE DEF N, S, moved, x
<1>6. PICK h \in [0 .. N -> S] : Runs(h, N, x, g)
  <2>1. g \in [1 .. N -> [S -> S]] BY <1>5
  <2> HIDE DEF g
  <2> QED BY <1>1, <1>4, <2>1, RunExists
<1> DEFINE V(v) == v = [k \in 0 .. N |-> IF k = 0 THEN x ELSE moved(v[k - 1])]
<1>7. V(h)
  <2>1. ASSUME NEW k \in 0 .. N PROVE h[k] = IF k = 0 THEN x ELSE moved(h[k - 1])
    <3>1. CASE k = 0 BY <1>6, <3>1 DEF Runs
    <3>2. CASE k # 0
      <4>1. k \in 1 .. N /\ k - 1 \in 0 .. N BY <1>1, <3>2
      <4>2. h[k] = g[k][h[k - 1]] /\ h[k - 1] \in S BY <1>6, <4>1 DEF Runs
      <4> QED BY <3>2, <4>1, <4>2
    <3> QED BY <3>1, <3>2
  <2> QED BY <2>1
<1>8. \A v : V(v) <=> R(v) BY DEF N, x, moved
<1>9. R(run)
  <2>1. R(h)
    <3> HIDE DEF V, R
    <3> QED BY <1>7, <1>8
  <2> HIDE DEF R
  <2> QED BY <2>1
<1> HIDE DEF run, g
<1>10. V(run)
  <2> HIDE DEF V, R
  <2> QED BY <1>8, <1>9
<1> HIDE DEF R
<1>11. run[0] \in S /\ \A k \in 1 .. N : run[k - 1] \in S => run[k] \in S
  <2>1. 0 \in 0 .. N /\ \A k \in 1 .. N : k \in 0 .. N /\ k # 0 BY <1>1
  <2>2. run[0] = x /\ \A k \in 1 .. N : run[k] = moved(run[k - 1]) BY <1>10, <2>1
  <2> QED BY <1>4, <1>5, <2>2
<1>12. \A k \in 0 .. N : run[k] \in S
  <2> HIDE DEF V
  <2> QED BY <1>1, <1>11, RunStays
<1>13. run[N] \in S BY <1>1, <1>12
<1> QED BY <1>2, <1>13 DEF S, N

(* Behind the last seed, nothing waits to be queued any more.              *)
LEMMA SeedQueueIs ==
    ASSUME ranges \in Seq([start : Nat, end : Nat]), NEW hot \in Seq(Nat \ {0}),
           IsInjective(hot), Range(hot) \subseteq DOMAIN ranges
    PROVE  Good(SeedQueue(hot), DOMAIN ranges, {})
<1> DEFINE N == Len(hot)
           D == DOMAIN ranges
           x == [queue |-> <<>>, selected |-> Range(hot)]
           R(v) == v = [k \in 0 .. Len(hot) |->
                           IF k = 0 THEN x ELSE QueueSeed(v[k - 1], hot[k])]
           S == Selections(D)
           g == [k \in 1 .. N |-> [q \in S |-> QueueSeed(q, hot[k])]]
           after == CHOOSE v : R(v)
<1>1. N \in Nat /\ DOMAIN hot = 1 .. N /\ \A k \in 1 .. N : hot[k] \in D BY DEF Range
<1>2. SeedQueue(hot) = after[Len(hot)] BY DEF SeedQueue
<1>3. x \in S BY DEF Selections
<1>4. ASSUME NEW q \in S, NEW k \in 1 .. N PROVE QueueSeed(q, hot[k]) \in S
      BY <1>1, QueueSeedIs
<1>5. /\ x.queue = <<>> /\ x.selected = Range(hot) OBVIOUS
<1> HIDE DEF N, S, x
<1>6. PICK h \in [0 .. N -> S] : Runs(h, N, x, g)
  <2>1. g \in [1 .. N -> [S -> S]] BY <1>4
  <2> HIDE DEF g
  <2> QED BY <1>1, <1>3, <2>1, RunExists
<1>7. R(h)
  <2>1. ASSUME NEW k \in 0 .. N
        PROVE  h[k] = IF k = 0 THEN x ELSE QueueSeed(h[k - 1], hot[k])
    <3>1. CASE k = 0 BY <1>6, <3>1 DEF Runs
    <3>2. CASE k # 0
      <4>1. k \in 1 .. N /\ k - 1 \in 0 .. N BY <1>1, <3>2
      <4>2. h[k] = g[k][h[k - 1]] /\ h[k - 1] \in S BY <1>6, <4>1 DEF Runs
      <4> QED BY <3>2, <4>1, <4>2
    <3> QED BY <3>1, <3>2
  <2> QED BY <2>1 DEF N
<1>8. R(after)
  <2> HIDE DEF R
  <2> QED BY <1>7
<1> HIDE DEF after, g
<1>9. after[0] = x /\ \A k \in 1 .. N : after[k] = QueueSeed(after[k - 1], hot[k])
  <2>1. after = [k \in 0 .. N |-> IF k = 0 THEN x ELSE QueueSeed(after[k - 1], hot[k])]
        BY <1>8 DEF N
  <2>2. 0 \in 0 .. N /\ \A k \in 1 .. N : k \in 0 .. N /\ k # 0 BY <1>1
  <2> QED BY <2>1, <2>2
<1> HIDE DEF R
<1>10. \A k \in 0 .. N : after[k] \in S
  <2>1. after[0] \in S /\ \A k \in 1 .. N : after[k - 1] \in S => after[k] \in S
        BY <1>3, <1>4, <1>9
  <2> QED BY <1>1, <2>1, RunStays
<1> DEFINE waits(k) == {hot[j] : j \in k + 1 .. N}
           T == {k \in 0 .. N : Good(after[k], D, waits(k))}
<1>11. Good(after[0], D, waits(0))
  <2>1. waits(0) = Range(hot) BY <1>1 DEF Range
  <2>2. IsInjective(x.queue) /\ Range(x.queue) = {} BY <1>5 DEF IsInjective, Range
  <2> QED BY <1>3, <1>5, <1>9, <2>1, <2>2 DEF Good, S, Selections
<1>12. ASSUME NEW k \in 1 .. N, Good(after[k - 1], D, waits(k - 1))
       PROVE  Good(after[k], D, waits(k))
  <2>1. k - 1 \in 0 .. N /\ k \in k - 1 + 1 .. N BY <1>1
  <2>2. after[k - 1] \in S /\ hot[k] \in D /\ hot[k] \in waits(k - 1) BY <1>1, <1>10, <2>1
  <2>3. waits(k - 1) \ {hot[k]} = waits(k)
    <3>1. \A j \in k - 1 + 1 .. N : j = k \/ j \in k + 1 .. N BY <1>1
    <3>2. \A j \in k + 1 .. N : j \in k - 1 + 1 .. N /\ j \in 1 .. N /\ j # k BY <1>1
    <3>3. \A j \in k + 1 .. N : hot[j] # hot[k] BY <1>1, <3>2 DEF IsInjective
    <3>4. waits(k - 1) \ {hot[k]} \subseteq waits(k) BY <3>1
    <3>5. waits(k) \subseteq waits(k - 1) \ {hot[k]} BY <3>2, <3>3
    <3> QED BY <3>4, <3>5
  <2> HIDE DEF waits
  <2> DEFINE W == waits(k - 1)
             q == after[k - 1]
  <2>4. q \in Selections(DOMAIN ranges) /\ hot[k] \in DOMAIN ranges /\ hot[k] \in W
        /\ Good(q, DOMAIN ranges, W)
        BY <1>12, <2>2 DEF S
  <2> HIDE DEF W, q
  <2>5. Good(QueueSeed(q, hot[k]), DOMAIN ranges, W \ {hot[k]}) BY <2>4, QueueSeedIs
  <2> QED BY <1>9, <2>3, <2>5 DEF W, q
<1> HIDE DEF waits
<1>13. 0 .. N \subseteq T
  <2>1. 0 \in T BY <1>1, <1>11
  <2>2. ASSUME NEW k \in 1 .. N, k - 1 \in T PROVE k \in T
    <3>1. Good(after[k - 1], D, waits(k - 1)) /\ k \in 0 .. N BY <1>1, <2>2
    <3> QED BY <1>12, <3>1
  <2> HIDE DEF T
  <2> QED BY <1>1, <2>1, <2>2, UpTo
<1>14. Good(after[N], D, waits(N)) /\ waits(N) = {}
  <2>1. N + 1 .. N = {} BY <1>1
  <2>2. N \in 0 .. N BY <1>1
  <2> QED BY <1>13, <2>1, <2>2 DEF waits
<1> QED BY <1>2, <1>14 DEF N

LEMMA OnlyIs ==
    ASSUME ranges \in Seq([start : Nat, end : Nat]), NEW I
    PROVE  /\ Len(Only(I)) \in Nat
           /\ \A k \in 1 .. Len(Only(I)) : Only(I)[k] \in DOMAIN ranges \cup {0}
           /\ Members(Only(I)) = I \cap DOMAIN ranges
<1>1. Len(ranges) \in Nat /\ DOMAIN ranges = 1 .. Len(ranges) BY RangesTyped
<1>2. Only(I) = [i \in 1 .. Len(ranges) |-> IF i \in I THEN i ELSE 0] BY <1>1 DEF Only
<1>3. Len(Only(I)) = Len(ranges) BY <1>1, <1>2
<1>4. 0 \notin 1 .. Len(ranges) OBVIOUS
<1> QED BY <1>1, <1>2, <1>3, <1>4 DEF Members

LEMMA WithEntriesIs ==
    ASSUME Ranges, NEW q, Good(q, DOMAIN ranges, {}), NEW entries,
           patches \subseteq [start : Nat, end : Nat],
           \A p \in patches : p.start < p.end /\ \E i \in DOMAIN ranges : ranges[i] = p
    PROVE  /\ Good(WithEntries(q, entries), DOMAIN ranges, {})
           /\ \A p \in patches : \E i \in WithEntries(q, entries).selected : ranges[i] = p
<1> DEFINE D == DOMAIN ranges
           I == {RangeIndexFor(p.start) : p \in patches}
           r == SelectEach(q, Only(entries))
           t == SelectEach(r, Only(I))
<1>1. ranges \in Seq([start : Nat, end : Nat]) /\ D \subseteq Nat \ {0} BY RangesTyped DEF Ranges
<1>2. WithEntries(q, entries) = t BY DEF WithEntries
<1>3. Good(r, D, {})
  <2> DEFINE is == Only(entries)
  <2>1. Len(is) \in Nat /\ \A k \in 1 .. Len(is) : is[k] \in D \cup {0} BY <1>1, OnlyIs
  <2> HIDE DEF is, D
  <2> QED BY <1>1, <2>1, SelectEachIs DEF D, is
<1> HIDE DEF r
<1>4. Good(t, D, {}) /\ I \cap D \subseteq t.selected
  <2> DEFINE is == Only(I)
  <2>1. /\ Len(is) \in Nat /\ \A k \in 1 .. Len(is) : is[k] \in D \cup {0}
        /\ Members(is) = I \cap D
        BY <1>1, OnlyIs
  <2>2. t = SelectEach(r, is) OBVIOUS
  <2> HIDE DEF is, t, I
  <2>3. /\ Good(SelectEach(r, is), D, {})
        /\ Has(SelectEach(r, is), Members(is))
        BY <1>1, <1>3, <2>1, SelectEachIs
  <2> QED BY <2>1, <2>2, <2>3 DEF Has
<1> HIDE DEF t
<1>5. ASSUME NEW p \in patches PROVE \E i \in t.selected : ranges[i] = p
  <2>1. PICK i \in D : ranges[i] = p OBVIOUS
  <2>2. p.start \in Nat /\ p.end \in Nat /\ p.start < p.end OBVIOUS
  <2>3. Spans(ranges[i], p.start) BY <2>1, <2>2 DEF Spans
  <2>4. RangeIndexFor(p.start) = i BY <2>1, <2>2, <2>3, SearchIs
  <2>5. i \in I \cap D BY <2>1, <2>4
  <2> QED BY <1>4, <2>1, <2>5
<1> QED BY <1>2, <1>4, <1>5

LEMMA SectionsTyped ==
    /\ Len(Sections) \in Nat /\ DOMAIN Sections = 1 .. Len(Sections) /\ 1 \in DOMAIN Sections
    /\ \A s \in DOMAIN Sections :
          /\ Sections[s].start \in Nat /\ Sections[s].end \in Nat
          /\ Sections[s].start <= Sections[s].end
          /\ Sections[s] \in [start : Nat, end : Nat]
<1>1. Sections \in Seq([start : Nat, end : Nat]) /\ Sections # <<>> BY PlanAssumption
<1>2. /\ Len(Sections) \in Nat /\ DOMAIN Sections = 1 .. Len(Sections) /\ Len(Sections) # 0
      BY <1>1
<1>3. \A s \in 1 .. Len(Sections) : Sections[s] \in [start : Nat, end : Nat]
      BY <1>1, Elements
<1> QED BY <1>2, <1>3, PlanAssumption

LEMMA InAddress ==
    ASSUME NEW s \in DOMAIN Sections, NEW a \in Int,
           Sections[s].start <= a, a < Sections[s].end
    PROVE  a \in Address
<1>1. a \in Sections[s].start .. Sections[s].end - 1 BY SectionsTyped
<1> QED BY <1>1 DEF Address

LEMMA AddressIs ==
    ASSUME NEW a \in Address
    PROVE  /\ a \in Nat
           /\ \E s \in DOMAIN Sections : Sections[s].start <= a /\ a < Sections[s].end
<1>1. PICK s \in DOMAIN Sections : a \in Sections[s].start .. Sections[s].end - 1 BY DEF Address
<1> QED BY <1>1, SectionsTyped

LEMMA TargetsAre ==
    ASSUME Ranges, program \in Codes, NEW i \in DOMAIN ranges, NEW phase_
    PROVE  \E n \in Nat : ProfileTargets(phase_, i) \in [1 .. n -> Int]
<1> DEFINE r == ranges[i]
           n == r.end - r.start
<1>1. r.start \in Nat /\ r.end \in Nat /\ r.start < r.end /\ n \in Nat
      BY RangesTyped DEF Ranges, InOrder
<1>2. PICK s \in DOMAIN Sections : Lies(r, s) BY DEF Ranges, InOrder
<1>3. ASSUME NEW a \in Int, r.start <= a, a < r.end PROVE program[a].to \in Int
  <2>1. a \in Address BY <1>1, <1>2, <1>3, InAddress, SectionsTyped DEF Lies
  <2>2. program \in [Address -> [op : STRING, linked : BOOLEAN, to : Nat]] BY PlanAssumption
  <2> QED BY <2>1, <2>2
<1>4. CASE PatchAt(ranges[i].start) # {}
  <2>1. ProfileTargets(phase_, i) = <<>> BY <1>4 DEF ProfileTargets
  <2>2. <<>> \in [1 .. 0 -> Int] OBVIOUS
  <2> QED BY <2>1, <2>2
<1>5. CASE PatchAt(ranges[i].start) = {} /\ phase_ = "calls"
  <2> DEFINE isCall(a) == program[a].op \in {"branch", "cond"} /\ program[a].linked
             target(a) == IF isCall(a) THEN program[a].to ELSE NoTarget
  <2>1. ProfileTargets(phase_, i) = CallTargets(i) BY <1>5 DEF ProfileTargets
  <2>2. CallTargets(i) = [k \in 1 .. n |-> target(r.start + k - 1)] BY DEF CallTargets
  <2>3. ASSUME NEW k \in 1 .. n PROVE target(r.start + k - 1) \in Int
    <3>1. r.start + k - 1 \in Int /\ r.start <= r.start + k - 1 /\ r.start + k - 1 < r.end
          BY <1>1
    <3>2. program[r.start + k - 1].to \in Int BY <1>3, <3>1
    <3> QED BY <3>2 DEF NoTarget
  <2> HIDE DEF target, n
  <2>4. [k \in 1 .. n |-> target(r.start + k - 1)] \in [1 .. n -> Int] BY <2>3
  <2> QED BY <1>1, <2>1, <2>2, <2>4
<1>6. CASE PatchAt(ranges[i].start) = {} /\ phase_ # "calls"
  <2> DEFINE jumps(a) == program[a].op \in {"branch", "cond"} /\ ~program[a].linked
             falls(a) == program[a].op \in {"cond", "conditional return"}
             jump(a) == IF jumps(a) THEN program[a].to ELSE NoTarget
             fall(a) == IF falls(a) THEN a + 1 ELSE NoTarget
             behind == IF r.end < Sections[SectionOf(r)].end /\ HasFallthrough(r.end - 1)
                       THEN r.end ELSE NoTarget
             to(k) == IF k = 2 * n + 1 THEN behind
                      ELSE IF k % 2 = 1 THEN jump(r.start + (k - 1) \div 2)
                      ELSE fall(r.start + (k - 1) \div 2)
  <2>1. ProfileTargets(phase_, i) = SuccessorTargets(i) BY <1>6 DEF ProfileTargets
  <2>2. SuccessorTargets(i) = [k \in 1 .. 2 * n + 1 |-> to(k)] BY DEF SuccessorTargets
  <2>3. behind \in Int BY <1>1 DEF NoTarget
  <2>4. ASSUME NEW k \in 1 .. 2 * n + 1 PROVE to(k) \in Int
    <3>1. CASE k = 2 * n + 1 BY <2>3, <3>1
    <3>2. CASE k # 2 * n + 1
      <4> DEFINE a == r.start + (k - 1) \div 2
      <4>1. a \in Int /\ r.start <= a /\ a < r.end BY <1>1, <3>2
      <4> HIDE DEF a
      <4>2. program[a].to \in Int BY <1>3, <4>1
      <4>3. jump(a) \in Int /\ fall(a) \in Int BY <4>1, <4>2 DEF NoTarget
      <4> HIDE DEF jump, fall
      <4> QED BY <3>2, <4>3 DEF a
    <3> QED BY <3>1, <3>2
  <2> HIDE DEF to
  <2>5. 2 * n + 1 \in Nat BY <1>1
  <2> DEFINE m == 2 * n + 1
  <2> HIDE DEF n, m
  <2>6. [k \in 1 .. m |-> to(k)] \in [1 .. m -> Int] BY <2>4 DEF m
  <2> QED BY <2>1, <2>2, <2>5, <2>6 DEF m
<1> QED BY <1>4, <1>5, <1>6

LEMMA TargetRangesAre ==
    ASSUME Ranges, program \in Codes, NEW i \in DOMAIN ranges, NEW phase_
    PROVE  /\ Len(TargetRanges(phase_, i)) \in Nat
           /\ \A k \in 1 .. Len(TargetRanges(phase_, i)) :
                 TargetRanges(phase_, i)[k] \in DOMAIN ranges \cup {0}
           /\ Reached(phase_, i) = Members(TargetRanges(phase_, i))
           /\ Reached(phase_, i) \subseteq DOMAIN ranges
<1> DEFINE T == ProfileTargets(phase_, i)
           is == TargetRanges(phase_, i)
<1>1. PICK n \in Nat : T \in [1 .. n -> Int] BY TargetsAre
<1>2. is = [k \in DOMAIN T |-> RangeIndexFor(T[k])] BY DEF TargetRanges
<1> HIDE DEF T, is
<1>3. is = [k \in 1 .. n |-> RangeIndexFor(T[k])] BY <1>1, <1>2
<1>4. Len(is) = n /\ DOMAIN is = 1 .. n BY <1>1, <1>3
<1>5. ASSUME NEW k \in 1 .. n PROVE is[k] \in DOMAIN ranges \cup {0}
  <2>1. T[k] \in Int /\ is[k] = RangeIndexFor(T[k]) BY <1>1, <1>3
  <2>2. RangeIndexFor(T[k]) \in 0 .. Len(ranges) BY <2>1, SearchIs
  <2> QED BY <2>1, <2>2, RangesTyped DEF Ranges
<1>6. Reached(phase_, i) = Members(is) BY <1>4 DEF Reached, Range, Members, is
<1>7. Members(is) \subseteq DOMAIN ranges BY <1>4, <1>5 DEF Members
<1> QED BY <1>4, <1>5, <1>6, <1>7 DEF is

(* One run of a closure.                                                   *)
Spread(phase_, J) == J \cup UNION {Reached(phase_, i) : i \in J}

SpreadRun(w, I, phase_, n) ==
    w[0] = I /\ \A k \in 1 .. n : w[k] = Spread(phase_, w[k - 1])

LEMMA WithinRuns ==
    ASSUME Ranges, program \in Codes, NEW I, I \subseteq DOMAIN ranges, NEW phase_, NEW n \in Nat
    PROVE  \E w : /\ SpreadRun(w, I, phase_, n) /\ Within(I, phase_, n) = w[n]
                  /\ \A k \in 0 .. n : w[k] \subseteq DOMAIN ranges
<1> DEFINE R(v) == v = [k \in 0 .. n |->
                           IF k = 0 THEN I
                           ELSE v[k - 1] \cup UNION {Reached(phase_, i) : i \in v[k - 1]}]
           S == SUBSET DOMAIN ranges
           g == [k \in 1 .. n |-> [J \in S |-> Spread(phase_, J)]]
           within == CHOOSE v : R(v)
<1>1. Within(I, phase_, n) = within[n] BY DEF Within
<1>2. ASSUME NEW J \in S PROVE Spread(phase_, J) \in S BY TargetRangesAre DEF Spread
<1>3. I \in S OBVIOUS
<1> HIDE DEF S
<1>4. PICK h \in [0 .. n -> S] : Runs(h, n, I, g)
  <2>1. g \in [1 .. n -> [S -> S]] BY <1>2
  <2> HIDE DEF g
  <2> QED BY <1>3, <2>1, RunExists
<1> DEFINE V(v) == v = [k \in 0 .. n |-> IF k = 0 THEN I ELSE Spread(phase_, v[k - 1])]
<1>5. V(h)
  <2>1. ASSUME NEW k \in 0 .. n
        PROVE  h[k] = IF k = 0 THEN I ELSE Spread(phase_, h[k - 1])
    <3>1. CASE k = 0 BY <1>4, <3>1 DEF Runs
    <3>2. CASE k # 0
      <4>1. k \in 1 .. n /\ k - 1 \in 0 .. n BY <3>2
      <4>2. h[k] = g[k][h[k - 1]] /\ h[k - 1] \in S BY <1>4, <4>1 DEF Runs
      <4> QED BY <3>2, <4>1, <4>2
    <3> QED BY <3>1, <3>2
  <2> QED BY <2>1
<1>6. \A v : V(v) <=> R(v) BY DEF Spread
<1>7. R(within)
  <2>1. R(h)
    <3> HIDE DEF V, R
    <3> QED BY <1>5, <1>6
  <2> HIDE DEF R
  <2> QED BY <2>1
<1> HIDE DEF within, g
<1>8. V(within)
  <2> HIDE DEF V, R
  <2> QED BY <1>6, <1>7
<1> HIDE DEF R
<1>9. within[0] = I /\ \A k \in 1 .. n : within[k] = Spread(phase_, within[k - 1])
  <2>1. 0 \in 0 .. n /\ \A k \in 1 .. n : k \in 0 .. n /\ k # 0 OBVIOUS
  <2> QED BY <1>8, <2>1
<1> HIDE DEF V
<1>10. \A k \in 0 .. n : within[k] \in S
  <2>1. within[0] \in S /\ \A k \in 1 .. n : within[k - 1] \in S => within[k] \in S
        BY <1>2, <1>3, <1>9
  <2> QED BY <2>1, RunStays
<1> QED BY <1>1, <1>9, <1>10 DEF S, SpreadRun

LEMMA WithinIs ==
    ASSUME Ranges, program \in Codes, NEW I, I \subseteq DOMAIN ranges, NEW phase_, NEW n \in Nat
    PROVE  /\ Within(I, phase_, 0) = I
           /\ Within(I, phase_, n) \subseteq DOMAIN ranges
           /\ Within(I, phase_, n + 1) = Spread(phase_, Within(I, phase_, n))
<1>1. Within(I, phase_, 0) = I
  <2>1. PICK w : SpreadRun(w, I, phase_, 0) /\ Within(I, phase_, 0) = w[0] BY WithinRuns
  <2> QED BY <2>1 DEF SpreadRun
<1>2. PICK w : /\ SpreadRun(w, I, phase_, n) /\ Within(I, phase_, n) = w[n]
               /\ \A k \in 0 .. n : w[k] \subseteq DOMAIN ranges
      BY WithinRuns
<1>3. PICK u : SpreadRun(u, I, phase_, n + 1) /\ Within(I, phase_, n + 1) = u[n + 1]
  <2>1. n + 1 \in Nat OBVIOUS
  <2> QED BY <2>1, WithinRuns
<1> DEFINE T == {k \in 0 .. n : u[k] = w[k]}
<1>4. 0 .. n \subseteq T
  <2>1. 0 \in T BY <1>2, <1>3 DEF SpreadRun
  <2>2. ASSUME NEW k \in 1 .. n, k - 1 \in T PROVE k \in T
    <3>1. k \in 1 .. n + 1 /\ k \in 0 .. n OBVIOUS
    <3>2. u[k] = Spread(phase_, u[k - 1]) /\ w[k] = Spread(phase_, w[k - 1])
          BY <1>2, <1>3, <3>1 DEF SpreadRun
    <3> QED BY <2>2, <3>1, <3>2
  <2> HIDE DEF T
  <2> QED BY <2>1, <2>2, UpTo
<1>5. u[n] = w[n] BY <1>4
<1>6. u[n + 1] = Spread(phase_, u[n])
  <2>1. n + 1 \in 1 .. n + 1 /\ n + 1 - 1 = n OBVIOUS
  <2> QED BY <1>3, <2>1 DEF SpreadRun
<1>7. n \in 0 .. n OBVIOUS
<1> QED BY <1>1, <1>2, <1>3, <1>5, <1>6, <1>7

LEMMA PatchesAre ==
    ASSUME patches \in PatchSets
    PROVE  /\ patches \subseteq [start : Nat, end : Nat]
           /\ \A p \in patches :
                 /\ p.start \in Nat /\ p.end \in Nat /\ p.start < p.end
                 /\ \E s \in DOMAIN Sections :
                       Sections[s].start <= p.start /\ p.end <= Sections[s].end
           /\ \A p, q \in patches : p = q \/ p.end <= q.start \/ q.end <= p.start
<1>1. /\ patches \subseteq [start : Nat, end : Nat]
      /\ \A p \in patches :
            /\ p.start < p.end
            /\ \E s \in DOMAIN Sections :
                  Sections[s].start <= p.start /\ p.end <= Sections[s].end
      /\ \A p, q \in patches : p = q \/ p.end <= q.start \/ q.end <= p.start
      BY PlanAssumption
<1> QED BY <1>1

(* In ascending order, only one section is around an address.               *)
LEMMA OneSection ==
    ASSUME Ascending, NEW s \in DOMAIN Sections, NEW t \in DOMAIN Sections, NEW a \in Int,
           Sections[s].start <= a, a < Sections[s].end,
           Sections[t].start <= a, a < Sections[t].end
    PROVE  s = t
<1>1. s \in Int /\ t \in Int BY SectionsTyped
<1>2. ~(s < t) BY SectionsTyped DEF Ascending
<1>3. ~(t < s) BY SectionsTyped DEF Ascending
<1> QED BY <1>1, <1>2, <1>3

LEMMA EndsAscend ==
    ASSUME Ascending, NEW s \in DOMAIN Sections, NEW t \in DOMAIN Sections, s <= t
    PROVE  Sections[s].end <= Sections[t].end
<1>1. CASE s = t BY <1>1, SectionsTyped
<1>2. CASE s < t BY <1>2, SectionsTyped DEF Ascending
<1> QED BY <1>1, <1>2, SectionsTyped

LEMMA PointsAre ==
    ASSUME Ascending, program \in Codes, extra \in ExtraPoints, patches \in PatchSets
    PROVE  /\ PartitionPoints \subseteq Nat /\ IsFiniteSet(PartitionPoints)
           /\ \A p \in patches : p.start \in PartitionPoints /\ p.end \in PartitionPoints
<1> DEFINE m == Len(Sections)
           top == Sections[m].end
<1>1. m \in DOMAIN Sections /\ top \in Nat /\ \A s \in DOMAIN Sections : s <= m
      BY SectionsTyped
<1>2. \A s \in DOMAIN Sections : Sections[s].end <= top BY <1>1, EndsAscend
<1>3. \A a \in Address : a \in Nat /\ a <= top
  <2> SUFFICES ASSUME NEW a \in Address PROVE a \in Nat /\ a <= top OBVIOUS
  <2>1. PICK s \in DOMAIN Sections : Sections[s].start <= a /\ a < Sections[s].end BY AddressIs
  <2>2. a \in Nat BY AddressIs
  <2> HIDE DEF top
  <2> QED BY <1>1, <1>2, <2>1, <2>2, SectionsTyped
<1>4. \A p \in patches : p.start \in Nat /\ p.end \in Nat /\ p.start <= top /\ p.end <= top
  <2> SUFFICES ASSUME NEW p \in patches
               PROVE  p.start \in Nat /\ p.end \in Nat /\ p.start <= top /\ p.end <= top
      OBVIOUS
  <2>1. PICK s \in DOMAIN Sections : Sections[s].start <= p.start /\ p.end <= Sections[s].end
        BY PatchesAre
  <2>2. p.start \in Nat /\ p.end \in Nat /\ p.start < p.end BY PatchesAre
  <2> HIDE DEF top
  <2> QED BY <1>1, <1>2, <2>1, <2>2, SectionsTyped
<1>5. \A a \in PatchPoints : a \in Nat /\ a <= top BY <1>4 DEF PatchPoints
<1>6. \A a \in PartitionPoints : a \in Nat /\ a <= top
  <2>1. \A a \in PartitionPoints : a \in Address \/ a \in PatchPoints BY DEF PartitionPoints
  <2> HIDE DEF top
  <2> QED BY <1>3, <1>5, <2>1
<1> HIDE DEF top
<1>7. IsFiniteSet(PartitionPoints)
  <2>1. PartitionPoints \in SUBSET Nat BY <1>6
  <2> QED BY <1>1, <1>6, <2>1, FS_BoundedSetOfNaturals
<1>8. \A p \in patches : p.start \in PartitionPoints /\ p.end \in PartitionPoints
      BY DEF PartitionPoints, PatchPoints
<1> QED BY <1>6, <1>7, <1>8

LEMMA SectionRoomIs ==
    ASSUME NEW s \in DOMAIN Sections
    PROVE  /\ SectionRoom(s) \in Nat
           /\ \A k \in Nat : k * Chunk < SectionSize(s) => k + 1 <= SectionRoom(s)
<1> DEFINE size == SectionSize(s)
           c == SectionRoom(s)
<1>1. size \in Nat /\ Chunk \in Nat \ {0} /\ c = (size + Chunk - 1) \div Chunk
      BY SectionsTyped, PlanAssumption DEF SectionSize, SectionRoom
<1> HIDE DEF size, c
<1>2. c * Chunk \in Nat /\ c * Chunk >= size BY <1>1, RoundedUp
<1>3. c \in Nat
  <2>1. c \in Int BY <1>1, DivMod
  <2>2. ~(c < 0)
    <3> SUFFICES ASSUME c < 0 PROVE FALSE OBVIOUS
    <3>1. c + 1 <= 0 BY <2>1
    <3>2. c * Chunk + Chunk <= 0 * Chunk BY <1>1, <2>1, <3>1, Products
    <3> QED BY <1>1, <1>2, <3>2
  <2> QED BY <2>1, <2>2
<1>4. ASSUME NEW k \in Nat, k * Chunk < size PROVE k + 1 <= c
  <2> SUFFICES ASSUME c < k + 1 PROVE FALSE BY <1>3
  <2>1. c + 1 <= k + 1 BY <1>3
  <2>2. c * Chunk + Chunk <= (k + 1) * Chunk BY <1>1, <1>3, <2>1, Products
  <2>3. (k + 1) * Chunk = k * Chunk + Chunk /\ k * Chunk \in Int BY <1>1, Multiples
  <2> QED BY <1>1, <1>2, <1>4, <2>2, <2>3
<1> QED BY <1>3, <1>4 DEF size, c

LEMMA RoomIs ==
    /\ Room[0] = 0
    /\ \A s \in DOMAIN Sections :
          Room[s - 1] \in Nat /\ Room[s] \in Nat /\ Room[s] = Room[s - 1] + SectionRoom(s)
<1> DEFINE N == Len(Sections)
           R(v) == v = [s \in 0 .. Len(Sections) |->
                           IF s = 0 THEN 0
                           ELSE v[s - 1] + (SectionSize(s) + Chunk - 1) \div Chunk]
           g == [s \in 1 .. N |-> [x \in Nat |-> x + SectionRoom(s)]]
           room == CHOOSE v : R(v)
<1>1. N \in Nat /\ DOMAIN Sections = 1 .. N BY SectionsTyped
<1>2. Room = room BY DEF Room
<1>3. \A s \in 1 .. N : SectionRoom(s) \in Nat BY <1>1, SectionRoomIs
<1> HIDE DEF N
<1>4. PICK h \in [0 .. N -> Nat] : Runs(h, N, 0, g)
  <2>1. g \in [1 .. N -> [Nat -> Nat]] BY <1>3
  <2> HIDE DEF g
  <2> QED BY <1>1, <2>1, RunExists
<1> DEFINE V(v) == v = [s \in 0 .. N |-> IF s = 0 THEN 0 ELSE v[s - 1] + SectionRoom(s)]
<1>5. V(h)
  <2>1. ASSUME NEW s \in 0 .. N PROVE h[s] = IF s = 0 THEN 0 ELSE h[s - 1] + SectionRoom(s)
    <3>1. CASE s = 0 BY <1>4, <3>1 DEF Runs
    <3>2. CASE s # 0
      <4>1. s \in 1 .. N /\ s - 1 \in 0 .. N BY <1>1, <3>2
      <4>2. h[s] = g[s][h[s - 1]] /\ h[s - 1] \in Nat BY <1>4, <4>1 DEF Runs
      <4> QED BY <3>2, <4>1, <4>2
    <3> QED BY <3>1, <3>2
  <2> QED BY <2>1
<1>6. \A v : V(v) <=> R(v) BY DEF N, SectionRoom
<1>7. R(room)
  <2>1. R(h)
    <3> HIDE DEF V, R
    <3> QED BY <1>5, <1>6
  <2> HIDE DEF R
  <2> QED BY <2>1
<1> HIDE DEF room, g
<1>8. V(room)
  <2> HIDE DEF V, R
  <2> QED BY <1>6, <1>7
<1> HIDE DEF R
<1>9. room[0] = 0 /\ \A s \in 1 .. N : room[s] = room[s - 1] + SectionRoom(s)
  <2>1. 0 \in 0 .. N /\ \A s \in 1 .. N : s \in 0 .. N /\ s # 0 BY <1>1
  <2> QED BY <1>8, <2>1
<1> HIDE DEF V
<1>10. \A s \in 0 .. N : room[s] \in Nat
  <2>1. room[0] \in Nat /\ \A s \in 1 .. N : room[s - 1] \in Nat => room[s] \in Nat
        BY <1>3, <1>9
  <2> QED BY <1>1, <2>1, RunStays
<1>11. \A s \in 1 .. N : s \in 0 .. N /\ s - 1 \in 0 .. N BY <1>1
<1> QED BY <1>1, <1>2, <1>9, <1>10, <1>11

(* Where the next range ends.                                               *)
LEMMA RangeEndIs ==
    ASSUME Ascending, PlanTypes, Sections[section].start <= next, next < Sections[section].end,
           NEW e, e = RangeEnd(next, Sections[section].end)
    PROVE  /\ e \in Nat /\ next < e /\ e <= Sections[section].end
           /\ \A p \in patches : p.start = next => [start |-> next, end |-> e] = p
           /\ \A p \in patches : next < p.start => e <= p.start
           /\ \/ [start |-> next, end |-> e] \in patches
              \/ /\ e - next <= Chunk
                 /\ \A p \in PartitionPoints : p <= next \/ p >= e
           /\ e \in PartitionPoints \/ e = Sections[section].end \/ e = next + Chunk
<1> DEFINE sectionEnd == Sections[section].end
<1>1. /\ section \in DOMAIN Sections /\ next \in Nat /\ sectionEnd \in Nat
      /\ Chunk \in Nat \ {0}
      BY SectionsTyped, PlanAssumption DEF PlanTypes
<1>2. /\ patches \subseteq [start : Nat, end : Nat]
      /\ \A p \in patches :
            /\ p.start \in Nat /\ p.end \in Nat /\ p.start < p.end
            /\ \E s \in DOMAIN Sections :
                  Sections[s].start <= p.start /\ p.end <= Sections[s].end
      /\ \A p, q \in patches : p = q \/ p.end <= q.start \/ q.end <= p.start
      BY PatchesAre DEF PlanTypes
<1>3. /\ PartitionPoints \subseteq Nat
      /\ \A p \in patches : p.start \in PartitionPoints /\ p.end \in PartitionPoints
      BY PointsAre DEF PlanTypes
<1>4. CASE PatchAt(next) # {}
  <2>1. e = (CHOOSE p \in PatchAt(next) : TRUE).end BY <1>4 DEF RangeEnd
  <2>2. PICK p \in PatchAt(next) : e = p.end BY <1>4, <2>1
  <2>3. p \in patches /\ p.start = next BY DEF PatchAt
  <2>4. p \in [start : Nat, end : Nat] /\ e \in Nat /\ next < e BY <1>2, <2>2, <2>3
  <2>5. [start |-> next, end |-> e] = p BY <2>2, <2>3, <2>4
  <2>6. ASSUME NEW q \in patches PROVE (q.start = next => q = p) /\ (next < q.start => e <= q.start)
        BY <1>1, <1>2, <2>2, <2>3, <2>4
  <2>7. e <= sectionEnd
    <3>1. PICK s \in DOMAIN Sections : Sections[s].start <= next /\ e <= Sections[s].end
          BY <1>2, <2>2, <2>3
    <3>2. next < Sections[s].end BY <1>1, <2>4, <3>1, SectionsTyped
    <3>3. s = section BY <1>1, <3>1, <3>2, OneSection
    <3> QED BY <3>1, <3>3
  <2>8. e \in PartitionPoints BY <1>3, <2>2, <2>3
  <2> QED BY <2>3, <2>4, <2>5, <2>6, <2>7, <2>8
<1>5. CASE PatchAt(next) = {}
  <2> DEFINE limit == Min({sectionEnd, next + Chunk})
             T == {p \in PartitionPoints : p > next /\ p < limit} \cup {limit}
  <2>1. e = Min(T) BY <1>5 DEF RangeEnd, NextPoint
  <2>2. limit \in Nat /\ next < limit /\ limit <= sectionEnd /\ limit <= next + Chunk
        /\ (limit = sectionEnd \/ limit = next + Chunk)
    <3> DEFINE U == {sectionEnd, next + Chunk}
    <3>1. U \subseteq Nat /\ U # {} BY <1>1
    <3>2. limit \in U /\ \A m \in U : limit <= m BY <3>1, LeastIsMin
    <3> HIDE DEF limit, sectionEnd
    <3>3. (limit = sectionEnd \/ limit = next + Chunk) /\ limit <= sectionEnd /\ limit <= next + Chunk
          BY <3>2
    <3> QED BY <1>1, <3>3 DEF sectionEnd
  <2> HIDE DEF limit
  <2>3. T \subseteq Nat /\ T # {} BY <1>3, <2>2
  <2>4. e \in T /\ \A m \in T : e <= m
    <3> HIDE DEF T
    <3> QED BY <2>1, <2>3, LeastIsMin
  <2>5. e \in Nat /\ next < e /\ e <= limit BY <2>2, <2>3, <2>4
  <2>6. ASSUME NEW p \in PartitionPoints PROVE p <= next \/ p >= e
    <3>1. p \in Nat BY <1>3
    <3>2. CASE p > next /\ p < limit BY <2>4, <2>5, <3>1, <3>2
    <3>3. CASE ~(p < limit) BY <2>2, <2>5, <3>1, <3>3
    <3> QED BY <1>1, <2>2, <3>1, <3>2, <3>3
  <2>7. ASSUME NEW p \in patches PROVE p.start # next /\ (next < p.start => e <= p.start)
    <3>1. p.start # next BY <1>5 DEF PatchAt
    <3>2. p.start \in PartitionPoints /\ p.start \in Nat BY <1>2, <1>3
    <3> QED BY <1>1, <2>5, <2>6, <3>1, <3>2
  <2>8. e \in PartitionPoints \/ e = limit BY <2>4
  <2>9. e - next <= Chunk BY <1>1, <2>2, <2>5
  <2> HIDE DEF T
  <2>10. e <= sectionEnd /\ (e \in PartitionPoints \/ e = sectionEnd \/ e = next + Chunk)
         BY <1>1, <2>2, <2>5, <2>8
  <2>11. \A p \in patches : p.start # next /\ (next < p.start => e <= p.start) BY <2>7
  <2>12. \A p \in PartitionPoints : p <= next \/ p >= e BY <2>6
  <2> QED BY <2>5, <2>9, <2>10, <2>11, <2>12
<1> QED BY <1>4, <1>5

LEMMA PointsGrow ==
    ASSUME Ascending, program \in Codes, extra \in ExtraPoints, patches \in PatchSets,
           NEW a \in Nat, NEW b \in Nat, a <= b
    PROVE  /\ Cardinality(PointsUpTo(a)) \in Nat /\ Cardinality(PointsUpTo(b)) \in Nat
           /\ Cardinality(PointsUpTo(a)) <= Cardinality(PointsUpTo(b))
           /\ Cardinality(PointsUpTo(b)) <= Cardinality(PartitionPoints)
           /\ Cardinality(PartitionPoints) \in Nat
           /\ a < b /\ b \in PartitionPoints =>
                 Cardinality(PointsUpTo(a)) + 1 <= Cardinality(PointsUpTo(b))
<1> DEFINE A == PointsUpTo(a)
           B == PointsUpTo(b)
<1>1. PartitionPoints \subseteq Nat /\ IsFiniteSet(PartitionPoints) BY PointsAre
<1>2. A \subseteq B /\ B \subseteq PartitionPoints
  <2>1. ASSUME NEW x \in A PROVE x \in B
    <3>1. x \in PartitionPoints /\ x <= a /\ x \in Nat BY <1>1 DEF PointsUpTo
    <3>2. x <= b BY <3>1
    <3> QED BY <3>1, <3>2 DEF PointsUpTo
  <2>2. \A x \in B : x \in PartitionPoints BY DEF PointsUpTo
  <2> QED BY <2>1, <2>2
<1>3. a < b => b \notin A BY <1>1 DEF PointsUpTo
<1>4. b \in PartitionPoints => b \in B BY <1>1 DEF PointsUpTo
<1> HIDE DEF A, B
<1>5. IsFiniteSet(B) /\ Cardinality(B) <= Cardinality(PartitionPoints) BY <1>1, <1>2, FS_Subset
<1>6. IsFiniteSet(A) /\ Cardinality(A) <= Cardinality(B) BY <1>2, <1>5, FS_Subset
<1>7. Cardinality(A) \in Nat /\ Cardinality(B) \in Nat /\ Cardinality(PartitionPoints) \in Nat
      BY <1>1, <1>5, <1>6, FS_CardinalityType
<1>8. ASSUME a < b, b \in PartitionPoints PROVE Cardinality(A) + 1 <= Cardinality(B)
  <2>1. Cardinality(A \cup {b}) = Cardinality(A) + 1 BY <1>3, <1>6, <1>8, FS_AddElement
  <2>2. A \cup {b} \in SUBSET B BY <1>2, <1>4, <1>8
  <2>3. Cardinality(A \cup {b}) <= Cardinality(B) BY <1>5, <2>2, FS_Subset
  <2> QED BY <2>1, <2>3
<1> QED BY <1>5, <1>6, <1>7, <1>8 DEF A, B

(* A range that ends short of a chunk has used up a point or the section.  *)
LEMMA BuildRangeKeeps ==
    ASSUME Ascending, PlanInv, BuildRange
    PROVE  PlanInv'
<1> DEFINE e == RangeEnd(next, Sections[section].end)
           r == [start |-> next, end |-> e]
           n == Len(ranges)
<1>1. /\ planPhase = "build" /\ next < Sections[section].end
      /\ ranges' = Append(ranges, r) /\ next' = e
      /\ program' = program /\ extra' = extra /\ patches' = patches
      /\ planPhase' = planPhase /\ section' = section /\ objects' = objects
      BY DEF BuildRange, planInput
<1>2. /\ PlanTypes /\ section \in DOMAIN Sections /\ next \in Nat
      /\ program \in Codes /\ extra \in ExtraPoints /\ patches \in PatchSets
      /\ ranges \in Seq([start : Nat, end : Nat])
      BY DEF PlanInv, PlanTypes
<1>3. /\ Sections[section].start <= next
      /\ \/ next = Sections[section].start
         \/ ranges # <<>> /\ ranges[n].end = next
      /\ \A i \in DOMAIN ranges : ranges[i].end <= next
      /\ \A a \in Address : a < next => \E i \in DOMAIN ranges : Spans(ranges[i], a)
      /\ \A p \in patches : p.start < next => \E i \in DOMAIN ranges : ranges[i] = p
      /\ \E k \in Nat : RoomLeft(k)
      BY <1>1 DEF PlanInv, Building
<1>4. /\ e \in Nat /\ next < e /\ e <= Sections[section].end
      /\ \A p \in patches : p.start = next => r = p
      /\ \A p \in patches : next < p.start => e <= p.start
      /\ \/ r \in patches
         \/ /\ e - next <= Chunk
            /\ \A p \in PartitionPoints : p <= next \/ p >= e
      /\ e \in PartitionPoints \/ e = Sections[section].end \/ e = next + Chunk
      BY <1>1, <1>2, <1>3, RangeEndIs
<1> HIDE DEF e
<1>5. r \in [start : Nat, end : Nat] /\ r.start = next /\ r.end = e BY <1>2, <1>4
<1> HIDE DEF r
<1>6. /\ n \in Nat /\ DOMAIN ranges = 1 .. n
      /\ \A i \in 1 .. n : ranges[i].start \in Nat /\ ranges[i].end \in Nat
      BY <1>2, RangesTyped
<1>7. /\ ranges' \in Seq([start : Nat, end : Nat]) /\ Len(ranges') = n + 1
      /\ DOMAIN ranges' = 1 .. n + 1
      /\ \A i \in 1 .. n : ranges'[i] = ranges[i]
      /\ ranges'[n + 1] = r
      BY <1>1, <1>2, <1>5
<1> HIDE DEF n
<1>8. \A i \in 1 .. n + 1 : i \in 1 .. n \/ i = n + 1 BY <1>6
<1>9. \A i \in 1 .. n : i \in 1 .. n + 1 BY <1>6
<1>10. n + 1 \in 1 .. n + 1 BY <1>6
<1>11. PartitionPoints' = PartitionPoints BY <1>1 DEF PartitionPoints, PatchPoints
<1>12. PlanTypes' BY <1>1, <1>2, <1>4, <1>7 DEF PlanTypes
<1>13. Sections[section].start \in Nat /\ Sections[section].end \in Nat BY <1>2, SectionsTyped
<1>14. Lies(r, section) BY <1>3, <1>4, <1>5 DEF Lies
<1>15. InOrder'
  <2>1. \A i \in 1 .. n :
            /\ ranges[i].start < ranges[i].end /\ ranges[i].end <= next
            /\ \E s \in DOMAIN Sections : Lies(ranges[i], s)
            /\ \A j \in 1 .. n : i < j => ranges[i].end <= ranges[j].start
        BY <1>3, <1>6 DEF PlanInv, InOrder
  <2>2. ASSUME NEW i \in 1 .. n + 1
        PROVE  /\ ranges'[i].start < ranges'[i].end
               /\ \E s \in DOMAIN Sections : Lies(ranges'[i], s)
    <3>1. CASE i \in 1 .. n BY <1>7, <2>1, <3>1
    <3>2. CASE i = n + 1 BY <1>2, <1>4, <1>5, <1>7, <1>14, <3>2
    <3> QED BY <1>8, <3>1, <3>2
  <2>3. ASSUME NEW i \in 1 .. n + 1, NEW j \in 1 .. n + 1, i < j
        PROVE  ranges'[i].end <= ranges'[j].start
    <3>1. i \in 1 .. n BY <1>6, <2>3
    <3>2. CASE j \in 1 .. n BY <1>7, <2>1, <2>3, <3>1, <3>2
    <3>3. CASE j = n + 1 BY <1>5, <1>7, <2>1, <3>1, <3>3
    <3> QED BY <1>8, <3>2, <3>3
  <2> QED BY <1>7, <2>2, <2>3 DEF InOrder, Lies
<1>16. Tiled'
  <2> SUFFICES ASSUME NEW i \in 1 .. n + 1 PROVE Abuts(i)' /\ Cut(i)'
      BY <1>7 DEF Tiled
  <2>1. CASE i \in 1 .. n
    <3>1. Abuts(i) /\ Cut(i) BY <1>1, <1>6, <2>1 DEF PlanInv, Tiled
    <3>2. ranges'[i] = ranges[i] /\ (i > 1 => ranges'[i - 1] = ranges[i - 1])
          BY <1>6, <1>7, <2>1
    <3>3. Abuts(i)' BY <3>1, <3>2 DEF Abuts, Lies
    <3>4. Cut(i)' BY <1>1, <1>11, <3>1, <3>2 DEF Cut
    <3> QED BY <3>3, <3>4
  <2>2. CASE i = n + 1
    <3>1. ranges'[i] = r BY <1>7, <2>2
    <3>2. \/ r.start = Sections[section].start
          \/ i > 1 /\ ranges'[i - 1].end = r.start
      <4>1. CASE next = Sections[section].start BY <1>5, <4>1
      <4>2. CASE ranges # <<>> /\ ranges[n].end = next
        <5>1. n # 0 BY <1>2, <4>2 DEF n
        <5>2. i > 1 /\ i - 1 = n /\ n \in 1 .. n BY <1>6, <2>2, <5>1
        <5> QED BY <1>5, <1>7, <4>2, <5>2
      <4> QED BY <1>3, <4>1, <4>2 DEF n
    <3>3. Abuts(i)' BY <1>2, <1>14, <3>1, <3>2 DEF Abuts, Lies
    <3>4. Cut(i)' BY <1>1, <1>4, <1>5, <1>11, <3>1 DEF Cut
    <3> QED BY <3>3, <3>4
  <2> QED BY <1>8, <2>1, <2>2
<1>17. \A i \in 1 .. n + 1 : ranges'[i].end <= e
  <2>1. ASSUME NEW i \in 1 .. n PROVE ranges[i].end <= e
    <3>1. ranges[i].end <= next /\ ranges[i].end \in Nat BY <1>3, <1>6
    <3> QED BY <1>2, <1>4, <3>1
  <2> QED BY <1>4, <1>5, <1>7, <1>8, <2>1
<1>18. ASSUME NEW a \in Address, a < e PROVE \E i \in 1 .. n + 1 : Spans(ranges'[i], a)
  <2>1. CASE a < next
    <3>1. PICK i \in 1 .. n : Spans(ranges[i], a) BY <1>3, <1>6, <2>1
    <3> QED BY <1>7, <1>9, <3>1
  <2>2. CASE next <= a BY <1>5, <1>7, <1>10, <1>18, <2>2 DEF Spans
  <2> QED BY <1>2, <2>1, <2>2, AddressIs
<1>19. ASSUME NEW p \in patches, p.start < e PROVE \E i \in 1 .. n + 1 : ranges'[i] = p
  <2>1. p.start \in Nat BY <1>2, PatchesAre
  <2>2. CASE p.start < next
    <3>1. PICK i \in 1 .. n : ranges[i] = p BY <1>3, <1>6, <2>2
    <3> QED BY <1>7, <1>9, <3>1
  <2>3. CASE p.start = next BY <1>4, <1>7, <1>10, <2>3
  <2>4. CASE next < p.start BY <1>4, <1>19, <2>1, <2>4
  <2> QED BY <1>2, <2>1, <2>2, <2>3, <2>4
<1>20. \E k \in Nat : RoomLeft(k)'
  <2> DEFINE u == Cardinality(PointsUpTo(next))
             v == Cardinality(PointsUpTo(e))
             m == Room[section - 1]
             c == SectionRoom(section)
             b == Sections[section].start
             z == Sections[section].end
  <2>1. PICK k \in Nat : RoomLeft(k) BY <1>3
  <2>2. n <= u + m + k /\ k <= c /\ k * Chunk <= next - b
        BY <1>1, <2>1 DEF RoomLeft, n
  <2>3. /\ u \in Nat /\ v \in Nat /\ u <= v
        /\ e \in PartitionPoints => u + 1 <= v
    <3>1. next <= e /\ next < e BY <1>2, <1>4
    <3>2. /\ Cardinality(PointsUpTo(next)) \in Nat /\ Cardinality(PointsUpTo(e)) \in Nat
          /\ Cardinality(PointsUpTo(next)) <= Cardinality(PointsUpTo(e))
          /\ next < e /\ e \in PartitionPoints =>
                Cardinality(PointsUpTo(next)) + 1 <= Cardinality(PointsUpTo(e))
          BY <1>2, <1>4, <3>1, PointsGrow
    <3> QED BY <3>1, <3>2
  <2>4. m \in Nat /\ c \in Nat /\ \A j \in Nat : j * Chunk < z - b => j + 1 <= c
        BY <1>2, RoomIs, SectionRoomIs DEF SectionSize
  <2>5. Chunk \in Nat \ {0} BY PlanAssumption
  <2>6. \A j \in Nat : j * Chunk \in Nat /\ (j + 1) * Chunk = j * Chunk + Chunk
        BY <2>5, Multiples
  <2>7. PointsUpTo(next)' = PointsUpTo(e) BY <1>1, <1>11 DEF PointsUpTo
  <2> HIDE DEF u, v, m, c, b, z
  <2>8. b \in Nat /\ z \in Nat /\ b <= next /\ next < z /\ e <= z
        BY <1>1, <1>3, <1>4, <1>13 DEF b, z
  <2>9. SUFFICES \E j \in Nat : n + 1 <= v + m + j /\ j <= c /\ (e < z => j * Chunk <= e - b)
    <3>1. PICK j \in Nat : n + 1 <= v + m + j /\ j <= c /\ (e < z => j * Chunk <= e - b) BY <2>9
    <3>2. /\ Room[section - 1]' = m /\ SectionRoom(section)' = c
          /\ Sections[section]'.start = b /\ Sections[section]'.end = z
          /\ Cardinality(PointsUpTo(next)') = v
          BY <1>1, <2>7 DEF v, m, c, b, z, SectionRoom, SectionSize
    <3>3. RoomLeft(j)' BY <1>1, <1>7, <3>1, <3>2 DEF RoomLeft
    <3> QED BY <3>3
  <2>10. k * Chunk \in Nat /\ (k + 1) * Chunk = k * Chunk + Chunk BY <2>6
  <2> DEFINE w == k * Chunk
  <2>11. w \in Nat /\ w <= next - b BY <2>2, <2>10
  <2>12. CASE e \in PartitionPoints
    <3>1. n + 1 <= v + m + k BY <1>6, <2>2, <2>3, <2>4, <2>12
    <3>2. w <= e - b
      <4> HIDE DEF w
      <4> QED BY <1>2, <1>4, <2>8, <2>11
    <3> QED BY <2>2, <3>1, <3>2
  <2>13. CASE e = Sections[section].end
    <3>1. e = z BY <2>13 DEF z
    <3>2. w < z - b
      <4> HIDE DEF w
      <4> QED BY <1>2, <2>8, <2>11
    <3>3. k + 1 <= c /\ k + 1 \in Nat BY <2>4, <3>2
    <3>4. n + 1 <= v + m + (k + 1) BY <1>6, <2>2, <2>3, <2>4
    <3>5. ~(e < z) BY <1>4, <3>1
    <3> QED BY <3>3, <3>4, <3>5
  <2>14. CASE e = next + Chunk
    <3> DEFINE x == (k + 1) * Chunk
    <3>1. x = w + Chunk BY <2>10
    <3>2. x <= e - b /\ w < z - b
      <4> HIDE DEF w, x
      <4> QED BY <1>2, <1>4, <2>5, <2>8, <2>11, <2>14, <3>1
    <3>3. k + 1 <= c /\ k + 1 \in Nat BY <2>4, <3>2
    <3>4. n + 1 <= v + m + (k + 1) BY <1>6, <2>2, <2>3, <2>4
    <3> QED BY <3>2, <3>3, <3>4
  <2> QED BY <1>4, <2>12, <2>13, <2>14
<1>21. Building'
  <2>1. /\ Sections[section]'.start <= next' /\ next' <= Sections[section]'.end
        /\ ranges' # <<>> /\ ranges'[Len(ranges')].end = next'
        BY <1>1, <1>2, <1>3, <1>4, <1>5, <1>7, <1>13
  <2> QED BY <1>1, <1>7, <1>17, <1>18, <1>19, <1>20, <2>1 DEF Building, Spans
<1>22. WholeCode' /\ PatchesKept' /\ Closing' BY <1>1 DEF WholeCode, Built, PatchesKept, Closing
<1>23. Batching' BY <1>1 DEF PlanInv, Batching
<1> QED BY <1>12, <1>15, <1>16, <1>21, <1>22, <1>23 DEF PlanInv

(* Behind a section, its instructions, patches and room are accounted for. *)
LEMMA NextSectionKeeps ==
    ASSUME Ascending, PlanInv, NEW profile \in BOOLEAN, NextSection(profile)
    PROVE  PlanInv'
<1>1. /\ planPhase = "build" /\ next >= Sections[section].end
      /\ ranges' = ranges /\ objects' = objects
      /\ program' = program /\ extra' = extra /\ patches' = patches
      BY DEF NextSection, planInput
<1>2. /\ PlanTypes /\ section \in DOMAIN Sections /\ next \in Nat
      /\ program \in Codes /\ extra \in ExtraPoints /\ patches \in PatchSets
      /\ ranges \in Seq([start : Nat, end : Nat])
      BY DEF PlanInv, PlanTypes
<1>3. /\ next <= Sections[section].end
      /\ \A i \in DOMAIN ranges : ranges[i].end <= next
      /\ \A a \in Address : a < next => \E i \in DOMAIN ranges : Spans(ranges[i], a)
      /\ \A p \in patches : p.start < next => \E i \in DOMAIN ranges : ranges[i] = p
      /\ \E k \in Nat : RoomLeft(k)
      BY <1>1 DEF PlanInv, Building
<1>4. /\ Sections[section].start \in Nat /\ Sections[section].end \in Nat
      /\ section \in Nat /\ Len(Sections) \in Nat /\ DOMAIN Sections = 1 .. Len(Sections)
      BY <1>2, SectionsTyped
<1>5. next = Sections[section].end BY <1>1, <1>2, <1>3, <1>4
<1>6. /\ Len(ranges) \in Nat /\ DOMAIN ranges = 1 .. Len(ranges)
      /\ \A i \in DOMAIN ranges : ranges[i].start \in Nat /\ ranges[i].end \in Nat
      BY <1>2, RangesTyped
<1>7. PartitionPoints' = PartitionPoints BY <1>1 DEF PartitionPoints, PatchPoints
<1>8. InOrder' BY <1>1 DEF PlanInv, InOrder, Lies
<1>9. /\ Tiled' <=> (Built' \/ planPhase' = "build" => \A i \in DOMAIN ranges : Abuts(i) /\ Cut(i))
      /\ \A i \in DOMAIN ranges : Abuts(i) /\ Cut(i)
  <2>1. \A i \in DOMAIN ranges : (Abuts(i)' <=> Abuts(i)) /\ (Cut(i)' <=> Cut(i))
        BY <1>1, <1>7 DEF Abuts, Cut, Lies
  <2> QED BY <1>1, <2>1 DEF PlanInv, Tiled
<1>10. Tiled' BY <1>9
<1>11. Closing' BY <1>1 DEF NextSection, Closing
<1>12. objects = <<>> /\ objects \in Seq([first : Nat, count : Nat])
       BY <1>1 DEF PlanInv, Batching
<1>13. PICK k \in Nat : RoomLeft(k) BY <1>3
<1>14. /\ Len(ranges) <= Cardinality(PointsUpTo(next)) + Room[section - 1] + k
       /\ k <= SectionRoom(section)
       /\ Room[section - 1] \in Nat /\ Room[section] \in Nat
       /\ Room[section] = Room[section - 1] + SectionRoom(section)
       /\ SectionRoom(section) \in Nat
       BY <1>2, <1>13, RoomIs, SectionRoomIs DEF RoomLeft
(* What begins in a section at or before this one begins before next.       *)
<1>15. ASSUME NEW a \in Int, NEW t \in DOMAIN Sections, a < Sections[t].end, t <= section
       PROVE  a < next
  <2>1. Sections[t].end <= Sections[section].end BY <1>2, <1>15, EndsAscend
  <2>2. Sections[t].end \in Int /\ Sections[section].end \in Int BY <1>2, SectionsTyped
  <2> QED BY <1>5, <1>15, <2>1, <2>2
<1>16. CASE section < Len(Sections)
  <2> DEFINE t == section + 1
             b == Sections[t].start
  <2>1. section' = t /\ next' = b /\ planPhase' = "build" BY <1>1, <1>16 DEF NextSection
  <2>2. t \in DOMAIN Sections /\ section < t BY <1>4, <1>16
  <2>3. b \in Nat /\ b <= Sections[t].end BY <2>2, SectionsTyped
  <2>4. next <= b BY <1>2, <1>5, <2>2 DEF Ascending
  <2> HIDE DEF t, b
  <2>5. PlanTypes' BY <1>1, <1>2, <2>1, <2>2, <2>3 DEF PlanTypes
  <2>6. ASSUME NEW a \in Int, NEW u \in DOMAIN Sections,
               Sections[u].start <= a, a < Sections[u].end, a < b
        PROVE  a < next
    <3>1. ~(t < u)
      <4> SUFFICES ASSUME t < u PROVE FALSE OBVIOUS
      <4>1. Sections[t].end <= Sections[u].start BY <2>2 DEF Ascending
      <4> QED BY <2>2, <2>3, <2>6, <4>1, SectionsTyped
    <3>2. u # t BY <2>6, <2>3 DEF b
    <3>3. u <= section BY <1>4, <2>2, <3>1, <3>2 DEF t
    <3> QED BY <1>15, <2>6, <3>3
  <2>7. \A i \in DOMAIN ranges : ranges[i].end <= b BY <1>2, <1>3, <1>6, <2>3, <2>4
  <2>8. ASSUME NEW a \in Address, a < b PROVE \E i \in DOMAIN ranges : Spans(ranges[i], a)
    <3>1. PICK u \in DOMAIN Sections : Sections[u].start <= a /\ a < Sections[u].end
          BY AddressIs
    <3>2. a \in Int BY AddressIs
    <3> QED BY <1>3, <2>6, <2>8, <3>1, <3>2
  <2>9. ASSUME NEW p \in patches, p.start < b PROVE \E i \in DOMAIN ranges : ranges[i] = p
    <3>1. PICK u \in DOMAIN Sections : Sections[u].start <= p.start /\ p.end <= Sections[u].end
          BY <1>2, PatchesAre
    <3>2. p.start \in Nat /\ p.end \in Nat /\ p.start < p.end BY <1>2, PatchesAre
    <3>3. p.start < Sections[u].end BY <3>1, <3>2, SectionsTyped
    <3> QED BY <1>3, <2>6, <2>9, <3>1, <3>2, <3>3
  <2>10. RoomLeft(0)'
    <3> DEFINE x == Cardinality(PointsUpTo(next))
               y == Cardinality(PointsUpTo(b))
               m == Room[section - 1]
               z == Room[section]
               c == SectionRoom(section)
               n == Len(ranges)
    <3>1. x \in Nat /\ y \in Nat /\ x <= y BY <1>2, <2>3, <2>4, PointsGrow
    <3>2. n <= x + m + k /\ k <= c /\ m \in Nat /\ z = m + c /\ c \in Nat /\ n \in Nat
          BY <1>6, <1>14
    <3>3. PointsUpTo(next)' = PointsUpTo(b) BY <1>7, <2>1 DEF PointsUpTo
    <3>4. section' - 1 = section BY <1>4, <2>1 DEF t
    <3>5. SectionRoom(section') \in Nat BY <2>1, <2>2, SectionRoomIs
    <3>6. SectionRoom(section)' = SectionRoom(section') BY DEF SectionRoom, SectionSize
    <3>7. Chunk \in Nat /\ 0 * Chunk = 0 BY PlanAssumption
    <3>8. 0 <= next' - Sections[section]'.start BY <2>1, <2>3 DEF b
    <3> HIDE DEF x, y, m, z, c, n
    <3>9. n <= y + z + 0 BY <3>1, <3>2
    <3>10. Len(ranges') = n /\ Cardinality(PointsUpTo(next)') = y /\ Room[section - 1]' = z
           BY <1>1, <3>3, <3>4 DEF n, y, z
    <3> QED BY <3>5, <3>6, <3>7, <3>8, <3>9, <3>10 DEF RoomLeft
  <2>11. Building'
    <3>1. Sections[section]'.start <= next' /\ next' <= Sections[section]'.end
          /\ next' = Sections[section]'.start
          BY <2>1, <2>3 DEF b
    <3> QED BY <1>1, <2>1, <2>7, <2>8, <2>9, <2>10, <3>1 DEF Building, Spans
  <2>12. WholeCode' /\ PatchesKept' /\ Batching'
         BY <1>1, <1>12, <2>1 DEF WholeCode, Built, PatchesKept, Batching
  <2> QED BY <1>8, <1>10, <1>11, <2>5, <2>11, <2>12 DEF PlanInv
<1>17. CASE ~(section < Len(Sections))
  <2>1. /\ section' = 1 /\ next' = 1 /\ planPhase' \in {"seed", "batch"}
        BY <1>1, <1>17 DEF NextSection
  <2>2. section = Len(Sections) BY <1>2, <1>4, <1>17
  <2>3. PlanTypes' BY <1>1, <1>2, <2>1, SectionsTyped DEF PlanTypes
  <2>4. ASSUME NEW a \in Address PROVE \E i \in DOMAIN ranges : Spans(ranges[i], a)
    <3>1. PICK u \in DOMAIN Sections : Sections[u].start <= a /\ a < Sections[u].end
          BY AddressIs
    <3>2. a \in Int /\ u <= section BY <1>4, <2>2, AddressIs
    <3> QED BY <1>3, <1>15, <3>1, <3>2
  <2>5. ASSUME NEW p \in patches PROVE \E i \in DOMAIN ranges : ranges[i] = p
    <3>1. PICK u \in DOMAIN Sections : Sections[u].start <= p.start /\ p.end <= Sections[u].end
          BY <1>2, PatchesAre
    <3>2. p.start \in Nat /\ p.end \in Nat /\ p.start < p.end BY <1>2, PatchesAre
    <3>3. p.start < Sections[u].end /\ u <= section BY <1>4, <2>2, <3>1, <3>2, SectionsTyped
    <3> QED BY <1>3, <1>15, <3>2, <3>3
  <2>6. Len(ranges) <= RangeCapacity
    <3> DEFINE x == Cardinality(PointsUpTo(next))
               y == Cardinality(PartitionPoints)
               n == Len(ranges)
    <3>1. x \in Nat /\ y \in Nat /\ x <= y BY <1>2, PointsGrow
    <3>2. RangeCapacity = y + Room[section] BY <2>2 DEF RangeCapacity
    <3> HIDE DEF x, y, n
    <3>3. n <= x + Room[section - 1] + k BY <1>14 DEF n, x
    <3>4. n \in Nat BY <1>6 DEF n
    <3>5. n <= y + Room[section] BY <1>14, <3>1, <3>3, <3>4
    <3> QED BY <3>2, <3>5 DEF n
  <2>7. RangeCapacity' = RangeCapacity BY <1>7 DEF RangeCapacity
  <2>8. WholeCode' BY <1>1, <2>1, <2>4, <2>6, <2>7 DEF WholeCode, Built, Spans
  <2>9. PatchesKept' BY <1>1, <2>5 DEF PatchesKept
  <2>10. Building' BY <2>1 DEF Building
  <2>11. Batching'
    <3>1. 1 \in 1 .. Len(ranges) + 1 BY <1>6
    <3>2. \A i \in DOMAIN ranges : Cardinality(InObject(i)') = 0
      <4>1. \A i : InObject(i)' = {} BY <1>1, <1>12 DEF InObject
      <4> QED BY <4>1, FS_EmptySet
    <3>3. \A i \in DOMAIN ranges : ~(i < 1) BY <1>6
    <3>4. \A i \in 1 .. Len(ranges) : \E s \in 1 .. Len(Sections) : Lies(ranges[i], s)
          BY <1>4, <1>6 DEF PlanInv, InOrder
    <3> QED BY <1>1, <1>12, <2>1, <3>1, <3>2, <3>3, <3>4 DEF Batching, Lies
  <2> QED BY <1>8, <1>10, <1>11, <2>3, <2>8, <2>9, <2>10, <2>11 DEF PlanInv
<1> QED BY <1>16, <1>17

LEMMA PrefixIs ==
    ASSUME NEW D, NEW q \in Seq(D), NEW k \in 0 .. Len(q)
    PROVE  Range(SubSeq(q, 1, k)) = {q[j] : j \in 1 .. k} /\ {q[j] : j \in 1 .. k} \subseteq D
<1>1. Len(q) \in Nat OBVIOUS
<1>2. SubSeq(q, 1, k) = [j \in 1 .. k |-> q[j]] BY <1>1
<1>3. \A j \in 1 .. k : q[j] \in D BY <1>1
<1> QED BY <1>2, <1>3 DEF Range

LEMMA RangeIsAll ==
    ASSUME NEW D, NEW q \in Seq(D)
    PROVE  Range(q) = {q[j] : j \in 1 .. Len(q)} /\ Len(q) \in Nat
BY DEF Range

(* A closure starts with what is queued.                                    *)
ClosureFresh ==
    /\ PlanTypes /\ InOrder /\ planPhase \in {"calls", "successors"}
    /\ Good([queue |-> queue, selected |-> selected], DOMAIN ranges, {})
    /\ \A p \in patches : \E i \in selected : ranges[i] = p
    /\ cursor = 1 /\ closureEnd = Len(queue) + 1 /\ depth = 0 /\ before = Len(queue)

LEMMA ClosureStarts == ClosureFresh => Closing
<1> SUFFICES ASSUME
        PlanTypes, InOrder, planPhase \in {"calls", "successors"},
        Good([queue |-> queue, selected |-> selected], DOMAIN ranges, {}),
        \A p \in patches : \E i \in selected : ranges[i] = p,
        cursor = 1, closureEnd = Len(queue) + 1, depth = 0, before = Len(queue)
    PROVE Closing
    BY DEF ClosureFresh
<1> DEFINE D == DOMAIN ranges
           n == Len(queue)
           I == {queue[k] : k \in 1 .. n}
<1>1. queue \in Seq(D) /\ IsInjective(queue) /\ Range(queue) = selected
      BY DEF Good
<1>2. n \in Nat /\ Range(queue) = I BY <1>1, RangeIsAll
<1>3. Range(SubSeq(queue, 1, n)) = I /\ I \subseteq D BY <1>1, <1>2, PrefixIs
<1>4. Ranges /\ program \in Codes BY DEF Ranges, PlanTypes
<1>5. Within(I, planPhase, 0) = I BY <1>3, <1>4, WithinIs, 0 \in Nat
<1>6. Around(depth) = I BY <1>3, <1>5 DEF Around
<1>7. Limit \in Nat BY PlanAssumption DEF Limit
<1>8. {queue[k] : k \in 1 .. closureEnd - 1} = Around(depth) BY <1>2, <1>6
<1>9. /\ cursor \in 1 .. closureEnd /\ closureEnd \in 1 .. Len(queue) + 1
      /\ depth \in 0 .. Limit /\ before \in 0 .. Len(queue)
      /\ 1 .. cursor - 1 = {} /\ closureEnd .. Len(queue) = {}
      BY <1>2, <1>7
<1> QED BY <1>1, <1>8, <1>9 DEF Closing

LEMMA ClosureStartsNext == (ClosureFresh => Closing)'
<1>1. ClosureFresh => Closing BY ClosureStarts
<1> QED BY <1>1, PTL

PlanKept ==
    /\ program' = program /\ extra' = extra /\ patches' = patches
    /\ ranges' = ranges /\ section' = section /\ next' = next /\ objects' = objects

(* Selecting ranges changes nothing about how they were built.             *)
LEMMA BuiltStays ==
    ASSUME PlanInv, Built, Built', PlanKept
    PROVE  PlanTypes' /\ InOrder' /\ Tiled' /\ Building' /\ WholeCode' /\ PatchesKept' /\ Batching'
<1>1. PartitionPoints' = PartitionPoints BY DEF PlanKept, PartitionPoints, PatchPoints
<1>2. PlanTypes' BY DEF PlanInv, PlanTypes, PlanKept, Built
<1>3. InOrder' BY DEF PlanInv, PlanKept, InOrder, Lies
<1>4. Tiled'
  <2>1. \A i \in DOMAIN ranges : (Abuts(i)' <=> Abuts(i)) /\ (Cut(i)' <=> Cut(i))
        BY <1>1 DEF Abuts, Cut, Lies, PlanKept
  <2> QED BY <2>1 DEF PlanInv, Tiled, PlanKept
<1>5. Building' BY DEF Building, Built
<1>6. RangeCapacity' = RangeCapacity BY <1>1 DEF RangeCapacity
<1>7. WholeCode' BY <1>6 DEF PlanInv, PlanKept, WholeCode, Spans
<1>8. PatchesKept'
  <2>1. planPhase # "build" BY DEF Built
  <2> QED BY <2>1 DEF PlanInv, PlanKept, PatchesKept
<1>9. Batching' BY DEF PlanInv, PlanKept, Batching, Built
<1> QED BY <1>2, <1>3, <1>4, <1>5, <1>7, <1>8, <1>9

LEMMA SelectSeedsKeeps ==
    ASSUME PlanInv, NEW hot \in HotChoices, NEW entries, SelectSeeds(hot, entries)
    PROVE  PlanInv'
<1> DEFINE q == WithEntries(SeedQueue(hot), entries)
           D == DOMAIN ranges
<1>1. /\ planPhase = "seed" /\ planPhase' = "calls" /\ PlanKept
      /\ Range(hot) \subseteq D
      /\ queue' = q.queue /\ selected' = q.selected
      /\ cursor' = 1 /\ closureEnd' = Len(queue') + 1 /\ depth' = 0 /\ before' = Len(queue')
      BY DEF SelectSeeds, planInput, PlanKept
<1>2. /\ PlanTypes' /\ InOrder' /\ Tiled' /\ Building' /\ WholeCode' /\ PatchesKept'
      /\ Batching'
      BY <1>1, BuiltStays DEF Built
<1>3. Ranges /\ ranges \in Seq([start : Nat, end : Nat]) /\ patches \in PatchSets
      BY DEF PlanInv, PlanTypes, Ranges
<1>4. hot \in Seq(Nat \ {0}) /\ IsInjective(hot) BY PlanAssumption
<1>5. Good(SeedQueue(hot), D, {}) BY <1>1, <1>3, <1>4, SeedQueueIs
<1>6. /\ patches \subseteq [start : Nat, end : Nat]
      /\ \A p \in patches : p.start < p.end /\ \E i \in D : ranges[i] = p
      BY <1>1, <1>3, PatchesAre DEF PlanInv, PatchesKept
<1>7. Good(q, D, {}) /\ \A p \in patches : \E i \in q.selected : ranges[i] = p
      BY <1>3, <1>5, <1>6, WithEntriesIs
<1>8. q = [queue |-> queue', selected |-> selected']
  <2>1. q \in [queue : Seq(D), selected : SUBSET D] BY <1>7 DEF Good
  <2> HIDE DEF q
  <2> QED BY <1>1, <2>1
<1> HIDE DEF q
<1>9. ClosureFresh' BY <1>1, <1>2, <1>7, <1>8 DEF ClosureFresh, PlanKept, Good
<1>10. Closing' BY <1>9, ClosureStartsNext
<1> QED BY <1>2, <1>10 DEF PlanInv

LEMMA EndCallsKeeps ==
    ASSUME PlanInv, EndCalls
    PROVE  PlanInv'
<1>1. /\ planPhase = "calls" /\ planPhase' = "successors" /\ PlanKept
      /\ queue' = queue /\ selected' = selected
      /\ cursor' = 1 /\ closureEnd' = Len(queue') + 1 /\ depth' = 0 /\ before' = Len(queue')
      BY DEF EndCalls, planInput, PlanKept
<1>2. /\ PlanTypes' /\ InOrder' /\ Tiled' /\ Building' /\ WholeCode' /\ PatchesKept'
      /\ Batching'
      BY <1>1, BuiltStays DEF Built
<1>3. /\ queue \in Seq(DOMAIN ranges) /\ IsInjective(queue) /\ Range(queue) = selected
      /\ \A p \in patches : \E i \in selected : ranges[i] = p
      BY <1>1 DEF PlanInv, Closing
<1>4. selected \subseteq DOMAIN ranges BY <1>3 DEF Range
<1>5. ClosureFresh' BY <1>1, <1>2, <1>3, <1>4 DEF ClosureFresh, PlanKept, Good
<1>6. Closing' BY <1>5, ClosureStartsNext
<1> QED BY <1>2, <1>6 DEF PlanInv

LEMMA SearchStays ==
    ASSUME ranges' = ranges, NEW a
    PROVE  RangeIndexFor(a)' = RangeIndexFor(a)
<1> DEFINE middle(w) == w.first + (w.last - w.first) \div 2
           narrowed(w) ==
               IF w.first >= w.last THEN w
               ELSE IF a < ranges[middle(w)].start THEN [w EXCEPT !.last = middle(w)]
               ELSE IF a >= ranges[middle(w)].end THEN [w EXCEPT !.first = middle(w) + 1]
               ELSE w
           whole == [first |-> 1, last |-> Len(ranges) + 1]
           R(v) == v = [k \in 0 .. Len(ranges) |-> IF k = 0 THEN whole ELSE narrowed(v[k - 1])]
           S(v) == v = [k \in 0 .. Len(ranges') |->
                           IF k = 0 THEN whole' ELSE narrowed(v[k - 1])']
           found(w) == IF w.first >= w.last THEN 0 ELSE middle(w)
<1>1. \A v : R(v) <=> S(v) OBVIOUS
<1>2. RangeIndexFor(a) = found((CHOOSE v : R(v))[Len(ranges)]) BY DEF RangeIndexFor
<1>3. RangeIndexFor(a)' = found((CHOOSE v : S(v))[Len(ranges')]) BY DEF RangeIndexFor
<1> HIDE DEF R, S, found
<1>4. (CHOOSE v : R(v)) = (CHOOSE v : S(v)) BY <1>1
<1> QED BY <1>2, <1>3, <1>4

LEMMA ReachedStays ==
    ASSUME ranges' = ranges, program' = program, patches' = patches, NEW phase_, NEW i
    PROVE  Reached(phase_, i)' = Reached(phase_, i)
<1>1. \A a : RangeIndexFor(a)' = RangeIndexFor(a) BY SearchStays
<1>2. ProfileTargets(phase_, i)' = ProfileTargets(phase_, i)
  <2>1. CallTargets(i)' = CallTargets(i) BY DEF CallTargets
  <2>2. SuccessorTargets(i)' = SuccessorTargets(i) BY DEF SuccessorTargets, SectionOf, HasFallthrough
  <2> QED BY <2>1, <2>2 DEF ProfileTargets, PatchAt
<1>3. TargetRanges(phase_, i)' = TargetRanges(phase_, i) BY <1>1, <1>2 DEF TargetRanges
<1> QED BY <1>3 DEF Reached

LEMMA WithinStays ==
    ASSUME ranges' = ranges, program' = program, patches' = patches,
           NEW I, NEW phase_, NEW n
    PROVE  Within(I, phase_, n)' = Within(I, phase_, n)
<1> DEFINE R(w) == w = [k \in 0 .. n |-> IF k = 0 THEN I
                ELSE w[k - 1] \cup UNION {Reached(phase_, i) : i \in w[k - 1]}]
           S(w) == w = [k \in 0 .. n |-> IF k = 0 THEN I
                ELSE w[k - 1] \cup UNION {Reached(phase_, i)' : i \in w[k - 1]}]
<1>1. \A w : R(w) <=> S(w)
  <2>1. \A i : Reached(phase_, i)' = Reached(phase_, i) BY ReachedStays
  <2> QED BY <2>1
<1>2. Within(I, phase_, n) = (CHOOSE w : R(w))[n] BY DEF Within
<1>3. Within(I, phase_, n)' = (CHOOSE w : S(w))[n] BY DEF Within
<1> HIDE DEF R, S
<1>4. (CHOOSE w : R(w)) = (CHOOSE w : S(w)) BY <1>1
<1> QED BY <1>2, <1>3, <1>4

(* A visited range adds what it reaches; the last of a depth completes it. *)
LEMMA VisitKeeps ==
    ASSUME PlanInv, NEW phase_ \in {"calls", "successors"}, Visit(phase_)
    PROVE  PlanInv'
<1> DEFINE D == DOMAIN ranges
           q0 == [queue |-> queue, selected |-> selected]
           i == queue[cursor]
           is == TargetRanges(phase_, i)
           q == SelectEach(q0, is)
           n == Len(queue)
           m == Len(queue')
           new == Reached(phase_, i)
<1>1. /\ planPhase = phase_ /\ planPhase' = phase_ /\ PlanKept
      /\ depth < Limit /\ cursor < closureEnd
      /\ queue' = q.queue /\ selected' = q.selected
      /\ cursor' = cursor + 1 /\ before' = before
      /\ closureEnd' = IF cursor + 1 = closureEnd THEN m + 1 ELSE closureEnd
      /\ depth' = IF cursor + 1 = closureEnd THEN depth + 1 ELSE depth
      BY DEF Visit, planInput, PlanKept
<1>2. /\ PlanTypes' /\ InOrder' /\ Tiled' /\ Building' /\ WholeCode' /\ PatchesKept'
      /\ Batching'
      BY <1>1, BuiltStays DEF Built
<1>3. /\ Ranges /\ program \in Codes /\ ranges \in Seq([start : Nat, end : Nat])
      BY DEF PlanInv, PlanTypes, Ranges
<1>4. /\ queue \in Seq(D) /\ IsInjective(queue) /\ Range(queue) = selected
      /\ \A p \in patches : \E j \in selected : ranges[j] = p
      /\ cursor \in 1 .. closureEnd /\ closureEnd \in 1 .. n + 1
      /\ depth \in 0 .. Limit /\ before \in 0 .. n
      /\ {queue[k] : k \in 1 .. closureEnd - 1} = Around(depth)
      /\ \A k \in 1 .. cursor - 1 : Reached(phase_, queue[k]) \subseteq selected
      /\ \A k \in closureEnd .. n :
            \E j \in 1 .. cursor - 1 : queue[k] \in Reached(phase_, queue[j])
      BY <1>1 DEF PlanInv, Closing
<1>5. /\ n \in Nat /\ selected = {queue[k] : k \in 1 .. n}
      /\ \A k \in 1 .. n : queue[k] \in D
      BY <1>4, RangeIsAll
<1>6. /\ cursor \in Nat /\ closureEnd \in Nat /\ before \in Nat /\ depth \in Nat
      /\ cursor \in 1 .. n /\ i \in D
      BY <1>1, <1>4, <1>5
<1>7. D \subseteq Nat \ {0} BY <1>3, RangesTyped
<1>8. Good(q0, D, {}) BY <1>4, <1>5 DEF Good
<1>9. /\ Len(is) \in Nat /\ \A k \in 1 .. Len(is) : is[k] \in D \cup {0}
      /\ new = Members(is)
      BY <1>3, <1>6, TargetRangesAre
<1> HIDE DEF q, is, q0
<1>10. Good(q, D, {}) /\ Grown(q0, q) /\ Has(q, new) /\ Adds(q0, q, new)
  <2> HIDE DEF D, new
  <2>1. /\ Good(SelectEach(q0, is), D, {}) /\ Grown(q0, SelectEach(q0, is))
        /\ Has(SelectEach(q0, is), Members(is)) /\ Adds(q0, SelectEach(q0, is), Members(is))
        BY <1>7, <1>8, <1>9, SelectEachIs
  <2> QED BY <1>9, <2>1 DEF q
<1>11. /\ queue' \in Seq(D) /\ IsInjective(queue') /\ Range(queue') = selected'
       BY <1>1, <1>10 DEF Good
<1>12. m \in Nat /\ selected' = {queue'[k] : k \in 1 .. m} BY <1>11, RangeIsAll
<1>13. /\ n <= m /\ \A k \in 1 .. n : queue'[k] = queue[k]
       /\ selected \subseteq selected' /\ new \subseteq selected'
       /\ \A k \in n + 1 .. m : queue'[k] \in new
       BY <1>1, <1>10 DEF Grown, Has, Adds, q0
<1>14. \A j : Reached(phase_, j)' = Reached(phase_, j) BY <1>1, ReachedStays DEF PlanKept
<1>15. PICK first : first = {queue[k] : k \in 1 .. before} OBVIOUS
<1>16. /\ first \subseteq D
       /\ Range(SubSeq(queue, 1, before)) = first
       BY <1>4, <1>15, PrefixIs
<1>17. Range(SubSeq(queue', 1, before)) = first
  <2>1. before \in 0 .. m BY <1>4, <1>5, <1>12, <1>13
  <2>2. Range(SubSeq(queue', 1, before)) = {queue'[k] : k \in 1 .. before}
        BY <1>11, <2>1, PrefixIs
  <2>3. \A k \in 1 .. before : queue'[k] = queue[k] BY <1>4, <1>5, <1>13
  <2> QED BY <1>15, <2>2, <2>3
<1>18. \A d : Around(d) = Within(first, phase_, d) BY <1>1, <1>16 DEF Around
<1>19. \A d : (Range(SubSeq(queue, 1, before)))' = first BY <1>1, <1>17
<1>20. Around(depth)' = Within(first, phase_, depth')
  <2>1. \A d : Within(first, phase_, d)' = Within(first, phase_, d)
        BY <1>1, WithinStays DEF PlanKept
  <2> QED BY <1>1, <1>19, <2>1 DEF Around
<1>21. /\ cursor' \in 1 .. closureEnd' /\ closureEnd' \in 1 .. m + 1
       /\ depth' \in 0 .. Limit' /\ before' \in 0 .. m
       /\ cursor' = closureEnd' \/ depth' = Limit' => closureEnd' = m + 1
  <2>1. Limit \in Nat /\ Limit' = Limit BY <1>1, PlanAssumption DEF Limit
  <2> QED BY <1>1, <1>4, <1>5, <1>6, <1>12, <1>13, <2>1
<1>22. \A k \in 1 .. cursor : Reached(phase_, queue'[k]) \subseteq selected'
  <2>1. \A k \in 1 .. cursor : k \in 1 .. n /\ (k \in 1 .. cursor - 1 \/ k = cursor)
        BY <1>5, <1>6
  <2> QED BY <1>4, <1>13, <2>1
<1>23. \A k \in closureEnd .. m : \E j \in 1 .. cursor : queue'[k] \in Reached(phase_, queue'[j])
  <2> SUFFICES ASSUME NEW k \in closureEnd .. m
               PROVE  \E j \in 1 .. cursor : queue'[k] \in Reached(phase_, queue'[j])
      OBVIOUS
  <2>1. \A j \in 1 .. cursor : queue'[j] = queue[j] BY <1>5, <1>6, <1>13
  <2>2. CASE k \in closureEnd .. n
    <3>1. PICK j \in 1 .. cursor - 1 : queue[k] \in Reached(phase_, queue[j])
          BY <1>4, <2>2
    <3>2. j \in 1 .. cursor BY <1>6
    <3>3. k \in 1 .. n BY <1>4, <1>5, <1>6, <2>2
    <3> QED BY <1>13, <2>1, <3>1, <3>2, <3>3
  <2>3. CASE k \in n + 1 .. m
    <3>1. cursor \in 1 .. cursor BY <1>6
    <3> QED BY <1>13, <2>1, <2>3, <3>1
  <2>4. k \in closureEnd .. n \/ k \in n + 1 .. m BY <1>5, <1>6, <1>12
  <2> QED BY <2>2, <2>3, <2>4
<1>24. /\ {queue'[k] : k \in 1 .. closureEnd' - 1} = Around(depth)'
       /\ \A k \in closureEnd' .. m :
             \E j \in 1 .. cursor : queue'[k] \in Reached(phase_, queue'[j])
  <2>1. CASE cursor + 1 # closureEnd
    <3>1. closureEnd' = closureEnd /\ depth' = depth BY <1>1, <2>1
    <3>2. {queue'[k] : k \in 1 .. closureEnd - 1} = {queue[k] : k \in 1 .. closureEnd - 1}
      <4>1. \A k \in 1 .. closureEnd - 1 : queue'[k] = queue[k] BY <1>4, <1>5, <1>13
      <4> QED BY <4>1
    <3>3. {queue'[k] : k \in 1 .. closureEnd' - 1} = Around(depth)'
          BY <1>4, <1>18, <1>20, <3>1, <3>2
    <3> QED BY <1>23, <3>1, <3>3
  <2>2. CASE cursor + 1 = closureEnd
    <3>1. closureEnd' = m + 1 /\ depth' = depth + 1 BY <1>1, <2>2
    <3>2. Around(depth) = {queue[k] : k \in 1 .. cursor}
      <4>1. closureEnd - 1 = cursor BY <1>6, <2>2
      <4> QED BY <1>4, <4>1
    <3>3. Around(depth)' = Spread(phase_, Around(depth))
      <4> HIDE DEF D
      <4>1. first \subseteq DOMAIN ranges BY <1>16 DEF D
      <4>2. Within(first, phase_, depth + 1) = Spread(phase_, Within(first, phase_, depth))
            BY <1>3, <1>6, <4>1, WithinIs
      <4> QED BY <1>18, <1>20, <3>1, <4>2
    <3>4. \A k \in 1 .. cursor : k \in 1 .. n /\ queue'[k] = queue[k] BY <1>5, <1>6, <1>13
    <3>5. Spread(phase_, Around(depth)) \subseteq selected'
          BY <1>5, <1>13, <1>22, <3>2, <3>4 DEF Spread
    <3>6. ASSUME NEW k \in 1 .. m PROVE queue'[k] \in Spread(phase_, Around(depth))
      <4>1. CASE k \in 1 .. cursor BY <3>2, <3>4, <4>1 DEF Spread
      <4>2. CASE k \in closureEnd .. m BY <1>23, <3>2, <3>4, <4>2 DEF Spread
      <4>3. k \in 1 .. cursor \/ k \in closureEnd .. m BY <1>6, <1>12, <2>2
      <4> QED BY <4>1, <4>2, <4>3
    <3>7. {queue'[k] : k \in 1 .. closureEnd' - 1} = Around(depth)'
      <4>1. closureEnd' - 1 = m BY <1>12, <3>1
      <4>2. {queue'[k] : k \in 1 .. m} = selected' BY <1>12
      <4>3. selected' \subseteq Spread(phase_, Around(depth)) BY <1>12, <3>6
      <4> QED BY <3>3, <3>5, <4>1, <4>2, <4>3
    <3>8. closureEnd' .. m = {} BY <1>12, <3>1
    <3> QED BY <3>7, <3>8
  <2> QED BY <2>1, <2>2
<1>25. \A p \in patches' : \E j \in selected' : ranges'[j] = p
       BY <1>1, <1>4, <1>13 DEF PlanKept
<1>26. cursor' - 1 = cursor /\ D' = D /\ planPhase' = phase_ BY <1>1, <1>6 DEF PlanKept
<1>27. \A j : Reached(planPhase, j)' = Reached(phase_, j) BY <1>14, <1>26
<1>28. \A k \in 1 .. cursor' - 1 : Reached(planPhase, queue[k])' \subseteq selected'
       BY <1>22, <1>26, <1>27
<1>29. \A k \in closureEnd' .. m :
          \E j \in 1 .. cursor' - 1 : queue'[k] \in Reached(planPhase, queue[j])'
       BY <1>24, <1>26, <1>27
<1>30. Closing'
  <2> HIDE DEF D
  <2> QED BY <1>11, <1>21, <1>24, <1>25, <1>26, <1>28, <1>29 DEF Closing, D
<1> QED BY <1>2, <1>30 DEF PlanInv

(* The first k ranges that are in I, in their order.                        *)
KeptOf(s, I, k) ==
    /\ s \in Seq([start : Nat, end : Nat])
    /\ \A j \in 1 .. Len(s) : \E i \in 1 .. k : s[j] = ranges[i]
    /\ \A i \in 1 .. k : i \in I => \E j \in 1 .. Len(s) : s[j] = ranges[i]
    /\ \A j, m \in 1 .. Len(s) : j < m => s[j].end <= s[m].start

LEMMA KeptIs ==
    ASSUME Ranges, NEW I, NEW r,
           r = LET kept[i \in 0 .. Len(ranges)] ==
                       IF i = 0 THEN <<>>
                       ELSE IF i \in I THEN Append(kept[i - 1], ranges[i])
                       ELSE kept[i - 1]
               IN  kept[Len(ranges)]
    PROVE  KeptOf(r, I, Len(ranges))
<1> DEFINE N == Len(ranges)
           D == [start : Nat, end : Nat]
           S == Seq(D)
           Keep(s, k) == IF k \in I THEN Append(s, ranges[k]) ELSE s
           R(v) == v = [k \in 0 .. Len(ranges) |->
                           IF k = 0 THEN <<>>
                           ELSE IF k \in I THEN Append(v[k - 1], ranges[k])
                           ELSE v[k - 1]]
           g == [k \in 1 .. N |-> [s \in S |-> Keep(s, k)]]
           kept == CHOOSE v : R(v)
<1>1. /\ N \in Nat /\ DOMAIN ranges = 1 .. N
      /\ \A i \in 1 .. N : ranges[i] \in D /\ ranges[i].start \in Nat /\ ranges[i].end \in Nat
      BY RangesTyped DEF Ranges
<1>2. \A i, j \in 1 .. N : i < j => ranges[i].end <= ranges[j].start
      BY <1>1 DEF Ranges, InOrder
<1>3. r = kept[Len(ranges)] OBVIOUS
<1>4. ASSUME NEW s \in S, NEW k \in 1 .. N PROVE Keep(s, k) \in S
  <2>1. ranges[k] \in D BY <1>1
  <2> HIDE DEF D, N
  <2> QED BY <2>1
<1>5. <<>> \in S OBVIOUS
<1> HIDE DEF N, S, D
<1>6. PICK h \in [0 .. N -> S] : Runs(h, N, <<>>, g)
  <2>1. g \in [1 .. N -> [S -> S]] BY <1>4
  <2> HIDE DEF g
  <2> QED BY <1>1, <1>5, <2>1, RunExists
<1>7. R(h)
  <2>1. ASSUME NEW k \in 0 .. N
        PROVE  h[k] = IF k = 0 THEN <<>> ELSE Keep(h[k - 1], k)
    <3>1. CASE k = 0 BY <1>6, <3>1 DEF Runs
    <3>2. CASE k # 0
      <4>1. k \in 1 .. N /\ k - 1 \in 0 .. N BY <1>1, <3>2
      <4>2. h[k] = g[k][h[k - 1]] /\ h[k - 1] \in S BY <1>6, <4>1 DEF Runs
      <4> QED BY <3>2, <4>1, <4>2
    <3> QED BY <3>1, <3>2
  <2> QED BY <2>1 DEF N
<1>8. R(kept)
  <2> HIDE DEF R
  <2> QED BY <1>7
<1> HIDE DEF kept, g
<1>9. kept[0] = <<>> /\ \A k \in 1 .. N : kept[k] = Keep(kept[k - 1], k)
  <2>1. kept = [k \in 0 .. N |-> IF k = 0 THEN <<>> ELSE Keep(kept[k - 1], k)]
        BY <1>8 DEF N
  <2>2. 0 \in 0 .. N /\ \A k \in 1 .. N : k \in 0 .. N /\ k # 0 BY <1>1
  <2> QED BY <2>1, <2>2
<1> HIDE DEF R
<1> DEFINE T == {k \in 0 .. N : KeptOf(kept[k], I, k)}
<1>10. KeptOf(<<>>, I, 0) BY DEF KeptOf
<1>11. ASSUME NEW k \in 1 .. N, KeptOf(kept[k - 1], I, k - 1) PROVE KeptOf(kept[k], I, k)
  <2> DEFINE s == kept[k - 1]
             e == ranges[k]
             n == Len(s)
  <2>1. s \in Seq(D) BY <1>11 DEF KeptOf, D
  <2>2. /\ s \in Seq(D) /\ n \in Nat /\ e \in D /\ k \in Nat
        /\ kept[k] = Keep(s, k)
        /\ \A i \in 1 .. k : i \in 1 .. k - 1 \/ i = k
        /\ \A i \in 1 .. k - 1 : i \in 1 .. k /\ i \in 1 .. N /\ i < k
        /\ k \in 1 .. k
        BY <1>1, <1>9, <2>1
  <2>3. /\ \A j \in 1 .. n : \E i \in 1 .. k - 1 : s[j] = ranges[i]
        /\ \A i \in 1 .. k - 1 : i \in I => \E j \in 1 .. n : s[j] = ranges[i]
        /\ \A j, m \in 1 .. n : j < m => s[j].end <= s[m].start
        BY <1>11 DEF KeptOf
  <2> HIDE DEF s, e, n
  <2>4. CASE k \notin I
    <3>1. kept[k] = s BY <2>2, <2>4
    <3>2. \A j \in 1 .. n : \E i \in 1 .. k : s[j] = ranges[i] BY <2>2, <2>3
    <3>3. \A i \in 1 .. k : i \in I => \E j \in 1 .. n : s[j] = ranges[i]
          BY <2>2, <2>3, <2>4
    <3> QED BY <2>2, <2>3, <3>1, <3>2, <3>3 DEF KeptOf, n, D
  <2>5. CASE k \in I
    <3> DEFINE t == Append(s, e)
    <3>1. /\ t \in Seq(D) /\ Len(t) = n + 1 /\ \A j \in 1 .. n : t[j] = s[j]
          /\ t[n + 1] = e /\ kept[k] = t
          BY <2>2, <2>5 DEF n, e
    <3> HIDE DEF t
    <3>2. \A j \in 1 .. n + 1 : j \in 1 .. n \/ j = n + 1 BY <2>2
    <3>3. n + 1 \in 1 .. n + 1 /\ \A j \in 1 .. n : j \in 1 .. n + 1 BY <2>2
    <3>4. \A j \in 1 .. n + 1 : \E i \in 1 .. k : t[j] = ranges[i]
          BY <2>2, <2>3, <3>1, <3>2 DEF e
    <3>5. \A i \in 1 .. k : i \in I => \E j \in 1 .. n + 1 : t[j] = ranges[i]
      <4> SUFFICES ASSUME NEW i \in 1 .. k, i \in I
                   PROVE  \E j \in 1 .. n + 1 : t[j] = ranges[i]
          OBVIOUS
      <4>1. CASE i \in 1 .. k - 1 BY <2>3, <3>1, <3>3, <4>1
      <4>2. CASE i = k BY <3>1, <3>3, <4>2 DEF e
      <4> QED BY <2>2, <4>1, <4>2
    <3>6. \A j \in 1 .. n : t[j].end <= e.start
      <4> SUFFICES ASSUME NEW j \in 1 .. n PROVE t[j].end <= e.start OBVIOUS
      <4>1. PICK i \in 1 .. k - 1 : s[j] = ranges[i] BY <2>3
      <4>2. ranges[i].end <= ranges[k].start BY <1>2, <2>2
      <4> QED BY <3>1, <4>1, <4>2 DEF e
    <3>7. \A j, m \in 1 .. n + 1 : j < m => t[j].end <= t[m].start
      <4> SUFFICES ASSUME NEW j \in 1 .. n + 1, NEW m \in 1 .. n + 1, j < m
                   PROVE  t[j].end <= t[m].start
          OBVIOUS
      <4>1. j \in 1 .. n BY <2>2
      <4>2. CASE m \in 1 .. n BY <2>3, <3>1, <4>1, <4>2
      <4>3. CASE m = n + 1 BY <3>1, <3>6, <4>1, <4>3
      <4> QED BY <3>2, <4>2, <4>3
    <3> QED BY <3>1, <3>4, <3>5, <3>7 DEF KeptOf, D
  <2> QED BY <2>4, <2>5
<1>12. 0 .. N \subseteq T
  <2>1. 0 \in T BY <1>1, <1>9, <1>10
  <2>2. \A k \in 1 .. N : k - 1 \in T => k \in T BY <1>1, <1>11
  <2> HIDE DEF T
  <2> QED BY <1>1, <2>1, <2>2, UpTo
<1>13. N \in T BY <1>1, <1>12
<1> QED BY <1>3, <1>13 DEF N

(* What is left after compaction is in order, and the patches are left.    *)
LEMMA CompactKeeps ==
    ASSUME PlanInv, Compact
    PROVE  PlanInv'
<1>1. /\ planPhase = "successors" /\ planPhase' = "batch"
      /\ program' = program /\ extra' = extra /\ patches' = patches
      /\ section' = section /\ next' = next /\ objects' = objects
      BY DEF Compact, planInput
<1>2. KeptOf(ranges', selected, Len(ranges))
  <2>1. Ranges BY DEF PlanInv, PlanTypes, Ranges
  <2> QED BY <2>1, KeptIs DEF Compact
<1>3. /\ Len(ranges) \in Nat /\ DOMAIN ranges = 1 .. Len(ranges)
      BY RangesTyped DEF PlanInv, PlanTypes
<1>4. /\ ranges' \in Seq([start : Nat, end : Nat]) /\ Len(ranges') \in Nat
      /\ DOMAIN ranges' = 1 .. Len(ranges')
      BY <1>2 DEF KeptOf
<1>5. /\ section = 1 /\ next = 1 /\ objects = <<>>
      BY <1>1 DEF PlanInv, WholeCode, Built, Batching
<1>6. PlanTypes' BY <1>1, <1>4 DEF PlanInv, PlanTypes
<1>7. ASSUME NEW j \in 1 .. Len(ranges')
      PROVE  /\ ranges'[j].start < ranges'[j].end
             /\ \E s \in DOMAIN Sections : Lies(ranges'[j], s)
  <2>1. PICK i \in DOMAIN ranges : ranges'[j] = ranges[i] BY <1>2, <1>3 DEF KeptOf
  <2> QED BY <2>1 DEF PlanInv, InOrder
<1>8. InOrder'
  <2>1. \A j, m \in 1 .. Len(ranges') : j < m => ranges'[j].end <= ranges'[m].start
        BY <1>2 DEF KeptOf
  <2> QED BY <1>4, <1>7, <2>1 DEF InOrder, Lies
<1>9. Tiled' /\ Building' /\ WholeCode' /\ Closing'
      BY <1>1 DEF Tiled, Building, WholeCode, Closing, Built
<1>10. PatchesKept'
  <2>1. ASSUME NEW p \in patches PROVE \E j \in DOMAIN ranges' : ranges'[j] = p
    <3>1. PICK i \in selected : ranges[i] = p BY <1>1 DEF PlanInv, Closing
    <3>2. i \in 1 .. Len(ranges) BY <1>1, <1>3 DEF PlanInv, Closing, Range
    <3> QED BY <1>2, <1>4, <3>1, <3>2 DEF KeptOf
  <2> QED BY <1>1, <2>1 DEF PatchesKept
<1>11. Batching'
  <2>1. 1 \in 1 .. Len(ranges') + 1 BY <1>4
  <2>2. \A i \in DOMAIN ranges' : Cardinality(InObject(i)') = 0
    <3>1. \A i : InObject(i)' = {} BY <1>1, <1>5 DEF InObject
    <3> QED BY <3>1, FS_EmptySet
  <2>3. \A i \in DOMAIN ranges' : ~(i < 1) BY <1>4
  <2>4. \A i \in 1 .. Len(ranges') : \E s \in 1 .. Len(Sections) : Lies(ranges'[i], s)
        BY <1>7, SectionsTyped
  <2>5. objects' \in Seq([first : Nat, count : Nat]) BY <1>1, <1>5
  <2> QED BY <1>1, <1>5, <2>1, <2>2, <2>3, <2>4, <2>5 DEF Batching, Lies
<1> QED BY <1>6, <1>8, <1>9, <1>10, <1>11 DEF PlanInv

(* c things in pieces of w: q of them, and thing d is in piece d \div w + 1. *)
Pieced(c, w, q) ==
    /\ q \in Nat
    /\ \A k \in 1 .. q : (k - 1) * w \in Nat /\ (k - 1) * w < c
    /\ \A d \in 0 .. c - 1 : d \div w + 1 \in 1 .. q
    /\ \A k \in 1 .. q : \A d \in Int :
          (k - 1) * w <= d /\ d < (k - 1) * w + w /\ d < c <=>
          d \in 0 .. c - 1 /\ k = d \div w + 1

LEMMA Pieces ==
    ASSUME NEW c \in Nat, NEW w \in Nat \ {0}, NEW q, q = (c + w - 1) \div w
    PROVE  Pieced(c, w, q)
<1> DEFINE v == c + w - 1
           r == v % w
           p == w * q
<1>1. v \in Int OBVIOUS
<1>2. v = p + r /\ r \in 0 .. w - 1 /\ q \in Int
  <2>1. q = v \div w OBVIOUS
  <2> HIDE DEF v
  <2> QED BY <1>1, <2>1, DivMod
<1>3. p \in Int /\ p = q * w BY <1>2
<1> HIDE DEF r, p
<1>4. c <= p /\ p < c + w BY <1>2, <1>3
<1>5. q \in Nat
  <2> SUFFICES ASSUME q + 1 <= 0 PROVE FALSE BY <1>2
  <2>1. q * w + w <= 0 * w BY <1>2, Products
  <2>2. 0 * w = 0 OBVIOUS
  <2> QED BY <1>3, <1>4, <2>1, <2>2
<1>6. ASSUME NEW k \in 1 .. q PROVE (k - 1) * w \in Nat /\ (k - 1) * w < c
  <2>1. (k - 1) + 1 <= q /\ k - 1 \in Nat BY <1>5
  <2> DEFINE x == (k - 1) * w
  <2>2. x + w <= q * w /\ x \in Int BY <1>2, <2>1, Products
  <2>3. x \in Nat BY <2>1
  <2> HIDE DEF x
  <2>4. x < c BY <1>3, <1>4, <2>2
  <2> QED BY <2>3, <2>4 DEF x
<1>7. ASSUME NEW d \in 0 .. c - 1 PROVE d \div w + 1 \in 1 .. q
  <2> DEFINE e == d \div w
             y == w * e
  <2>1. d = y + (d % w) /\ d % w \in 0 .. w - 1 /\ e \in Int BY DivMod
  <2>2. y = e * w /\ y \in Int BY <2>1
  <2> HIDE DEF e, y
  <2>3. ~(e + 1 <= 0)
    <3> SUFFICES ASSUME e + 1 <= 0 PROVE FALSE OBVIOUS
    <3>1. e * w + w <= 0 * w BY <2>1, Products
    <3>2. 0 * w = 0 OBVIOUS
    <3> QED BY <2>1, <2>2, <3>1, <3>2
  <2>4. ~(q + 1 <= e + 1)
    <3> SUFFICES ASSUME q + 1 <= e + 1 PROVE FALSE OBVIOUS
    <3>1. q * w + w <= (e + 1) * w BY <1>2, <2>1, Products
    <3>2. (e + 1) * w = e * w + w BY <2>1, Multiples
    <3> QED BY <1>3, <1>4, <2>1, <2>2, <3>1, <3>2
  <2> QED BY <1>2, <2>1, <2>3, <2>4 DEF e
<1>8. ASSUME NEW k \in 1 .. q, NEW d \in Int
      PROVE  (k - 1) * w <= d /\ d < (k - 1) * w + w /\ d < c <=>
             d \in 0 .. c - 1 /\ k = d \div w + 1
  <2> DEFINE x == (k - 1) * w
             e == d \div w
             y == w * e
  <2>1. d = y + (d % w) /\ d % w \in 0 .. w - 1 /\ e \in Int BY DivMod
  <2>2. y = e * w /\ y \in Int BY <2>1
  <2>3. x \in Nat BY <1>6
  <2>4. ASSUME x <= d, d < x + w, d < c PROVE d \in 0 .. c - 1 /\ k = e + 1
    <3>1. d - x \in 0 .. w - 1 /\ x = w * (k - 1) BY <2>3, <2>4, <1>5
    <3> DEFINE z == d - x
    <3>2. d = w * (k - 1) + z /\ z \in 0 .. w - 1 BY <2>3, <3>1
    <3> HIDE DEF z
    <3>3. e = k - 1 BY <1>5, <3>2, ModUnique
    <3> HIDE DEF x, e
    <3> QED BY <1>5, <2>3, <2>4, <3>3
  <2>5. ASSUME d \in 0 .. c - 1, k = e + 1 PROVE x <= d /\ d < x + w /\ d < c
    <3>1. x = y BY <2>1, <2>2, <2>5
    <3> HIDE DEF x, y, e
    <3> QED BY <2>1, <2>2, <2>3, <2>5, <3>1
  <2> QED BY <2>4, <2>5
<1> QED BY <1>5, <1>6, <1>7, <1>8 DEF Pieced

LEMMA AsSequence ==
    ASSUME NEW D, NEW n \in Nat, NEW s \in [1 .. n -> D]
    PROVE  s \in Seq(D)
OBVIOUS

LEMMA MinOfTwo ==
    ASSUME NEW x \in Nat, NEW y \in Nat
    PROVE  Min({x, y}) \in {x, y} /\ Min({x, y}) <= x /\ Min({x, y}) <= y
BY LeastIsMin

(* The objects of ranges n .. n + c - 1.                                    *)
Cover(n, c) ==
    [k \in 1 .. (c + PerObject - 1) \div PerObject |->
        [first |-> n + (k - 1) * PerObject,
         count |-> Min({PerObject, c - (k - 1) * PerObject})]]

(* Ranges n .. n + c - 1, and no others, are each in one object of o.       *)
CoversRanges(o, n, c) ==
    /\ o \in Seq([first : Nat, count : Nat])
    /\ \A i \in Nat : i \notin n .. n + c - 1 =>
          \A k \in 1 .. Len(o) : i \notin o[k].first .. o[k].first + o[k].count - 1
    /\ \A i \in n .. n + c - 1 : \E k \in 1 .. Len(o) :
          \A j \in 1 .. Len(o) :
             i \in o[j].first .. o[j].first + o[j].count - 1 <=> j = k

LEMMA CoverIs ==
    ASSUME NEW n \in Nat \ {0}, NEW c \in Nat, NEW o, o = Cover(n, c)
    PROVE  CoversRanges(o, n, c)
<1> DEFINE w == PerObject
           q == (c + w - 1) \div w
           x(k) == (k - 1) * w
           least(k) == Min({w, c - x(k)})
<1>1. w \in Nat \ {0} BY PlanAssumption
<1>2. /\ q \in Nat
      /\ \A k \in 1 .. q : x(k) \in Nat /\ x(k) < c
      /\ \A d \in 0 .. c - 1 : d \div w + 1 \in 1 .. q
      /\ \A k \in 1 .. q : \A d \in Int :
            x(k) <= d /\ d < x(k) + w /\ d < c <=> d \in 0 .. c - 1 /\ k = d \div w + 1
  <2> HIDE DEF w
  <2>1. q = (c + w - 1) \div w OBVIOUS
  <2> HIDE DEF q
  <2>2. Pieced(c, w, q) BY <1>1, <2>1, Pieces
  <2> QED BY <2>2 DEF Pieced
<1>3. o = [k \in 1 .. q |-> [first |-> n + x(k), count |-> least(k)]] BY DEF Cover
<1> HIDE DEF w, q, x
<1>4. \A k \in 1 .. q : /\ least(k) \in Nat
                        /\ \A d \in Int : d < least(k) <=> d < w /\ d < c - x(k)
  <2> SUFFICES ASSUME NEW k \in 1 .. q
               PROVE  /\ least(k) \in Nat
                      /\ \A d \in Int : d < least(k) <=> d < w /\ d < c - x(k)
      OBVIOUS
  <2>1. c - x(k) \in Nat BY <1>2
  <2>2. least(k) \in {w, c - x(k)} /\ least(k) <= w /\ least(k) <= c - x(k)
        BY <1>1, <2>1, MinOfTwo
  <2> HIDE DEF least
  <2> QED BY <1>1, <2>1, <2>2
<1> HIDE DEF least
<1>5. /\ o \in Seq([first : Nat, count : Nat]) /\ Len(o) = q
      /\ \A k \in 1 .. q : o[k].first = n + x(k) /\ o[k].count = least(k)
  <2>1. \A k \in 1 .. q : n + x(k) \in Nat /\ least(k) \in Nat BY <1>2, <1>4
  <2>2. Len(o) = q /\ DOMAIN o = 1 .. q BY <1>2, <1>3
  <2>3. o \in [1 .. q -> [first : Nat, count : Nat]] BY <1>3, <2>1
  <2>4. o \in Seq([first : Nat, count : Nat]) BY <1>2, <2>3, AsSequence
  <2>5. \A k \in 1 .. q : o[k].first = n + x(k) /\ o[k].count = least(k) BY <1>3
  <2> QED BY <2>2, <2>4, <2>5
<1>6. ASSUME NEW i \in Nat, NEW k \in 1 .. q
      PROVE  i \in o[k].first .. o[k].first + o[k].count - 1 <=>
             i - n \in 0 .. c - 1 /\ k = (i - n) \div w + 1
  <2> DEFINE d == i - n
             y == x(k)
             l == least(k)
  <2>1. y \in Nat /\ l \in Nat /\ d \in Int BY <1>2, <1>4
  <2>2. d - y < l <=> d - y < w /\ d - y < c - y
    <3>1. d - y \in Int BY <2>1
    <3> QED BY <1>4, <3>1
  <2>3. y <= d /\ d < y + w /\ d < c <=> d \in 0 .. c - 1 /\ k = d \div w + 1 BY <1>2, <2>1
  <2>4. o[k].first = n + y /\ o[k].count = l BY <1>5
  <2>5. i \in n + y .. n + y + l - 1 <=> y <= d /\ d - y < l
    <3> HIDE DEF y, l
    <3> QED BY <2>1
  <2>6. (y <= d /\ d - y < l) <=> (y <= d /\ d < y + w /\ d < c)
    <3> HIDE DEF y, l, d
    <3> QED BY <1>1, <2>1, <2>2
  <2> QED BY <2>3, <2>4, <2>5, <2>6
<1>7. ASSUME NEW i \in Nat, i \notin n .. n + c - 1, NEW k \in 1 .. q
      PROVE  i \notin o[k].first .. o[k].first + o[k].count - 1
  <2>1. i - n \notin 0 .. c - 1 BY <1>7
  <2> QED BY <1>6, <2>1
<1>8. ASSUME NEW i \in n .. n + c - 1
      PROVE  \E k \in 1 .. q : \A j \in 1 .. q :
                i \in o[j].first .. o[j].first + o[j].count - 1 <=> j = k
  <2>1. i \in Nat /\ i - n \in 0 .. c - 1 BY <1>8
  <2> DEFINE k == (i - n) \div w + 1
  <2>2. k \in 1 .. q BY <1>2, <2>1
  <2>3. \A j \in 1 .. q : i \in o[j].first .. o[j].first + o[j].count - 1 <=> j = k
        BY <1>6, <2>1
  <2> QED BY <2>2, <2>3
<1> QED BY <1>5, <1>7, <1>8 DEF CoversRanges

LEMMA Joining ==
    ASSUME NEW D, NEW s \in Seq(D), NEW t \in Seq(D)
    PROVE  /\ s \o t \in Seq(D)
           /\ Len(s) \in Nat /\ Len(t) \in Nat /\ Len(s \o t) = Len(s) + Len(t)
           /\ \A k \in 1 .. Len(s) : (s \o t)[k] = s[k]
           /\ \A k \in 1 .. Len(t) : (s \o t)[Len(s) + k] = t[k]
OBVIOUS

(* Where the section's ranges end, no more of them follow.                  *)
LEMMA SectionEnds ==
    ASSUME Ascending, Ranges, section \in DOMAIN Sections, next \in 1 .. Len(ranges) + 1,
           \A i \in next .. Len(ranges) : \E s \in section .. Len(Sections) : Lies(ranges[i], s),
           NEW past,
           past = Min({i \in next .. Len(ranges) : ~Lies(ranges[i], section)}
                      \cup {Len(ranges) + 1})
    PROVE  /\ past \in next .. Len(ranges) + 1
           /\ \A i \in past .. Len(ranges) :
                 \E s \in section + 1 .. Len(Sections) : Lies(ranges[i], s)
<1> DEFINE N == Len(ranges)
           T == {i \in next .. N : ~Lies(ranges[i], section)} \cup {N + 1}
<1>1. /\ N \in Nat /\ DOMAIN ranges = 1 .. N /\ next \in Nat
      /\ \A i \in 1 .. N : ranges[i].start \in Nat /\ ranges[i].end \in Nat
      BY RangesTyped DEF Ranges
<1>2. T \subseteq Nat /\ T # {} BY <1>1
<1>3. past \in T
  <2> HIDE DEF T
  <2>1. past = Min(T) BY DEF T
  <2> QED BY <1>2, <2>1, LeastIsMin
<1>4. past \in next .. N + 1 BY <1>1, <1>3
<1>5. ASSUME NEW i \in past .. N PROVE \E s \in section + 1 .. Len(Sections) : Lies(ranges[i], s)
  <2>1. /\ past \in next .. N /\ past \in 1 .. N /\ ~Lies(ranges[past], section)
        /\ i \in next .. N /\ i \in 1 .. N
        BY <1>1, <1>3, <1>4
  <2>2. PICK s \in section .. Len(Sections) : Lies(ranges[i], s) BY <2>1
  <2>3. PICK t \in section .. Len(Sections) : Lies(ranges[past], t) BY <2>1
  <2>4. /\ section \in Nat /\ Len(Sections) \in Nat
        /\ s \in DOMAIN Sections /\ t \in DOMAIN Sections /\ section < t
        BY <2>1, <2>2, <2>3, SectionsTyped
  <2>5. s # section
    <3> SUFFICES ASSUME s = section PROVE FALSE OBVIOUS
    <3>1. Sections[section].end <= Sections[t].start BY <2>4 DEF Ascending
    <3> DEFINE p == ranges[past]
               r == ranges[i]
    <3>2. /\ p.start \in Nat /\ p.end \in Nat /\ r.start \in Nat /\ r.end \in Nat
          /\ past \in DOMAIN ranges /\ i \in DOMAIN ranges
          BY <1>1, <2>1
    <3>3. Sections[t].start <= p.start /\ r.end <= Sections[section].end
          BY <2>2, <2>3 DEF Lies
    <3>4. InOrder BY DEF Ranges
    <3>5. p.start < p.end /\ r.start < r.end /\ (past < i => p.end <= r.start)
          BY <3>2, <3>4 DEF InOrder
    <3>6. past = i \/ past < i BY <1>1, <1>4
    <3>7. past = i => p = r OBVIOUS
    <3> HIDE DEF p, r
    <3>8. p.start < r.end BY <3>2, <3>5, <3>6, <3>7
    <3>9. Sections[t].start \in Nat /\ Sections[section].end \in Nat BY <2>4, SectionsTyped
    <3> DEFINE u == Sections[t].start
               v == Sections[section].end
    <3>10. v <= u /\ u <= p.start /\ r.end <= v /\ u \in Nat /\ v \in Nat
           BY <3>1, <3>3, <3>9
    <3> HIDE DEF u, v
    <3> QED BY <3>2, <3>8, <3>10
  <2>6. s \in section + 1 .. Len(Sections) BY <2>4, <2>5
  <2> QED BY <2>2, <2>6
<1> QED BY <1>4, <1>5

(* The objects of a section hold its ranges, each of them once.            *)
LEMMA BatchSectionKeeps ==
    ASSUME Ascending, PlanInv, BatchSection
    PROVE  PlanInv'
<1> DEFINE N == Len(ranges)
           past == Min({i \in next .. N : ~Lies(ranges[i], section)} \cup {N + 1})
           count == past - next
           o == Cover(next, count)
           m == Len(objects)
           D == [first : Nat, count : Nat]
<1>1. /\ planPhase = "batch"
      /\ program' = program /\ extra' = extra /\ patches' = patches /\ ranges' = ranges
      /\ objects' = objects \o o /\ next' = past
      /\ \/ section < Len(Sections) /\ section' = section + 1 /\ planPhase' = "batch"
         \/ ~(section < Len(Sections)) /\ section' = section /\ planPhase' = "planned"
      BY DEF BatchSection, planInput, Lies, Cover
<1>2. /\ Ranges /\ section \in DOMAIN Sections /\ section \in Nat /\ Len(Sections) \in Nat
      /\ DOMAIN Sections = 1 .. Len(Sections)
      BY SectionsTyped DEF PlanInv, PlanTypes, Ranges
<1>3. N \in Nat /\ DOMAIN ranges = 1 .. N BY <1>2, RangesTyped DEF Ranges
<1>4. /\ objects \in Seq(D)
      /\ next \in 1 .. N + 1
      /\ \A i \in DOMAIN ranges : Cardinality(InObject(i)) = IF i < next THEN 1 ELSE 0
      /\ \A i \in next .. N : \E s \in section .. Len(Sections) : Lies(ranges[i], s)
      BY <1>1 DEF PlanInv, Batching
<1>5. /\ past \in next .. N + 1
      /\ \A i \in past .. N : \E s \in section + 1 .. Len(Sections) : Lies(ranges[i], s)
  <2> DEFINE p == past
  <2>1. p = past OBVIOUS
  <2> HIDE DEF p
  <2>2. /\ p \in next .. N + 1
        /\ \A i \in p .. N : \E s \in section + 1 .. Len(Sections) : Lies(ranges[i], s)
        BY <1>2, <1>4, <2>1, SectionEnds
  <2> QED BY <2>1, <2>2
<1> HIDE DEF past
<1>6. next \in Nat \ {0} /\ past \in Nat /\ count \in Nat /\ next + count = past
      BY <1>3, <1>4, <1>5
<1> HIDE DEF count
<1>7. /\ o \in Seq(D)
      /\ \A i \in Nat : i \notin next .. past - 1 =>
            \A k \in 1 .. Len(o) : i \notin o[k].first .. o[k].first + o[k].count - 1
      /\ \A i \in next .. past - 1 : \E k \in 1 .. Len(o) : \A j \in 1 .. Len(o) :
            i \in o[j].first .. o[j].first + o[j].count - 1 <=> j = k
  <2>1. next + count - 1 = past - 1 BY <1>6
  <2>2. o = Cover(next, count) OBVIOUS
  <2> HIDE DEF o
  <2>3. CoversRanges(o, next, count) BY <1>6, <2>2, CoverIs
  <2> QED BY <2>1, <2>3 DEF CoversRanges
<1> HIDE DEF o
<1>8. /\ objects' \in Seq(D) /\ m \in Nat /\ Len(o) \in Nat
      /\ DOMAIN objects = 1 .. m /\ DOMAIN objects' = 1 .. m + Len(o)
      /\ \A k \in 1 .. m : objects'[k] = objects[k]
      /\ \A k \in 1 .. Len(o) : objects'[m + k] = o[k]
  <2> HIDE DEF D
  <2> QED BY <1>1, <1>4, <1>7, Joining
<1> DEFINE Contains(b, i) == i \in b.first .. b.first + b.count - 1
           Added(i) == {k \in m + 1 .. m + Len(o) : Contains(o[k - m], i)}
<1>9. \A i : InObject(i)' = InObject(i) \cup Added(i)
  <2> SUFFICES ASSUME NEW i PROVE InObject(i)' = InObject(i) \cup Added(i) OBVIOUS
  <2>1. InObject(i) = {k \in 1 .. m : Contains(objects[k], i)} BY <1>8 DEF InObject
  <2>2. InObject(i)' = {k \in 1 .. m + Len(o) : Contains(objects'[k], i)} BY <1>8 DEF InObject
  <2>3. \A k \in 1 .. m + Len(o) : k \in 1 .. m \/ k \in m + 1 .. m + Len(o) BY <1>8
  <2>4. \A k \in 1 .. m : k \in 1 .. m + Len(o) BY <1>8
  <2>5. \A k \in m + 1 .. m + Len(o) :
           /\ k \in 1 .. m + Len(o) /\ k \notin 1 .. m
           /\ objects'[k] = o[k - m]
    <3> SUFFICES ASSUME NEW k \in m + 1 .. m + Len(o)
                 PROVE  k \in 1 .. m + Len(o) /\ k \notin 1 .. m /\ objects'[k] = o[k - m]
        OBVIOUS
    <3> HIDE DEF m
    <3>1. PICK j \in 1 .. Len(o) : k = m + j
      <4>1. k - m \in 1 .. Len(o) /\ k = m + (k - m) BY <1>8
      <4> QED BY <4>1
    <3>2. k - m = j BY <1>8, <3>1
    <3> QED BY <1>8, <3>1, <3>2
  <2> HIDE DEF Contains
  <2> QED BY <1>8, <2>1, <2>2, <2>3, <2>4, <2>5
<1>10. ASSUME NEW i \in 1 .. N
       PROVE  Cardinality(InObject(i)') = IF i < past THEN 1 ELSE 0
  <2>1. i \in Nat BY <1>3
  <2>2. CASE i \in next .. past - 1
    <3>1. PICK k \in 1 .. Len(o) : \A j \in 1 .. Len(o) : Contains(o[j], i) <=> j = k
          BY <1>7, <2>2
    <3>2. InObject(i) = {}
      <4>1. Cardinality(InObject(i)) = 0
        <5>1. ~(i < next) /\ i \in DOMAIN ranges BY <1>3, <1>6, <2>1, <2>2
        <5> QED BY <1>4, <5>1
      <4>2. IsFiniteSet(InObject(i))
        <5>1. InObject(i) \subseteq 1 .. m BY <1>8 DEF InObject
        <5>2. IsFiniteSet(1 .. m)
          <6> HIDE DEF m
          <6> QED BY <1>8, FS_Interval
        <5> QED BY <5>1, <5>2, FS_Subset
      <4> QED BY <4>1, <4>2, FS_EmptySet
    <3>3. Added(i) = {m + k}
      <4> DEFINE l == Len(o)
      <4>1. m \in Nat /\ l \in Nat /\ k \in 1 .. l BY <1>8
      <4> HIDE DEF Contains, m, l
      <4>2. \A j \in m + 1 .. m + l : j - m \in 1 .. l /\ (j - m = k <=> j = m + k)
            BY <4>1
      <4>3. m + k \in m + 1 .. m + l BY <4>1
      <4> USE DEF l
      <4> QED BY <3>1, <4>2, <4>3
    <3>4. InObject(i)' = {m + k} BY <1>9, <3>2, <3>3
    <3>5. i < past BY <1>6, <2>2
    <3> QED BY <3>4, <3>5, FS_Singleton
  <2>3. CASE i \notin next .. past - 1
    <3>1. Added(i) = {}
      <4> HIDE DEF Contains
      <4>1. \A j \in m + 1 .. m + Len(o) : j - m \in 1 .. Len(o) BY <1>8
      <4>2. \A k \in 1 .. Len(o) : ~Contains(o[k], i) BY <1>7, <2>1, <2>3 DEF Contains
      <4> QED BY <4>1, <4>2
    <3>2. InObject(i)' = InObject(i) BY <1>9, <3>1
    <3>3. i < next <=> i < past BY <1>4, <1>5, <1>6, <2>1, <2>3
    <3> QED BY <1>3, <1>4, <3>2, <3>3
  <2> QED BY <2>2, <2>3
<1>11. planPhase' = "planned" => past = N + 1
  <2> SUFFICES ASSUME planPhase' = "planned", past # N + 1 PROVE FALSE OBVIOUS
  <2>1. past \in past .. N BY <1>3, <1>5, <1>6
  <2>2. PICK s \in section + 1 .. Len(Sections) : Lies(ranges[past], s) BY <1>5, <2>1
  <2> QED BY <1>1, <1>2, <2>2
<1>12. past \in 1 .. N + 1 BY <1>3, <1>4, <1>5, <1>6
<1>13. section' \in DOMAIN Sections BY <1>1, <1>2
<1>14. PlanTypes' BY <1>1, <1>6, <1>13 DEF PlanInv, PlanTypes
<1>15. InOrder' BY <1>1 DEF PlanInv, InOrder, Lies
<1>16. Tiled' /\ Building' /\ WholeCode' /\ Closing'
       BY <1>1 DEF Tiled, Building, WholeCode, Closing, Built
<1>17. PatchesKept' BY <1>1 DEF PlanInv, PatchesKept
<1>18. planPhase' = "batch" =>
          \A i \in past .. N : \E s \in section' .. Len(Sections) : Lies(ranges[i], s)'
       BY <1>1, <1>5 DEF Lies
<1>19. Batching' BY <1>1, <1>3, <1>8, <1>10, <1>11, <1>12, <1>18 DEF Batching
<1> QED BY <1>14, <1>15, <1>16, <1>17, <1>19 DEF PlanInv

LEMMA PlanStarts == ASSUME Ascending, PlanInit PROVE PlanInv
<1> DEFINE b == Sections[1].start
<1>1. /\ program \in Codes /\ extra \in ExtraPoints /\ patches \in PatchSets
      /\ planPhase = "build" /\ section = 1 /\ next = b /\ ranges = <<>> /\ objects = <<>>
      BY DEF PlanInit
<1>2. /\ 1 \in DOMAIN Sections /\ DOMAIN Sections = 1 .. Len(Sections) /\ Len(Sections) \in Nat
      /\ b \in Nat /\ Sections[1].end \in Nat /\ b <= Sections[1].end
      BY SectionsTyped
<1>3. PlanTypes BY <1>1, <1>2 DEF PlanTypes
<1>4. InOrder /\ Tiled /\ WholeCode /\ PatchesKept /\ Closing
      BY <1>1 DEF InOrder, Tiled, WholeCode, Built, PatchesKept, Closing
<1>5. Batching BY <1>1 DEF Batching
(* Nothing lies before the first section.                                   *)
<1>6. ASSUME NEW s \in DOMAIN Sections, NEW a \in Int, Sections[s].start <= a PROVE ~(a < b)
  <2>1. Sections[s].start \in Nat BY SectionsTyped
  <2>2. CASE s = 1 BY <1>2, <1>6, <2>2
  <2>3. CASE s # 1
    <3>1. 1 < s BY <1>2, <2>3
    <3>2. Sections[1].end <= Sections[s].start BY <1>2, <3>1 DEF Ascending
    <3> QED BY <1>2, <1>6, <2>1, <3>2
  <2> QED BY <2>2, <2>3
<1>7. \A a \in Address : ~(a < b)
  <2> SUFFICES ASSUME NEW a \in Address PROVE ~(a < b) OBVIOUS
  <2>1. a \in Int /\ \E s \in DOMAIN Sections : Sections[s].start <= a BY AddressIs
  <2> QED BY <1>6, <2>1
<1>8. \A p \in patches : ~(p.start < b)
  <2> SUFFICES ASSUME NEW p \in patches PROVE ~(p.start < b) OBVIOUS
  <2>1. p.start \in Int /\ \E s \in DOMAIN Sections : Sections[s].start <= p.start
        BY <1>1, PatchesAre
  <2> QED BY <1>6, <2>1
<1>9. RoomLeft(0)
  <2> DEFINE x == Cardinality(PointsUpTo(next))
  <2>1. x \in Nat BY <1>1, <1>2, PointsGrow
  <2>2. Room[section - 1] = 0 BY <1>1, RoomIs
  <2>3. Len(ranges) = 0 BY <1>1
  <2>4. SectionRoom(section) \in Nat BY <1>1, <1>2, SectionRoomIs
  <2>5. 0 * Chunk = 0 /\ next - Sections[section].start = 0 BY <1>1, <1>2, PlanAssumption
  <2> HIDE DEF x
  <2>6. Len(ranges) <= x + Room[section - 1] + 0 BY <2>1, <2>2, <2>3
  <2> QED BY <2>4, <2>5, <2>6 DEF RoomLeft, x
<1>10. Building BY <1>1, <1>2, <1>7, <1>8, <1>9 DEF Building
<1> QED BY <1>3, <1>4, <1>5, <1>10 DEF PlanInv

LEMMA PlanStutters == ASSUME PlanInv, UNCHANGED planVars PROVE PlanInv'
<1>1. /\ PlanKept /\ planPhase' = planPhase
      /\ selected' = selected /\ queue' = queue /\ cursor' = cursor /\ closureEnd' = closureEnd
      /\ depth' = depth /\ before' = before
      BY DEF planVars, planInput, closureVars, PlanKept
<1>2. PartitionPoints' = PartitionPoints BY <1>1 DEF PlanKept, PartitionPoints, PatchPoints
<1>3. PlanTypes' BY <1>1 DEF PlanInv, PlanTypes, PlanKept
<1>4. InOrder' BY <1>1 DEF PlanInv, PlanKept, InOrder, Lies
<1>5. Tiled'
  <2>1. \A i \in DOMAIN ranges : (Abuts(i)' <=> Abuts(i)) /\ (Cut(i)' <=> Cut(i))
        BY <1>1, <1>2 DEF Abuts, Cut, Lies, PlanKept
  <2> QED BY <1>1, <2>1 DEF PlanInv, Tiled, PlanKept, Built
<1>6. Building'
  <2>1. \A k : RoomLeft(k)' <=> RoomLeft(k)
        BY <1>1, <1>2 DEF RoomLeft, PointsUpTo, PlanKept, SectionRoom, SectionSize
  <2> QED BY <1>1, <2>1 DEF PlanInv, PlanKept, Building, Spans
<1>7. RangeCapacity' = RangeCapacity BY <1>2 DEF RangeCapacity
<1>8. WholeCode' BY <1>1, <1>7 DEF PlanInv, PlanKept, WholeCode, Spans, Built
<1>9. PatchesKept' BY <1>1 DEF PlanInv, PlanKept, PatchesKept
<1>10. Closing'
  <2>1. \A j : Reached(planPhase, j)' = Reached(planPhase, j)
    <3>1. PICK ph : ph = planPhase OBVIOUS
    <3>2. \A j : Reached(ph, j)' = Reached(ph, j) BY <1>1, ReachedStays DEF PlanKept
    <3> QED BY <1>1, <3>1, <3>2
  <2>2. Around(depth)' = Around(depth)
    <3>1. PICK I, ph, d : I = Range(SubSeq(queue, 1, before)) /\ ph = planPhase /\ d = depth
          OBVIOUS
    <3>2. Within(I, ph, d)' = Within(I, ph, d) BY <1>1, WithinStays DEF PlanKept
    <3>3. (Range(SubSeq(queue, 1, before)))' = I BY <1>1, <3>1
    <3> QED BY <1>1, <3>1, <3>2, <3>3 DEF Around
  <2>3. Limit' = Limit BY <1>1 DEF Limit
  <2> QED BY <1>1, <2>1, <2>2, <2>3 DEF PlanInv, PlanKept, Closing
<1>11. Batching'
  <2>1. \A i : InObject(i)' = InObject(i) BY <1>1 DEF InObject, PlanKept
  <2> QED BY <1>1, <2>1 DEF PlanInv, PlanKept, Batching, Lies
<1> QED BY <1>3, <1>4, <1>5, <1>6, <1>8, <1>9, <1>10, <1>11 DEF PlanInv

(* A section has no room that all of them have not.                        *)
LEMMA RoomGrows ==
    ASSUME NEW s \in DOMAIN Sections
    PROVE  Room[s] <= Room[Len(Sections)]
<1> DEFINE n == Len(Sections) - s
           T == {k \in 0 .. n : Room[s] <= Room[s + k]}
<1>1. s \in Nat /\ n \in Nat /\ DOMAIN Sections = 1 .. Len(Sections) /\ Len(Sections) = s + n
      BY SectionsTyped
<1> HIDE DEF n
<1>2. 0 \in T
  <2>1. s + 0 = s /\ Room[s] \in Nat BY <1>1, RoomIs
  <2> QED BY <1>1, <2>1
<1>3. ASSUME NEW k \in 1 .. n, k - 1 \in T PROVE k \in T
  <2>1. s + k \in DOMAIN Sections /\ s + (k - 1) = (s + k) - 1 /\ k \in 0 .. n BY <1>1
  <2>2. /\ Room[(s + k) - 1] \in Nat /\ Room[s + k] \in Nat
        /\ Room[s + k] = Room[(s + k) - 1] + SectionRoom(s + k)
        /\ SectionRoom(s + k) \in Nat /\ Room[s] \in Nat
        BY <2>1, RoomIs, SectionRoomIs
  <2>3. Room[s] <= Room[(s + k) - 1] BY <1>3, <2>1
  <2>4. Room[s] <= Room[s + k] BY <2>2, <2>3
  <2> QED BY <2>1, <2>4
<1>4. n \in T
  <2> HIDE DEF T
  <2>1. 0 .. n \subseteq T BY <1>1, <1>2, <1>3, UpTo
  <2> QED BY <1>1, <2>1
<1> QED BY <1>1, <1>4

LEMMA Tiles == ASSUME Ascending, PlanInv PROVE RangesTile
<1> SUFFICES ASSUME planPhase \in {"build", "seed", "calls", "successors"} PROVE RangesTile
    BY DEF RangesTile
<1>1. Ranges /\ PlanTypes /\ InOrder BY DEF PlanInv, PlanTypes, Ranges
<1>2. Len(ranges) <= RangeCapacity
  <2>1. CASE planPhase = "build"
    <3> DEFINE x == Cardinality(PointsUpTo(next))
               y == Cardinality(PartitionPoints)
               n == Len(ranges)
    <3>1. PICK k \in Nat : RoomLeft(k) BY <2>1 DEF PlanInv, Building
    <3>2. n <= x + Room[section - 1] + k /\ k <= SectionRoom(section)
          BY <3>1 DEF RoomLeft
    <3>3. x \in Nat /\ y \in Nat /\ x <= y BY <1>1, PointsGrow DEF PlanTypes
    <3>4. /\ section \in DOMAIN Sections
          /\ Room[section - 1] \in Nat /\ Room[section] \in Nat
          /\ Room[section] = Room[section - 1] + SectionRoom(section)
          /\ SectionRoom(section) \in Nat
          BY <1>1, RoomIs, SectionRoomIs DEF PlanTypes
    <3>5. Room[section] <= Room[Len(Sections)] /\ Room[Len(Sections)] \in Nat
      <4>1. Len(Sections) \in DOMAIN Sections BY SectionsTyped
      <4> QED BY <3>4, <4>1, RoomGrows, RoomIs
    <3>6. n \in Nat BY <1>1, RangesTyped DEF Ranges
    <3>7. RangeCapacity = y + Room[Len(Sections)] BY DEF RangeCapacity
    <3> DEFINE earlier == Room[section - 1]
               here == SectionRoom(section)
               all == Room[Len(Sections)]
    <3>8. earlier \in Nat /\ here \in Nat /\ all \in Nat /\ earlier + here <= all
          BY <3>4, <3>5
    <3>9. n <= x + earlier + k /\ k <= here BY <3>2
    <3> HIDE DEF x, y, n, earlier, here, all
    <3>10. n <= y + all BY <3>3, <3>6, <3>8, <3>9
    <3> QED BY <3>7, <3>10 DEF n, all
  <2>2. CASE Built BY <2>2 DEF PlanInv, WholeCode
  <2> QED BY <2>1, <2>2 DEF Built
<1>3. ASSUME NEW i \in DOMAIN ranges
      PROVE  /\ ranges[i].start < ranges[i].end
             /\ \E s \in DOMAIN Sections :
                   /\ ranges[i].start >= Sections[s].start
                   /\ ranges[i].end <= Sections[s].end
                   /\ \/ ranges[i].start = Sections[s].start
                      \/ i > 1 /\ ranges[i - 1].end = ranges[i].start
             /\ \/ ranges[i] \in patches
                \/ /\ ranges[i].end - ranges[i].start <= Chunk
                   /\ \A p \in PartitionPoints :
                         p <= ranges[i].start \/ p >= ranges[i].end
  <2>1. Abuts(i) /\ Cut(i) BY DEF PlanInv, Tiled, Built
  <2>2. ranges[i].start < ranges[i].end BY <1>1 DEF InOrder
  <2>3. \E s \in DOMAIN Sections :
           /\ ranges[i].start >= Sections[s].start
           /\ ranges[i].end <= Sections[s].end
           /\ \/ ranges[i].start = Sections[s].start
              \/ i > 1 /\ ranges[i - 1].end = ranges[i].start
    <3>1. PICK s \in DOMAIN Sections :
             /\ Lies(ranges[i], s)
             /\ \/ ranges[i].start = Sections[s].start
                \/ i > 1 /\ ranges[i - 1].end = ranges[i].start
          BY <2>1 DEF Abuts
    <3> QED BY <3>1 DEF Lies
  <2> QED BY <2>1, <2>2, <2>3 DEF Cut
<1>4. ASSUME Built
      PROVE  /\ \A p \in patches : \E i \in DOMAIN ranges : ranges[i] = p
             /\ \A a \in Address : RangeIndexFor(a) # 0
  <2>1. \A p \in patches : \E i \in DOMAIN ranges : ranges[i] = p
        BY <1>4 DEF PlanInv, PatchesKept, Built
  <2>2. ASSUME NEW a \in Address PROVE RangeIndexFor(a) # 0
    <3>1. PICK i \in DOMAIN ranges : Spans(ranges[i], a) BY <1>4 DEF PlanInv, WholeCode
    <3>2. RangeIndexFor(a) = i BY <1>1, <3>1, AddressIs, SearchIs
    <3>3. i # 0 BY <1>1, RangesTyped DEF Ranges
    <3> QED BY <3>2, <3>3
  <2> QED BY <2>1, <2>2
<1> QED BY <1>2, <1>3, <1>4 DEF RangesTile

LEMMA Selects == ASSUME PlanInv PROVE SelectionWithinDepth
<1> SUFFICES ASSUME planPhase \in {"calls", "successors"} PROVE SelectionWithinDepth
    BY DEF SelectionWithinDepth
<1> DEFINE n == Len(queue)
           D == DOMAIN ranges
           I == Range(SubSeq(queue, 1, before))
<1>1. /\ queue \in Seq(D) /\ IsInjective(queue) /\ Range(queue) = selected
      /\ cursor \in 1 .. closureEnd /\ closureEnd \in 1 .. n + 1
      /\ depth \in 0 .. Limit /\ before \in 0 .. n
      /\ {queue[k] : k \in 1 .. closureEnd - 1} = Around(depth)
      /\ \A k \in 1 .. cursor - 1 : Reached(planPhase, queue[k]) \subseteq selected
      /\ cursor = closureEnd \/ depth = Limit => closureEnd = n + 1
      BY DEF PlanInv, Closing
<1>2. n \in Nat /\ selected = {queue[k] : k \in 1 .. n} BY <1>1, RangeIsAll
<1>3. Limit \in Nat BY PlanAssumption DEF Limit
<1>4. Ranges /\ program \in Codes BY DEF PlanInv, PlanTypes, Ranges
<1>5. I \subseteq D BY <1>1, PrefixIs
<1> HIDE DEF n, D, I
<1>6. ASSUME ClosureDone PROVE selected = Around(Limit)
  <2>1. closureEnd = n + 1 BY <1>1, <1>2, <1>3, <1>6 DEF ClosureDone
  <2>2. selected = Around(depth)
    <3>1. closureEnd - 1 = n BY <1>2, <2>1
    <3> QED BY <1>1, <1>2, <3>1
  <2>3. CASE depth >= Limit
    <3>1. depth = Limit BY <1>1, <1>3, <2>3
    <3> QED BY <2>2, <3>1
  <2>4. CASE ~(depth >= Limit)
    <3>1. cursor - 1 = n BY <1>1, <1>2, <1>6, <2>1, <2>4 DEF ClosureDone
    <3>2. \A i \in selected : Reached(planPhase, i) \subseteq selected
          BY <1>1, <1>2, <3>1
    <3>3. Spread(planPhase, selected) = selected BY <3>2 DEF Spread
    <3> DEFINE m == Limit - depth
               T == {k \in 0 .. m : Around(depth + k) = selected}
    <3>4. m \in Nat /\ depth \in Nat /\ depth + m = Limit BY <1>1, <1>3, <2>4
    <3> HIDE DEF m
    <3>5. \A d \in Nat : Around(d + 1) = Spread(planPhase, Around(d))
      <4> SUFFICES ASSUME NEW d \in Nat PROVE Around(d + 1) = Spread(planPhase, Around(d))
          OBVIOUS
      <4>1. Within(I, planPhase, d + 1) = Spread(planPhase, Within(I, planPhase, d))
            BY <1>4, <1>5, WithinIs DEF D
      <4> QED BY <4>1 DEF Around, I
    <3>6. 0 \in T
      <4>1. depth + 0 = depth BY <3>4
      <4> QED BY <2>2, <3>4, <4>1
    <3>7. ASSUME NEW k \in 1 .. m, k - 1 \in T PROVE k \in T
      <4>1. depth + (k - 1) \in Nat /\ depth + k = (depth + (k - 1)) + 1 /\ k \in 0 .. m
            BY <3>4
      <4>2. Around(depth + k) = Spread(planPhase, Around(depth + (k - 1))) BY <3>5, <4>1
      <4> QED BY <3>3, <3>7, <4>1, <4>2
    <3>8. m \in T
      <4> HIDE DEF T
      <4>1. 0 .. m \subseteq T BY <3>4, <3>6, <3>7, UpTo
      <4> QED BY <3>4, <4>1
    <3> QED BY <3>4, <3>8
  <2> QED BY <2>3, <2>4
<1> QED BY <1>1, <1>6 DEF SelectionWithinDepth, Around

LEMMA Objects == ASSUME PlanInv PROVE ObjectsCoverRanges
<1> SUFFICES ASSUME planPhase = "planned" PROVE ObjectsCoverRanges BY DEF ObjectsCoverRanges
<1>1. Ranges /\ patches \in PatchSets BY DEF PlanInv, PlanTypes, Ranges
<1>2. Len(ranges) \in Nat /\ DOMAIN ranges = 1 .. Len(ranges) BY <1>1, RangesTyped DEF Ranges
<1>3. /\ next = Len(ranges) + 1
      /\ \A i \in DOMAIN ranges : Cardinality(InObject(i)) = IF i < next THEN 1 ELSE 0
      BY DEF PlanInv, Batching
<1>4. \A i \in DOMAIN ranges : Cardinality(InObject(i)) = 1
  <2>1. \A i \in DOMAIN ranges : i < next BY <1>2, <1>3
  <2> QED BY <1>3, <2>1
<1>5. ASSUME NEW p \in patches
      PROVE  RangeIndexFor(p.start) # 0 /\ ranges[RangeIndexFor(p.start)] = p
  <2>1. PICK i \in DOMAIN ranges : ranges[i] = p BY DEF PlanInv, PatchesKept
  <2> DEFINE a == p.start
  <2>2. a \in Nat /\ p.end \in Nat /\ a < p.end BY <1>1, PatchesAre
  <2>3. Spans(ranges[i], a) BY <2>1, <2>2 DEF Spans
  <2> HIDE DEF a
  <2>4. RangeIndexFor(a) = i
    <3>1. a \in Int BY <2>2
    <3> QED BY <1>1, <2>3, <3>1, SearchIs
  <2> QED BY <1>2, <2>1, <2>4 DEF a
<1> QED BY <1>3, <1>4, <1>5 DEF ObjectsCoverRanges, InObject

(* The ranges of build_llvm_ranges cover the code without gap or overlap,  *)
(* have room and keep the patches whole; each closure of a profile selects *)
(* the ranges within its depth, no more and no less; and the objects hold  *)
(* each range that is left once: for any code, patches and profile, if the *)
(* sections are listed by address.                                         *)
THEOREM CodeIsCovered == ASSUME Ascending PROVE PlanSpec => []CodeCovered
<1>1. PlanInit => PlanInv BY PlanStarts
<1>2. ASSUME PlanInv, [PlanNext]_planVars PROVE PlanInv'
  <2>1. CASE BuildRange BY <1>2, <2>1, BuildRangeKeeps
  <2>2. CASE \E profile \in BOOLEAN : NextSection(profile) BY <1>2, <2>2, NextSectionKeeps
  <2>3. CASE \E hot \in HotChoices, entries \in EntryChoices : SelectSeeds(hot, entries)
        BY <1>2, <2>3, SelectSeedsKeeps
  <2>4. CASE Visit("calls") BY <1>2, <2>4, VisitKeeps
  <2>5. CASE Visit("successors") BY <1>2, <2>5, VisitKeeps
  <2>6. CASE EndCalls BY <1>2, <2>6, EndCallsKeeps
  <2>7. CASE Compact BY <1>2, <2>7, CompactKeeps
  <2>8. CASE BatchSection BY <1>2, <2>8, BatchSectionKeeps
  <2>9. CASE UNCHANGED planVars BY <1>2, <2>9, PlanStutters
  <2> QED BY <1>2, <2>1, <2>2, <2>3, <2>4, <2>5, <2>6, <2>7, <2>8, <2>9 DEF PlanNext
<1>3. PlanInv => CodeCovered BY Tiles, Selects, Objects DEF CodeCovered
<1> QED BY <1>1, <1>2, <1>3, PTL DEF PlanSpec
=============================================================================
