--------------------------- MODULE LLVMJobPoolProofs ---------------------------
(***************************************************************************)
(* The process pool, for any numbers of jobs, workers, batch sizes and     *)
(* strangers: no two processes are inside one job, no job is lost, and     *)
(* the batch contract is kept.  PoolInv is the inductive invariant; most   *)
(* of the work is on pieces of the lists of pending jobs and retries,      *)
(* which a step only moves from one place to another.                      *)
(***************************************************************************)
EXTENDS LLVMJobPool, FiniteSetTheorems, TLAPS

-----------------------------------------------------------------------------
(* Orders and counts                                                       *)

LEMMA LeastNumber ==
    ASSUME NEW T, T \subseteq Nat, T # {}
    PROVE  \E n \in T : \A m \in T : n <= m
<1>1. PICK n \in T : \A m \in T : ~(<<m, n>> \in OpToRel(<, Nat))
      BY WFMin, NatLessThanWellFounded
<1>2. \A m \in T : ~(m < n) BY <1>1 DEF OpToRel
<1> QED BY <1>2

LEMMA JobsFinite ==
    /\ JobCount \in Nat
    /\ IsFiniteSet(Job) /\ Cardinality(Job) = JobCount
    /\ \A S \in SUBSET Job : IsFiniteSet(S) /\ Cardinality(S) \in Nat
<1>1. JobCount \in Nat BY PoolAssumption
<1>2. IsFiniteSet(Job) /\ Cardinality(Job) = JobCount BY <1>1, FS_Interval DEF Job
<1> QED BY <1>1, <1>2, FS_Subset, FS_CardinalityType

(* Any set of jobs can be put in order.                                     *)
Ordering(S, s) == \A m, n \in 1 .. Cardinality(S) : m < n => s[m] < s[n]
Ordered(S) == \E s \in [1 .. Cardinality(S) -> S] : Ordering(S, s)

LEMMA OrderExtends ==
    ASSUME NEW k \in Nat, k > 0, NEW S \in SUBSET (1 .. k), k \in S, Ordered(S \ {k})
    PROVE  Ordered(S)
<1> DEFINE T == S \ {k}
<1>0. IsFiniteSet(1 .. k) BY FS_Interval
<1>1. IsFiniteSet(S) BY <1>0, FS_Subset
<1>2. IsFiniteSet(T) /\ Cardinality(T) \in Nat /\ Cardinality(S) = Cardinality(T) + 1
  <2>1. IsFiniteSet(T) /\ Cardinality(T) = Cardinality(S) - 1 BY <1>1, FS_RemoveElement
  <2>2. Cardinality(S) \in Nat /\ Cardinality(T) \in Nat BY <1>1, <2>1, FS_CardinalityType
  <2> QED BY <2>1, <2>2
<1>3. PICK t \in [1 .. Cardinality(T) -> T] : Ordering(T, t) BY DEF Ordered
<1> DEFINE c == Cardinality(T)
           s == [i \in 1 .. c + 1 |-> IF i = c + 1 THEN k ELSE t[i]]
<1>4. \A x \in T : x \in Int /\ x < k OBVIOUS
<1>5. k \in S /\ T \subseteq S OBVIOUS
<1>8. c \in Nat /\ t \in [1 .. c -> T] BY <1>2, <1>3
<1>9. Cardinality(S) = c + 1 BY <1>2
<1>10. \A m, n \in 1 .. c : m < n => t[m] < t[n] BY <1>3 DEF Ordering
<1> HIDE DEF T, c
<1>6. s \in [1 .. c + 1 -> S]
  <2> SUFFICES ASSUME NEW i \in 1 .. c + 1 PROVE s[i] \in S OBVIOUS
  <2>1. i # c + 1 => i \in 1 .. c BY <1>8
  <2>2. i \in 1 .. c => t[i] \in T BY <1>8
  <2> QED BY <2>1, <2>2, <1>5
<1>7. \A m, n \in 1 .. c + 1 : m < n => s[m] < s[n]
  <2> SUFFICES ASSUME NEW m \in 1 .. c + 1, NEW n \in 1 .. c + 1, m < n PROVE s[m] < s[n]
      OBVIOUS
  <2>1. m \in 1 .. c /\ s[m] = t[m] BY <1>8
  <2>2. CASE n = c + 1
        BY <2>1, <2>2, <1>8, <1>4
  <2>3. CASE n # c + 1
    <3>1. n \in 1 .. c /\ s[n] = t[n] BY <2>3, <1>8
    <3> QED BY <2>1, <3>1, <1>10
  <2> QED BY <2>2, <2>3
<1> QED BY <1>9, <1>6, <1>7 DEF Ordered, Ordering

LEMMA OrderExists == \A k \in Nat : \A S \in SUBSET (1 .. k) : Ordered(S)
<1> DEFINE Bad == {k \in Nat : \E S \in SUBSET (1 .. k) : ~Ordered(S)}
<1> SUFFICES ASSUME Bad # {} PROVE FALSE OBVIOUS
<1>1. PICK k \in Bad : \A m \in Bad : k <= m BY LeastNumber
<1>2. PICK S \in SUBSET (1 .. k) : ~Ordered(S) BY <1>1
<1>3. CASE k = 0
  <2>0. 1 .. k = {} BY <1>3
  <2>1. S = {} /\ Cardinality(S) = 0 BY <2>0, <1>2, FS_EmptySet
  <2>2. [i \in 1 .. 0 |-> 0] \in [1 .. Cardinality(S) -> S] BY <2>1
  <2>3. Ordering(S, [i \in 1 .. 0 |-> 0]) BY <2>1 DEF Ordering
  <2> QED BY <2>2, <2>3, <1>2 DEF Ordered
<1>4. CASE k # 0
  <2>1. k \in Nat /\ k - 1 \in Nat /\ k > 0 BY <1>1, <1>4
  <2>2. k - 1 \notin Bad
    <3> HIDE DEF Bad
    <3> QED BY <1>1, <2>1
  <2>3. \A T \in SUBSET (1 .. k - 1) : Ordered(T) BY <2>1, <2>2
  <2>4. S \ {k} \in SUBSET (1 .. k - 1) BY <2>1
  <2>5. CASE k \in S BY <2>1, <2>3, <2>4, <2>5, <1>2, OrderExtends
  <2>6. CASE k \notin S
    <3>1. S \ {k} = S BY <2>6
    <3> QED BY <3>1, <2>3, <2>4, <1>2
  <2> QED BY <2>5, <2>6
<1> QED BY <1>3, <1>4

(* The sequence InOrder(S) has each job of S once.                          *)
Once(s, S) ==
    /\ s \in Seq(Job)
    /\ Len(s) = Cardinality(S)
    /\ \A n \in 1 .. Len(s) : s[n] \in S
    /\ \A j \in S : \E n \in 1 .. Len(s) : s[n] = j
    /\ \A m, n \in 1 .. Len(s) : m # n => s[m] # s[n]

LEMMA InOrderHasEachOnce ==
    ASSUME NEW S \in SUBSET Job PROVE Once(InOrder(S), S)
<1> DEFINE s == InOrder(S) c == Cardinality(S)
<1>1. c \in Nat /\ IsFiniteSet(S) BY JobsFinite
<1>2. \E t \in [1 .. c -> S] : \A m, n \in 1 .. c : m < n => t[m] < t[n]
      BY OrderExists, JobsFinite DEF Ordered, Ordering, Job
<1>3. s \in [1 .. c -> S] /\ \A m, n \in 1 .. c : m < n => s[m] < s[n]
      BY <1>2 DEF InOrder
<1> HIDE DEF s
<1>4. s \in Seq(Job) /\ Len(s) = c
  <2>1. s \in [1 .. c -> Job] BY <1>3
  <2> HIDE DEF c
  <2> QED BY <2>1, <1>1
<1>5. \A n \in 1 .. c : s[n] \in S /\ s[n] \in Int
  <2> HIDE DEF c
  <2>1. \A j \in S : j \in Int BY DEF Job
  <2> QED BY <1>3, <2>1
<1>6. \A m, n \in 1 .. c : m # n => s[m] # s[n]
  <2> SUFFICES ASSUME NEW m \in 1 .. c, NEW n \in 1 .. c, m # n PROVE s[m] # s[n] OBVIOUS
  <2>1. m < n \/ n < m BY <1>1
  <2> QED BY <2>1, <1>3, <1>5
<1>7. s \in Injection(1 .. c, S) BY <1>3, <1>6 DEF Injection, IsInjective
<1>8. Cardinality(1 .. c) = c BY <1>1, FS_Interval
<1>9. s \in Surjection(1 .. c, S) BY <1>1, <1>7, <1>8, FS_Injection
<1>10. \A j \in S : \E n \in 1 .. c : s[n] = j BY <1>9 DEF Surjection
<1> QED BY <1>4, <1>5, <1>6, <1>10 DEF Once, s

(* The announcements stop at the first job without a state.                 *)
LEMMA AnnouncedStops ==
    ASSUME NEW st, NEW r \in 0 .. JobCount, r = reported
    PROVE  /\ Announced(st) \in r .. JobCount
           /\ \A j \in r + 1 .. Announced(st) : st[j] # "none"
           /\ Announced(st) < JobCount => st[Announced(st) + 1] = "none"
<1> DEFINE Stops == {n \in r .. JobCount : n = JobCount \/ st[n + 1] = "none"}
<1>1. JobCount \in Nat BY JobsFinite
<1>2. JobCount \in Stops /\ Stops \subseteq Nat BY <1>1
<1>3. PICK n \in Stops : \A m \in Stops : n <= m BY <1>2, LeastNumber
<1>4. \A j \in r + 1 .. n : st[j] # "none"
  <2> SUFFICES ASSUME NEW j \in r + 1 .. n, st[j] = "none" PROVE FALSE OBVIOUS
  <2>1. j - 1 \in r .. JobCount /\ (j - 1) + 1 = j /\ ~(n <= j - 1) BY <1>1, <1>3
  <2>2. j - 1 \in Stops BY <2>1
  <2> QED BY <2>1, <2>2, <1>3
<1>5. \E m \in reported .. JobCount :
         /\ \A j \in reported + 1 .. m : st[j] # "none"
         /\ m < JobCount => st[m + 1] = "none"
      BY <1>1, <1>3, <1>4
<1> QED BY <1>5 DEF Announced

-----------------------------------------------------------------------------
(* The invariant                                                           *)

TypeOK ==
    /\ states \in [Job -> {"none", "reused", "emitted"}]
    /\ reported \in 0 .. JobCount
    /\ pending \in Seq(Job) /\ Len(pending) <= JobCount /\ next \in 0 .. Len(pending)
    /\ retry \in Seq(Job) /\ retried \in 0 .. Len(retry)
    /\ failed \in BOOLEAN
    /\ life \in [Position -> {"none", "running", "ended"}]
    /\ at \in [Position -> Nat]
    /\ good \in [Position -> BOOLEAN]
    /\ retrier \in {"none", "running", "ok", "bad"}
    /\ published \in SUBSET Job
    /\ verdict \in {"none", "ok", "failed"}
    /\ parent \in {"reuse", "dispatch", "wait", "retry", "retryWait", "returned"}

(* No list has a job twice, and only pending jobs are retried.              *)
Elems(s, m, n) == {s[k] : k \in m .. n}
Distinct(s) == \A m, n \in 1 .. Len(s) : m # n => s[m] # s[n]
Lists ==
    /\ Distinct(pending) /\ Distinct(retry)
    /\ Elems(retry, 1, Len(retry)) \subseteq Elems(pending, 1, Len(pending))

(* Batches in work lie below next, one behind the other.                    *)
Apart ==
    /\ \A b \in Active : Size(b) > 0 /\ b + Size(b) - 1 <= next
    /\ \A b, c \in Active : b < c => b + Size(b) <= c

(* What a worker is through with and still calls good is published.         *)
Worked ==
    /\ \A b \in Position : b > next => at[b] = 0
    /\ \A b \in Active :
          /\ at[b] <= Size(b)
          /\ good[b] => \A k \in 0 .. at[b] - 1 : pending[b + k] \in published
          /\ life[b] = "ended" /\ good[b] => at[b] = Size(b)

Tried == Elems(retry, 1, retried)
Phases ==
    /\ parent = "reuse" => /\ pending = << >> /\ retry = << >> /\ Active = {}
                           /\ Completed = {} /\ reported = 0
    /\ parent \in {"reuse", "dispatch", "wait"} => retried = 0
    /\ parent \in {"retry", "retryWait", "returned"} => Running = {}
    /\ parent = "retryWait" <=> retrier # "none"
    /\ parent = "retryWait" => retried < Len(retry)
    /\ retrier = "ok" => retry[retried + 1] \in published
    /\ failed \/ Tried \subseteq Completed
    /\ verdict # "none" => parent = "returned"
    /\ verdict = "ok" => completed = JobCount

Counted ==
    /\ completed = Cardinality(Completed)
    /\ Completed \subseteq published
    /\ 1 .. reported \subseteq Completed
    /\ reported < JobCount => reported + 1 \notin Completed

(* Every job is in exactly one of five places.                              *)
Split(A, B, C, D, E) ==
    /\ Job \subseteq A \cup B \cup C \cup D \cup E
    /\ A \cap B = {} /\ A \cap C = {} /\ A \cap D = {} /\ A \cap E = {}
    /\ B \cap C = {} /\ B \cap D = {} /\ B \cap E = {}
    /\ C \cap D = {} /\ C \cap E = {} /\ D \cap E = {}
Spread == parent # "reuse" => Split(Completed, Waiting, Held, ToRetry, Tried \ Completed)

PoolInv == TypeOK /\ Lists /\ Apart /\ Worked /\ Phases /\ Counted /\ Spread

-----------------------------------------------------------------------------
(* Pieces of sequences                                                     *)

(* A batch is a piece of pending.                                           *)
LEMMA BatchIs ==
    ASSUME pending \in Seq(Job), NEW b \in Nat, b > 0, b <= Len(pending)
    PROVE  /\ Size(b) \in Nat /\ Size(b) > 0 /\ b + Size(b) - 1 <= Len(pending)
           /\ Batch(b) \in Seq(Job) /\ Len(Batch(b)) = Size(b)
           /\ \A k \in 1 .. Size(b) : Batch(b)[k] = pending[b + k - 1]
           /\ Members(Batch(b)) = Elems(pending, b, b + Size(b) - 1)
<1>1. Size(b) \in Nat /\ Size(b) > 0 /\ b + Size(b) - 1 <= Len(pending)
      BY PoolAssumption DEF Size, Least
<1> DEFINE z == Size(b)
<1>2. z \in Nat /\ z > 0 /\ b + z - 1 <= Len(pending) BY <1>1
<1> HIDE DEF z
<1>3. /\ SubSeq(pending, b, b + z - 1) \in Seq(Job)
      /\ Len(SubSeq(pending, b, b + z - 1)) = z
      /\ \A k \in 1 .. z : SubSeq(pending, b, b + z - 1)[k] = pending[b + k - 1]
      BY <1>2
<1>4. Batch(b) = SubSeq(pending, b, b + z - 1) BY DEF Batch, z
<1>5. DOMAIN Batch(b) = 1 .. z BY <1>3, <1>4
<1>6. Members(Batch(b)) = Elems(pending, b, b + z - 1)
  <2>1. Members(Batch(b)) = {pending[b + k - 1] : k \in 1 .. z}
        BY <1>3, <1>4, <1>5 DEF Members
  <2>2. \A k \in 1 .. z : b + k - 1 \in b .. b + z - 1 BY <1>2
  <2>3. \A n \in b .. b + z - 1 : n - b + 1 \in 1 .. z /\ b + (n - b + 1) - 1 = n
        BY <1>2
  <2> QED BY <2>1, <2>2, <2>3 DEF Elems
<1> QED BY <1>2, <1>3, <1>4, <1>6 DEF z

(* Two pieces of a list without repetitions have no job in common.          *)
LEMMA PiecesApart ==
    ASSUME NEW s, Distinct(s), NEW a \in Int, NEW b \in Int, NEW c \in Int, NEW d \in Int,
           a > 0, b < c, d <= Len(s), Len(s) \in Nat
    PROVE  Elems(s, a, b) \cap Elems(s, c, d) = {}
<1> SUFFICES ASSUME NEW m \in a .. b, NEW n \in c .. d, s[m] = s[n] PROVE FALSE
    BY DEF Elems
<1>1. m \in 1 .. Len(s) /\ n \in 1 .. Len(s) /\ m # n OBVIOUS
<1> QED BY <1>1 DEF Distinct

LEMMA PiecesJoin ==
    ASSUME NEW s, NEW a \in Int, NEW b \in Int, NEW d \in Int, a <= b + 1, b <= d
    PROVE  Elems(s, a, d) = Elems(s, a, b) \cup Elems(s, b + 1, d)
<1>1. a .. d = (a .. b) \cup (b + 1 .. d) OBVIOUS
<1> QED BY <1>1 DEF Elems

(* Appending a list of other jobs keeps a list without repetitions.         *)
LEMMA AppendDistinct ==
    ASSUME NEW s \in Seq(Job), NEW t \in Seq(Job), Distinct(s), Distinct(t),
           Elems(s, 1, Len(s)) \cap Elems(t, 1, Len(t)) = {}
    PROVE  /\ s \o t \in Seq(Job) /\ Len(s \o t) = Len(s) + Len(t)
           /\ Distinct(s \o t)
           /\ \A k \in 0 .. Len(s) :
                /\ Elems(s \o t, k + 1, Len(s \o t))
                     = Elems(s, k + 1, Len(s)) \cup Elems(t, 1, Len(t))
                /\ Elems(s \o t, 1, k) = Elems(s, 1, k)
<1> DEFINE u == s \o t  p == Len(s)  q == Len(t)
<1>1. p \in Nat /\ q \in Nat OBVIOUS
<1>2. u \in Seq(Job) /\ Len(u) = p + q OBVIOUS
<1>3. \A n \in 1 .. p : u[n] = s[n] OBVIOUS
<1>4. \A n \in p + 1 .. p + q : u[n] = t[n - p] /\ n - p \in 1 .. q OBVIOUS
<1>5. \A m, n \in 1 .. p : m # n => s[m] # s[n] BY DEF Distinct
<1>6. \A m, n \in 1 .. q : m # n => t[m] # t[n] BY DEF Distinct
<1>7. \A m \in 1 .. p, n \in 1 .. q : s[m] # t[n] BY DEF Elems
<1>14. \A n \in 1 .. q : u[n + p] = t[n] /\ n + p \in p + 1 .. p + q
       OBVIOUS
<1> HIDE DEF u, p, q
<1>8. Distinct(u)
  <2> SUFFICES ASSUME NEW m \in 1 .. p + q, NEW n \in 1 .. p + q, m < n PROVE u[m] # u[n]
    <3>1. \A m, n \in 1 .. p + q : m # n => m < n \/ n < m BY <1>1
    <3> QED BY <3>1, <1>2 DEF Distinct
  <2>1. CASE n <= p BY <2>1, <1>1, <1>3, <1>5
  <2>2. CASE m <= p /\ n > p
    <3>1. m \in 1 .. p /\ n \in p + 1 .. p + q BY <2>2, <1>1
    <3> QED BY <3>1, <1>3, <1>4, <1>7
  <2>3. CASE m > p
    <3>1. m \in p + 1 .. p + q /\ n \in p + 1 .. p + q /\ m - p # n - p BY <2>3, <1>1
    <3> QED BY <3>1, <1>4, <1>6
  <2> QED BY <2>1, <2>2, <2>3, <1>1
<1>9. ASSUME NEW k \in 0 .. p
      PROVE  /\ Elems(u, k + 1, p + q) = Elems(s, k + 1, p) \cup Elems(t, 1, q)
             /\ Elems(u, 1, k) = Elems(s, 1, k)
  <2>1. Elems(u, k + 1, p + q) = Elems(u, k + 1, p) \cup Elems(u, p + 1, p + q)
        BY PiecesJoin, <1>1, <1>9
  <2>2. Elems(u, k + 1, p) = Elems(s, k + 1, p)
    <3>1. \A n \in k + 1 .. p : u[n] = s[n] BY <1>1, <1>3, <1>9
    <3> QED BY <3>1 DEF Elems
  <2>3. Elems(u, 1, k) = Elems(s, 1, k)
    <3>1. \A n \in 1 .. k : u[n] = s[n] BY <1>1, <1>3, <1>9
    <3> QED BY <3>1 DEF Elems
  <2>4. Elems(u, p + 1, p + q) = Elems(t, 1, q) BY <1>4, <1>14 DEF Elems
  <2> QED BY <2>1, <2>2, <2>3, <2>4
<1> QED BY <1>2, <1>8, <1>9 DEF u, p, q

-----------------------------------------------------------------------------
(* Steps                                                                   *)

Ledger ==
    /\ states \in [Job -> {"none", "reused", "emitted"}]
    /\ reported \in 0 .. JobCount

(* Completing jobs whose objects are in place keeps the counts right.       *)
LEMMA CompleteCounts ==
    ASSUME Ledger, Counted, NEW S \in SUBSET Job, S \cap Completed = {},
           NEW w \in {"reused", "emitted"}, Complete(S, w),
           published \subseteq published', S \subseteq published'
    PROVE  Ledger' /\ Counted' /\ Completed' = Completed \cup S
<1>1. states' \in [Job -> {"none", "reused", "emitted"}] BY DEF Ledger, Complete
<1>2. Completed' = Completed \cup S BY DEF Completed, Complete, Ledger
<1>3. Completed \subseteq Job BY DEF Completed
<1>4. /\ JobCount \in Nat
      /\ IsFiniteSet(Completed) /\ IsFiniteSet(S)
      /\ Cardinality(Completed) \in Nat /\ Cardinality(S) \in Nat
      BY <1>3, JobsFinite
<1>5. Cardinality(Completed \cup S) = Cardinality(Completed) + Cardinality(S)
  <2>1. Completed \cap S = {} OBVIOUS
  <2>2. Cardinality(Completed \cap S) = 0 BY <2>1, FS_EmptySet
  <2>3. Cardinality(Completed \cup S)
          = Cardinality(Completed) + Cardinality(S) - Cardinality(Completed \cap S)
        BY <1>4, FS_Union
  <2> QED BY <1>4, <2>2, <2>3
<1>6. completed' = Cardinality(Completed') BY <1>2, <1>5 DEF Complete, Counted
<1>7. Completed' \subseteq published' BY <1>2 DEF Counted
<1>8. reported \in 0 .. JobCount /\ reported' = Announced(states') BY DEF Ledger, Complete
<1>9. /\ reported' \in reported .. JobCount
      /\ \A j \in reported + 1 .. reported' : states'[j] # "none"
      /\ reported' < JobCount => states'[reported' + 1] = "none"
      BY <1>8, AnnouncedStops
<1>10. reported' \in 0 .. JobCount BY <1>4, <1>8, <1>9
<1>11. 1 .. reported' \subseteq Completed'
  <2> SUFFICES ASSUME NEW j \in 1 .. reported' PROVE j \in Completed' OBVIOUS
  <2>1. j \in Job BY <1>4, <1>10 DEF Job
  <2>2. CASE j <= reported
    <3>1. j \in 1 .. reported BY <2>2, <1>8
    <3> QED BY <3>1, <1>2 DEF Counted
  <2>3. CASE j > reported
    <3>1. j \in reported + 1 .. reported' BY <2>3, <1>8, <1>10
    <3> QED BY <3>1, <2>1, <1>9 DEF Completed
  <2> QED BY <2>2, <2>3, <1>8, <1>10
<1>12. reported' < JobCount => reported' + 1 \notin Completed' BY <1>9 DEF Completed
<1> QED BY <1>1, <1>2, <1>6, <1>7, <1>10, <1>11, <1>12 DEF Ledger, Counted

(* Publishing alone does not disturb them.                                  *)
LEMMA LedgerRests ==
    ASSUME Ledger, Counted, UNCHANGED ledger, published \subseteq published'
    PROVE  Ledger' /\ Counted' /\ Completed' = Completed
<1>1. Completed' = Completed BY DEF Completed, ledger
<1> QED BY <1>1 DEF Ledger, Counted, ledger

(* Jobs on their way from one place to another.                             *)
LEMMA SplitMoves ==
    ASSUME NEW A, NEW B, NEW C, NEW D, NEW E, NEW M, M \cap B = {}
    PROVE  /\ Split(A, M \cup B, C, D, E) => Split(A, B, C \cup M, D, E)
           /\ Split(A, M \cup B, C, D, E) => Split(A, B, C, D \cup M, E)
           /\ Split(A, C, M \cup B, D, E) => Split(A \cup M, C, B, D, E)
           /\ Split(A, C, M \cup B, D, E) => Split(A, C, B, D \cup M, E)
           /\ Split(A, C, D, M \cup B, E) => Split(A \cup M, C, D, B, E)
           /\ Split(A, C, D, M \cup B, E) => Split(A, C, D, B, E \cup M)
<1>1. Split(A, M \cup B, C, D, E) => Split(A, B, C \cup M, D, E) BY DEF Split
<1>2. Split(A, M \cup B, C, D, E) => Split(A, B, C, D \cup M, E) BY DEF Split
<1>3. Split(A, C, M \cup B, D, E) => Split(A \cup M, C, B, D, E) BY DEF Split
<1>4. Split(A, C, M \cup B, D, E) => Split(A, C, B, D \cup M, E) BY DEF Split
<1>5. Split(A, C, D, M \cup B, E) => Split(A \cup M, C, D, B, E) BY DEF Split
<1>6. Split(A, C, D, M \cup B, E) => Split(A, C, D, B, E \cup M) BY DEF Split
<1> QED BY <1>1, <1>2, <1>3, <1>4, <1>5, <1>6

LEMMA Reuses == ASSUME PoolInv, Reuse PROVE PoolInv'
<1> USE DEF Reuse
<1>1. PICK S \in SUBSET Job :
        published' = published \cup S /\ Complete(S, "reused") /\ pending' = InOrder(Job \ S)
      OBVIOUS
<1>2. /\ parent = "reuse" /\ Active = {} /\ Completed = {} /\ retry = <<>> /\ retried = 0
      BY DEF PoolInv, Phases
<1>3. Ledger' /\ Counted' /\ Completed' = S
      BY <1>1, <1>2, CompleteCounts DEF PoolInv, TypeOK, Ledger
<1>4. Once(pending', Job \ S) BY <1>1, InOrderHasEachOnce
<1>5. Active' = {} /\ Held' = {} BY <1>2 DEF Active, Held, process
<1>6. Len(pending') <= JobCount /\ Len(pending') \in Nat
  <2>1. /\ JobCount \in Nat /\ IsFiniteSet(Job) /\ Cardinality(Job) = JobCount
        /\ IsFiniteSet(Job \ S)
        BY JobsFinite
  <2>2. Cardinality(Job \ S) <= Cardinality(Job) BY <2>1, FS_Subset
  <2>3. Len(pending') = Cardinality(Job \ S) /\ pending' \in Seq(Job) BY <1>4 DEF Once
  <2>4. Len(pending') \in Nat BY <2>3
  <2> QED BY <2>1, <2>2, <2>3, <2>4
<1>7. next' = next /\ next = 0
  <2>1. next \in 0 .. Len(pending) /\ pending = <<>> BY <1>2 DEF PoolInv, TypeOK, Phases
  <2> QED BY <2>1
<1>8. TypeOK'
  <2>1. pending' \in Seq(Job) BY <1>4 DEF Once
  <2> QED BY <1>1, <1>2, <1>3, <1>6, <1>7, <2>1 DEF PoolInv, TypeOK, Ledger, process
<1>9. Lists'
  <2>1. retry' = <<>> /\ Len(retry') = 0 /\ 1 .. Len(retry') = {} BY <1>2
  <2>2. Distinct(pending') BY <1>4 DEF Once, Distinct
  <2> QED BY <2>1, <2>2 DEF Lists, Distinct, Elems
<1>10. Apart' BY <1>5 DEF Apart
<1>11. Worked' BY <1>5, <1>7 DEF PoolInv, Worked, process
<1>12. Phases'
  <2>1. Tried' = {} BY <1>2 DEF Tried, Elems
  <2>2. parent' = "dispatch" OBVIOUS
  <2>3. retrier' = "none" /\ verdict' = "none" BY <1>2 DEF PoolInv, Phases, process, TypeOK
  <2> QED BY <1>2, <2>1, <2>2, <2>3 DEF Phases
<1>13. Spread'
  <2>1. Waiting' = Job \ S
    <3>1. next' + 1 .. Len(pending') = 1 .. Len(pending') BY <1>7
    <3>2. Waiting' = {pending'[n] : n \in 1 .. Len(pending')} BY <3>1 DEF Waiting
    <3>3. \A n \in 1 .. Len(pending') : pending'[n] \in Job \ S BY <1>4 DEF Once
    <3>4. \A j \in Job \ S : \E n \in 1 .. Len(pending') : pending'[n] = j BY <1>4 DEF Once
    <3>5. Waiting' \subseteq Job \ S BY <3>2, <3>3
    <3>6. Job \ S \subseteq Waiting' BY <3>2, <3>4
    <3> QED BY <3>5, <3>6
  <2>2. ToRetry' = {} /\ Tried' = {} BY <1>2 DEF ToRetry, Tried, Elems
  <2> QED BY <1>3, <1>5, <2>1, <2>2 DEF Spread, Split
<1> QED BY <1>3, <1>8, <1>9, <1>10, <1>11, <1>12, <1>13 DEF PoolInv

(* What a list to be retried gains.                                         *)
LEMMA RetryGrows ==
    ASSUME TypeOK, Lists, retried = 0, retried' = 0, pending' = pending,
           NEW a \in Nat, NEW d \in Nat, a > 0, a <= d + 1, d <= Len(pending),
           retry' = retry \o SubSeq(pending, a, d),
           Elems(pending, a, d) \cap ToRetry = {}
    PROVE  /\ Lists' /\ retry' \in Seq(Job) /\ retried' \in 0 .. Len(retry')
           /\ ToRetry' = ToRetry \cup Elems(pending, a, d) /\ Tried' = {}
<1> DEFINE t == SubSeq(pending, a, d)
<1>1. pending \in Seq(Job) /\ retry \in Seq(Job) /\ Len(pending) \in Nat /\ Len(retry) \in Nat
      BY DEF TypeOK
<1>2. /\ t \in Seq(Job) /\ Len(t) = d - a + 1
      /\ \A k \in 1 .. Len(t) : t[k] = pending[k + a - 1]
      BY <1>1
<1> HIDE DEF t
<1>3. Elems(t, 1, Len(t)) = Elems(pending, a, d)
  <2>1. \A n \in a .. d : n - a + 1 \in 1 .. Len(t) /\ t[n - a + 1] = pending[n]
    <3> SUFFICES ASSUME NEW n \in a .. d
                 PROVE n - a + 1 \in 1 .. Len(t) /\ t[n - a + 1] = pending[n]
        OBVIOUS
    <3>1. n - a + 1 \in 1 .. Len(t) /\ (n - a + 1) + a - 1 = n BY <1>2
    <3>2. t[n - a + 1] = pending[(n - a + 1) + a - 1] BY <1>2, <3>1
    <3> QED BY <3>1, <3>2
  <2>2. \A k \in 1 .. Len(t) : k + a - 1 \in a .. d /\ t[k] = pending[k + a - 1]
    <3>1. \A k \in 1 .. Len(t) : k + a - 1 \in a .. d BY <1>2
    <3> QED BY <3>1, <1>2
  <2>3. Elems(t, 1, Len(t)) \subseteq Elems(pending, a, d) BY <2>2 DEF Elems
  <2>4. Elems(pending, a, d) \subseteq Elems(t, 1, Len(t)) BY <2>1 DEF Elems
  <2> QED BY <2>3, <2>4
<1>4. Distinct(t)
  <2>1. \A k \in 1 .. Len(t) : k + a - 1 \in 1 .. Len(pending) BY <1>1, <1>2
  <2>2. \A m, n \in 1 .. Len(t) : m # n => m + a - 1 # n + a - 1 OBVIOUS
  <2>3. Distinct(pending) BY DEF Lists
  <2>4. ASSUME NEW m \in 1 .. Len(t), NEW n \in 1 .. Len(t), m # n PROVE t[m] # t[n]
    <3>1. t[m] = pending[m + a - 1] /\ t[n] = pending[n + a - 1] BY <1>2
    <3>2. m + a - 1 \in 1 .. Len(pending) /\ n + a - 1 \in 1 .. Len(pending) BY <2>1
    <3>3. m + a - 1 # n + a - 1 BY <2>2, <2>4
    <3> QED BY <2>3, <3>1, <3>2, <3>3 DEF Distinct
  <2> QED BY <2>4 DEF Distinct
<1>5. ToRetry = Elems(retry, 1, Len(retry)) BY DEF ToRetry, Elems
<1>6. retry' = retry \o t BY DEF t
<1>7. /\ retry' \in Seq(Job) /\ Distinct(retry')
      /\ Elems(retry', 0 + 1, Len(retry'))
           = Elems(retry, 0 + 1, Len(retry)) \cup Elems(t, 1, Len(t))
  <2>1. Distinct(retry) /\ Elems(retry, 1, Len(retry)) \cap Elems(t, 1, Len(t)) = {}
        BY <1>3, <1>5 DEF Lists
  <2>2. 0 \in 0 .. Len(retry) BY <1>1
  <2>3. /\ retry \o t \in Seq(Job) /\ Distinct(retry \o t)
        /\ Elems(retry \o t, 0 + 1, Len(retry \o t))
             = Elems(retry, 0 + 1, Len(retry)) \cup Elems(t, 1, Len(t))
    <3>1. retry \in Seq(Job) /\ t \in Seq(Job) BY <1>1, <1>2
    <3> QED BY <3>1, <1>4, <2>1, <2>2, AppendDistinct
  <2> QED BY <1>6, <2>3
<1>8. ToRetry' = Elems(retry', 1, Len(retry')) BY DEF ToRetry, Elems
<1>9. ToRetry' = ToRetry \cup Elems(pending, a, d) BY <1>3, <1>5, <1>7, <1>8
<1>10. Elems(pending, a, d) \subseteq Elems(pending, 1, Len(pending))
  <2>1. \A n \in a .. d : n \in 1 .. Len(pending) BY <1>1
  <2> QED BY <2>1 DEF Elems
<1>11. Lists'
  <2>1. Elems(retry', 1, Len(retry')) \subseteq Elems(pending', 1, Len(pending'))
        BY <1>5, <1>8, <1>9, <1>10 DEF Lists
  <2>2. Distinct(pending') /\ Distinct(retry') BY <1>7 DEF Lists
  <2> QED BY <2>1, <2>2 DEF Lists, Distinct, Elems
<1>12. Tried' = {} BY DEF Tried, Elems
<1>13. retried' \in 0 .. Len(retry') BY <1>7
<1> QED BY <1>7, <1>9, <1>11, <1>12, <1>13

(* The batches in work have no job in common.                               *)
LEMMA BatchesApart ==
    ASSUME TypeOK, Lists, Apart, NEW b \in Active
    PROVE  /\ Held = Members(Batch(b)) \cup UNION {Members(Batch(c)) : c \in Active \ {b}}
           /\ Members(Batch(b)) \cap UNION {Members(Batch(c)) : c \in Active \ {b}} = {}
           /\ b > 0 /\ b \in Nat /\ b + Size(b) - 1 <= Len(pending) /\ Size(b) > 0
           /\ Size(b) \in Nat /\ b <= Len(pending)
           /\ Members(Batch(b)) = Elems(pending, b, b + Size(b) - 1)
<1>0. JobCount \in Nat BY JobsFinite
<1>1. pending \in Seq(Job) /\ Len(pending) \in Nat /\ next \in 0 .. Len(pending) BY DEF TypeOK
<1>2. \A c \in Active : c \in Nat /\ c > 0 BY <1>0 DEF Active, Position
<1>3. \A c \in Active : c <= Len(pending)
  <2> SUFFICES ASSUME NEW c \in Active PROVE c <= Len(pending) OBVIOUS
  <2>1. Size(c) \in Int
        BY <1>1, <1>2, PoolAssumption DEF Size, Least
  <2>2. Size(c) > 0 /\ c + Size(c) - 1 <= next BY DEF Apart
  <2> QED BY <1>1, <1>2, <2>1, <2>2
<1>4. \A c \in Active :
         /\ Size(c) \in Nat /\ Size(c) > 0 /\ c + Size(c) - 1 <= Len(pending)
         /\ Members(Batch(c)) = Elems(pending, c, c + Size(c) - 1)
      BY <1>1, <1>2, <1>3, BatchIs
<1>5. \A c, d \in Active : c < d => Members(Batch(c)) \cap Members(Batch(d)) = {}
  <2> SUFFICES ASSUME NEW c \in Active, NEW d \in Active, c < d
               PROVE  Elems(pending, c, c + Size(c) - 1)
                        \cap Elems(pending, d, d + Size(d) - 1) = {}
      BY <1>4
  <2>1. c + Size(c) <= d BY DEF Apart
  <2>2. /\ c \in Int /\ d \in Int /\ c + Size(c) - 1 \in Int /\ d + Size(d) - 1 \in Int
        /\ c > 0 /\ c + Size(c) - 1 < d /\ d + Size(d) - 1 <= Len(pending)
        BY <1>2, <1>4, <2>1
  <2>3. Distinct(pending) BY DEF Lists
  <2> QED BY <1>1, <2>2, <2>3, PiecesApart
<1>6. \A c \in Active \ {b} : Members(Batch(b)) \cap Members(Batch(c)) = {}
  <2> SUFFICES ASSUME NEW c \in Active \ {b}
               PROVE Members(Batch(b)) \cap Members(Batch(c)) = {}
      OBVIOUS
  <2>1. b < c \/ c < b BY <1>2
  <2> QED BY <2>1, <1>5
<1>7. Held = Members(Batch(b)) \cup UNION {Members(Batch(c)) : c \in Active \ {b}}
      BY DEF Held
<1> QED BY <1>2, <1>3, <1>4, <1>6, <1>7

(* With the list of pending jobs, the batches stay.                         *)
LEMMA SamePending ==
    ASSUME pending' = pending
    PROVE  \A b : Size(b)' = Size(b) /\ Batch(b)' = Batch(b)
BY DEF Size, Batch, Least

LEMMA Forks == ASSUME PoolInv, Fork PROVE PoolInv'
<1> DEFINE b == next + 1  M == Members(Batch(b))  last == next + Size(b)
<1>0. JobCount \in Nat BY JobsFinite
<1>1. /\ TypeOK /\ Lists /\ Apart /\ Worked /\ Phases /\ Counted /\ Spread /\ Ledger
      BY DEF PoolInv, TypeOK, Ledger
<1>2. /\ parent = "dispatch" /\ parent' = "dispatch" /\ next < Len(pending)
      /\ pending' = pending /\ retried = 0 /\ retried' = 0 /\ published' = published
      /\ UNCHANGED <<ledger, at, failed, retrier, verdict>> /\ next' = last
      BY <1>1 DEF Fork, CanDispatch, Phases
<1>3. /\ next \in Nat /\ Len(pending) \in Nat /\ Len(pending) <= JobCount
      /\ pending \in Seq(Job) /\ b \in Nat /\ b > 0 /\ b <= Len(pending) /\ b \in Position
      BY <1>0, <1>1, <1>2 DEF TypeOK, Position
<1>4. /\ Size(b) \in Nat /\ Size(b) > 0 /\ last <= Len(pending) /\ last \in Nat
      /\ M = Elems(pending, b, last)
  <2>1. /\ Size(b) \in Nat /\ Size(b) > 0 /\ b + Size(b) - 1 <= Len(pending)
        /\ M = Elems(pending, b, b + Size(b) - 1)
        BY <1>3, BatchIs
  <2>2. b + Size(b) - 1 = last BY <1>3, <2>1
  <2> QED BY <1>3, <2>1, <2>2
<1>5. Waiting = M \cup Waiting' /\ M \cap Waiting' = {}
  <2>1. /\ Waiting = Elems(pending, b, Len(pending))
        /\ Waiting' = Elems(pending, last + 1, Len(pending))
        BY <1>2 DEF Waiting, Elems
  <2>2. Elems(pending, b, Len(pending))
          = Elems(pending, b, last) \cup Elems(pending, last + 1, Len(pending))
        BY <1>3, <1>4, PiecesJoin
  <2>3. Elems(pending, b, last) \cap Elems(pending, last + 1, Len(pending)) = {}
    <3>1. Distinct(pending) /\ last < last + 1 BY <1>1, <1>4 DEF Lists
    <3> QED BY <3>1, <1>3, <1>4, PiecesApart
  <2> QED BY <1>4, <2>1, <2>2, <2>3
<1>6. \A c \in Active : c \in Nat /\ c > 0 /\ c # b /\ c < b /\ c + Size(c) <= b /\ Size(c) \in Nat
  <2> SUFFICES ASSUME NEW c \in Active
               PROVE c \in Nat /\ c > 0 /\ c # b /\ c < b /\ c + Size(c) <= b /\ Size(c) \in Nat
      OBVIOUS
  <2>1. c \in Nat /\ c > 0 /\ Size(c) \in Nat /\ Size(c) > 0 BY <1>1, BatchesApart
  <2>2. c + Size(c) - 1 <= next BY <1>1 DEF Apart
  <2> QED BY <1>3, <2>1, <2>2
<1>7. b \notin Active BY <1>6
<1>8. Ledger' /\ Counted' /\ Completed' = Completed BY <1>1, <1>2, LedgerRests
<1>9. \A c : Size(c)' = Size(c) /\ Batch(c)' = Batch(c) BY <1>2, SamePending
<1>10. next' \in 0 .. Len(pending') BY <1>2, <1>3, <1>4
<1>11. Split(Completed, M \cup Waiting', Held, ToRetry, Tried \ Completed) /\ M \cap Waiting' = {}
       BY <1>1, <1>2, <1>5 DEF Spread
<1>12. CASE /\ life' = [life EXCEPT ![b] = "running"] /\ good' = [good EXCEPT ![b] = TRUE]
            /\ retry' = retry
  <2>1. Active' = Active \cup {b} /\ Running \subseteq Running'
        BY <1>12, <1>1, <1>3 DEF Active, Running, TypeOK
  <2>2. TypeOK'
        BY <1>12, <1>1, <1>2, <1>8, <1>10 DEF TypeOK, Ledger, Position, process
  <2>3. Lists' BY <1>12, <1>1, <1>2 DEF Lists, Distinct, Elems
  <2>4. Apart'
    <3>1. \A c \in Active' : Size(c) > 0 /\ c + Size(c) - 1 <= last
      <4>1. \A c \in Active : Size(c) > 0 /\ c + Size(c) - 1 <= last
            BY <1>1, <1>3, <1>4, <1>6 DEF Apart
      <4>2. b + Size(b) - 1 <= last BY <1>3, <1>4
      <4> QED BY <1>4, <2>1, <4>1, <4>2
    <3>2. \A c, d \in Active' : c < d => c + Size(c) <= d
      <4>1. \A d \in Active : ~(b < d) BY <1>3, <1>6
      <4>2. ~(b < b) BY <1>3
      <4> QED BY <1>1, <1>6, <2>1, <4>1, <4>2 DEF Apart
    <3> QED BY <1>2, <1>9, <3>1, <3>2 DEF Apart
  <2>5. Worked'
    <3>1. at[b] = 0 /\ at' = at BY <1>1, <1>2, <1>3 DEF Worked
    <3>2. \A c \in Position : c > last => c > next BY <1>0, <1>3, <1>4 DEF Position
    <3>3. \A c \in Active : life'[c] = life[c] /\ good'[c] = good[c]
          BY <1>12, <1>1, <1>7 DEF Active, TypeOK
    <3>4. life'[b] = "running" BY <1>12, <1>1, <1>3 DEF TypeOK
    <3>5. \A c \in Active' :
             /\ at[c] <= Size(c)
             /\ good'[c] => \A k \in 0 .. at[c] - 1 : pending[c + k] \in published
             /\ life'[c] = "ended" /\ good'[c] => at[c] = Size(c)
      <4>1. ASSUME NEW c \in Active
            PROVE  /\ at[c] <= Size(c)
                   /\ good'[c] => \A k \in 0 .. at[c] - 1 : pending[c + k] \in published
                   /\ life'[c] = "ended" /\ good'[c] => at[c] = Size(c)
            BY <1>1, <3>3 DEF Worked
      <4>2. at[b] <= Size(b) /\ 0 .. at[b] - 1 = {} /\ life'[b] # "ended"
            BY <1>4, <3>1, <3>4
      <4> QED BY <2>1, <4>1, <4>2
    <3>6. \A c \in Position : c > next' => at'[c] = 0
          BY <1>1, <1>2, <3>1, <3>2 DEF Worked
    <3> QED BY <1>2, <1>9, <3>1, <3>5, <3>6 DEF Worked
  <2>6. Phases'
        BY <1>12, <1>1, <1>2, <1>8 DEF Phases, Tried, Elems, ledger, TypeOK
  <2>7. Spread'
    <3>1. Held' = Held \cup M BY <1>9, <2>1 DEF Held, Members
    <3>2. ToRetry' = ToRetry /\ Tried' = Tried BY <1>12, <1>2 DEF ToRetry, Tried, Elems
    <3>3. Split(Completed, Waiting', Held \cup M, ToRetry, Tried \ Completed)
          BY <1>11, SplitMoves
    <3> QED BY <1>8, <3>1, <3>2, <3>3 DEF Spread
  <2> QED BY <1>8, <2>2, <2>3, <2>4, <2>5, <2>6, <2>7 DEF PoolInv
<1>13. CASE /\ retry' = retry \o Batch(b) /\ UNCHANGED <<life, good>>
  <2>1. Active' = Active /\ Running' = Running BY <1>13 DEF Active, Running
  <2>2. /\ Lists' /\ retry' \in Seq(Job) /\ retried' \in 0 .. Len(retry')
        /\ ToRetry' = ToRetry \cup M /\ Tried' = {}
    <3>1. Batch(b) = SubSeq(pending, b, last)
      <4>1. b + Size(b) - 1 = last BY <1>3, <1>4
      <4> QED BY <4>1 DEF Batch
    <3>2. M \cap ToRetry = {} BY <1>11 DEF Split
    <3>3. b <= last + 1 BY <1>3, <1>4
    <3> QED BY <1>13, <1>1, <1>2, <1>3, <1>4, <3>1, <3>2, <3>3, RetryGrows
  <2>3. TypeOK'
        BY <1>13, <1>1, <1>2, <1>8, <1>10, <2>2 DEF TypeOK, Ledger, Position
  <2>4. Apart'
    <3>1. \A c \in Active : c + Size(c) - 1 <= last BY <1>3, <1>4, <1>6
    <3> QED BY <1>1, <1>2, <1>9, <2>1, <3>1 DEF Apart
  <2>5. Worked'
    <3>1. \A c \in Position : c > last => c > next BY <1>0, <1>3, <1>4 DEF Position
    <3> QED BY <1>13, <1>1, <1>2, <1>9, <2>1, <3>1 DEF Worked
  <2>6. Phases' BY <1>13, <1>1, <1>2, <1>8, <2>1, <2>2 DEF Phases, ledger, TypeOK
  <2>7. Spread'
    <3>1. Held' = Held BY <1>9, <2>1 DEF Held, Members
    <3>2. Tried = {} BY <1>2 DEF Tried, Elems
    <3>3. Split(Completed, Waiting', Held, ToRetry \cup M, Tried \ Completed)
          BY <1>11, SplitMoves
    <3> QED BY <1>8, <2>2, <3>1, <3>2, <3>3 DEF Spread
  <2> QED BY <1>8, <2>2, <2>3, <2>4, <2>5, <2>6, <2>7 DEF PoolInv
<1> QED BY <1>12, <1>13 DEF Fork

(* Steps that leave the batches alone, and those that leave the retries too.*)
LEMMA BatchesRest ==
    ASSUME PoolInv, UNCHANGED <<pending, next, retry, life, at, good>>,
           published \subseteq published'
    PROVE  /\ Lists' /\ Apart' /\ Worked'
           /\ Active' = Active /\ Running' = Running /\ Waiting' = Waiting /\ Held' = Held
<1>1. Lists /\ Apart /\ Worked BY DEF PoolInv
<1>2. \A c : Size(c)' = Size(c) /\ Batch(c)' = Batch(c) BY SamePending
<1>3. Active' = Active /\ Running' = Running BY DEF Active, Running
<1>4. Waiting' = Waiting BY DEF Waiting
<1>5. Held' = Held BY <1>2, <1>3 DEF Held
<1>6. Lists' BY <1>1 DEF Lists, Distinct, Elems
<1>7. Apart' BY <1>1, <1>2, <1>3 DEF Apart
<1>8. Worked' BY <1>1, <1>2, <1>3 DEF Worked
<1> QED BY <1>3, <1>4, <1>5, <1>6, <1>7, <1>8

LEMMA JobsRest ==
    ASSUME PoolInv, UNCHANGED <<ledger, lists, life, at, good>>,
           published \subseteq published', parent # "reuse"
    PROVE  /\ Ledger' /\ Lists' /\ Apart' /\ Worked' /\ Counted' /\ Spread'
           /\ Active' = Active /\ Running' = Running
           /\ Completed' = Completed /\ Tried' = Tried
<1>1. /\ Lists' /\ Apart' /\ Worked'
      /\ Active' = Active /\ Running' = Running /\ Waiting' = Waiting /\ Held' = Held
      BY BatchesRest DEF lists
<1>2. Ledger' /\ Counted' /\ Completed' = Completed
      BY LedgerRests DEF PoolInv, TypeOK, Ledger
<1>3. Tried' = Tried /\ ToRetry' = ToRetry BY DEF Tried, ToRetry, Elems, lists
<1>4. Spread' BY <1>1, <1>2, <1>3 DEF PoolInv, Spread
<1> QED BY <1>1, <1>2, <1>3, <1>4

LEMMA DispatchesEnd == ASSUME PoolInv, DispatchEnds PROVE PoolInv'
<1>1. TypeOK /\ Phases BY DEF PoolInv
<1>2. /\ UNCHANGED <<ledger, lists, life, at, good, retrier, published>>
      /\ UNCHANGED <<failed, verdict>>
      /\ parent = "dispatch" /\ parent' = IF Active = {} THEN "retry" ELSE "wait"
      BY DEF DispatchEnds, process
<1>3. /\ Ledger' /\ Lists' /\ Apart' /\ Worked' /\ Counted' /\ Spread'
      /\ Active' = Active /\ Running' = Running /\ Completed' = Completed /\ Tried' = Tried
      BY <1>2, JobsRest
<1>4. Running \subseteq Active BY DEF Running, Active
<1>5. TypeOK' BY <1>1, <1>2, <1>3 DEF TypeOK, Ledger, lists, process
<1>6. Phases' BY <1>1, <1>2, <1>3, <1>4 DEF Phases, lists, process, ledger
<1> QED BY <1>3, <1>5, <1>6 DEF PoolInv

LEMMA StrangersAreReaped == ASSUME PoolInv, ReapStranger PROVE PoolInv'
<1>1. TypeOK /\ Phases BY DEF PoolInv
<1>2. /\ UNCHANGED <<ledger, lists, life, at, good, retrier, published>> /\ verdict' = verdict
      /\ parent = "wait" /\ parent' = "dispatch" /\ failed' = TRUE
      BY DEF ReapStranger, process
<1>3. /\ Ledger' /\ Lists' /\ Apart' /\ Worked' /\ Counted' /\ Spread'
      /\ Active' = Active /\ Running' = Running /\ Completed' = Completed /\ Tried' = Tried
      BY <1>2, JobsRest
<1>4. TypeOK' BY <1>1, <1>2, <1>3 DEF TypeOK, Ledger, lists, process
<1>5. Phases' BY <1>1, <1>2, <1>3 DEF Phases, lists, process, ledger
<1> QED BY <1>3, <1>4, <1>5 DEF PoolInv

LEMMA Returns == ASSUME PoolInv, Return PROVE PoolInv'
<1>1. TypeOK /\ Phases BY DEF PoolInv
<1>2. /\ UNCHANGED <<ledger, lists, life, at, good, retrier, published>> /\ failed' = failed
      /\ parent = "retry" /\ parent' = "returned" /\ retried = Len(retry)
      /\ verdict' = IF ~failed /\ completed = JobCount THEN "ok" ELSE "failed"
      BY DEF Return, process
<1>3. /\ Ledger' /\ Lists' /\ Apart' /\ Worked' /\ Counted' /\ Spread'
      /\ Active' = Active /\ Running' = Running /\ Completed' = Completed /\ Tried' = Tried
      BY <1>2, JobsRest
<1>4. TypeOK' BY <1>1, <1>2, <1>3 DEF TypeOK, Ledger, lists, process
<1>5. Phases' BY <1>1, <1>2, <1>3 DEF Phases, lists, process, ledger
<1> QED BY <1>3, <1>4, <1>5 DEF PoolInv

LEMMA Stutters == ASSUME PoolInv, UNCHANGED vars PROVE PoolInv'
<1>1. TypeOK /\ Phases BY DEF PoolInv
<1>2. /\ UNCHANGED <<ledger, lists, life, at, good, retrier, published>>
      /\ UNCHANGED <<failed, verdict, parent>>
      BY DEF vars, process
<1>3. CASE parent # "reuse"
  <2>1. /\ Ledger' /\ Lists' /\ Apart' /\ Worked' /\ Counted' /\ Spread'
        /\ Active' = Active /\ Running' = Running /\ Completed' = Completed /\ Tried' = Tried
        BY <1>2, <1>3, JobsRest
  <2>2. TypeOK' BY <1>1, <1>2, <2>1 DEF TypeOK, Ledger, lists, process
  <2>3. Phases' BY <1>1, <1>2, <2>1 DEF Phases, lists, process, ledger
  <2> QED BY <2>1, <2>2, <2>3 DEF PoolInv
<1>4. CASE parent = "reuse"
  <2>1. Spread' BY <1>2, <1>4 DEF Spread
  <2>2. \A c : Size(c)' = Size(c) /\ Batch(c)' = Batch(c) BY <1>2, SamePending DEF lists
  <2>3. Active' = Active /\ Running' = Running /\ Completed' = Completed /\ Tried' = Tried
        BY <1>2 DEF Active, Running, Completed, Tried, Elems, lists, process, ledger
  <2>4. TypeOK' BY <1>1, <1>2 DEF TypeOK, ledger, lists, process
  <2>5. Phases' BY <1>1, <1>2, <2>3 DEF Phases, lists, process, ledger
  <2>6. Counted' BY <1>2, <2>3 DEF PoolInv, Counted, ledger
  <2>7. Lists' BY <1>2 DEF PoolInv, Lists, lists, Distinct, Elems
  <2>8. Apart' BY <1>2, <2>2, <2>3 DEF PoolInv, Apart, lists
  <2>9. Worked' BY <1>2, <2>2, <2>3 DEF PoolInv, Worked, lists, process
  <2> QED BY <2>1, <2>4, <2>5, <2>6, <2>7, <2>8, <2>9 DEF PoolInv
<1> QED BY <1>3, <1>4

-----------------------------------------------------------------------------
(* The processes                                                           *)

LEMMA Emits == ASSUME PoolInv, NEW b \in Position, Emit(b) PROVE PoolInv'
<1>1. /\ TypeOK /\ Lists /\ Apart /\ Worked /\ Phases /\ Counted /\ Spread /\ Ledger
      BY DEF PoolInv, TypeOK, Ledger
<1>2. /\ b \in Active /\ b \in Running /\ life[b] = "running" /\ at[b] < Size(b)
      /\ at' = [at EXCEPT ![b] = @ + 1]
      /\ UNCHANGED <<parent, ledger, lists, failed, life, retrier, verdict>>
      BY DEF Emit, Active, Running
<1>3. /\ parent \notin {"reuse", "retry", "retryWait", "returned"} BY <1>1, <1>2 DEF Phases
<1>4. /\ b \in Nat /\ b > 0 /\ b <= Len(pending) /\ Size(b) \in Nat
      /\ b + Size(b) - 1 <= Len(pending) /\ at[b] \in Nat /\ pending \in Seq(Job)
      BY <1>1, <1>2, BatchesApart DEF TypeOK
<1>5. pending[b + at[b]] \in Job
  <2>1. b + at[b] \in 1 .. Len(pending) BY <1>2, <1>4
  <2> QED BY <1>4, <2>1
<1>6. /\ published \subseteq published' /\ published' \subseteq Job
      /\ good' \in [Position -> BOOLEAN]
      /\ \A c \in Position : c # b => good'[c] = good[c]
      /\ good'[b] => good[b] /\ pending[b + at[b]] \in published'
      BY <1>1, <1>5 DEF Emit, TypeOK
<1>7. Ledger' /\ Counted' /\ Completed' = Completed BY <1>1, <1>2, <1>6, LedgerRests
<1>8. \A c : Size(c)' = Size(c) /\ Batch(c)' = Batch(c) BY <1>2, SamePending DEF lists
<1>9. Active' = Active /\ Running' = Running BY <1>2 DEF Active, Running
<1>10. TypeOK'
  <2>1. at' \in [Position -> Nat] BY <1>1, <1>2, <1>4 DEF TypeOK
  <2> QED BY <1>1, <1>2, <1>6, <1>7, <2>1 DEF TypeOK, Ledger, lists
<1>11. Lists' BY <1>1, <1>2 DEF Lists, lists, Distinct, Elems
<1>12. Apart' BY <1>1, <1>2, <1>8, <1>9 DEF Apart, lists
<1>13. Worked'
  <2>1. at'[b] = at[b] + 1 /\ \A c \in Position : c # b => at'[c] = at[c]
        BY <1>1, <1>2 DEF TypeOK
  <2>2. \A c \in Position : c > next => at'[c] = 0
    <3>1. ~(b > next)
      <4>1. b + Size(b) - 1 <= next BY <1>1, <1>2 DEF Apart
      <4>2. next \in Int BY <1>1 DEF TypeOK
      <4> QED BY <1>2, <1>4, <4>1, <4>2
    <3> QED BY <1>1, <2>1, <3>1 DEF Worked
  <2>3. /\ at'[b] <= Size(b) /\ life[b] # "ended"
        /\ good'[b] => \A k \in 0 .. at'[b] - 1 : pending[b + k] \in published'
    <3>1. at'[b] <= Size(b) /\ life[b] # "ended" BY <1>2, <1>4, <2>1
    <3>2. ASSUME good'[b], NEW k \in 0 .. at'[b] - 1 PROVE pending[b + k] \in published'
      <4>1. CASE k = at[b] BY <1>6, <3>2, <4>1
      <4>2. CASE k # at[b]
        <5>1. k \in 0 .. at[b] - 1 BY <1>4, <2>1, <3>2, <4>2
        <5> QED BY <1>1, <1>2, <1>6, <3>2, <5>1 DEF Worked
      <4> QED BY <4>1, <4>2
    <3> QED BY <3>1, <3>2
  <2>4. ASSUME NEW c \in Active, c # b
        PROVE  /\ at'[c] <= Size(c)
               /\ good'[c] => \A k \in 0 .. at'[c] - 1 : pending[c + k] \in published'
               /\ life[c] = "ended" /\ good'[c] => at'[c] = Size(c)
    <3>1. at'[c] = at[c] /\ good'[c] = good[c] BY <1>6, <2>1, <2>4 DEF Active
    <3> QED BY <1>1, <1>6, <2>4, <3>1 DEF Worked
  <2> QED BY <1>2, <1>8, <1>9, <2>2, <2>3, <2>4 DEF Worked, lists
<1>14. Phases' BY <1>1, <1>2, <1>3, <1>6, <1>7, <1>9 DEF Phases, Tried, Elems, lists, ledger
<1>15. Spread'
  <2>1. Waiting' = Waiting /\ ToRetry' = ToRetry /\ Tried' = Tried
        BY <1>2 DEF Waiting, ToRetry, Tried, Elems, lists
  <2>2. Held' = Held BY <1>8, <1>9 DEF Held
  <2> QED BY <1>1, <1>2, <1>7, <2>1, <2>2 DEF Spread
<1> QED BY <1>7, <1>10, <1>11, <1>12, <1>13, <1>14, <1>15 DEF PoolInv

(* A process ends, in one way or the other.                                 *)
LEMMA Ends == ASSUME PoolInv, NEW b \in Position, Exit(b) \/ Die(b) PROVE PoolInv'
<1>1. /\ TypeOK /\ Lists /\ Apart /\ Worked /\ Phases /\ Counted /\ Spread /\ Ledger
      BY DEF PoolInv, TypeOK, Ledger
<1>2. /\ life[b] = "running" /\ life' = [life EXCEPT ![b] = "ended"]
      /\ UNCHANGED <<parent, ledger, lists, failed, at, retrier, published, verdict>>
      BY DEF Exit, Die
<1>3. /\ good' \in [Position -> BOOLEAN] /\ \A c \in Position : c # b => good'[c] = good[c]
      /\ good'[b] => good[b] /\ at[b] = Size(b)
      BY <1>1 DEF Exit, Die, TypeOK
<1>4. b \in Active /\ b \in Running /\ Active' = Active /\ Running' \subseteq Running
      BY <1>1, <1>2 DEF Active, Running, TypeOK
<1>5. parent \notin {"reuse", "retry", "retryWait", "returned"} BY <1>1, <1>4 DEF Phases
<1>6. Ledger' /\ Counted' /\ Completed' = Completed BY <1>1, <1>2, LedgerRests
<1>7. \A c : Size(c)' = Size(c) /\ Batch(c)' = Batch(c) BY <1>2, SamePending DEF lists
<1>8. TypeOK' BY <1>1, <1>2, <1>3, <1>6 DEF TypeOK, Ledger, lists
<1>9. Lists' BY <1>1, <1>2 DEF Lists, lists, Distinct, Elems
<1>10. Apart' BY <1>1, <1>2, <1>4, <1>7 DEF Apart, lists
<1>11. Worked'
  <2>1. \A c \in Active : c # b => life'[c] = life[c] /\ good'[c] = good[c]
        BY <1>1, <1>2, <1>3 DEF TypeOK, Active
  <2> QED BY <1>1, <1>2, <1>3, <1>4, <1>7, <2>1 DEF Worked, lists
<1>12. Phases' BY <1>1, <1>2, <1>4, <1>5, <1>6 DEF Phases, Tried, Elems, lists, ledger
<1>13. Spread'
  <2>1. Waiting' = Waiting /\ ToRetry' = ToRetry /\ Tried' = Tried
        BY <1>2 DEF Waiting, ToRetry, Tried, Elems, lists
  <2>2. Held' = Held BY <1>4, <1>7 DEF Held
  <2> QED BY <1>1, <1>2, <1>6, <2>1, <2>2 DEF Spread
<1> QED BY <1>6, <1>8, <1>9, <1>10, <1>11, <1>12, <1>13 DEF PoolInv

-----------------------------------------------------------------------------
(* The waits                                                               *)

LEMMA Reaps == ASSUME PoolInv, NEW b \in Position, Reap(b) PROVE PoolInv'
<1> DEFINE M == Members(Batch(b))  R == UNION {Members(Batch(c)) : c \in Active \ {b}}
<1>1. /\ TypeOK /\ Lists /\ Apart /\ Worked /\ Phases /\ Counted /\ Spread /\ Ledger
      BY DEF PoolInv, TypeOK, Ledger
<1>2. /\ parent = "wait" /\ life[b] = "ended" /\ life' = [life EXCEPT ![b] = "none"]
      /\ parent' = LoopHead
      /\ UNCHANGED <<pending, next, retried, failed, at, good, retrier, published, verdict>>
      BY DEF Reap
<1>3. retried = 0 /\ retried' = 0 /\ b \in Active BY <1>1, <1>2 DEF Phases, Active
<1>4. /\ Held = M \cup R /\ M \cap R = {} /\ b \in Nat /\ b > 0 /\ Size(b) \in Nat /\ Size(b) > 0
      /\ b + Size(b) - 1 <= Len(pending) /\ M = Elems(pending, b, b + Size(b) - 1)
      BY <1>1, <1>3, BatchesApart
<1>5. \A c : Size(c)' = Size(c) /\ Batch(c)' = Batch(c) BY <1>2, SamePending
<1>6. /\ Active' = Active \ {b} /\ Running' \subseteq Active'
      /\ \A c \in Active' : life'[c] = life[c]
      BY <1>1, <1>2 DEF Active, Running, TypeOK
<1>7. Held' = R /\ Waiting' = Waiting BY <1>2, <1>5, <1>6 DEF Held, Waiting
<1>8. Tried = {} BY <1>3 DEF Tried, Elems
<1>9. Split(Completed, Waiting, M \cup R, ToRetry, Tried \ Completed) /\ M \cap R = {}
      BY <1>1, <1>2, <1>4 DEF Spread
<1>10. /\ parent' \in {"dispatch", "retry"}
       /\ parent' = "retry" => Active' = {}
       BY <1>2 DEF LoopHead
<1>11. Apart' BY <1>1, <1>2, <1>5, <1>6 DEF Apart
<1>12. Worked' BY <1>1, <1>2, <1>5, <1>6 DEF Worked
<1>13. life' \in [Position -> {"none", "running", "ended"}] BY <1>1, <1>2 DEF TypeOK
<1>14. CASE good[b] /\ Complete(M, "emitted") /\ UNCHANGED retry
  <2>1. M \subseteq Job
    <3>1. pending \in Seq(Job) /\ \A n \in b .. b + Size(b) - 1 : n \in 1 .. Len(pending)
          BY <1>1, <1>4 DEF TypeOK
    <3>2. \A n \in b .. b + Size(b) - 1 : pending[n] \in Job BY <3>1
    <3> QED BY <1>4, <3>2 DEF Elems
  <2>2. M \subseteq published
    <3> SUFFICES ASSUME NEW n \in b .. b + Size(b) - 1 PROVE pending[n] \in published
        BY <1>4 DEF Elems
    <3>1. at[b] = Size(b) /\ \A k \in 0 .. at[b] - 1 : pending[b + k] \in published
          BY <1>1, <1>2, <1>3, <1>14 DEF Worked
    <3>2. n - b \in 0 .. at[b] - 1 /\ b + (n - b) = n BY <1>4, <3>1
    <3>3. pending[b + (n - b)] \in published BY <3>1, <3>2
    <3> QED BY <3>2, <3>3
  <2>3. M \cap Completed = {} BY <1>9 DEF Split
  <2>4. Ledger' /\ Counted' /\ Completed' = Completed \cup M
        BY <1>1, <1>2, <1>14, <2>1, <2>2, <2>3, CompleteCounts
  <2>5. Tried' = {} /\ ToRetry' = ToRetry BY <1>2, <1>3, <1>14 DEF Tried, ToRetry, Elems
  <2>6. TypeOK' BY <1>1, <1>2, <1>10, <1>13, <1>14, <2>4 DEF TypeOK, Ledger
  <2>7. Lists' BY <1>1, <1>2, <1>14 DEF Lists, Distinct, Elems
  <2>8. Phases' BY <1>1, <1>2, <1>3, <1>6, <1>10, <2>5 DEF Phases
  <2>9. Spread'
    <3>1. Split(Completed \cup M, Waiting, R, ToRetry, Tried \ Completed)
          BY <1>9, SplitMoves
    <3>2. Tried \ Completed = {} /\ Tried' \ Completed' = {} BY <1>8, <2>5
    <3> QED BY <1>7, <2>4, <2>5, <3>1, <3>2 DEF Spread
  <2> QED BY <1>11, <1>12, <2>4, <2>6, <2>7, <2>8, <2>9 DEF PoolInv
<1>15. CASE retry' = retry \o Batch(b) /\ UNCHANGED ledger
  <2>1. /\ Lists' /\ retry' \in Seq(Job) /\ retried' \in 0 .. Len(retry')
        /\ ToRetry' = ToRetry \cup M /\ Tried' = {}
    <3>1. Batch(b) = SubSeq(pending, b, b + Size(b) - 1) BY DEF Batch
    <3>2. M \cap ToRetry = {} BY <1>9 DEF Split
    <3>3. b + Size(b) - 1 \in Nat /\ b <= (b + Size(b) - 1) + 1 BY <1>4
    <3> QED BY <1>15, <1>1, <1>2, <1>3, <1>4, <3>1, <3>2, <3>3, RetryGrows
  <2>2. Ledger' /\ Counted' /\ Completed' = Completed BY <1>1, <1>2, <1>15, LedgerRests
  <2>3. TypeOK' BY <1>1, <1>2, <1>10, <1>13, <2>1, <2>2 DEF TypeOK, Ledger
  <2>4. Phases' BY <1>1, <1>2, <1>3, <1>6, <1>10, <2>1 DEF Phases
  <2>5. Spread'
    <3>1. Split(Completed, Waiting, R, ToRetry \cup M, Tried \ Completed)
          BY <1>9, SplitMoves
    <3> QED BY <1>7, <1>8, <2>1, <2>2, <3>1 DEF Spread
  <2> QED BY <1>11, <1>12, <2>1, <2>2, <2>3, <2>4, <2>5 DEF PoolInv
<1> QED BY <1>14, <1>15 DEF Reap

LEMMA WaitsFail == ASSUME PoolInv, WaitFails PROVE PoolInv'
<1>1. /\ TypeOK /\ Lists /\ Apart /\ Worked /\ Phases /\ Counted /\ Spread /\ Ledger
      BY DEF PoolInv, TypeOK, Ledger
<1>2. /\ parent = "wait" /\ parent' = "retry" /\ Running = {} /\ failed' = TRUE
      /\ retry' = retry \o SubSeq(pending, next + 1, Len(pending)) /\ next' = Len(pending)
      /\ UNCHANGED <<ledger, pending, retried, life, at, good, retrier, published, verdict>>
      BY DEF WaitFails, process
<1>3. retried = 0 /\ retried' = 0 BY <1>1, <1>2 DEF Phases
<1>4. /\ next \in 0 .. Len(pending) /\ Len(pending) \in Nat /\ next' \in 0 .. Len(pending')
      /\ next \in Nat
      BY <1>1, <1>2 DEF TypeOK
<1>5. Waiting = Elems(pending, next + 1, Len(pending)) BY DEF Waiting, Elems
<1>6. Split(Completed, Waiting \cup {}, Held, ToRetry, Tried \ Completed)
      BY <1>1, <1>2 DEF Spread
<1>7. /\ Lists' /\ retry' \in Seq(Job) /\ retried' \in 0 .. Len(retry')
      /\ ToRetry' = ToRetry \cup Waiting /\ Tried' = {}
  <2>1. Waiting \cap ToRetry = {} BY <1>6 DEF Split
  <2>2. PICK a \in Nat : a = next + 1 BY <1>4
  <2>3. PICK d \in Nat : d = Len(pending) BY <1>4
  <2>4. a > 0 /\ a <= d + 1 /\ d <= Len(pending) BY <1>4, <2>2, <2>3
  <2>5. Waiting = Elems(pending, a, d) /\ retry' = retry \o SubSeq(pending, a, d)
        BY <1>2, <1>5, <2>2, <2>3
  <2> QED BY <1>1, <1>2, <1>3, <2>1, <2>4, <2>5, RetryGrows
<1>8. Ledger' /\ Counted' /\ Completed' = Completed BY <1>1, <1>2, LedgerRests
<1>9. \A c : Size(c)' = Size(c) /\ Batch(c)' = Batch(c) BY <1>2, SamePending
<1>10. Active' = Active /\ Running' = {} BY <1>2 DEF Active, Running
<1>11. TypeOK' BY <1>1, <1>2, <1>4, <1>7, <1>8 DEF TypeOK, Ledger
<1>12. Apart'
  <2>1. \A c \in Active : c + Size(c) - 1 <= Len(pending) BY <1>1, BatchesApart
  <2> QED BY <1>1, <1>2, <1>9, <1>10, <2>1 DEF Apart
<1>13. Worked'
  <2>1. \A c \in Position : c > Len(pending) => c > next BY <1>4 DEF Position
  <2> QED BY <1>1, <1>2, <1>9, <1>10, <2>1 DEF Worked
<1>14. Phases' BY <1>1, <1>2, <1>7, <1>10 DEF Phases
<1>15. Spread'
  <2>1. Waiting' = {}
    <3>1. next' + 1 .. Len(pending') = {} BY <1>2, <1>4
    <3> QED BY <3>1 DEF Waiting
  <2>2. Held' = Held BY <1>9, <1>10 DEF Held
  <2>3. Split(Completed, {}, Held, ToRetry \cup Waiting, Tried \ Completed)
        BY <1>6, SplitMoves
  <2>4. Tried = {} BY <1>3 DEF Tried, Elems
  <2> QED BY <1>7, <1>8, <2>1, <2>2, <2>3, <2>4 DEF Spread
<1> QED BY <1>7, <1>8, <1>11, <1>12, <1>13, <1>14, <1>15 DEF PoolInv

-----------------------------------------------------------------------------
(* The retries                                                             *)

LEMMA NextRetry ==
    ASSUME TypeOK, Lists, retried < Len(retry), retried' = retried + 1, retry' = retry,
           NEW j, j = retry[retried + 1]
    PROVE  /\ j \in Job /\ retried' \in 0 .. Len(retry') /\ j \notin Tried
           /\ ToRetry = {j} \cup ToRetry' /\ {j} \cap ToRetry' = {}
           /\ Tried' = Tried \cup {j}
<1> DEFINE r == retried + 1
<1>1. /\ retry \in Seq(Job) /\ Len(retry) \in Nat /\ retried \in Nat /\ r \in 1 .. Len(retry)
      /\ Distinct(retry) /\ retried' \in 0 .. Len(retry') /\ retried' = r
      BY DEF TypeOK, Lists
<1>2. j \in Job BY <1>1
<1>3. {j} = Elems(retry, r, r)
  <2>1. r .. r = {r} BY <1>1
  <2> QED BY <2>1 DEF Elems
<1>4. /\ Tried = Elems(retry, 1, retried) /\ Tried' = Elems(retry, 1, r)
      /\ ToRetry = Elems(retry, r, Len(retry)) /\ ToRetry' = Elems(retry, r + 1, Len(retry))
      BY <1>1 DEF Tried, ToRetry, Elems
<1> HIDE DEF r
<1>5. /\ r \in Nat /\ r > 0 /\ r <= Len(retry) /\ r = retried + 1 BY <1>1 DEF r
<1>6. Elems(retry, 1, r) = Elems(retry, 1, retried) \cup Elems(retry, r, r)
  <2>1. 1 .. r = (1 .. retried) \cup (r .. r) BY <1>1, <1>5
  <2> QED BY <2>1 DEF Elems
<1>7. Elems(retry, r, Len(retry)) = Elems(retry, r, r) \cup Elems(retry, r + 1, Len(retry))
      BY <1>1, <1>5, PiecesJoin
<1>8. Elems(retry, r, r) \cap Elems(retry, r + 1, Len(retry)) = {}
  <2>1. r < r + 1 BY <1>5
  <2> QED BY <1>1, <1>5, <2>1, PiecesApart
<1>9. Elems(retry, 1, retried) \cap Elems(retry, r, r) = {}
  <2>1. retried < r /\ 1 > 0 BY <1>5, <1>1
  <2> QED BY <1>1, <1>5, <2>1, PiecesApart
<1> QED BY <1>1, <1>2, <1>3, <1>4, <1>6, <1>7, <1>8, <1>9

LEMMA RetriesFork == ASSUME PoolInv, RetryFork PROVE PoolInv'
<1>1. /\ TypeOK /\ Lists /\ Apart /\ Worked /\ Phases /\ Counted /\ Spread /\ Ledger
      BY DEF PoolInv, TypeOK, Ledger
<1>2. /\ parent = "retry" /\ retried < Len(retry) /\ retrier = "none" /\ Running = {}
      /\ verdict = "none" /\ retry' = retry
      /\ UNCHANGED <<ledger, pending, next, retry, life, at, good, published, verdict>>
      BY <1>1 DEF RetryFork, Phases, TypeOK
<1>3. CASE retrier' = "running" /\ parent' = "retryWait" /\ UNCHANGED <<retried, failed>>
  <2>1. /\ Ledger' /\ Lists' /\ Apart' /\ Worked' /\ Counted' /\ Spread'
        /\ Active' = Active /\ Running' = Running
        /\ Completed' = Completed /\ Tried' = Tried
        BY <1>2, <1>3, JobsRest DEF lists
  <2>2. TypeOK' BY <1>1, <1>2, <1>3, <2>1 DEF TypeOK, Ledger
  <2>3. Phases' BY <1>1, <1>2, <1>3, <2>1 DEF Phases
  <2> QED BY <2>1, <2>2, <2>3 DEF PoolInv
<1>4. CASE failed' = TRUE /\ retried' = retried + 1 /\ UNCHANGED <<retrier, parent>>
  <2>1. PICK j : j = retry[retried + 1] OBVIOUS
  <2>2. /\ j \in Job /\ retried' \in 0 .. Len(retry') /\ j \notin Tried
        /\ ToRetry = {j} \cup ToRetry' /\ {j} \cap ToRetry' = {}
        /\ Tried' = Tried \cup {j}
        BY <1>1, <1>2, <1>4, <2>1, NextRetry
  <2>3. /\ Lists' /\ Apart' /\ Worked'
        /\ Active' = Active /\ Running' = Running /\ Waiting' = Waiting /\ Held' = Held
        BY <1>2, BatchesRest
  <2>4. Ledger' /\ Counted' /\ Completed' = Completed BY <1>1, <1>2, LedgerRests
  <2>5. TypeOK' BY <1>1, <1>2, <1>4, <2>2, <2>4 DEF TypeOK, Ledger
  <2>6. Phases' BY <1>1, <1>2, <1>4, <2>3 DEF Phases
  <2>7. Spread'
    <3>1. Split(Completed, Waiting, Held, {j} \cup ToRetry', Tried \ Completed)
          BY <1>1, <1>2, <2>2 DEF Spread
    <3>2. Split(Completed, Waiting, Held, ToRetry', (Tried \ Completed) \cup {j})
          BY <2>2, <3>1, SplitMoves
    <3>3. j \notin Completed BY <3>1 DEF Split
    <3>4. Tried' \ Completed = (Tried \ Completed) \cup {j} BY <2>2, <3>3
    <3> QED BY <2>3, <2>4, <3>2, <3>4 DEF Spread
  <2> QED BY <2>3, <2>4, <2>5, <2>6, <2>7 DEF PoolInv
<1> QED BY <1>3, <1>4 DEF RetryFork

LEMMA RetriesEmit == ASSUME PoolInv, RetryEmit PROVE PoolInv'
<1>1. TypeOK /\ Phases /\ Lists BY DEF PoolInv
<1>2. /\ retrier = "running" /\ parent = "retryWait" /\ retried < Len(retry)
      /\ UNCHANGED <<parent, ledger, lists, failed, life, at, good, verdict>>
      BY <1>1 DEF RetryEmit, Phases
<1>3. retry[retried + 1] \in Job
  <2>1. retry \in Seq(Job) /\ retried + 1 \in 1 .. Len(retry) BY <1>1, <1>2 DEF TypeOK
  <2> QED BY <2>1
<1>4. /\ published \subseteq published' /\ published' \subseteq Job /\ retrier' \in {"ok", "bad"}
      /\ retrier' = "ok" => retry[retried + 1] \in published'
      BY <1>1, <1>3 DEF RetryEmit, TypeOK
<1>5. /\ Ledger' /\ Lists' /\ Apart' /\ Worked' /\ Counted' /\ Spread'
      /\ Active' = Active /\ Running' = Running /\ Completed' = Completed /\ Tried' = Tried
      BY <1>2, <1>4, JobsRest
<1>6. TypeOK' BY <1>1, <1>2, <1>4, <1>5 DEF TypeOK, Ledger, lists
<1>7. Phases' BY <1>1, <1>2, <1>4, <1>5 DEF Phases, lists, ledger
<1> QED BY <1>5, <1>6, <1>7 DEF PoolInv

LEMMA RetriesAreReaped == ASSUME PoolInv, RetryReap PROVE PoolInv'
<1>1. /\ TypeOK /\ Lists /\ Apart /\ Worked /\ Phases /\ Counted /\ Spread /\ Ledger
      BY DEF PoolInv, TypeOK, Ledger
<1>2. /\ parent = "retryWait" /\ parent' = "retry" /\ retrier' = "none"
      /\ retried' = retried + 1 /\ retried < Len(retry) /\ Running = {} /\ verdict = "none"
      /\ UNCHANGED <<pending, next, retry, life, at, good, published, verdict>>
      BY <1>1 DEF RetryReap, Phases, TypeOK
<1>3. PICK j : j = retry[retried + 1] OBVIOUS
<1>4. /\ j \in Job /\ retried' \in 0 .. Len(retry') /\ j \notin Tried
      /\ ToRetry = {j} \cup ToRetry' /\ {j} \cap ToRetry' = {}
      /\ Tried' = Tried \cup {j}
      BY <1>1, <1>2, <1>3, NextRetry
<1>5. /\ Lists' /\ Apart' /\ Worked'
      /\ Active' = Active /\ Running' = Running /\ Waiting' = Waiting /\ Held' = Held
      BY <1>2, BatchesRest
<1>6. /\ Split(Completed, Waiting, Held, {j} \cup ToRetry', Tried \ Completed)
      /\ {j} \cap ToRetry' = {} /\ j \notin Completed
  <2>1. Split(Completed, Waiting, Held, {j} \cup ToRetry', Tried \ Completed)
        BY <1>1, <1>2, <1>4 DEF Spread
  <2> QED BY <1>4, <2>1 DEF Split
<1>7. CASE retrier = "ok" /\ Complete({retry[retried + 1]}, "emitted") /\ UNCHANGED failed
  <2>1. {j} \subseteq published /\ {j} \cap Completed = {} /\ {j} \in SUBSET Job
        /\ Complete({j}, "emitted")
        BY <1>1, <1>3, <1>4, <1>6, <1>7 DEF Phases
  <2>2. Ledger' /\ Counted' /\ Completed' = Completed \cup {j}
        BY <1>1, <1>2, <2>1, CompleteCounts
  <2>3. TypeOK' BY <1>1, <1>2, <1>4, <1>7, <2>2 DEF TypeOK, Ledger
  <2>4. Phases' BY <1>1, <1>2, <1>4, <1>5, <1>7, <2>2 DEF Phases
  <2>5. Spread'
    <3>1. Split(Completed \cup {j}, Waiting, Held, ToRetry', Tried \ Completed)
          BY <1>6, SplitMoves
    <3>2. Tried' \ Completed' = Tried \ Completed BY <1>4, <2>2
    <3> QED BY <1>5, <2>2, <3>1, <3>2 DEF Spread
  <2> QED BY <1>5, <2>2, <2>3, <2>4, <2>5 DEF PoolInv
<1>8. CASE failed' = TRUE /\ UNCHANGED ledger
  <2>1. Ledger' /\ Counted' /\ Completed' = Completed BY <1>1, <1>2, <1>8, LedgerRests
  <2>2. TypeOK' BY <1>1, <1>2, <1>4, <1>8, <2>1 DEF TypeOK, Ledger
  <2>3. Phases' BY <1>1, <1>2, <1>5, <1>8 DEF Phases
  <2>4. Spread'
    <3>1. Split(Completed, Waiting, Held, ToRetry', (Tried \ Completed) \cup {j})
          BY <1>6, SplitMoves
    <3>2. Tried' \ Completed = (Tried \ Completed) \cup {j} BY <1>4, <1>6
    <3> QED BY <1>5, <2>1, <3>1, <3>2 DEF Spread
  <2> QED BY <1>5, <2>1, <2>2, <2>3, <2>4 DEF PoolInv
<1> QED BY <1>7, <1>8 DEF RetryReap

-----------------------------------------------------------------------------
(* The theorems                                                            *)

LEMMA PoolStarts == Init => PoolInv
<1> SUFFICES ASSUME Init PROVE PoolInv OBVIOUS
<1> USE DEF Init
<1>1. JobCount \in Nat BY JobsFinite
<1>2. Active = {} /\ Running = {} BY DEF Active, Running
<1>3. Completed = {} /\ Cardinality(Completed) = 0
  <2>1. Completed = {} BY DEF Completed
  <2> QED BY <2>1, FS_EmptySet
<1>4. Tried = {} BY DEF Tried, Elems
<1>5. TypeOK
  <2>1. /\ pending \in Seq(Job) /\ Len(pending) <= JobCount /\ next \in 0 .. Len(pending)
        /\ retry \in Seq(Job) /\ retried \in 0 .. Len(retry)
        BY <1>1
  <2>2. states \in [Job -> {"none", "reused", "emitted"}] /\ published \in SUBSET Job
        OBVIOUS
  <2>3. /\ life \in [Position -> {"none", "running", "ended"}] /\ at \in [Position -> Nat]
        /\ good \in [Position -> BOOLEAN]
        OBVIOUS
  <2>4. reported \in 0 .. JobCount /\ retrier = "none" /\ verdict = "none" /\ parent = "reuse"
        BY <1>1
  <2>5. failed \in BOOLEAN OBVIOUS
  <2> HIDE DEF Init
  <2> QED BY <2>1, <2>2, <2>3, <2>4, <2>5 DEF TypeOK
<1>6. Lists
  <2>1. Len(pending) = 0 /\ 1 .. 0 = {} /\ Len(retry) = 0 OBVIOUS
  <2> QED BY <2>1 DEF Lists, Distinct, Elems
<1>7. Apart /\ Worked BY <1>2 DEF Apart, Worked
<1>8. Phases BY <1>2, <1>3, <1>4 DEF Phases
<1>9. Counted BY <1>1, <1>3 DEF Counted
<1>10. Spread BY DEF Spread
<1> QED BY <1>5, <1>6, <1>7, <1>8, <1>9, <1>10 DEF PoolInv

LEMMA PoolSteps == PoolInv /\ [Next]_vars => PoolInv'
<1> SUFFICES ASSUME PoolInv, [Next]_vars PROVE PoolInv' OBVIOUS
<1>1. CASE Reuse BY <1>1, Reuses
<1>2. CASE Fork BY <1>2, Forks
<1>3. CASE DispatchEnds BY <1>3, DispatchesEnd
<1>4. ASSUME NEW b \in Position, Reap(b) PROVE PoolInv' BY <1>4, Reaps
<1>5. CASE ReapStranger BY <1>5, StrangersAreReaped
<1>6. CASE WaitFails BY <1>6, WaitsFail
<1>7. CASE RetryFork BY <1>7, RetriesFork
<1>8. CASE RetryReap BY <1>8, RetriesAreReaped
<1>9. CASE Return BY <1>9, Returns
<1>10. ASSUME NEW b \in Position, Emit(b) PROVE PoolInv' BY <1>10, Emits
<1>11. ASSUME NEW b \in Position, Exit(b) \/ Die(b) PROVE PoolInv' BY <1>11, Ends
<1>12. CASE RetryEmit BY <1>12, RetriesEmit
<1>13. CASE UNCHANGED vars BY <1>13, Stutters
<1> QED BY <1>1, <1>2, <1>3, <1>4, <1>5, <1>6, <1>7, <1>8, <1>9, <1>10, <1>11, <1>12, <1>13
        DEF Next, Parent, Child, Finished

LEMMA PoolInvariant == Spec => []PoolInv
BY PoolStarts, PoolSteps, PTL DEF Spec

(* No two processes are ever inside the same job, and a retry runs alone:   *)
(* batches in work are disjoint pieces of a list without repetitions.       *)
THEOREM EmittersAreAlone == Spec => []OneEmitter
<1>1. PoolInv => OneEmitter
  <2> SUFFICES ASSUME PoolInv PROVE OneEmitter OBVIOUS
  <2>1. TypeOK /\ Lists /\ Apart /\ Phases BY DEF PoolInv
  <2>2. ASSUME NEW b \in Busy, NEW c \in Busy, b < c PROVE Current(b) # Current(c)
    <3>1. b \in Active /\ c \in Active /\ at[b] < Size(b) /\ at[c] < Size(c)
          BY DEF Busy, Running, Active
    <3>2. /\ b \in Nat /\ b > 0 /\ Size(b) \in Nat /\ c \in Nat /\ c > 0 /\ Size(c) \in Nat
          /\ b + Size(b) - 1 <= Len(pending) /\ c + Size(c) - 1 <= Len(pending)
          BY <2>1, <3>1, BatchesApart
    <3>3. at[b] \in Nat /\ at[c] \in Nat /\ Len(pending) \in Nat
          BY <2>1, <3>1 DEF TypeOK, Active
    <3>4. b + Size(b) <= c BY <2>1, <2>2, <3>1 DEF Apart
    <3>5. /\ b + at[b] \in 1 .. Len(pending) /\ c + at[c] \in 1 .. Len(pending)
          /\ b + at[b] # c + at[c]
      <4> DEFINE n == Len(pending) p == at[b] q == at[c] size == Size(b) length == Size(c)
      <4>1. /\ b \in Nat /\ b > 0 /\ c \in Nat /\ c > 0 /\ n \in Nat
            /\ size \in Nat /\ length \in Nat
            /\ b + size - 1 <= n /\ c + length - 1 <= n
            BY <3>2, <3>3
      <4>2. p \in Nat /\ q \in Nat /\ p < size /\ q < length /\ b + size <= c
            BY <3>1, <3>3, <3>4
      <4> HIDE DEF n, p, q, size, length
      <4>3. b + p \in 1 .. n /\ c + q \in 1 .. n /\ b + p # c + q
            BY <4>1, <4>2
      <4> QED BY <4>3 DEF n, p, q
    <3>6. Distinct(pending) BY <2>1 DEF Lists
    <3>7. pending[b + at[b]] # pending[c + at[c]] BY <3>5, <3>6 DEF Distinct
    <3> QED BY <3>7 DEF Current
  <2>3. ASSUME NEW b \in Busy, NEW c \in Busy, b # c PROVE b < c \/ c < b
    <3>1. b \in Nat /\ c \in Nat BY JobsFinite DEF Busy, Running, Position
    <3> QED BY <2>3, <3>1
  <2>4. \A b, c \in Busy : b # c => Current(b) # Current(c) BY <2>2, <2>3
  <2>5. retrier = "running" => Running = {} BY <2>1 DEF Phases
  <2> QED BY <2>4, <2>5 DEF OneEmitter
<1> QED BY <1>1, PoolInvariant, PTL

(* A job in one place of five is in exactly one.                            *)
LEMMA OnePlaceEach ==
    ASSUME NEW j, NEW A, NEW B, NEW C, NEW D, NEW E, j \in A \cup B \cup C \cup D \cup E,
           A \cap B = {}, A \cap C = {}, A \cap D = {}, A \cap E = {},
           B \cap C = {}, B \cap D = {}, B \cap E = {},
           C \cap D = {}, C \cap E = {}, D \cap E = {}
    PROVE  Cardinality({n \in 1 .. 5 : j \in <<A, B, C, D, E>>[n]}) = 1
<1> DEFINE P == <<A, B, C, D, E>>
<1>1. \E k \in 1 .. 5 : {n \in 1 .. 5 : j \in P[n]} = {k}
  <2>1. P[1] = A /\ P[2] = B /\ P[3] = C /\ P[4] = D /\ P[5] = E OBVIOUS
  <2>2. 1 .. 5 = {1, 2, 3, 4, 5} OBVIOUS
  <2> HIDE DEF P
  <2>3. CASE j \in A
    <3>1. j \notin B /\ j \notin C /\ j \notin D /\ j \notin E BY <2>3
    <3>2. {n \in 1 .. 5 : j \in P[n]} = {1} BY <2>1, <2>2, <2>3, <3>1
    <3> QED BY <3>2
  <2>4. CASE j \in B
    <3>1. j \notin A /\ j \notin C /\ j \notin D /\ j \notin E BY <2>4
    <3>2. {n \in 1 .. 5 : j \in P[n]} = {2} BY <2>1, <2>2, <2>4, <3>1
    <3> QED BY <3>2
  <2>5. CASE j \in C
    <3>1. j \notin A /\ j \notin B /\ j \notin D /\ j \notin E BY <2>5
    <3>2. {n \in 1 .. 5 : j \in P[n]} = {3} BY <2>1, <2>2, <2>5, <3>1
    <3> QED BY <3>2
  <2>6. CASE j \in D
    <3>1. j \notin A /\ j \notin B /\ j \notin C /\ j \notin E BY <2>6
    <3>2. {n \in 1 .. 5 : j \in P[n]} = {4} BY <2>1, <2>2, <2>6, <3>1
    <3> QED BY <3>2
  <2>7. CASE j \in E
    <3>1. j \notin A /\ j \notin B /\ j \notin C /\ j \notin D BY <2>7
    <3>2. {n \in 1 .. 5 : j \in P[n]} = {5} BY <2>1, <2>2, <2>7, <3>1
    <3> QED BY <3>2
  <2> QED BY <2>3, <2>4, <2>5, <2>6, <2>7
<1> QED BY <1>1, FS_Singleton

(* A list without repetitions is no longer than one it is drawn from.       *)
LEMMA DrawnIsShorter ==
    ASSUME NEW s \in Seq(Job), NEW t \in Seq(Job), Distinct(s),
           Elems(s, 1, Len(s)) \subseteq Elems(t, 1, Len(t))
    PROVE  Len(s) <= Len(t)
<1> DEFINE p == Len(s)  q == Len(t)
           f == [n \in 1 .. p |-> CHOOSE m \in 1 .. q : t[m] = s[n]]
<1>1. p \in Nat /\ q \in Nat OBVIOUS
<1>2. \A n \in 1 .. p : f[n] \in 1 .. q /\ t[f[n]] = s[n]
  <2> SUFFICES ASSUME NEW n \in 1 .. p PROVE f[n] \in 1 .. q /\ t[f[n]] = s[n] OBVIOUS
  <2>1. \E m \in 1 .. q : t[m] = s[n] BY DEF Elems
  <2> QED BY <2>1
<1>3. \A m, n \in 1 .. p : m # n => s[m] # s[n] BY DEF Distinct
<1>4. f \in [1 .. p -> 1 .. q]
  <2> HIDE DEF p, q
  <2>1. f = [n \in 1 .. p |-> f[n]] OBVIOUS
  <2> QED BY <1>2, <2>1
<1> HIDE DEF p, q, f
<1>5. f \in Injection(1 .. p, 1 .. q)
  <2>1. \A m, n \in 1 .. p : m # n => f[m] # f[n] BY <1>2, <1>3
  <2> QED BY <1>4, <2>1 DEF Injection, IsInjective
<1>6. IsFiniteSet(1 .. p) /\ IsFiniteSet(1 .. q) /\ Cardinality(1 .. p) = p
      /\ Cardinality(1 .. q) = q
      BY <1>1, FS_Interval
<1>7. Cardinality(1 .. p) <= Cardinality(1 .. q) BY <1>5, <1>6, FS_Injection
<1> QED BY <1>6, <1>7 DEF p, q

(* When all jobs are counted, all are complete.                             *)
LEMMA AllCounted ==
    ASSUME PoolInv, completed = JobCount
    PROVE  Completed = Job /\ published = Job /\ reported = JobCount
<1>1. TypeOK /\ Counted /\ Completed \subseteq Job BY DEF PoolInv, Completed
<1>2. Completed = Job
  <2>1. IsFiniteSet(Job) /\ Cardinality(Job) = JobCount BY JobsFinite
  <2>2. Cardinality(Completed) = Cardinality(Job) BY <1>1, <2>1 DEF Counted
  <2> QED BY <1>1, <2>1, <2>2, FS_Subset
<1>3. published = Job BY <1>1, <1>2 DEF Counted, TypeOK
<1>4. reported = JobCount
  <2>1. JobCount \in Nat /\ reported \in 0 .. JobCount BY <1>1, JobsFinite DEF TypeOK
  <2>2. reported < JobCount => reported + 1 \in Job BY <2>1 DEF Job
  <2> QED BY <1>1, <1>2, <2>1, <2>2 DEF Counted
<1> QED BY <1>2, <1>3, <1>4

(* However forks, workers and waits fail, every job stays in one place and  *)
(* the ledger stays right.                                                  *)
THEOREM NoJobIsLost == Spec => []NoJobLost
<1>1. PoolInv => NoJobLost
  <2> SUFFICES ASSUME PoolInv PROVE NoJobLost OBVIOUS
  <2>1. TypeOK /\ Lists /\ Phases /\ Counted /\ Spread BY DEF PoolInv
  <2>2. GivenUp = Tried \ Completed
    <3>1. Tried = {retry[n] : n \in 1 .. retried} BY DEF Tried, Elems
    <3>2. failed \in BOOLEAN /\ (failed \/ Tried \subseteq Completed) BY <2>1 DEF TypeOK, Phases
    <3> QED BY <3>1, <3>2 DEF GivenUp
  <2>3. InOnePlace
    <3> SUFFICES ASSUME parent # "reuse", NEW j \in Job
                 PROVE  Cardinality({n \in 1 .. 5 : j \in Places[n]}) = 1
        BY DEF InOnePlace
    <3>1. Split(Completed, Waiting, Held, ToRetry, GivenUp) BY <2>1, <2>2 DEF Spread
    <3> QED BY <3>1, OnePlaceEach DEF Split, Places
  <2>4. Len(retry) <= Len(pending) BY <2>1, DrawnIsShorter DEF TypeOK, Lists
  <2>5. verdict = "ok" => reported = JobCount BY <2>1, AllCounted DEF Phases
  <2> QED BY <2>1, <2>3, <2>4, <2>5 DEF NoJobLost, LedgerAgrees, Counted
<1> QED BY <1>1, PoolInvariant, PTL

(* The pool keeps the batch contract: what it publishes is Finish, the      *)
(* verdict comes once, and "ok" only when every object is in place.         *)
THEOREM PoolImplementsBatch == Spec => ImplementsBatch
<1>1. Init => Batches!Init BY DEF Init, Batches!Init
<1>2. PoolInv /\ [Next]_vars => [Batches!Next]_(Batches!bvars)
  <2> SUFFICES ASSUME PoolInv, PoolInv', [Next]_vars PROVE [Batches!Next]_(Batches!bvars)
      BY PoolSteps
  <2>1. TypeOK /\ Phases /\ TypeOK' BY DEF PoolInv
  <2> USE DEF Batches!Next, Batches!bvars, Batches!Finish, Batches!Succeed, Batches!Fail
  <2>2. ASSUME published \subseteq published', verdict' = verdict, verdict # "ok"
        PROVE  [Batches!Next]_(Batches!bvars)
    <3>1. published' \in SUBSET Job /\ published' = published \cup published'
          BY <2>1, <2>2 DEF TypeOK
    <3> QED BY <2>2, <3>1
  <2>3. CASE UNCHANGED <<published, verdict>> BY <2>3
  <2>4. CASE Reuse
    <3>1. published \subseteq published' /\ verdict' = verdict /\ verdict # "ok"
          BY <2>1, <2>4 DEF Reuse, Phases
    <3> QED BY <2>2, <3>1
  <2>5. ASSUME NEW b \in Position, Emit(b) PROVE [Batches!Next]_(Batches!bvars)
    <3>1. Running # {} BY <2>5 DEF Emit, Running
    <3>2. published \subseteq published' /\ verdict' = verdict /\ verdict # "ok"
          BY <2>1, <2>5, <3>1 DEF Emit, Phases
    <3> QED BY <2>2, <3>2
  <2>6. CASE RetryEmit
    <3>1. published \subseteq published' /\ verdict' = verdict /\ verdict # "ok"
          BY <2>1, <2>6 DEF RetryEmit, Phases
    <3> QED BY <2>2, <3>1
  <2>7. CASE Return
    <3>1. verdict = "none" /\ published' = published
          BY <2>1, <2>7 DEF Return, Phases, TypeOK
    <3>2. verdict' = "failed" \/ (verdict' = "ok" /\ completed = JobCount)
          BY <2>7 DEF Return
    <3>3. completed = JobCount => published = Job BY AllCounted
    <3> QED BY <3>1, <3>2, <3>3
  <2>8. \/ UNCHANGED <<published, verdict>> \/ Reuse \/ RetryEmit \/ Return
        \/ \E b \in Position : Emit(b)
        BY DEF Next, Parent, Child, Finished, vars, Fork, DispatchEnds, Reap, ReapStranger,
               WaitFails, RetryFork, RetryReap, Exit, Die
  <2> QED BY <2>3, <2>4, <2>5, <2>6, <2>7, <2>8
<1> QED BY <1>1, <1>2, PoolInvariant, PTL DEF Spec, ImplementsBatch, Batches!Spec
=============================================================================
