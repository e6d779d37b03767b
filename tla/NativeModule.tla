---------------------------- MODULE NativeModule ----------------------------
(***************************************************************************)
(* The validity runtime that native_module.c emits into every generated    *)
(* native module: per range a status and a generation in one atomic word,  *)
(* a counter of the ranges that are not VALID, and a request to validate   *)
(* everything.  Threads of the host enter native code (run), validate an   *)
(* address, and invalidate address ranges; every atomic access of the      *)
(* emitted code is one step here, and so is every word the hash reads.     *)
(***************************************************************************)
EXTENDS Integers, FiniteSets

CONSTANTS
  Thread,      \* host threads that call the module
  RangeCount,  \* recompiled ranges, sorted by address
  WordCount,   \* words of a range
  Mapped,      \* the ranges that lie inside MEM1 or MEM2
  GenMod,      \* generations an atomic word can hold (2^30)
  CounterMod   \* values of the unavailable counter (2^32)

Index == 1..RangeCount
Word == 1..WordCount
NoIndex == 0

ASSUME ThreadAssumption == IsFiniteSet(Thread)
ASSUME SizeAssumption ==
  /\ RangeCount \in Nat \ {0}
  /\ WordCount \in Nat \ {0}
  /\ Mapped \subseteq Index
ASSUME WidthAssumption ==
  /\ GenMod \in Nat \ {0}
  /\ CounterMod \in Nat
  /\ CounterMod > RangeCount + 2 * Cardinality(Thread)

VARIABLES
  status,           \* DIRTY, VALID or CHANGED, the low bits of native_state
  gen,              \* the generation, its upper bits
  unavailable,      \* moderngekko_native_unavailable
  needsValidation,  \* moderngekko_native_needs_validation
  loaded,           \* the host has called reset since it loaded the module
  changed,          \* words of guest memory that differ from the image
  pending,          \* words written since their range was last invalidated
  pc,               \* the step each thread takes next
  op,               \* the entry point a thread is inside: run or validate
  mode,             \* the caller of validate_index
  target,           \* first range of the address or region asked about
  last,             \* last range of the region or of the invalidation
  idx,              \* the range the current loop has reached
  seenGen,          \* generation observed before hashing
  pos,              \* the word the hash reads next
  matches,          \* every word read so far was the image's
  home              \* where an invalidation returns to

shared == <<status, gen, unavailable, needsValidation, loaded>>
memory == <<changed, pending>>
frame  == <<op, mode, target, last>>
hashing == <<seenGen, pos, matches>>
vars == <<shared, memory, pc, frame, idx, hashing, home>>

Labels == {"idle", "load", "hash", "cas", "sub", "guard", "exec", "inv", "add"}

SharedTypeOK ==
  /\ status \in [Index -> {"DIRTY", "VALID", "CHANGED"}]
  /\ gen \in [Index -> 0..GenMod - 1]
  /\ unavailable \in 0..CounterMod - 1
  /\ needsValidation \in BOOLEAN
  /\ loaded \in BOOLEAN

MemoryTypeOK ==
  /\ changed \in [Index -> SUBSET Word]
  /\ pending \in [Index -> SUBSET Word]

ControlTypeOK ==
  /\ pc \in [Thread -> Labels]
  /\ op \in [Thread -> {"run", "validate"}]
  /\ mode \in [Thread -> {"all", "entry", "query", "chain"}]
  /\ home \in [Thread -> {"idle", "exec"}]

CursorTypeOK ==
  /\ target \in [Thread -> Index \cup {NoIndex}]
  /\ last \in [Thread -> Index]
  /\ idx \in [Thread -> Index]

HashTypeOK ==
  /\ seenGen \in [Thread -> 0..GenMod - 1]
  /\ pos \in [Thread -> 1..WordCount + 1]
  /\ matches \in [Thread -> BOOLEAN]

TypeOK ==
  SharedTypeOK /\ MemoryTypeOK /\ ControlTypeOK /\ CursorTypeOK /\ HashTypeOK

(* The static storage of a freshly loaded module: all words zero.          *)
Init ==
  /\ status = [i \in Index |-> "DIRTY"]
  /\ gen = [i \in Index |-> 0]
  /\ unavailable = 0
  /\ needsValidation = FALSE
  /\ loaded = FALSE
  /\ changed = [i \in Index |-> {}]
  /\ pending = [i \in Index |-> {}]
  /\ pc = [t \in Thread |-> "idle"]
  /\ op = [t \in Thread |-> "run"]
  /\ mode = [t \in Thread |-> "entry"]
  /\ target = [t \in Thread |-> NoIndex]
  /\ last = [t \in Thread |-> 1]
  /\ idx = [t \in Thread |-> 1]
  /\ seenGen = [t \in Thread |-> 0]
  /\ pos = [t \in Thread |-> 1]
  /\ matches = [t \in Thread |-> FALSE]
  /\ home = [t \in Thread |-> "idle"]

(* u32 arithmetic of the counter.                                          *)
Increment(n) == IF n = CounterMod - 1 THEN 0 ELSE n + 1
Decrement(n) == IF n = 0 THEN CounterMod - 1 ELSE n - 1
-----------------------------------------------------------------------------
(***************************************************************************)
(* The host and the guest.                                                 *)
(***************************************************************************)

(* Mutant: reset forgets the counter.                                      *)
ResetWithoutCounter ==
  /\ \A t \in Thread : pc[t] = "idle"
  /\ status' = [i \in Index |-> "DIRTY"]
  /\ gen' = [i \in Index |-> 0]
  /\ needsValidation' = TRUE
  /\ loaded' = TRUE
  /\ pending' = [i \in Index |-> {}]
  /\ UNCHANGED <<unavailable, changed, pc, frame, idx, hashing, home>>

(* reset(): relaxed stores, so the host must not be inside the module.     *)
Reset ==
  /\ \A t \in Thread : pc[t] = "idle"
  /\ status' = [i \in Index |-> "DIRTY"]
  /\ gen' = [i \in Index |-> 0]
  /\ unavailable' = RangeCount
  /\ needsValidation' = TRUE
  /\ loaded' = TRUE
  /\ pending' = [i \in Index |-> {}]
  /\ UNCHANGED <<changed, pc, frame, idx, hashing, home>>

(* A store to guest code, from native code, the interpreter or a DMA.      *)
GuestWrite(i, w) ==
  /\ \/ changed' = [changed EXCEPT ![i] = @ \cup {w}]
     \/ changed' = [changed EXCEPT ![i] = @ \ {w}]
  /\ pending' = [pending EXCEPT ![i] = @ \cup {w}]
  /\ UNCHANGED <<shared, pc, frame, idx, hashing, home>>

(* validate(address) and run(entry_pc): both start with validate_all, whose*)
(* exchange takes the request, and then look the address up.  An address   *)
(* outside every range is NoIndex.                                         *)
Call(t, entryPoint, i) ==
  /\ loaded /\ pc[t] = "idle"
  /\ needsValidation' = FALSE
  /\ op' = [op EXCEPT ![t] = entryPoint]
  /\ target' = [target EXCEPT ![t] = i]
  /\ \/ /\ needsValidation
        /\ mode' = [mode EXCEPT ![t] = "all"]
        /\ idx' = [idx EXCEPT ![t] = 1]
        /\ pc' = [pc EXCEPT ![t] = "load"]
     \/ /\ ~needsValidation /\ i # NoIndex
        /\ mode' = [mode EXCEPT ![t] = "entry"]
        /\ idx' = [idx EXCEPT ![t] = i]
        /\ pc' = [pc EXCEPT ![t] = "load"]
  /\ UNCHANGED <<status, gen, unavailable, loaded, memory, last, hashing, home>>
-----------------------------------------------------------------------------
(***************************************************************************)
(* validate_index.                                                         *)
(***************************************************************************)

(* Where t goes on once validate_index(idx[t]) has answered ok.            *)
ContinueAll(t) ==
  /\ mode[t] = "all"
  /\ \/ /\ idx[t] < RangeCount
        /\ idx' = [idx EXCEPT ![t] = @ + 1]
        /\ pc' = [pc EXCEPT ![t] = "load"]
        /\ UNCHANGED mode
     \/ /\ idx[t] = RangeCount /\ target[t] # NoIndex
        /\ idx' = [idx EXCEPT ![t] = target[t]]
        /\ mode' = [mode EXCEPT ![t] = "entry"]
        /\ pc' = [pc EXCEPT ![t] = "load"]
     \/ /\ idx[t] = RangeCount /\ target[t] = NoIndex
        /\ pc' = [pc EXCEPT ![t] = "idle"]
        /\ UNCHANGED <<idx, mode>>
  /\ UNCHANGED last

ContinueEntry(t, ok) ==
  /\ mode[t] \in {"entry", "chain"}
  /\ pc' = [pc EXCEPT ![t] = IF ok /\ op[t] = "run" THEN "guard" ELSE "idle"]
  /\ last' = [last EXCEPT ![t] = idx[t]]
  /\ UNCHANGED <<idx, mode>>

ContinueQuery(t, ok) ==
  /\ mode[t] = "query"
  /\ \/ /\ ok /\ idx[t] < last[t]
        /\ idx' = [idx EXCEPT ![t] = @ + 1]
        /\ pc' = [pc EXCEPT ![t] = "load"]
     \/ /\ ok /\ idx[t] >= last[t]
        /\ pc' = [pc EXCEPT ![t] = "exec"]
        /\ UNCHANGED idx
     \/ /\ ~ok
        /\ pc' = [pc EXCEPT ![t] = "idle"]
        /\ UNCHANGED idx
  /\ UNCHANGED <<last, mode>>

Continue(t, ok) ==
  /\ ContinueAll(t) \/ ContinueEntry(t, ok) \/ ContinueQuery(t, ok)
  /\ UNCHANGED <<op, target>>

(* The top of the loop, with the word just loaded or returned by a failed  *)
(* compare-exchange: a settled status answers, a DIRTY one is hashed.      *)
Observe(t) ==
  \/ /\ status[idx[t]] # "DIRTY"
     /\ Continue(t, status[idx[t]] = "VALID")
     /\ UNCHANGED hashing
  \/ /\ status[idx[t]] = "DIRTY"
     /\ seenGen' = [seenGen EXCEPT ![t] = gen[idx[t]]]
     /\ pos' = [pos EXCEPT ![t] = 1]
     /\ matches' = [matches EXCEPT ![t] = idx[t] \in Mapped]
     /\ pc' = [pc EXCEPT ![t] = "hash"]
     /\ UNCHANGED <<frame, idx>>

Load(t) ==
  /\ pc[t] = "load"
  /\ Observe(t)
  /\ UNCHANGED <<shared, memory, home>>

(* The hash reads plain bytes while other threads may write them.          *)
HashWord(t) ==
  /\ pc[t] = "hash"
  /\ \/ /\ pos[t] <= WordCount
        /\ matches' = [matches EXCEPT ![t] = @ /\ pos[t] \notin changed[idx[t]]]
        /\ pos' = [pos EXCEPT ![t] = @ + 1]
        /\ UNCHANGED pc
     \/ /\ pos[t] = WordCount + 1
        /\ pc' = [pc EXCEPT ![t] = "cas"]
        /\ UNCHANGED <<matches, pos>>
  /\ UNCHANGED <<shared, memory, frame, idx, seenGen, home>>

(* Mutants: the exchange compares only the status, or only the generation. *)
UnmovedStatus(t) == status[idx[t]] = "DIRTY"
UnmovedGeneration(t) == gen[idx[t]] = seenGen[t]

(* The word is still the one observed.                                     *)
Unmoved(t) ==
  /\ status[idx[t]] = "DIRTY"
  /\ gen[idx[t]] = seenGen[t]

CasSucceeds(t) ==
  /\ pc[t] = "cas"
  /\ Unmoved(t)
  /\ status' = [status EXCEPT ![idx[t]] = IF matches[t] THEN "VALID" ELSE "CHANGED"]
  /\ \/ /\ matches[t]
        /\ pc' = [pc EXCEPT ![t] = "sub"]
        /\ UNCHANGED <<frame, idx>>
     \/ /\ ~matches[t]
        /\ Continue(t, FALSE)
  /\ UNCHANGED <<gen, unavailable, needsValidation, loaded, memory, hashing, home>>

(* Mutant: the hash is not taken again after a failed exchange.            *)
CasFailsKeepsHash(t) ==
  /\ pc[t] = "cas"
  /\ \/ /\ status[idx[t]] # "DIRTY"
        /\ Continue(t, status[idx[t]] = "VALID")
        /\ UNCHANGED hashing
     \/ /\ status[idx[t]] = "DIRTY"
        /\ seenGen' = [seenGen EXCEPT ![t] = gen[idx[t]]]
        /\ UNCHANGED <<pos, matches, pc, frame, idx>>
  /\ UNCHANGED <<shared, memory, home>>

(* The exchange is the weak one: it may fail although the word is unmoved. *)
CasFails(t) ==
  /\ pc[t] = "cas"
  /\ Observe(t)
  /\ UNCHANGED <<shared, memory, home>>

FetchSub(t) ==
  /\ pc[t] = "sub"
  /\ unavailable' = Decrement(unavailable)
  /\ Continue(t, TRUE)
  /\ UNCHANGED <<status, gen, needsValidation, loaded, memory, hashing, home>>
-----------------------------------------------------------------------------
(***************************************************************************)
(* Native code.                                                            *)
(***************************************************************************)

(* Mutant: the guard does not look at the ranges when some are unavailable.*)
GuardTrusting(t) ==
  /\ pc[t] = "guard"
  /\ pc' = [pc EXCEPT ![t] = "exec"]
  /\ target' = [target EXCEPT ![t] = idx[t]]
  /\ UNCHANGED <<shared, memory, op, mode, last, idx, hashing, home>>

(* region_available, called by the guard at the head of every region.      *)
Guard(t) ==
  /\ pc[t] = "guard"
  /\ \/ /\ unavailable = 0
        /\ pc' = [pc EXCEPT ![t] = "exec"]
        /\ target' = [target EXCEPT ![t] = idx[t]]
        /\ UNCHANGED mode
     \/ /\ unavailable # 0
        /\ pc' = [pc EXCEPT ![t] = "load"]
        /\ mode' = [mode EXCEPT ![t] = "query"]
        /\ target' = [target EXCEPT ![t] = idx[t]]
  /\ UNCHANGED <<shared, memory, op, last, idx, hashing, home>>

(* Native code calls another region directly.                              *)
CallRegion(t, i, j) ==
  /\ pc[t] = "exec"
  /\ i <= j
  /\ idx' = [idx EXCEPT ![t] = i]
  /\ last' = [last EXCEPT ![t] = j]
  /\ pc' = [pc EXCEPT ![t] = "guard"]
  /\ UNCHANGED <<shared, memory, op, mode, target, hashing, home>>

(* A BUDGET exit whose pc is an entry of range i: run validates i and      *)
(* chains into it.                                                         *)
Chain(t, i) ==
  /\ pc[t] = "exec"
  /\ idx' = [idx EXCEPT ![t] = i]
  /\ mode' = [mode EXCEPT ![t] = "chain"]
  /\ pc' = [pc EXCEPT ![t] = "load"]
  /\ UNCHANGED <<shared, memory, op, target, last, hashing, home>>

(* Any other exit ends run.                                                *)
LeaveRun(t) ==
  /\ pc[t] = "exec"
  /\ pc' = [pc EXCEPT ![t] = "idle"]
  /\ UNCHANGED <<shared, memory, frame, idx, hashing, home>>
-----------------------------------------------------------------------------
(***************************************************************************)
(* invalidate(address, size), from the host or from a callback of native   *)
(* code: the binary search has found ranges i..j.  RoomForGenerations is   *)
(* the bound of the model: no generation wraps between two resets.         *)
(***************************************************************************)
RoomForGenerations(i, j) ==
  \A k \in i..j : gen[k] + Cardinality(Thread) < GenMod

StartInvalidate(t, i, j) ==
  /\ loaded /\ pc[t] \in {"idle", "exec"}
  /\ i <= j
  /\ RoomForGenerations(i, j)
  /\ home' = [home EXCEPT ![t] = pc[t]]
  /\ idx' = [idx EXCEPT ![t] = i]
  /\ last' = [last EXCEPT ![t] = j]
  /\ pc' = [pc EXCEPT ![t] = "inv"]
  /\ UNCHANGED <<shared, memory, op, mode, target, hashing>>

(* Mutant: the loop does not advance.                                      *)
NextRangeStuck(t) ==
  /\ pc' = [pc EXCEPT ![t] = "inv"]
  /\ UNCHANGED idx

NextRange(t) ==
  \/ /\ idx[t] < last[t]
     /\ idx' = [idx EXCEPT ![t] = @ + 1]
     /\ pc' = [pc EXCEPT ![t] = "inv"]
  \/ /\ idx[t] >= last[t]
     /\ pc' = [pc EXCEPT ![t] = home[t]]
     /\ UNCHANGED idx

(* Mutant: every invalidated range is counted, VALID before or not.        *)
InvalidateRangeCountsAll(t) ==
  /\ pc[t] = "inv"
  /\ gen[idx[t]] + 1 < GenMod
  /\ gen' = [gen EXCEPT ![idx[t]] = @ + 1]
  /\ status' = [status EXCEPT ![idx[t]] = "DIRTY"]
  /\ pending' = [pending EXCEPT ![idx[t]] = {}]
  /\ pc' = [pc EXCEPT ![t] = "add"]
  /\ UNCHANGED <<unavailable, needsValidation, loaded, changed, idx, frame,
                 hashing, home>>

(* The load and the loop of compare-exchanges are one atomic update.  The  *)
(* first guard repeats the bound; RoomForGenerations keeps it true.        *)
InvalidateRange(t) ==
  /\ pc[t] = "inv"
  /\ gen[idx[t]] + 1 < GenMod
  /\ gen' = [gen EXCEPT ![idx[t]] = @ + 1]
  /\ status' = [status EXCEPT ![idx[t]] = "DIRTY"]
  /\ pending' = [pending EXCEPT ![idx[t]] = {}]
  /\ \/ /\ status[idx[t]] = "VALID"
        /\ pc' = [pc EXCEPT ![t] = "add"]
        /\ UNCHANGED idx
     \/ /\ status[idx[t]] # "VALID"
        /\ NextRange(t)
  /\ UNCHANGED <<unavailable, needsValidation, loaded, changed, frame, hashing, home>>

FetchAdd(t) ==
  /\ pc[t] = "add"
  /\ unavailable' = Increment(unavailable)
  /\ NextRange(t)
  /\ UNCHANGED <<status, gen, needsValidation, loaded, memory, frame, hashing, home>>
-----------------------------------------------------------------------------
Validating(t) ==
  Load(t) \/ HashWord(t) \/ CasSucceeds(t) \/ CasFails(t) \/ FetchSub(t)

Invalidating(t) == InvalidateRange(t) \/ FetchAdd(t)

Next ==
  \/ Reset
  \/ \E i \in Mapped, w \in Word : GuestWrite(i, w)
  \/ \E t \in Thread :
       \/ \E entryPoint \in {"run", "validate"}, i \in Index \cup {NoIndex} :
            Call(t, entryPoint, i)
       \/ Validating(t)
       \/ Guard(t)
       \/ \E i, j \in Index : CallRegion(t, i, j) \/ StartInvalidate(t, i, j)
       \/ \E i \in Index : Chain(t, i)
       \/ LeaveRun(t)
       \/ Invalidating(t)

Spec == Init /\ [][Next]_vars

(* The host keeps scheduling a thread that is inside the module, and a weak*)
(* compare-exchange on an unmoved word does not fail for ever.             *)
Fairness ==
  \A t \in Thread :
    /\ WF_vars(Validating(t) \/ Guard(t) \/ Invalidating(t))
    /\ SF_vars(CasSucceeds(t))

FairSpec == Spec /\ Fairness
-----------------------------------------------------------------------------
(***************************************************************************)
(* Properties.                                                             *)
(***************************************************************************)

(* The counter trails the statuses by exactly the threads that are between *)
(* a compare-exchange and the fetch_sub or fetch_add that accounts for it, *)
(* modulo the width of the counter.                                        *)
NotValid == {i \in Index : status[i] # "VALID"}
At(label) == {t \in Thread : pc[t] = label}
Balance == Cardinality(NotValid) + Cardinality(At("sub")) - Cardinality(At("add"))

UnavailableAccounting ==
  loaded => unavailable = IF Balance >= 0 THEN Balance ELSE Balance + CounterMod

(* A range is VALID only while every word that differs from the recompiled *)
(* image was written and not yet invalidated, however the hash, the writes *)
(* and the invalidations of other threads interleave.                      *)
ValidMeansUnchanged ==
  \A i \in Index : status[i] = "VALID" => changed[i] \subseteq pending[i]

(* Why it holds.  A hash under way whose range is unmoved has missed only   *)
(* words that are pending: an invalidation since the observation would have*)
(* raised the generation, which never falls while a thread is inside.      *)
HashIsCurrent(t) ==
  pc[t] \in {"hash", "cas"} =>
    /\ seenGen[t] <= gen[idx[t]]
    /\ pc[t] = "cas" => pos[t] = WordCount + 1
    /\ matches[t] /\ Unmoved(t) =>
         \A w \in changed[idx[t]] : w < pos[t] => w \in pending[idx[t]]

ValidityInv == ValidMeansUnchanged /\ \A t \in Thread : HashIsCurrent(t)

(* No thread is inside a module that was not reset.                        *)
AccountingInv ==
  /\ UnavailableAccounting
  /\ ~loaded => \A t \in Thread : pc[t] = "idle"

(* The guard's fast path: a zero counter means that every range may be     *)
(* entered, unless a thread is inside an invalidation it has not counted.  *)
FastPathSound ==
  loaded /\ unavailable = 0 => NotValid = {} \/ At("add") # {}

(* A range found CHANGED is not entered again before it is invalidated,    *)
(* even by a thread that hashed it before.                                 *)
ChangedUntilInvalidated ==
  [][\A i \in Index : status[i] = "CHANGED" => status'[i] # "VALID"]_status

(* With one thread, as the chassis runs the module, native code is entered *)
(* only when every word of its region that differs is still pending.       *)
EntryIsCurrent ==
  [][\A t \in Thread : pc[t] \in {"guard", "load", "sub"} /\ pc'[t] = "exec" =>
       \A i \in target'[t]..last[t] : changed[i] \subseteq pending[i]]_vars

(* Every call of the module comes back to its caller.                      *)
CallsReturn ==
  \A t \in Thread :
    pc[t] \notin {"idle", "exec"} ~> pc[t] \in {"idle", "exec"}

(* The module implements the instantaneous checks of RegionValidity.       *)
Validity == INSTANCE RegionValidity WITH
  Range <- Index,
  usable <- {i \in Index : status[i] = "VALID"},
  refused <- {i \in Index : status[i] = "CHANGED"}
ImplementsValidity == Validity!Spec
=============================================================================
