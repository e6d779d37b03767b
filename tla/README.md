# TLA+ models and proofs of DolRecomp

DolRecomp recompiles GameCube and Wii executables (DOL, REL, RPX) to C or to
LLVM objects. This directory holds TLA+ models of the recompiler, of the code
it emits and of the runtime that code calls, TLC configurations that check them
on small instances, and TLAPS proofs for instances of any size. Sources are
named relative to the repository; `PROJECT.json` maps every definition to its
lines.

    tlc -workers 2 -config WorkerQueue.cfg WorkerQueue
    tlapm WorkerQueueProofs.tla

## 1. The system

| component | state | operations | talks to |
|---|---|---|---|
| native module runtime (`backend/native_module.c`, emitted C; region guard in `llvm/exits.cpp`) | per range a status and generation in one atomic word, the unavailable counter, the validate-all request, a lookup memo, staged registers of `run` | reset, validate, run, invalidate, region_available, supports_entry | host calls in; native code and its callbacks call back; reads guest memory unsynchronised |
| LLVM job pool (`app/pipeline.c` run_llvm_chunk_jobs) | pending and retry lists, active workers, counters, announcements | reuse, fork, reap, retry | operating system processes; object store |
| object publishing, stamps, cache (`app/pipeline.c`, `llvm/object_cache.cpp`) | object, bitcode and stamp of each job, cache entries | resume, copy, emit, publish, stamp, cache | file system shared with other builds |
| thread worker queue (`backend/codegen.c`) | next job, failed flag, mutex | run_parallel_jobs, take, mark failed, join | C backend chunk files; LLVM objects on Windows |
| range building and selection (`app/pipeline.c`) | partition points, ranges, weights | build, select, close over edges | symbols, patches, profile |
| LLVM ABI analyses (`llvm/abi_policy.cpp`, `abi_liveness.cpp`, `call_liveness.cpp`) | register masks per range and block, worklists | propagate, liveness, definite and dirty sets | ranges, emission |
| dispatch tables (`backend/dispatch.c`) | runs and pages of ranges | linear and indexed lookup | generated code |
| native state commit/reload (`backend/native_state.c`, `llvm/modern_state.cpp`, `modern_wrapper.cpp`, `exits.cpp`) | staging array, dirty and valid masks, locals of the running ranges | prepare, stage, commit, reload, accept results | native module run, host state, services |
| CPU runtime (`cpu/cpu.c`) | registers, MSR, SRRs, reservation, locked cache, TLB counters | exceptions, rfi, lwarx/stwcx., SPR moves, memory | generated C and host callbacks |
| LLVM chain budget and services (`llvm/timing.cpp`, `fifo_service.cpp`, `memory_service.cpp`, ...) | cycles, guard steps, budget, exit reason | budget guard, memory, FIFO and instruction services | host services |
| REL loading (`container/rel.c`, `app/pipeline.c`) | bases, sections, module map | load at base, relocate, next base | range building |
| analyses (`analysis/smc.c`, `symbol_map.c`, `backend/symbols.c`, `backend/c_cfg.c`) | known registers, sorted symbols, leaders | analyse, deduplicate, name, build | emitters |
| decoder, DOLIR builder, C and LLVM emitters, containers, command line, platform | per call | decode, build, print, parse | each other, sequentially |

Control flow is a pipeline: containers and analyses give sections, ranges and
masks; ranges become jobs; jobs are run by the thread queue (C backend, and
Windows) or the process pool (LLVM elsewhere); each LLVM job goes through the
object store; the objects are linked with the emitted native module, which runs
in another program, the host. Four places are concurrent or survive a crash:
the module runtime, the two pools and the object store. The others are
sequential, and hard because facts established in one place are relied on in
another: a mask computed by an analysis and trusted by emitted code, a table
built by one function and searched by a second, one instruction written twice
by hand, a register kept in five places.

What is hard, component by component, and what makes each correct:

- *Module runtime*: status and counter are changed by separate atomic
  operations; the hash reads memory that other threads write; answers are
  stale by the time they are used. Correct when native code never runs for
  bytes the guest changed and announced, the counter never drifts, and calls
  return.
- *Pools*: jobs, workers, forks and waits fail in any combination. Correct when
  no job is lost, doubled or written twice at once, "ok" means all outputs
  exist, and the call returns.
- *Object store*: processes die between file operations, files are copied in
  place, several builds share a cache. Correct when the cache holds only whole
  files, a successful build delivers what it was asked for, and a stamp is
  believed only for the files it was written for.
- *Staged state*: a register is at the host, in the staging array or in locals of
  several active ranges; calls, services and exits move some of them. Correct
  when nothing is ever read where it is old, and the host gets all of it back.
- *Analyses*: worklists and block iterations feed masks and address domains that
  emitted code trusts without a check. Correct when what they claim holds on
  every walk through the code.
- *Ranges, tables, modules, symbols*: boundaries, capacities and names computed in
  one pass and used in the next. Correct when no instruction is lost or translated
  twice, a lookup finds exactly what is there, modules do not overlap,
  relocated fields mean their targets, and the header's names are unique.
- *Emitted code*: pc, cycles and calls are bookkeeping the code leaves out where it
  thinks nobody looks. Correct when whoever looks sees the truth and the host
  gets its thread back.
- *Two backends*: each opcode is written once as C text and once as DolIR. Correct
  when both do the same to the machine.
- *CPU runtime*: reservations, exceptions, status summaries kept redundantly by a
  dozen helpers. Correct when they stay in step over any sequence of instructions.

`PROJECT.json` lists the hazards at their lines, with the properties about them.

## 2. Modules

| module | what it is |
|---|---|
| `RegionValidity` | abstract: what the validity bookkeeping promises, every check instantaneous |
| `NativeModule` | the emitted runtime, one step per atomic access and per word hashed |
| `MCNativeModule` | instances and views for TLC |
| `NativeModuleProofs` | theorems about `NativeModule`, including that it implements `RegionValidity` |
| `JobBatch` | abstract: the contract of running a batch of jobs |
| `WorkerQueue`, `WorkerQueueProofs` | the thread pool, and the proof that it implements `JobBatch` |
| `LLVMJobPool`, `LLVMJobPoolProofs` | the process pool, and the proof that it implements `JobBatch` |
| `ObjectStore`, `MCObjectStore`, `ObjectStoreProofs` | one job's files, in several builds at once |
| `StagedState`, `MCStagedState`, `StagedStateProofs` | the architectural state while native ranges chain, call and leave |
| `ChainBudget` | cycles and budget of native code: run's loop, bodies, guards, services |
| `ChunkRuntime` | a program as the C backend translates and runs it: pc, budget, calls, dispatcher |
| `CallSites` | the dirty and definite-definition analyses of one range, and walks through it |
| `AbiPropagation` | the worklist that merges register summaries along calls |
| `AddressAnalysis` | intervals of addresses, accesses without a check, and walks through them |
| `RangePlan` | cutting code into ranges, profile closures, objects |
| `Dispatch` | the generated lookup, linear and indexed |
| `RelLayout` | placing and relocating a directory of REL modules |
| `SymbolHeader` | from a symbol map to the header |
| `GuestMemory` | regions, aliases, reservation, locked cache, pair accesses |
| `GuestExceptions` | SRR0, SRR1, MSR and the helpers that raise exceptions |
| `FloatStatus` | FPSCR with its summaries and the host's rounding |
| `CpuRuntimeProofs` | theorems about the three modules above |
| `ExecutionProofs` | theorems about `ChainBudget` and `ChunkRuntime` |
| `TranslationProofs` | theorems about `AbiPropagation`, `CallSites`, `RelLayout`, `SymbolHeader`, `AddressAnalysis`, `Dispatch` and `RangePlan` |
| `BackendSemantics` | one instruction in its C and in its LLVM form |
| `MCExecution` | `ChainBudget`, `ChunkRuntime` and `NativeModule` side by side, with fairness |
| `MCTranslation` | the eleven sequential components side by side |

`MCExecution` and `MCTranslation` check components that share no state in one
run: `active`, which never changes, names the one a behaviour is of, and the
variables of the others rest. The components whose theorems name a checked
property are extended rather than instantiated, so that the run and the proof
speak of the same definition.

### NativeModule

The range's atomic word is two variables, `status` (low two bits) and `gen` (the
rest). A word of guest memory is only "as recompiled" or `changed`; the FNV hash
is taken to tell the two apart, so hash collisions are outside the model.
`pending` is a history: words written since their range was last invalidated,
for which the guest has announced nothing yet. Program counters follow the
emitted C: `load` and `hash` and `cas` and `sub` are validate_index, `inv` and
`add` the loop of invalidate, `guard` region_available, `exec` native code. `mode`
says who called validate_index: validate_all, the entry check of run or
validate, the guard's loop, or chaining.

- Static storage is zero: all ranges DIRTY but `unavailable` 0. The host has to
  call reset first; `loaded` records it, and entry points are called only after.
- reset uses relaxed stores and no lock: `Reset` requires that no thread is
  inside. The only host the repository describes runs the module on one CPU
  thread (`backend/emitter.c:506`); the models still take two threads for
  everything the atomics are there for.
- The C11 accesses are acquire/release on single words and a counter; the model
  interleaves them, that is, is sequentially consistent. The weak
  compare-exchange of validate_index may fail spuriously (`CasFails`). The load
  and retry loop of invalidate is one atomic update, because every failed
  attempt has no effect.
- The lookup memo and the binary searches are functions of constant ranges, so
  an address is a range index, or `NoIndex`. Alignment and the entry bitmap
  decide only whether run chains, and `Chain` may or may not happen.
- Ranges outside MEM1 and MEM2 (`Index \ Mapped`) never match.

### WorkerQueue

One step per mutex section. `HandleLimit` is 64 on Windows; elsewhere there is
no limit, which is the case of a limit above the job count. The sequential path
for one job at a time, queue and thread creation failures, and a failing job are
modelled. `Start` makes a failed pthread_mutex_init or calloc one alternative.

### LLVMJobPool

A batch is named by the position of its first pending job. `autoReap` is the
one way waitpid(-1) can fail here: SIGCHLD ignored by the parent process that
started the program, so that ended children vanish and waitpid fails with
ECHILD once all have ended. `Strangers` are children inherited across exec,
which waitpid(-1) reaps too. The sources install no signal handler, so EINTR of
the serial retry's waitpid is not modelled. A worker may die at any point; the
batch is then retried whole, including what it had published. The reuse pass
precedes the first fork and is one step. `emit_llvm_chunk_job` is one step here
and is looked into by `ObjectStore`.

### ObjectStore

The content of a file is the version (job hash) it was made for and whether it
was cut short. valid_object_file reads the header only, so a cut file passes for
a whole one unless even the header is missing. Temporary names carry the process
id and are private: writing one and renaming it is one step for the observers of
the final name. Each final name changes in its own step, in the code's order:
old object removed, object renamed, stamp removed, stamp renamed, cache object,
cache bitcode; `Kill` may come between any two.

Assumptions: the builds of one output directory do not overlap; a job hash
identifies what is built (llvm_job_hash covers every option the emission reads);
a file system keeps what it was given.

The history `unstamped` says that a build has touched the object or bitcode
since the stamp was written. `StampIsHonest` makes the limit of
`DOLRECOMP_LLVM_RESUME` exact: resuming is right as long as the files are not
`unstamped`. A build of another option set that is killed or fails between
touching the files and renaming the stamp, or whose stamp could not be written,
leaves them `unstamped` under the older stamp, and the resume test cannot see it.

### StagedState

Values are abstracted to where the latest one is: `host`, `vals` (the staging
array of `run`) and the `cur` of a frame (a range's locals) are sets of slots
whose copy there is the latest. An instruction that defines a slot makes every
other copy old. So "the host is complete" is `host = Slot`, and a stale read is
a used slot outside `cur`. The slots fall into those that may stay staged between
ranges (`Cacheable`: GPR0 to PS1_31) and `Control`.

`Run`, `Enter`, `Finish` are moderngekko_native_run; `Enter` includes
prepare_state, the wrapper's arguments and the body's entry. `Call` and
`ReturnNative` are a native call of another range, `ReturnToRun` and `SideExit`
the ways out, and the service actions the memory, FIFO and instruction services
with both outcomes. `lost` is a history: slots whose latest value was dropped at
one of the places section 3 calls findings.

Assumptions, beside the named ones of the module:

- `Call`'s mask (may_dirty_before) covers every slot defined on the way to the
  call. `CallSites` shows it of the analysis, but for one kind of edge it does not
  follow: a `blr` back into the continuation of a call of the same range.
- An interpreted instruction writes only slots the range hands back. The ABI
  analysis sees the fallback terminator, not the instruction's definitions, so
  this is a claim about the program translated.
- A memory service that continues changes no slot; a partial FIFO write may
  raise the exception slot and nothing else.

PC, the time base, the down counter and the legacy runtime (`modern_runtime_`
false) are not here; cycles are in `ChainBudget`, the packing of CR and XER in
`BackendSemantics`. A FIFO write that falls
back to the plain memory write is the memory service, so `FifoFn` and `MemFn`
depend on the services the host offers.

### ChainBudget

Bodies are one shape, blocks of equal cost with edges chosen at the start; what a
block holds and what services answer is chosen when it runs. `inResult` and
`frames` are the wrapper's result and the nested calls, `prior` what run has
accumulated, `executed` the cycles of the instructions that ran (history), `told`
the difference between what a memory service was told and what had run, which is
0. A read of the time base is told the cost of its own block as well; it is not
part of `told`. An exit with reason Fallback carries the cost of
the instruction it hands back. `Cap` is never reached: the longest run of two
blocks, depth two and one renewal spends twelve cycles.

### ChunkRuntime

`at` is where the guest is and `pc` what the emitted code has stored. A block is
transparent when no instruction in it can look at pc; the model asks every
instruction that can look (helper, access, fallback, time base, return to the
dispatcher) whether it saw the truth. Branches between chunks are C calls up to a
depth limit and do not test the budget; only backward edges inside a chunk do.

An embedded data word decodes to an unknown operation. It therefore ends its block
and charges nothing, what follows it belongs to no block, and no leader or return
target comes of it. So a block that begins with data is free (`FreeHead`), and a loop
all of whose blocks do so (`0: data; 1: b 0`) never uses up its budget: the emitted C
does not return from it. `CodeReturns` says that this is the only way not to return.

### CallSites, AbiPropagation, AddressAnalysis

The first two follow a single register, because every mask is merged bit by bit.
In `CallSites` and `AddressAnalysis` the analysis runs to its end and then a walk
takes any way the emitted code can go; `CallSites` lets it start at any block, since
each can be an entry. `AbiPropagation` takes the worklist in any
order. Two exceptions are named in the properties:

- `way = "strayed"`: an indirect branch into another call's continuation, which
  emitted code takes (`llvm/branch_targets.cpp`) and `call_liveness.cpp:20` does
  not follow.
- `resumed`: the range was entered at a block that is a leader for the entry switch
  (collectRegionLeaders, `RegionLeaders`) and not for the address analysis
  (find_region_leaders, `Leaders`), and no leader of the analysis has come since. There
  are three kinds: the block behind an MSR write; an exact float instruction run as an
  instruction service and the block behind it (`RunsAsService`); a configured entry
  point (`entryPoints`: branch targets of other ranges, symbols, entries from files). The
  host may enter there with any registers, and accesses up to the next leader are
  compiled for what other ways had left in them. `AccessIsWhereProven` exempts these
  entries and nothing else: where every entry of the switch is a leader of the
  analysis, it holds of every entry. In the code the gap is real.

The live-after, must-define and semantic-output masks and the native call depth
are read by `abi_stats.cpp` only.

### RangePlan, Dispatch, RelLayout, SymbolHeader

Addresses are numbers of instructions or small units, names are sequences of a
root and suffixes. The order and early returns are the code's. Known limits, as
the properties state them: next_rel_base leaves out the padding of zero-filled
sections (`Padded`); an unresolved import leaves its field alone; the linear
lookup takes the first match and the indexed one refuses overlapping chunks, so
chunks are disjoint. ADDR14 and ADDR24 are outside: they cut absolute targets
without a range test (`rel.c:219`, `rel.c:238`). Before an import list has selected a section,
`rel.c:298` patches section 0, which the model treats as none: the two differ only for
a malformed module that gives section 0 data. The sections of `RangePlan` ascend, as
the binary search of `llvm_range_for` needs; the code takes them in the container's
order and neither sorts nor checks it. With the sections of the instance swapped the
lookups of `RangesTile` fail; the theorem says so in its hypothesis, `Ascending`. The
binary search and the reference definition of a closure are recursive functions, and
the room for ranges is the capacity build_llvm_ranges counts.

### GuestMemory, GuestExceptions, FloatStatus

An address is an alias and a unit of memory; values are left out, since who
overwrote what is enough. `stored` records, for the stores to the reserved word or its
block that the reservation outlived, how each was made (inline or by a helper, through
which alias), where it began and whether it was aligned; `ReservationExclusive` says
which of them there can be. The code leaves two gaps: an inline LLVM store through the
other alias does not end the reservation (clearReservation compares the alias bit
too, so hazard and code meet there), and neither does an access across a block
boundary, since only the blocks of the first bytes are compared: an unaligned store
from below, or a store behind the block in which an unaligned lwarx began.
`psq_store` writes its first half before it checks the second; `FaultsKeepMemory`, a
property of steps, shows why no fault can fall between, and that reservation and
locked cache stay too. Its one exception is the machine check of a second dcbz_l of a
block, which zeroes the block all the same.
`StatusInForce` is of LLVM code: the C emitter's MTFSB0 and MTFSB1 skip
the summaries and the rounding, its other moves the rounding. A reset clears
FPSCR and not the host's rounding (`cleared`).

### BackendSemantics

Words of eight bits stand for 32: four bytes of two bits, two condition fields.
Each opcode is executed in both forms from the same machine, for every aliasing
of three registers, edge operands, both carries and every branch option. `Differs`
names what is known to disagree:

- lhbrx and sthbrx swap a whole word in DolIR (a finding, below);
- a linked conditional branch that is not taken leaves LR alone in C and sets it in
  DolIR; `tests/test_pc_reference.c:1424` does as C does;
- bcctr with a decrement branches to CTR before it in C, after it in DolIR (an
  invalid form of the instruction);
- mcrxr copies the reserved bit of XER in C only; stwcx. tests its alignment in
  LLVM code only.

Not covered: OE and string forms, floating point, privileged registers, and
cache operations other than dcbz.

## 3. Runs

| run | question | bounds | states |
|---|---|---|---|
| native_counter | does the counter ever drift; may zero be trusted | 2 threads (symmetric), 2 ranges of 1 word, generations 0..2 | 2,314,652 |
| native_torn | can a torn hash, a stale answer or a racing invalidation make a changed range VALID; refinement of RegionValidity | 2 threads, 1 range of 2 words, generations 0..4 | 751,155 |
| native_one | does one thread ever enter announced, changed code | 1 thread, 2 ranges of 2 words, generations 0..2 | 619,584 |
| worker_queue | one writer, batch contract, termination | 4 jobs, requests 0..5, limit 3 | 10,453 |
| job_pool | nothing lost or doubled, contract, termination | 5 jobs, 2 workers, batches of 2, 1 stranger | 246,228 |
| object_store | cache, results and stamps through kills and failures | 2 outputs (symmetric), 2 versions, one ThinLTO | about 1.1 million |
| staged_state | registers published, locals current, masks true, no loss but the known ones | 3 ranges calling each other in a chain, 2 registers, 2 control slots, call depth 2 | 45,169 |
| execution | are cycles accounted, is pc exact, does the host get control back from LLVM bodies, C chunks and the validity runtime | 2 blocks, depth 2, budgets 1 and 3, 1 renewal; 1260 programs of 4 instructions in 2 chunks; 2 threads, 1 range of 1 word | 225,602, fair |
| translation | the eleven sequential components | see `MCTranslation` | 1,178,379 |
| staged_nested | README: the whole state is materialized (violated) | the same ranges as staged_state, no services | to the violation |
| staged_memory | the same (violated) | 1 range with a memory access | to the violation |
| halfword_reversed | the test of lhbrx, of its LLVM form (violated) | as translation | to the violation |

Why the bounds suffice: two threads meet in every pair of program points, and
the proofs remove the bound for the safety properties. Two words let a write
fall before, between and after the reads of one hash. Two ranges let the
counter mix ranges and the guard's loop and validate_all advance.
`GenMod` bounds the generations between two resets by `RoomForGenerations`: an
invalidation starts only where none of its ranges can wrap; the real width is
2^30. `CounterMod` is large enough for the balance, as 2^32 is. Five jobs with
batches of two leave a short last batch, a third batch waiting for a worker, and
retries from several batches in a mixed order. Two outputs and two versions give
a cache hit, a cache race, and a directory rebuilt with other options.
Three ranges in a chain give a frame that is neither the outermost nor the
running one; one slot is defined at every level, one only outside, one in the
middle and one by an interpreted instruction.

In `translation`, three blocks with ten terminators give every loop, diamond,
call, return and unreachable block the two analyses of a range can meet; three
ranges with any call graph give recursion, mutual recursion and a caller queued
before and after its callee; three instructions before an access give a join, a
loop and a wrapped interval on addresses of four bits, with or without a configured entry
point before the access. Two sections with a gap,
chunks of two and patches inside and across chunk boundaries give ranges cut from
both sides and closures that end at their depth. Ten chunks, up to four at once,
join, end short, are empty, lie off the word grid and cross pages. Two modules
import from each other in both orders with every kind of list ending. Four symbol
lines let a made name meet a real one twice. Eight units of memory with blocks of
four give stores inside, across and outside the reserved block; a reservation is
followed until it has outlived two kinds of store (`FewStores`). In `execution`, data
words stand at the head and inside of loops.

The three violation runs are findings, listed in `PROJECT.json`:

- *staged_nested*: when a nested call returns, the dirty bits of all control
  slots are dropped. They are meant to be the caller's, whose locals take over
  again, but those of ranges further out go with them. If the inner range later
  leaves by a structured exit, the host keeps the old CR, XER, LR or CTR of the
  outermost range.
- *staged_memory*: a memory service that does not complete publishes MSR, the
  segment registers, EXCEPTION and the general and floating-point registers. The
  other control slots the range has defined stay in its locals and are gone.

- *halfword_reversed*: lhbrx loads 16 bits and swaps all 32, so the bytes arrive in
  the high half of the register; sthbrx stores the wrong half likewise.
  `tests/test_pc_reference.c:2154` expects the low half, and the C emitter gives it.

The first two disagree with `backend/README.md:21` (`exits.cpp` materializes architectural
state at runtime boundaries). `OnlyKnownLosses` shows that, with an exception
raised by a partial FIFO write under a caller that keeps the slot in a local,
they are all there is.

The views of `MCNativeModule` and `MCExecution` drop locals of a thread that it
cannot read again (and `pending` in the run whose properties do not read it); no guard depends on
what a view drops. Symmetry is used for safety runs only. Deadlock is
checked wherever the system does not end; `Finished` is the explicit end of the
pools. `translation`, its violation run and `execution` end where an analysis, a
build or a run of the host is over.

Every property has a mutant, a plausible slip of the code such as a reset that
forgets the counter or a wait that ends with the first worker, under which
TLC finds it violated.

Fairness: a thread inside the module is scheduled (weak fairness of its next
step), and the weak compare-exchange on an unmoved word is not refused for ever
(strong fairness of `CasSucceeds`; C11 allows single spurious failures).
Nothing is assumed of the host's calls or of guest writes. In `execution` a
thread that runs translated code goes on running it (weak fairness of
`ChainBudget`'s next step and of `ChunkRuntime`'s steps inside a chunk); which
branch it takes, what a service answers and whether the host enters at all is
free, loops headed by embedded data are the exception named above, and the bound on renewals is the host's: one that grants cycles for ever
never gets control back. For the pools: the caller or parent is scheduled, and a job function or
worker process ends, by success, failure or death; there is no time limit in the
code that would end one that hangs.

## 4. Proofs

Assumed are only the named ASSUMEs of the modules (finite thread set, at least
one range and word, a counter wider than ranges and threads, and so on).

- *Types* of NativeModule, WorkerQueue, StagedState and ObjectStore (`TypeCorrect`), one
  lemma per group of variables or one case per action.
- *ValidIsUnchanged*. `ValidMeansUnchanged` is not inductive: a thread about to
  exchange knows nothing by it. `ValidityInv` adds `HashIsCurrent`: a thread that
  is hashing an unmoved word with no mismatch so far has missed only pending
  words among those it has read. An invalidation raises the generation and makes
  the claim vacuous, a write adds its word to `pending`, a read extends the
  claim. `ChangedStays` and `ModuleImplementsValidity` follow from it step by
  step; each exchange is Accept or Refuse, each invalidation Invalidate, reset
  Forget, all else a write or a stutter.
- *CounterAccounts*. `AccountingInv` adds that no thread is inside before the
  first reset. The balance counts ranges not VALID, plus threads before
  fetch_sub, less threads before fetch_add; each action changes two terms at
  once, or one term and the counter. `FastPathIsSound` is arithmetic from it.
- *OneThreadEntersCurrent*. Its hypothesis is that there is one thread (`Alone`), as
  the chassis runs the module; with two, another may invalidate between the check
  and the entry. `PassedInv` says that the ranges a query has passed are VALID, and
  so is one just accepted. The fast path enters by `FastPathIsSound`: nobody else can
  be inside an uncounted invalidation. Both end in `ValidMeansUnchanged`.
- *WritersAreAlone*, *QueueImplementsBatch*. `QueueInv` adds that all jobs held
  or done lie below the next index, what each phase of the caller implies for
  the threads, and that with `failed` unset every index handed out is done or
  held. At Join nobody holds a job and, without failure, the index has passed
  the end, hence all jobs are done.
- *EmittersAreAlone*, *NoJobIsLost*, *PoolImplementsBatch*. `PoolInv` says that the
  pending jobs and the retries repeat nothing, that batches in work are disjoint
  pieces of the pending list below `next` (`Apart`), that what a process still
  called good is through with is published (`Worked`), and that every job is in one
  of five disjoint sets (`Spread`), between which each step moves a piece
  (`SplitMoves`). That the jobs to emit can be put in order at all is
  `OrderExists`; it is an induction, done by a smallest counterexample. "ok"
  needs as many completed jobs as there are, hence all, hence all published.
- *CacheWhole*, *MadeRight*, *StampHonest*. `StoreInv` adds `Progress`: what the
  object and bitcode of an output are at each step of a build (whole from the
  step after they are published or copied). It uses that cache entries, once
  made, are whole, so copying from one is right, and that a build only copies
  from an entry it has seen complete.

- *RegistersReachHost*, *LocalsAreCurrent*, *MasksAreTrue*, *LossesAreKnown*. A
  slot is *backed* if a commit would bring its latest value to the host. `StateInv`
  says that a slot not backed has been defined by the running body
  (`BackedOrTouched`), that what a range defined it hands back (`FramesFit`), and
  that a waiting frame's locals are the latest but for what its callee hands back
  (`WaitingFit`). So an exit that stages the range's outputs publishes all; a
  return replaces exactly the locals that are old. Control slots are dirty only
  while a nested call is active (`DirtyFits`), which is why cutting the masks down
  at a return loses no register. `FramesKept`, `ExitInv` and `EntryCurrent` are
  the shared steps.

- *SummariesAreExact*. The summaries are closed over the calls and least. `IInv`
  says that a call can only be unmerged while its callee waits in the worklist
  (its caller, in the second pass), and that every closed set that contains
  the ranges' own registers contains the summaries so far. With an empty
  worklist the two give equality with the least closed sets, for any call graph
  and order of work.
- *ReservationsAreExclusive*, *FaultsWriteNothing*. An aligned access lies in one block
  (`OneBlock`, from `MemoryAssumption`: a block holds whole doublewords), so an
  aligned store that touches an aligned reserved word or its block begins in the block
  (`TouchesInside`) and ends the reservation, unless it is inline and through the other
  alias. What is left are the two gaps, which the statement names. For the pair store the halves are alike: a check that
  passes for the first passes for the second, by the alignment of the pair; every other
  fault comes before anything is stored, but for the machine check of dcbz_l.
- *StatusStaysInForce*. Summing up is done once and for all: the summaries are not
  summed up themselves (`UpdatedIsSound`), so every helper that ends with
  ppc_fpscr_updated is sound, and no raised bit is a rounding bit.
- *HandlersReturn*. Until SRR0 or SRR1 is written, they are what the last exception
  saved, and pc is always at an instruction, so RFI's dropping of low bits changes
  nothing.

- *CyclesAreAccounted*. `ChainInv` adds that, in native code, the base of the chain is
  what the run loop has summed up. Every step inside native code either stays and
  charges what it executes, or leaves and owes all that was executed since the base,
  plus the instruction handed back for a fallback (`Settled`); how deep the calls
  are does not matter, since a call and its return pass the sum on unchanged.

- *PcStaysExact*. `PcIsExact` is inductive: a store of pc is only left out of blocks
  whose instructions are all plain or branches (`HelpersSeeTheirPc`), and each way
  out of an instruction - to the next, into a loop, a call, a return, the
  dispatcher - either stays in code or has stored where it goes (`Moves`).
- *CallsCovered*, *DefiniteSound*. The sweeps are recursive functions over the blocks.
  A sweep that changed nothing has solved its equations (`SweepStands`): if the states
  in the middle differed from the first one, the last block that differs would still
  differ at the end. `CallsInv` keeps that for the rest of the run (`Settled`), and
  `Tracked` is what it says of the walk: along a walk, a local that is newer than its published
  copies was defined in this block or may be dirty before it; and what the
  definite equations claim of a block holds behind every edge into it.
- *ModulesStayApart*, *RelocatedFieldsMean*. `PlacedInv` says that each module lies behind
  the ends of all before it and below the base of the next, that its sections fit
  its file, and that no two share an id; only a module padded beyond its file and its
  header's zero-filled size (`Padded`) may reach past the end it counts with. `ReadingInv` ties the section and offset the
  reader keeps to the list it reads (`ReaderAt`: the last selection and the sum of the
  distances since), and `FieldsInv` says of each field which entry wrote it and that
  the target is placed (`PatchedBy`). The rest is arithmetic of halves (`WrittenMeans`): a high half with its
  carry and a low half with its sign make up the address again.
- *HeaderStaysSound*. `TableInv`: every symbol emitted is found from its own slot
  before an empty one. `HeaderInv` bounds the symbols emitted by the code symbols
  passed, so at most half of the slots are used; a probe therefore meets an empty
  slot, and a name not met before it is in no slot. Among one suffix more than
  symbols emitted one is free, because different suffixes make different names
  (`Pigeons`).
- *AccessesStayProven*. `AddressInv` says that what the analysis knows before a block
  covers the register's value when the block executes. Each operation on ranges
  covers the operation on the values (`BinaryCovers`, with wrapping addition,
  shifts and masks by arithmetic from the definition); a leader forgets, so only
  fall-through edges need the claim. It is not made from an entry of the switch the
  analysis has no leader at up to the next leader (`resumed`), and such an entry is in
  the switch only if the two sets of leaders differ. A covered range inside one window makes every
  value in it lie in the window.
- *CodeIsCovered*. `PlanInv` follows the pipeline phase by phase. While ranges are
  cut, everything below `next` has its range, and each range beyond those that end
  at a partition point or with a section is a whole chunk (`RoomLeft`), which is
  why the array never overflows. In a closure the queue up to `closureEnd` is what
  lies within `depth` calls or successors of the seeds, everything behind it is
  reached from a range already visited, and what the visited ranges reach is queued
  (`Closing`); so the end of a depth is one more spread, and a closure that adds
  nothing has reached all there is. In the objects, the ranges below
  `next` are in exactly one and the rest lies in the sections left (`Batching`). The
  binary search finds the only range around an address (`SearchIs`), because the
  ranges are in order, which needs `Ascending`.
- *LookupsFindChunks*. The chunks of a run are a stride apart (`RunIs`), so the
  quotient by the stride names the chunk an address is in (`InRunIs`, `HitsAre`), and
  the runs partition the list (`RunStartsAre`). For the indexed lookup the chunks'
  ranks put them in order without a gap (`SortedIs`), and every run skipped by the
  page's first entry ends before the address (`IndexedIs`).

Two things recur. What a recursive function computes is not induction the
prover can do, but a smallest counterexample among its arguments serves
(`RunExists`, `RunStays`, `LeastNumber`). And quotients are handled by
uniqueness of division (`DivMod`, `ModUnique`), never by computing.

The constants of these modules have assumptions the proofs use: blocks'
terminators go to blocks or outside, module headers hold numbers and even half-words,
hashes are numbers, chunks have numeric ends, an address window lies on one side of
the alias bit, masks are one below a power of two, a cache block holds whole doublewords. `PlanAssumption` takes from
load_patches that a patch is not empty, lies inside a section and apart from the others,
and from the profile that no range is hot twice. One theorem has a hypothesis beyond
these: `CodeIsCovered` supposes `Ascending`, which the code needs and does not check.

Only model-checked: liveness (`CallsReturn`, `CallerReturns`, `PoolReturns`,
`HostGetsControl`, `CodeReturns`), which the prover does not handle under
fairness; and `BackendsAgree`, which computes with bits (the prover's modules may
not). Every other property of a passing run is stated by a theorem.

## 5. Plan and limits

Done: everything listed in section 2. What would add most next, in this order:

1. OE and string forms in `BackendSemantics`, and the effect masks of
   `ir/dolir_effects.c` against what each instruction touches;
2. larger instances of `RangePlan` and `CallSites`.

Composition: `LLVMJobPool` uses one `ObjectStore` emission per job as a step;
`StagedState` and `ChainBudget` look into the `exec` step of `NativeModule`;
`RangePlan` supplies the disjoint ranges, sorted if the sections are, `NativeModule` and `Dispatch`
assume; `CallSites` supplies the masks of `StagedState`'s calls, from the
summaries of `AbiPropagation`; `Dispatch` is the lookup of `ChunkRuntime`.

Not modelled:

- the decoder: a table of bit fields whose reference is the processor manual;
- floating-point and paired arithmetic, the estimate tables, NaN selection: bit
  patterns of 64 bits have no small instance that keeps their cases;
- the shape of LLVM IR, passes and targets: LLVM itself;
- container parsing, the command line, setup, paths, variants and the platform
  layer: sequential input and output;
- self-modifying code analysis: a report nothing else reads (README: only reported);
- in the module runtime, generations that wrap after 2^30 invalidations during one
  hash, and a reset while a thread is inside the module: the host that
  runs on one CPU thread does neither;
- the `DOLRECOMP_SYMBOL_SIZE_` and `_COUNT` macros, whose names are not compared
  with the identifiers.
