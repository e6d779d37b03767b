----------------------------- MODULE ChunkRuntime -----------------------------
(***************************************************************************)
(* A guest program as the C backend translates and runs it: the running-   *)
(* flow graph of each chunk (src/src/backend/c_cfg.c), the branches, calls *)
(* and loops emitted from it (src/src/backend/emitter.c) and the dispatcher *)
(* that enters the chunks (src/src/backend/dispatch.c).                    *)
(*                                                                         *)
(* `at` is where the guest is: the instruction whose code runs next.  `pc` *)
(* is what the emitted code has stored in the context.  The code leaves    *)
(* the store out where it thinks nobody looks; the question is whether     *)
(* somebody does.                                                          *)
(*                                                                         *)
(* Addresses count instructions.  Outside stands for every address that is *)
(* not translated, exception vectors among them, and Physical + a is the   *)
(* physical alias of a.                                                    *)
(***************************************************************************)
EXTENDS Integers, Sequences, FiniteSets

CONSTANTS
    Programs,    \* programs: address -> instruction
    End,         \* the address after the last instruction
    Starts,      \* first address of each chunk
    LoopBudget,      \* DOLRECOMP_C_LOOP_CYCLE_BUDGET
    CallDepthLimit   \* DOLRECOMP_C_MAX_CALL_DEPTH

VARIABLES
    program,
    at,          \* the instruction the guest executes next
    pc, lr, exception,
    downcount,   \* cycles left, kept at -LoopBudget once it is below
    depth,       \* dolrecomp_call_depth
    hostFrames,  \* frames of the host: chunk functions and outlined loops
    running,     \* "host", "dispatch", "code" or "return"
    exact        \* every helper so far saw its own address in pc (history)

ckVars == << program, at, pc, lr, exception, downcount, depth, hostFrames, running, exact >>

Outside == End
Physical == 100
Code == 0 .. End - 1
ChunkEnd(c) == CHOOSE e \in (Starts \cup {End}) \ {c} :
                  e > c /\ \A s \in (Starts \cup {End}) : s > c => e <= s
Local(c, a) == a \in c .. ChunkEnd(c) - 1
\* chunk_start_for: the last start at or below, whether the chunk reaches the address
ChunkFor(a) == CHOOSE s \in Starts : s <= a /\ \A t \in Starts : t <= a => t <= s
\* dolrecomp_find_original
Found(a) == \E c \in Starts : Local(c, a)

Op(i) == program[i].op
Branches == {"b", "bc"}
\* instruction_uses_fallback, instruction_ends_block, instruction_is_pc_transparent,
\* instruction_is_outlinable (Mutant: accesses count as transparent).
\* An embedded data word decodes to an unknown operation, one of the fallbacks.
EndsBlock(i) == Op(i) \in Branches \cup {"blr", "sc", "fallback", "data"}
TransparentAccess(i) == Op(i) \in {"plain", "access"} \cup Branches
Transparent(i) == Op(i) \in {"plain"} \cup Branches
Outlinable(i) == Op(i) \in {"plain", "access"} \cup Branches
Cycles(i) == IF Op(i) \in {"data", "fallback"} THEN 0 ELSE 1

\* Embedded data ends its block and makes no leader: what follows belongs to none
Leaders(c) ==
    {c} \cup
    { i + 1 : i \in { j \in c .. ChunkEnd(c) - 2 : EndsBlock(j) /\ Op(j) # "data" } } \cup
    { program[i].target : i \in { j \in c .. ChunkEnd(c) - 1 :
                                    Op(j) \in Branches /\ Local(c, program[j].target) } }
ReturnTargets(c) ==
    { i + 1 : i \in { j \in c .. ChunkEnd(c) - 2 : program[j].link } }
BlockLast(c, i) ==
    CHOOSE j \in i .. ChunkEnd(c) - 1 :
        /\ EndsBlock(j) \/ j + 1 = ChunkEnd(c) \/ j + 1 \in Leaders(c)
        /\ \A k \in i .. j - 1 : ~EndsBlock(k) /\ k + 1 \notin Leaders(c)
BlockCycles(c, i) ==
    IF i \in Leaders(c)
    THEN Cardinality({ j \in i .. BlockLast(c, i) : Cycles(j) = 1 }) ELSE 0

\* c_function_cfg_can_loop_directly: a backward branch over no time base read
Direct(c, i) ==
    /\ Op(i) \in Branches /\ ~program[i].link
    /\ Local(c, program[i].target) /\ program[i].target <= i
    /\ \A j \in program[i].target .. i : Op(j) # "timebase"
Materialized(c, i) ==
    ~(Transparent(i) /\ \E last \in i .. ChunkEnd(c) - 1 :
                            Direct(c, last) /\ program[last].target <= i)
\* The loops emitted as functions of their own; the last back edge to a head wins
Outlined(c, first) ==
    { last \in first + 1 .. ChunkEnd(c) - 1 :
        /\ Direct(c, last) /\ program[last].target = first
        /\ \A i \in first .. last - 1 : ~EndsBlock(i)
        /\ \A i \in first .. last : Outlinable(i) }
LoopEnd(c, first) ==
    IF Outlined(c, first) = {} THEN -1
    ELSE CHOOSE last \in Outlined(c, first) : \A l \in Outlined(c, first) : l <= last

Frame == hostFrames[Len(hostFrames)]
Below == SubSeq(hostFrames, 1, Len(hostFrames) - 1)
Chunk == Frame.chunk
Exhausted == downcount' <= 0 - LoopBudget
Charge == downcount' = LET left == downcount - BlockCycles(Chunk, at)
                       IN IF left < 0 - LoopBudget THEN 0 - LoopBudget ELSE left

\* The store of pc an instruction begins with; a helper sees it
Shown == IF Materialized(Chunk, at) THEN at ELSE pc
Helper == exact' = (exact /\ Shown = at)

MoveTo(next) == at' = next /\ pc' = Shown /\ running' = "code" /\ UNCHANGED hostFrames
LeaveChunk(next) == at' = next /\ pc' = next /\ running' = "return" /\ UNCHANGED hostFrames

\* To the next instruction; past the chunk, or past an outlined loop, pc is stored
Fall ==
    IF Frame.last = at \/ at + 1 = ChunkEnd(Chunk) THEN LeaveChunk(at + 1) ELSE MoveTo(at + 1)

Keep == UNCHANGED << program, lr, exception, depth >>
Raise ==
    /\ LeaveChunk(Outside)
    /\ exception' = TRUE
    /\ UNCHANGED << program, lr, depth >>

\* emit_instruction of what is neither a branch nor leaves
Ordinary ==
    /\ Op(at) \in {"plain", "access", "helper", "timebase", "data"}
    /\ Charge
    /\ IF Op(at) \in {"plain", "data"} THEN UNCHANGED exact ELSE Helper
    /\ \/ Fall /\ Keep
       \/ Op(at) \in {"helper", "timebase"} /\ Raise

\* ppc_fallback_instruction: the host's handler steps over, without one it raises
RunFallback ==
    /\ Op(at) = "fallback" /\ Charge /\ Helper
    /\ (LeaveChunk(at + 1) /\ Keep) \/ Raise

SystemCall == Op(at) = "sc" /\ Charge /\ UNCHANGED exact /\ Raise

\* emit_cross_chunk_call; past the depth limit pc already names the target
CrossCall(target) ==
    IF depth >= CallDepthLimit
    THEN LeaveChunk(target) /\ UNCHANGED depth
    ELSE /\ depth' = depth + 1
         /\ hostFrames' = Append([hostFrames EXCEPT ![Len(hostFrames)].resume = at + 1],
                             [chunk |-> ChunkFor(target), last |-> -1, resume |-> -1])
         /\ pc' = target
         /\ at' = target
         /\ running' = IF Local(ChunkFor(target), target) THEN "code" ELSE "return"

\* emit_direct_branch, with the budget test on backward branches
\* (Mutant: a backward call jumps without it)
TakenUnchecked(target) ==
    LET local == Local(Chunk, target)
        backward == local /\ target <= at
        link == program[at].link
    IN IF ~local /\ link /\ Local(Chunk, at + 1) THEN CrossCall(target)
       ELSE /\ UNCHANGED depth
            /\ IF ~local \/ (backward /\ ~link /\ (Exhausted \/ ~Direct(Chunk, at)))
               THEN LeaveChunk(target) ELSE MoveTo(target)
Taken(target) ==
    LET local == Local(Chunk, target)
        backward == local /\ target <= at
        link == program[at].link
    IN IF ~local /\ link /\ Local(Chunk, at + 1) THEN CrossCall(target)
       ELSE /\ UNCHANGED depth
            /\ IF ~local \/ (backward /\ (Exhausted \/ (~link /\ ~Direct(Chunk, at))))
               THEN LeaveChunk(target) ELSE MoveTo(target)

Branch ==
    /\ Op(at) \in Branches /\ Charge /\ UNCHANGED << program, exception, exact >>
    /\ \/ /\ lr' = IF program[at].link THEN at + 1 ELSE lr
          /\ Taken(program[at].target)
       \/ Op(at) = "bc" /\ Fall /\ UNCHANGED << lr, depth >>

\* emit_dynamic_branch to the link register: routed inside the chunk while there
\* is budget, if the address follows one of its calls
ReturnBranch ==
    /\ Op(at) = "blr" /\ Charge
    /\ UNCHANGED << program, exception, depth, exact >>
    /\ lr' = IF program[at].link THEN at + 1 ELSE lr
    /\ IF lr \in ReturnTargets(Chunk) /\ ~Exhausted
       THEN at' = lr /\ pc' = lr /\ running' = "code" /\ UNCHANGED hostFrames
       ELSE LeaveChunk(lr)

\* The head of an outlined loop calls the loop's function
EnterLoop ==
    /\ hostFrames' = Append([hostFrames EXCEPT ![Len(hostFrames)].resume = LoopEnd(Chunk, at) + 1],
                        [chunk |-> Chunk, last |-> LoopEnd(Chunk, at), resume |-> -1])
    /\ UNCHANGED << program, at, pc, lr, exception, downcount, depth, running, exact >>

Execute ==
    /\ running = "code"
    /\ IF Frame.last = -1 /\ LoopEnd(Chunk, at) # -1 THEN EnterLoop
       ELSE Ordinary \/ RunFallback \/ SystemCall \/ Branch \/ ReturnBranch

\* A function returns; its caller goes on if pc is the address after the call
Unwind ==
    /\ running = "return"
    /\ hostFrames' = Below
    /\ depth' = IF Len(hostFrames) > 1 /\ Frame.last = -1 THEN depth - 1 ELSE depth
    /\ IF Len(hostFrames) = 1 THEN running' = "dispatch" /\ UNCHANGED at
       ELSE IF pc = hostFrames[Len(hostFrames) - 1].resume
               /\ Local(hostFrames[Len(hostFrames) - 1].chunk, pc)
       THEN running' = "code" /\ at' = pc
       ELSE UNCHANGED << running, at >>
    /\ UNCHANGED << program, pc, lr, exception, downcount, exact >>

Enter(a) ==
    /\ pc' = a /\ at' = a
    /\ hostFrames' = << [chunk |-> ChunkFor(a), last |-> -1, resume |-> -1] >>
    /\ running' = "code"
    /\ UNCHANGED << program, lr, exception, downcount, depth, exact >>

Alias(a) == IF a >= Physical THEN a - Physical ELSE a

\* dolrecomp_call: the chunk of the address, then that of its cached alias; without
\* either the run loop ends at the alias
DispatchChunk ==
    /\ running = "dispatch" /\ ~exception
    /\ IF Found(pc) THEN Enter(pc)
       ELSE IF Found(Alias(pc)) THEN Enter(Alias(pc))
       ELSE /\ running' = "host" /\ pc' = Alias(pc) /\ at' = Alias(pc)
            /\ UNCHANGED << program, lr, exception, downcount, depth, hostFrames, exact >>

\* A replacement or the host's call takes the address and goes on where it likes
DispatchHost ==
    /\ running = "dispatch" /\ ~exception
    /\ pc' \in {lr, Outside} /\ at' = pc'
    /\ UNCHANGED << program, lr, exception, downcount, depth, hostFrames, running, exact >>

\* dolrecomp_run_blocks stops for an exception or after its blocks
StopRunning ==
    /\ running = "dispatch"
    /\ running' = "host"
    /\ UNCHANGED << program, at, pc, lr, exception, downcount, depth, hostFrames, exact >>

\* External: the host handles the exception, grants cycles and runs the guest again,
\* at an address of its own or at the physical alias of one
HostRuns ==
    /\ running = "host"
    /\ running' = "dispatch" /\ exception' = FALSE
    /\ downcount' \in {0, 0 - LoopBudget}
    /\ pc' \in {pc, Physical} \cup Code /\ at' = pc'
    /\ UNCHANGED << program, lr, depth, hostFrames, exact >>

ChunkInit ==
    /\ program \in Programs
    /\ at = 0 /\ pc = 0 /\ lr = Outside /\ exception = FALSE /\ downcount = 0
    /\ depth = 0 /\ hostFrames = << >> /\ running = "host" /\ exact = TRUE

ChunkStep == Execute \/ Unwind
ChunkNext == ChunkStep \/ DispatchChunk \/ DispatchHost \/ StopRunning \/ HostRuns
ChunkSpec == ChunkInit /\ [][ChunkNext]_ckVars /\ WF_ckVars(ChunkStep)

-----------------------------------------------------------------------------
(* pc is exact where it is looked at: whenever a chunk function returns, to *)
(* its caller or to the dispatcher, it names the instruction the guest is   *)
(* at, and every helper and memory access sees the address of its own       *)
(* instruction - though loops and runs of plain instructions do not store it. *)
PcIsExact == exact /\ (running # "code" => pc = at)

(* The guest enters a block that begins with an embedded data word: the     *)
(* block is that word alone and charges no cycles.                          *)
FreeHead == running = "code" /\ Op(at) = "data" /\ at \in Leaders(Chunk)

(* Emitted code comes back to the dispatcher: every cycle of the program    *)
(* passes a budget test, leaves, or nests calls up to the depth limit.  The *)
(* code has one exception, and this is all of it: the budget of a loop      *)
(* whose blocks all begin with embedded data is never used up, so code that *)
(* does not come back enters such a block again and again.                  *)
CodeReturns == running = "code" ~> (running = "dispatch" \/ FreeHead)
=============================================================================
