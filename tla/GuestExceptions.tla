---------------------------- MODULE GuestExceptions ----------------------------
(***************************************************************************)
(* Exceptions as the CPU helpers take them (src/src/cpu/cpu.c): what they  *)
(* save in SRR0 and SRR1, the machine state they enter the handler with,   *)
(* which helpers refuse user mode, and the return by RFI.                  *)
(*                                                                         *)
(* MSR is the set of its bits that are set.  An address is a page - the    *)
(* program, or the vector of an exception at the low or the high prefix -  *)
(* and an offset of two-byte units that wraps in it, as a 32-bit address   *)
(* does; instructions are at even offsets.                                 *)
(***************************************************************************)
EXTENDS Integers, FiniteSets

CONSTANTS
    Space,     \* units of a page, an even number
    MsrValues  \* values the guest moves to MSR and to SRR1

VARIABLES
    pc, msr, srr0, srr1,
    exception,    \* bits raised and not yet acknowledged by the host
    ear,          \* EAR enables external control accesses
    interrupted,  \* what the last exception interrupted (history)
    last          \* kind of the last step (history)

excVars == << pc, msr, srr0, srr1, exception, ear, interrupted, last >>

Kinds == {"program", "fp", "syscall", "dsi", "alignment", "machine"}
\* PPC_MSR_RFI_MASK leaves out POW and ILE; exception_msr keeps ILE, IP and ME
RfiMask == {"EE", "PR", "FP", "ME", "IP", "RI", "LE"}
Cleared(kind) == {"POW", "EE", "PR", "FP", "RI", "LE"} \cup
                 (IF kind = "machine" THEN {"ME"} ELSE {})

ExceptionMsr(kind) ==
    (msr \ Cleared(kind)) \cup (IF "ILE" \in msr THEN {"LE"} ELSE {})

Code(offset) == [page |-> "code", high |-> FALSE, at |-> offset % Space]
Vector(kind, m) == [page |-> kind, high |-> "IP" \in m, at |-> 0]
After(address) == [address EXCEPT !.at = (@ + 2) % Space]

\* ppc_take_exception: SRR1 holds the bits of MSR before it changes, the vector
\* the prefix of MSR after (Mutant: SRR1 is filled from the handler's MSR)
SavedTooLate(kind) == ExceptionMsr(kind) \cap RfiMask
SavedMsr(kind) == msr \cap RfiMask

Take(kind, resume) ==
    /\ srr0' = resume
    /\ srr1' = SavedMsr(kind)
    /\ exception' = exception \cup {kind}
    /\ msr' = ExceptionMsr(kind)
    /\ pc' = Vector(kind, msr')
    /\ interrupted' = [known |-> TRUE, pc |-> resume, msr |-> msr]
    /\ last' = "exception"
    /\ UNCHANGED ear

Complete(next) ==
    /\ pc' = next
    /\ last' = "instruction"

Keep == UNCHANGED << msr, srr0, srr1, exception, ear, interrupted >>

\* An instruction without a helper, and a branch
Plain == Complete(After(pc)) /\ Keep
Branch(offset) == Complete(Code(offset)) /\ Keep

\* ppc_fp_available before every floating-point instruction
Float == IF "FP" \in msr THEN Plain ELSE Take("fp", pc)

\* ppc_system_call_exception resumes after the instruction; a trap at it
SystemCall == Take("syscall", After(pc))
Trap == Take("program", pc)

\* ppc_fallback_instruction without a host handler is an illegal instruction; a
\* handler steps over it
Fallback(handled) == IF handled THEN Plain ELSE Take("program", pc)

\* ppc_eciwx, ppc_ecowx: refused by EAR first, then for the alignment
External(aligned) ==
    IF ~ear THEN Take("dsi", pc)
    ELSE IF ~aligned THEN Take("alignment", pc)
    ELSE Plain

\* psq_access_is_valid and ppc_lswx: a bad type or register range, or a word off
\* its boundary
Access(legal, aligned) ==
    IF ~legal THEN Take("program", pc)
    ELSE IF ~aligned THEN Take("alignment", pc)
    ELSE Plain

\* ppc_dcbz_l's machine check needs EE and ME
LockAgain == IF {"EE", "ME"} \subseteq msr THEN Take("machine", pc) ELSE Plain

\* ppc_mfspr, ppc_mftb, ppc_cache_control and ppc_tlbie only read or are outside
\* this module; user mode and an unknown register are refused
ReadSpecial(user, exists) ==
    IF ("PR" \in msr /\ ~user) \/ ~exists THEN Take("program", pc) ELSE Plain

\* ppc_mtspr of SRR0, SRR1 and EAR, of the user registers, and of an unknown one
WriteSpecial(register, address, value) ==
    IF "PR" \in msr /\ register # "user"
    THEN Take("program", pc)
    ELSE CASE register = "srr0" ->
                /\ srr0' = address /\ interrupted' = [interrupted EXCEPT !.known = FALSE]
                /\ Complete(After(pc)) /\ UNCHANGED << msr, srr1, exception, ear >>
           [] register = "srr1" ->
                /\ srr1' = value /\ interrupted' = [interrupted EXCEPT !.known = FALSE]
                /\ Complete(After(pc)) /\ UNCHANGED << msr, srr0, exception, ear >>
           [] register = "ear" ->
                /\ ear' = ~ear
                /\ Complete(After(pc)) /\ UNCHANGED << msr, srr0, srr1, exception, interrupted >>
           [] register = "unknown" -> Take("program", pc)
           [] OTHER -> Plain

\* The emitted MTMSR asks for no privilege and moves the whole register
MoveToMsr(value) ==
    /\ msr' = value
    /\ Complete(After(pc))
    /\ UNCHANGED << srr0, srr1, exception, ear, interrupted >>

\* ppc_rfi: the masked bits come back from SRR1, POW is cleared, the address
\* loses its low bits; the raised exceptions stay for the host
Rfi ==
    IF "PR" \in msr THEN Take("program", pc)
    ELSE /\ msr' = ((msr \ RfiMask) \cup (srr1 \cap RfiMask)) \ {"POW"}
         /\ pc' = [srr0 EXCEPT !.at = @ - (@ % 2)]
         /\ interrupted' = [interrupted EXCEPT !.known = FALSE]
         /\ last' = "return"
         /\ UNCHANGED << srr0, srr1, exception, ear >>

\* External: the host takes notice of the raised exceptions and goes on at pc
Acknowledge ==
    /\ exception # {}
    /\ exception' = {}
    /\ last' = "host"
    /\ UNCHANGED << pc, msr, srr0, srr1, ear, interrupted >>

ExcInit ==
    /\ pc = Code(0) /\ msr \in MsrValues
    /\ srr0 = Code(0) /\ srr1 = {} /\ exception = {} /\ ear = FALSE
    /\ interrupted = [known |-> FALSE, pc |-> Code(0), msr |-> {}]
    /\ last = "host"

\* Emitted code checks the raised exceptions and leaves; it runs without any
Instruction ==
    \/ Plain
    \/ \E offset \in {0, 2} : Branch(offset)
    \/ Float \/ SystemCall \/ Trap \/ LockAgain \/ Rfi
    \/ \E yes \in BOOLEAN : Fallback(yes) \/ External(yes)
    \/ \E legal, aligned \in BOOLEAN : Access(legal, aligned)
    \/ \E user, exists \in BOOLEAN : ReadSpecial(user, exists)
    \/ \E offset \in {0, 1} : WriteSpecial("srr0", Code(offset), {})
    \/ \E register \in {"ear", "user", "unknown"} : WriteSpecial(register, Code(0), {})
    \/ \E value \in MsrValues : WriteSpecial("srr1", Code(0), value) \/ MoveToMsr(value)

ExcNext == (exception = {} /\ Instruction) \/ Acknowledge

ExcSpec == ExcInit /\ [][ExcNext]_excVars

-----------------------------------------------------------------------------
(* A handler that leaves SRR0 and SRR1 alone returns to the instruction it  *)
(* interrupted - the one after a system call - in the machine state that    *)
(* one ran in, whatever the handler moved to MSR meanwhile.                 *)
Returning ==
    (last' = "return" /\ interrupted.known) =>
        /\ pc' = interrupted.pc
        /\ msr' \cap RfiMask = interrupted.msr \cap RfiMask
ReturnsToInterrupted == [][Returning]_excVars
=============================================================================
