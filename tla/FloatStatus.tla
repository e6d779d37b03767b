------------------------------ MODULE FloatStatus ------------------------------
(***************************************************************************)
(* The floating-point status register as the CPU helpers keep it           *)
(* (src/src/cpu/cpu.c) and as each backend moves values to it: the sticky  *)
(* exception bits, their summaries VX and FEX, the enable bits, the        *)
(* rounding of the host, and the results an enabled exception suppresses.  *)
(*                                                                         *)
(* fpscr is the set of its bits that are set.  Invalid-operation bits that *)
(* are raised alike stand for each other: VXSNAN, VXOP (ISI, IDI, ZDZ,     *)
(* IMZ), VXVC and VXCVI (SOFT, SQRT, CVI).  FX, FI, FR and the result      *)
(* class are left out: nothing is summed up from them.  An operand is a    *)
(* class of values, "negative" with negative infinity; "invalid" and       *)
(* "inexact" are what the arithmetic yields.                               *)
(***************************************************************************)
EXTENDS Integers, FiniteSets

VARIABLES
    backend,    \* whose code the guest runs, "c" or "llvm"
    fpscr,
    rounding,   \* the rounding bits the host was last given
    delivered,  \* the last instruction wrote its destination (history)
    cleared     \* cpu_reset cleared fpscr since the rounding was given (history)

fpVars == << backend, fpscr, rounding, delivered, cleared >>

Invalid == {"VXSNAN", "VXOP", "VXVC", "VXCVI"}
Summary == {"VX", "FEX"}
Bits == Invalid \cup Summary \cup {"ZX", "XX", "VE", "ZE", "XE", "RN"}
Operands == {"zero", "finite", "negative", "infinity", "qnan", "snan"}
Together(n) == {s \in SUBSET Operands : Cardinality(s) \in 1 .. n}
Nan(operands) == operands \cap {"qnan", "snan"} # {}
Signals(operands) == IF "snan" \in operands THEN {"VXSNAN"} ELSE {}
Raise(raises, bit) == IF raises THEN {bit} ELSE {}

\* ppc_fpscr_updated: VX sums up the invalid bits, FEX what is raised and enabled
Summaries(f) ==
    Raise(f \cap Invalid # {}, "VX") \cup
    Raise(\/ f \cap Invalid # {} /\ "VE" \in f
          \/ {"ZX", "ZE"} \subseteq f
          \/ {"XX", "XE"} \subseteq f, "FEX")
Updated(f) == (f \ Summary) \cup Summaries(f)

\* set_fp_exception (Mutant: the summaries wait for the next explicit update)
WithoutSummary(f, bits) == f \cup bits
WithException(f, bits) == IF bits = {} THEN f ELSE Updated(f \cup bits)

Suppressed(f, bits) ==
    \/ bits \cap Invalid # {} /\ "VE" \in f
    \/ bits = {"ZX"} /\ "ZE" \in f

\* A scalar result: refused when the exception it raises is enabled
Deliver(bits) ==
    /\ fpscr' = WithException(fpscr, bits)
    /\ delivered' = ~Suppressed(fpscr, bits)
    /\ UNCHANGED << backend, rounding, cleared >>

\* ppc_fres and ppc_frsqrte
Estimate(root, x) ==
    Deliver(Raise(x = "zero", "ZX") \cup Signals({x}) \cup
            Raise(root /\ x = "negative", "VXCVI"))

\* ppc_ps_res and ppc_ps_rsqrte never refuse a result
PairEstimate(root, operands) ==
    /\ fpscr' = WithException(fpscr,
                   Raise("zero" \in operands, "ZX") \cup Signals(operands) \cup
                   Raise(root /\ "negative" \in operands, "VXCVI"))
    /\ delivered' = TRUE
    /\ UNCHANGED << backend, rounding, cleared >>

\* ppc_fma
MultiplyAdd(operands, invalid) ==
    /\ invalid => "infinity" \in operands
    /\ Deliver(Signals(operands) \cup Raise(invalid /\ ~Nan(operands), "VXOP"))

\* binary_fp with binary_single, binary_double and ppc_frsp; a single may be inexact
ByZero(x, y, divides) ==
    divides /\ y = "zero" /\ ~Nan({x}) /\ x # "zero"
Binary(x, y, invalid, divides, inexact) ==
    LET bits == Raise(ByZero(x, y, divides), "ZX") \cup Signals({x, y}) \cup
                Raise(invalid /\ ~Nan({x, y}), "VXOP")
    IN /\ invalid => {x, y} \subseteq {"zero", "infinity"} /\ ~ByZero(x, y, divides)
       /\ inexact => ({x, y} \subseteq {"finite", "negative"})
       /\ Deliver(bits \cup Raise(inexact, "XX"))

\* ppc_fctiw
Convert(x, overflow, inexact) ==
    LET bad == Nan({x}) \/ x = "infinity" \/ overflow
    IN /\ overflow \/ inexact => x \in {"finite", "negative"}
       /\ Deliver(Signals({x}) \cup Raise(bad, "VXCVI") \cup Raise(inexact /\ ~bad, "XX"))

\* ppc_fcmp: an ordered compare of a quiet NaN is invalid too
Compare(x, y, ordered) ==
    LET more == ordered /\ Nan({x, y}) /\ ("snan" \notin {x, y} \/ "VE" \notin fpscr)
    IN /\ fpscr' = WithException(WithException(fpscr, Signals({x, y})),
                                 Raise(more, "VXVC"))
       /\ delivered' = FALSE
       /\ UNCHANGED << backend, rounding, cleared >>

\* The other pair operations raise nothing
Paired == delivered' = TRUE /\ UNCHANGED << backend, fpscr, rounding, cleared >>

\* ppc_fpscr_control_updated gives the rounding to the host
Apply(f) ==
    /\ fpscr' = Updated(f)
    /\ rounding' = f \cap {"RN"}
    /\ cleared' = FALSE
    /\ delivered' = FALSE /\ UNCHANGED backend

\* The C emitter's MTFSB0 and MTFSB1 write the bit, unless it is FEX or VX
Poke(f, bit) ==
    /\ fpscr' = IF bit \in Summary THEN fpscr ELSE f
    /\ delivered' = FALSE /\ UNCHANGED << backend, rounding, cleared >>
ClearBit(bit) ==
    IF backend = "llvm" THEN Apply(fpscr \ {bit}) ELSE Poke(fpscr \ {bit}, bit)
SetBit(bit) ==
    IF backend = "c" THEN Poke(fpscr \cup {bit}, bit)
    ELSE Apply(IF bit \in Invalid THEN WithException(fpscr, {bit}) ELSE fpscr \cup {bit})

\* MCRFS, MTFSFI, MTFSF: the C emitter updates the summaries, the LLVM backend the
\* host's rounding as well
Move(f) ==
    \/ backend = "llvm" /\ Apply(f)
    \/ /\ backend = "c"
       /\ fpscr' = Updated(f)
       /\ delivered' = FALSE /\ UNCHANGED << backend, rounding, cleared >>
CopyField(field) == Move(fpscr \ (field \cap (Invalid \cup {"ZX", "XX"})))
MoveField(field, source) == Move((fpscr \ field) \cup source)

Fields == { {"FEX", "VX"}, {"ZX", "XX", "VXSNAN"}, {"VXOP", "VXVC"}, {"VXCVI"},
            {"VE", "ZE"}, {"XE", "RN"} }

\* cpu_reset clears the register and leaves the host's rounding as it is
FpReset ==
    /\ fpscr' = {} /\ delivered' = FALSE /\ cleared' = TRUE
    /\ UNCHANGED << backend, rounding >>

FpInit ==
    /\ backend \in {"c", "llvm"}
    /\ fpscr = {} /\ rounding = {} /\ delivered = FALSE /\ cleared = FALSE

FpNext ==
    \/ \E root \in BOOLEAN, x \in Operands : Estimate(root, x)
    \/ \E root \in BOOLEAN, operands \in Together(2) : PairEstimate(root, operands)
    \/ \E operands \in Together(3), invalid \in BOOLEAN : MultiplyAdd(operands, invalid)
    \/ \E x, y \in Operands, invalid, divides, inexact \in BOOLEAN :
          Binary(x, y, invalid, divides, inexact)
    \/ \E x \in Operands, overflow, inexact \in BOOLEAN : Convert(x, overflow, inexact)
    \/ \E x, y \in Operands, ordered \in BOOLEAN : Compare(x, y, ordered)
    \/ Paired \/ FpReset
    \/ \E bit \in Bits : ClearBit(bit) \/ SetBit(bit)
    \/ \E field \in Fields : CopyField(field)
    \/ \E field \in Fields : \E source \in SUBSET field : MoveField(field, source)

FpSpec == FpInit /\ [][FpNext]_fpVars

-----------------------------------------------------------------------------
(* In code of the LLVM backend the status in force is the one the register  *)
(* shows: VX and FEX agree with the bits they sum up, and the host rounds   *)
(* as the guest last asked, after every arithmetic helper, bit write and    *)
(* move; a reset alone leaves the old rounding.  The C emitter keeps        *)
(* neither promise: its MTFSB0 and MTFSB1 skip the summaries and the        *)
(* rounding, its other moves the rounding.                                  *)
StatusInForce ==
    backend = "llvm" =>
        /\ fpscr \cap Summary = Summaries(fpscr)
        /\ cleared \/ rounding = fpscr \cap {"RN"}
=============================================================================
