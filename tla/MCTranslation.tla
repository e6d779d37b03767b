----------------------------- MODULE MCTranslation -----------------------------
(***************************************************************************)
(* The sequential components, each on a small instance of its own.  They   *)
(* hand results to each other as values and share no state, so one run     *)
(* explores them side by side: `active` names the component a behaviour    *)
(* is of, and the variables of the others stay 0, or as they start in the  *)
(* components that are extended here.                                      *)
(***************************************************************************)
EXTENDS Integers, Sequences, FiniteSets,
        CallSites, AbiPropagation, AddressAnalysis, RangePlan, Dispatch, RelLayout, SymbolHeader,
        GuestMemory, GuestExceptions, FloatStatus

VARIABLES
    active,
    inst, machine, nativeState, initial, executed

-----------------------------------------------------------------------------
(* CallSites: three blocks, ten terminators                                *)
Term(kind, to, linked) == [kind |-> kind, to |-> to, linked |-> linked]
TenTerminators ==
    { Term("fall", 0, FALSE), Term("branch", 0, FALSE), Term("branch", 2, TRUE),
      Term("branch", -1, TRUE), Term("branch", -1, FALSE), Term("cond", 0, FALSE),
      Term("cond", -1, TRUE), Term("indirect", -2, FALSE), Term("indirect", -2, TRUE),
      Term("fallback", -2, FALSE) }
NativeBehind == -1

-----------------------------------------------------------------------------
(* AbiPropagation: three ranges; the register is in one summary at most    *)
FewSummaries ==
    ownInput = {1} /\ ownOutput \subseteq {1} /\ native \in {1 .. 3, {1, 2}}

-----------------------------------------------------------------------------
(* AddressAnalysis: three instructions before an access, addresses of four bits; *)
(* the block before the access may be a configured entry point                *)
Ins(op, k, to) == [op |-> op, k |-> k, to |-> to]
SeventeenInstructions ==
    { Ins("const", 4, 0), Ins("const", 3, 0), Ins("add", 12, 0), Ins("sub", 1, 0),
      Ins("and", 3, 0), Ins("lshr", 2, 0), Ins("shl", 1, 0), Ins("double", 0, 0),
      Ins("select", 5, 0), Ins("unknown", 0, 0), Ins("msr", 0, 0), Ins("access", 0, 0),
      Ins("access", 4, 0), Ins("cond", 0, 1), Ins("branch", 0, 3), Ins("fallback", 0, 0),
      Ins("interpret", 0, 0) }
FewEntryPoints == {{}, {2}}

-----------------------------------------------------------------------------
(* RangePlan: two sections with a gap, branches and calls between them     *)
Guest(op, linked, to) == [op |-> op, linked |-> linked, to |-> to]
Step == Guest("plain", FALSE, 0)
GuestSections == << [start |-> 1, end |-> 6], [start |-> 7, end |-> 10] >>
GuestCodes ==
    { [ a \in 1 .. 5 \cup 7 .. 9 |-> CASE a = 2 -> x [] a = 5 -> y [] a = 8 -> z [] OTHER -> Step ] :
        x \in { Step, Guest("branch", TRUE, 8), Guest("cond", FALSE, 7), Guest("return", FALSE, 0) },
        y \in { Step, Guest("branch", FALSE, 3), Guest("conditional return", FALSE, 0),
                Guest("branch", TRUE, 8) },
        z \in { Step, Guest("branch", TRUE, 4), Guest("cond", TRUE, 1) } }
GuestPatches ==
    { {}, { [start |-> 3, end |-> 6] }, { [start |-> 2, end |-> 4], [start |-> 8, end |-> 9] } }
FewPoints == {{}, {4}}
FourHot == { <<1>>, <<2, 3>>, <<4>>, <<3, 2, 5>> }
FewEntries == {{}, {5}, {1, 6}}

-----------------------------------------------------------------------------
(* Dispatch: chunks that join, overlap, are short, empty or across a page  *)
Piece(start_, end_) == [start |-> start_, end |-> end_]
TenChunks ==
    { Piece(8, 10), Piece(10, 12), Piece(12, 14), Piece(14, 16), Piece(8, 12),
      Piece(12, 12), Piece(2, 4), Piece(4, 6), Piece(9, 12), Piece(12, 15) }
SomeAddresses == 0 .. 17

-----------------------------------------------------------------------------
(* RelLayout: two modules that import from each other, addresses of two octal digits *)
Sec(offset_, size, executable) == [offset |-> offset_, size |-> size, executable |-> executable]
Unused == Sec(0, 0, FALSE)
Rel(type, delta, section_, symbol) ==
    [type |-> type, delta |-> delta, section |-> section_, symbol |-> symbol]
EndOfList == Rel("end", 0, 0, 0)
FirstFiles ==
    { [ id |-> 1, size |-> 5, fix |-> fix, bss |-> bss, bssAlign |-> align,
        sections |-> << Unused, Sec(1, 3, TRUE), Sec(0, bss, FALSE), data >>,
        entries |-> { [section |-> 2, offset |-> prolog] },
        imports |->
          << [ module |-> 2,
               entries |-> << Rel("section", 0, 2, 0), Rel(type, 0, 2, 1), Rel(other, 1, 3, 1),
                              Rel("rel", 1, 2, 0) >> \o ending ],
             [ module |-> 1,
               entries |-> << Rel("section", 0, 2, 0), Rel("nop", 1, 0, 0), Rel("ha", 1, 3, 0),
                              Rel("section", 0, changed, 0), Rel("lo", 0, 2, 0), EndOfList >> ] >> ] :
        fix \in {4, 5}, bss \in {0, 2}, align \in {1, 3}, data \in {Unused, Sec(4, 1, FALSE)},
        prolog \in {0, 3}, type \in {"ha", "rel", "addr32", "none"}, other \in {"nop", "hi", "odd"},
        ending \in { << >>, << EndOfList >> }, changed \in {2, 4, 5} }
SecondFiles ==
    { [ id |-> id, size |-> 4, fix |-> 4, bss |-> 3, bssAlign |-> 2,
        sections |-> << Unused, Sec(1, 3, TRUE), Sec(0, 3, FALSE) >>, entries |-> {},
        imports |-> << [ module |-> imported,
                         entries |-> << Rel("section", 0, 2, 0), Rel("ha", 2, 2, 2), EndOfList >> ] >> ] :
        id \in {1, 2}, imported \in {0, 1, 3} }
TwoModules == (FirstFiles \X SecondFiles) \cup { << f >> : f \in SecondFiles }

-----------------------------------------------------------------------------
(* SymbolHeader: four lines; names that lose characters or look like made ones *)
FourNames == << "f(char)", "f(int)", "f_4", "f_4_1" >>
FewIdentifiers(name) ==
    CASE name = "f_4" -> << 0, 4 >> [] name = "f_4_1" -> << 0, 4, 1 >> [] OTHER -> << 0 >>
SomeLines ==
    [address : {0, 4, 12}, size : {0, 4}, name : {"f(char)", "f(int)", "f_4", "f_4_1"}]
      \cup [address : {2, 4}, size : {8}, name : {"f_4"}]
TwoSections == { [address |-> 0, size |-> 8], [address |-> 12, size |-> 8] }

-----------------------------------------------------------------------------
(* GuestMemory: eight units of memory and their aliases, blocks of four    *)
Mode(supervisor, check, pairs) ==
    [supervisor |-> supervisor, lockEnabled |-> TRUE, hitError |-> FALSE,
     checkEnabled |-> check, pairs |-> pairs]
\* two kinds of store that one reservation outlived, and nothing behind them
FewStores == Cardinality(stored) <= 1
TwoModes == { Mode(TRUE, TRUE, FALSE), Mode(FALSE, TRUE, TRUE) }

(* GuestExceptions: four addresses, two machine states                     *)
TwoStates == { {"PR", "EE", "FP", "ME", "POW"}, {"EE", "ME", "ILE", "IP"} }

(* FloatStatus: in C code, whose summaries may be anything, a few bits at a time *)
FewBits == backend = "c" => Cardinality(fpscr) <= 2

-----------------------------------------------------------------------------
(* BackendSemantics: words of eight bits, three registers, every opcode    *)
Decoded ==
    [ op |-> "nop", d |-> 0, a |-> 0, b |-> 0, imm |-> 0, sh |-> 0, mb |-> 0, me |-> 7, crf |-> 0,
      from |-> 0, crm |-> 0, bo |-> 20, bi |-> 0, lk |-> FALSE, rc |-> FALSE, to |-> 0,
      spr |-> "xer" ]
Of(ops, d_, a_, b_, rc_) ==
    { [Decoded EXCEPT !.op = o, !.d = d_, !.a = a_, !.b = b_, !.rc = rc_] : o \in ops }
AnyRegisters(ops) ==
    Of(ops, 0, 1, 2, TRUE) \cup Of(ops, 1, 1, 2, FALSE) \cup Of(ops, 2, 0, 1, TRUE)
With(insts, imms) == { [i EXCEPT !.imm = v] : i \in insts, v \in imms }
Unrecorded(ops) == { [i EXCEPT !.rc = FALSE] : i \in AnyRegisters(ops) }
GuestInstructions ==
    With(Unrecorded({"mulli", "subfic", "addi", "addis", "cmpi"}) \cup AnyRegisters({"addic"}),
         {-8, -1, 5})
    \cup With(Unrecorded({"ori", "oris", "xori", "xoris", "andi", "andis", "cmpli"}), {0, 9, 15})
    \cup { [i EXCEPT !.crf = f] : i \in Unrecorded({"cmp", "cmpl"}), f \in {0, 1} }
    \cup AnyRegisters({ "add", "addc", "adde", "addme", "addze", "subf", "subfc", "subfe", "subfme",
                        "subfze", "neg", "mullw", "mulhw", "mulhwu", "divw", "divwu" })
    \cup AnyRegisters({ "and", "andc", "or", "orc", "xor", "nand", "nor", "eqv", "cntlzw", "extsb",
                        "extsh", "sraw", "slw", "srw" })
    \cup { [i EXCEPT !.sh = s, !.mb = m[1], !.me = m[2]] :
             i \in AnyRegisters({"srawi", "rlwinm", "rlwnm", "rlwimi"}), s \in {0, 3, 7},
             m \in { <<0, 7>>, <<2, 4>>, <<5, 1>> } }
    \cup With(Unrecorded({ "lwz", "lwzu", "lbz", "lbzu", "lhz", "lhzu", "lha", "lhau", "stw", "stwu",
                      "stb", "stbu", "sth", "sthu", "lmw", "stmw" }), {-3, 4})
    \cup Unrecorded({ "lwzx", "lwzux", "lbzx", "lbzux", "lhzx", "lhzux", "lhax", "lhaux", "lwbrx",
                 "lhbrx", "stwx", "stwux", "stbx", "stbux", "sthx", "sthux", "stwbrx", "sthbrx",
                 "lwarx", "stwcx", "dcbz" })
    \cup { [Decoded EXCEPT !.op = o, !.bo = bo_, !.bi = bi_, !.lk = lk_] :
             o \in {"b", "bc", "bclr", "bcctr"}, bo_ \in {0, 2, 4, 8, 10, 12, 16, 18, 20},
             bi_ \in {0, 5}, lk_ \in BOOLEAN }
    \cup { [i EXCEPT !.to = t, !.imm = -4] :
             i \in Of({"tw", "twi"}, 0, 1, 2, FALSE), t \in {1, 2, 4, 8, 16} }
    \cup UNION { Of({ "crand", "crandc", "creqv", "crnand", "crnor", "cror", "crorc", "crxor" },
                    bits[1], bits[2], bits[3], FALSE) :
                 bits \in { <<0, 1, 6>>, <<5, 5, 2>>, <<7, 3, 3>> } }
    \cup { [Decoded EXCEPT !.op = o, !.d = 1, !.crf = f, !.from = 1 - f, !.crm = c, !.spr = s] :
             o \in {"mcrf", "mcrxr", "mfcr", "mtcrf", "mfspr", "mtspr"}, f \in {0, 1},
             c \in {0, 1, 3}, s \in {"xer", "lr", "ctr"} }
Branches == {"b", "bc", "bclr", "bcctr"}
OnConditions ==
    Branches \cup { "crand", "crandc", "creqv", "crnand", "crnor", "cror", "crorc", "crxor", "mcrf",
                    "mcrxr", "mfcr", "mtcrf", "mfspr", "mtspr" }
Words(i) == IF i.op \in OnConditions THEN {90, 255}
            ELSE IF i.op \in {"rlwinm", "rlwnm", "rlwimi", "srawi"} THEN {0, 7, 90, 129}
            ELSE {0, 1, 7, 90, 127, 128, 129, 255}
MachinesFor(i) ==
    { [ gpr |-> [r \in 0 .. 2 |-> CASE r = 0 -> 6 [] r = 1 -> x [] r = 2 -> y], cr |-> cr_, xer |-> xer_,
        lr |-> 254, ctr |-> ctr_, next |-> 12, mem |-> [c \in 0 .. 15 |-> (c + (c \div 4)) % 4],
        reserve |-> [valid |-> i.op = "stwcx", addr |-> 0] ] :
      x \in Words(i), y \in Words(i), cr_ \in IF i.op \in OnConditions THEN {74, 165} ELSE {74},
      xer_ \in {0, 181}, ctr_ \in IF i.op \in Branches THEN {0, 1, 4} ELSE {1} }
BS == INSTANCE BackendSemantics
        WITH W <- 8, Registers <- 0 .. 2, Cells <- 16, Line <- 8,
             Instructions <- GuestInstructions, Machines <- MachinesFor,
             Here <- 8, Target <- 40, native <- nativeState, before <- initial

-----------------------------------------------------------------------------
CSOff == /\ term = [b \in Blocks |-> Term("branch", 0, FALSE)] /\ defs = {} /\ phase = "definite"
         /\ definite = {} /\ dirty = {} /\ start = 0 /\ at = Other /\ unpublished = FALSE
         /\ defined = FALSE /\ way = "known"
APOff == native = {} /\ calls = {} /\ known = {} /\ ownInput = {} /\ ownOutput = {} /\
         input = {} /\ output = {} /\ escape = {} /\ step = "callers" /\ round = 1 /\ work = {}
AAOff == code = [b \in Position |-> Ins("access", 0, 0)] /\ knows = [b \in Position |-> Unknown]
         /\ analysed = FALSE /\ pos = -1 /\ reg = 0 /\ entryPoints = {} /\ resumed = FALSE
RPOff == program = (CHOOSE p \in Codes : TRUE) /\ extra = {} /\ patches = {}
DPOff == funcs = << >> /\ lookup = "building"
RLOff == directory = 0 /\ loading = "done" /\ nextBase = 0 /\ bases = << >> /\ reading = 0 /\
         relSection = 0 /\ offset = 0 /\ fields = [ p \in {} |-> 0 ]
SYOff == lines = 0 /\ symbols = << >> /\ index = 0 /\ emitted = << >> /\
         slots = [ k \in {} |-> 0 ]
BSOff == inst = 0 /\ machine = 0 /\ nativeState = 0 /\ initial = 0 /\ executed = 0

bsVars == << inst, machine, nativeState, initial, executed >>

Components ==
    { "calls", "abi", "addresses", "ranges", "dispatch", "rel", "symbols", "memory",
      "exceptions", "float", "instructions" }

Init ==
    /\ active \in Components
    /\ IF active = "calls" THEN CallsInit ELSE CSOff
    /\ IF active = "abi" THEN AbiInit /\ FewSummaries ELSE APOff
    /\ IF active = "addresses" THEN AddressInit /\ code[3].op = "access" ELSE AAOff
    /\ (active # "ranges" => RPOff) /\ PlanInit
    /\ IF active = "dispatch" THEN DispatchInit ELSE DPOff
    /\ IF active = "rel" THEN RelInit ELSE RLOff
    /\ IF active = "symbols" THEN SymInit ELSE SYOff
    /\ MemInit
    /\ ExcInit /\ (active # "exceptions" => msr = CHOOSE m \in MsrValues : TRUE)
    /\ FpInit /\ (active # "float" => backend = "c")
    /\ IF active = "instructions" THEN BS!Init ELSE BSOff

Next ==
    /\ UNCHANGED active
    /\ IF active = "calls" THEN CallsNext ELSE UNCHANGED csVars
    /\ IF active = "abi" THEN AbiNext ELSE UNCHANGED apVars
    /\ IF active = "addresses" THEN AddressNext ELSE UNCHANGED aaVars
    /\ IF active = "ranges" THEN PlanNext ELSE UNCHANGED planVars
    /\ IF active = "dispatch" THEN DispatchNext ELSE UNCHANGED dpVars
    /\ IF active = "rel" THEN RelNext ELSE UNCHANGED relVars
    /\ IF active = "symbols" THEN SymNext ELSE UNCHANGED syVars
    /\ IF active = "memory" THEN FewStores /\ MemNext ELSE UNCHANGED memVars
    /\ IF active = "exceptions" THEN ExcNext ELSE UNCHANGED excVars
    /\ IF active = "float" THEN FewBits /\ FpNext ELSE UNCHANGED fpVars
    /\ IF active = "instructions" THEN BS!Next ELSE UNCHANGED bsVars

-----------------------------------------------------------------------------
(* The properties of the components, stated in their modules               *)

\* Those of the components that are extended are checked under their own names.

\* BackendSemantics: an instruction does the same in C and in LLVM code, but for the
\* differences the module names; a halfword is reversed as the tests expect.
BackendsAgree == active = "instructions" => BS!BackendsAgree
HalfwordReversed == active = "instructions" => BS!HalfwordReversed
=============================================================================
