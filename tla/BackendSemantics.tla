--------------------------- MODULE BackendSemantics ---------------------------
(***************************************************************************)
(* What one guest instruction does, in the two forms DolRecomp gives it:   *)
(* the statements the C emitter prints, on the packed registers of the CPU *)
(* state, and the DolIR the builder lowers it to, as LLVM executes it on   *)
(* unpacked condition fields and XER bits.  The two are written twice, by  *)
(* hand, opcode by opcode.  An instruction is executed in both from the    *)
(* same machine; the machines must stay the same.                          *)
(*                                                                         *)
(* The scale: a word has W bits and four bytes of W/4 bits, and W/4 fields *)
(* of condition bits; immediates have W/2 bits.  XER keeps SO, OV and CA in*)
(* its three high bits.  Memory is mapped everywhere and addresses wrap.   *)
(* Not covered: overflow (OE) and string forms, which only C emits or a    *)
(* helper executes for both, floating point, and privileged registers.     *)
(***************************************************************************)
EXTENDS Integers, FiniteSetsExt, Bitwise

CONSTANTS
  W,               \* bits of a word
  Registers,       \* 0 .. some last register, for r0 .. r31
  Cells,           \* bytes of memory
  Line,            \* bytes of a cache line and of a reservation block
  Instructions,    \* the decoded instructions
  Machines(_),     \* the CPU states an instruction is executed in
  Here, Target     \* its address, and that of its direct branch

VARIABLES
  inst,       \* the instruction
  machine,    \* the CPU state of the C code
  native,     \* the values of the LLVM function
  before,     \* the CPU state both start from
  executed    \* the instruction has been executed

(* Where the guest goes on when it is not at an address: the exceptions.   *)
Trap == -1
Alignment == -2

vars == << inst, machine, native, before, executed >>

Ones == 2^W - 1
Sign == 2^(W - 1)
Byte == 2^(W \div 4)
Half == 2^(W \div 2)
Fields == 0 .. (W \div 4) - 1
Last == CHOOSE r \in Registers : \A s \in Registers : s <= r

Wrap(v) == v % 2^W
Invert(v) == Ones - v
Signed(v) == IF v >= Sign THEN v - 2^W ELSE v
Extend(v, bits) == IF v % 2^bits >= 2^(bits - 1) THEN Wrap((v % 2^bits) - 2^bits) ELSE v % 2^bits
Shl(v, n) == Wrap(v * 2^n)
Lshr(v, n) == v \div 2^n
Bit(v, n) == Lshr(v, n) % 2
Rotl(v, n) == Wrap(v * 2^(n % W)) + Lshr(v, W - (n % W))
Quotient(x, y) ==
  LET n == (IF x < 0 THEN -x ELSE x) \div (IF y < 0 THEN -y ELSE y)
  IN IF (x < 0) = (y < 0) THEN n ELSE -n
LeadingZeros(v) == Cardinality({n \in 1 .. W : v < 2^(W - n)})
Flag(condition, value) == IF condition THEN value ELSE 0

(* ppc_mask32: ones from bit mb to bit me, around the end if mb is larger  *)
Mask(mb, me) ==
  IF mb <= me THEN 2^(W - mb) - 2^(W - 1 - me) ELSE Invert(2^(W - 1 - me) - 2^(W - mb))

XerSo(xer) == Bit(xer, W - 1)
XerCa(xer) == Bit(xer, W - 3)
WithCa(xer, ca) == xer - XerCa(xer) * 2^(W - 3) + ca * 2^(W - 3)
FieldShift(f) == W - 4 - 4 * f
Field(cr, f) == Lshr(cr, FieldShift(f)) % 16
WithField(cr, f, bits) == cr + (bits - Field(cr, f)) * 2^FieldShift(f)

-----------------------------------------------------------------------------
(***************************************************************************)
(* The C emitter.                                                          *)
(***************************************************************************)

CCompare(x, y, xer) ==
  Flag(x < y, 8) + Flag(x > y, 4) + Flag(x = y, 2) + XerSo(xer)
CRecord(m, value) ==
  [m EXCEPT !.cr = WithField(@, 0, CCompare(Signed(value), 0, m.xer))]
CResult(i, m, reg, value) ==
  LET written == [m EXCEPT !.gpr[reg] = value]
  IN IF i.rc THEN CRecord(written, value) ELSE written
CCarried(i, m, reg, value, ca) ==
  CResult(i, [m EXCEPT !.xer = WithCa(@, ca)], reg, value)
CWide(i, m, wide) == CCarried(i, m, i.d, Wrap(wide), Lshr(wide, W))

CImmediate(i, m) ==
  LET a == m.gpr[i.a] IN
  CASE i.op = "mulli"  -> CResult(i, m, i.d, Wrap(Signed(a) * i.imm))
    [] i.op = "subfic" -> CWide(i, m, Wrap(i.imm) + Invert(a) + 1)
    [] i.op = "addi"   -> CResult(i, m, i.d, Wrap(i.imm + Flag(i.a # 0, a)))
    [] i.op = "addis"  -> CResult(i, m, i.d, Wrap(Shl(i.imm, W \div 2) + Flag(i.a # 0, a)))
    [] i.op = "addic"  -> CWide(i, m, a + Wrap(i.imm))

CLogicalImmediate(i, m) ==
  LET s == m.gpr[i.d]
      value ==
        CASE i.op = "ori"   -> s | i.imm  [] i.op = "oris"  -> s | Shl(i.imm, W \div 2)
          [] i.op = "xori"  -> s ^^ i.imm [] i.op = "xoris" -> s ^^ Shl(i.imm, W \div 2)
          [] i.op = "andi"  -> s & i.imm  [] i.op = "andis" -> s & Shl(i.imm, W \div 2)
      written == [m EXCEPT !.gpr[i.a] = value]
  IN IF i.op \in {"andi", "andis"} THEN CRecord(written, value) ELSE written

CCompareTo(i, m) ==
  LET a == m.gpr[i.a]
      bits == CASE i.op = "cmpi"  -> CCompare(Signed(a), i.imm, m.xer)
                [] i.op = "cmpli" -> CCompare(a, i.imm, m.xer)
                [] i.op = "cmp"   -> CCompare(Signed(a), Signed(m.gpr[i.b]), m.xer)
                [] i.op = "cmpl"  -> CCompare(a, m.gpr[i.b], m.xer)
  IN [m EXCEPT !.cr = WithField(@, i.crf, bits)]

CSum(i, m) ==
  LET a == m.gpr[i.a]
      b == m.gpr[i.b]
      ca == XerCa(m.xer)
  IN CASE i.op = "add"    -> CResult(i, m, i.d, Wrap(a + b))
       [] i.op = "addc"   -> CWide(i, m, a + b)
       [] i.op = "adde"   -> CWide(i, m, a + b + ca)
       [] i.op = "addme"  -> CWide(i, m, a + Ones + ca)
       [] i.op = "addze"  -> CWide(i, m, a + ca)
       [] i.op = "subf"   -> CResult(i, m, i.d, Wrap(Invert(a) + b + 1))
       [] i.op = "subfc"  -> CWide(i, m, b + Invert(a) + 1)
       [] i.op = "subfe"  -> CWide(i, m, Invert(a) + b + ca)
       [] i.op = "subfme" -> CWide(i, m, Invert(a) + Ones + ca)
       [] i.op = "subfze" -> CWide(i, m, Invert(a) + ca)
       [] i.op = "neg"    -> CResult(i, m, i.d, Wrap(Invert(a) + 1))

CProduct(i, m) ==
  LET a == m.gpr[i.a]
      b == m.gpr[i.b]
      impossible == b = 0 \/ (a = Sign /\ Signed(b) = -1)
  IN CResult(i, m, i.d,
       CASE i.op = "mullw"  -> Wrap(Signed(a) * Signed(b))
         [] i.op = "mulhw"  -> Wrap((Signed(a) * Signed(b)) \div 2^W)
         [] i.op = "mulhwu" -> (a * b) \div 2^W
         [] i.op = "divw"   -> IF impossible THEN Flag(Signed(a) < 0, Ones)
                               ELSE Wrap(Quotient(Signed(a), Signed(b)))
         [] i.op = "divwu"  -> IF b = 0 THEN 0 ELSE a \div b)

CLogical(i, m) ==
  LET s == m.gpr[i.d]
      b == m.gpr[i.b]
  IN CResult(i, m, i.a,
       CASE i.op = "and"  -> s & b       [] i.op = "andc" -> s & Invert(b)
         [] i.op = "or"   -> s | b       [] i.op = "orc"  -> s | Invert(b)
         [] i.op = "xor"  -> s ^^ b      [] i.op = "nand" -> Invert(s & b)
         [] i.op = "nor"  -> Invert(s | b)  [] i.op = "eqv"  -> Invert(s ^^ b)
         [] i.op = "cntlzw" -> LeadingZeros(s)
         [] i.op = "extsb"  -> Extend(s, W \div 4)
         [] i.op = "extsh"  -> Extend(s, W \div 2))

CArithmeticShift(i, m) ==
  LET value == m.gpr[i.d]
      negative == value >= Sign
      sh == IF i.op = "srawi" THEN i.sh ELSE m.gpr[i.b] % (2 * W)
  IN IF sh > W - 1
     THEN CCarried(i, m, i.a, Flag(negative, Ones), Flag(negative, 1))
     ELSE CCarried(i, m, i.a, Wrap(Signed(value) \div 2^sh),
                   Flag(sh # 0 /\ negative /\ Shl(value, W - sh) # 0, 1))

CShift(i, m) ==
  LET s == m.gpr[i.d]
      sh == m.gpr[i.b] % (2 * W)
      mask == Mask(i.mb, i.me)
  IN CResult(i, m, i.a,
       CASE i.op = "slw" -> IF sh > W - 1 THEN 0 ELSE Shl(s, sh)
         [] i.op = "srw" -> IF sh > W - 1 THEN 0 ELSE Lshr(s, sh)
         [] i.op = "rlwinm" -> Rotl(s, i.sh) & mask
         [] i.op = "rlwnm"  -> Rotl(s, m.gpr[i.b]) & mask
         [] i.op = "rlwimi" -> (m.gpr[i.a] & Invert(mask)) | (Rotl(s, i.sh) & mask))

(* Memory: mem_read and mem_write are big-endian and lose a reservation of *)
(* the block they write.                                                   *)
Cell(ea) == ea % Cells
BigEndian(mem, ea, n) ==
  MapThenSumSet(LAMBDA k : mem[Cell(ea + k)] * Byte^(n - 1 - k), 0 .. n - 1)
ByteOf(v, k) == Lshr(v, k * (W \div 4)) % Byte
Swapped(v, n) == MapThenSumSet(LAMBDA k : ByteOf(v, k) * Byte^(n - 1 - k), 0 .. n - 1)
Unreserved(reserve, ea) ==
  [reserve EXCEPT !.valid = @ /\ ea \div Line # reserve.addr \div Line]
CStore(m, ea, v, n) ==
  [m EXCEPT
     !.mem = [c \in DOMAIN @ |->
                LET k == (c - ea) % Cells
                IN IF k < n THEN ByteOf(v, n - 1 - k) ELSE @[c]],
     !.reserve = Unreserved(@, ea)]

(* The address: a register for d-form, two for x-form; r0 is no base unless updated. *)
CAddress(i, m, indexed, update) ==
  Wrap((IF i.a = 0 /\ ~update THEN 0 ELSE m.gpr[i.a])
       + (IF indexed THEN m.gpr[i.b] ELSE i.imm))

Form(load, width, indexed, update, kind) ==
  [load |-> load, width |-> width, indexed |-> indexed, update |-> update, kind |-> kind]
CForms ==
  [ lwz |-> Form(TRUE, 4, FALSE, FALSE, "zero"),   lwzu |-> Form(TRUE, 4, FALSE, TRUE, "zero"),
    lbz |-> Form(TRUE, 1, FALSE, FALSE, "zero"),   lbzu |-> Form(TRUE, 1, FALSE, TRUE, "zero"),
    lhz |-> Form(TRUE, 2, FALSE, FALSE, "zero"),   lhzu |-> Form(TRUE, 2, FALSE, TRUE, "zero"),
    lha |-> Form(TRUE, 2, FALSE, FALSE, "sign"),   lhau |-> Form(TRUE, 2, FALSE, TRUE, "sign"),
    lwzx |-> Form(TRUE, 4, TRUE, FALSE, "zero"),   lwzux |-> Form(TRUE, 4, TRUE, TRUE, "zero"),
    lbzx |-> Form(TRUE, 1, TRUE, FALSE, "zero"),   lbzux |-> Form(TRUE, 1, TRUE, TRUE, "zero"),
    lhzx |-> Form(TRUE, 2, TRUE, FALSE, "zero"),   lhzux |-> Form(TRUE, 2, TRUE, TRUE, "zero"),
    lhax |-> Form(TRUE, 2, TRUE, FALSE, "sign"),   lhaux |-> Form(TRUE, 2, TRUE, TRUE, "sign"),
    lwbrx |-> Form(TRUE, 4, TRUE, FALSE, "swap"),  lhbrx |-> Form(TRUE, 2, TRUE, FALSE, "swap"),
    stw |-> Form(FALSE, 4, FALSE, FALSE, "zero"),  stwu |-> Form(FALSE, 4, FALSE, TRUE, "zero"),
    stb |-> Form(FALSE, 1, FALSE, FALSE, "zero"),  stbu |-> Form(FALSE, 1, FALSE, TRUE, "zero"),
    sth |-> Form(FALSE, 2, FALSE, FALSE, "zero"),  sthu |-> Form(FALSE, 2, FALSE, TRUE, "zero"),
    stwx |-> Form(FALSE, 4, TRUE, FALSE, "zero"),  stwux |-> Form(FALSE, 4, TRUE, TRUE, "zero"),
    stbx |-> Form(FALSE, 1, TRUE, FALSE, "zero"),  stbux |-> Form(FALSE, 1, TRUE, TRUE, "zero"),
    sthx |-> Form(FALSE, 2, TRUE, FALSE, "zero"),  sthux |-> Form(FALSE, 2, TRUE, TRUE, "zero"),
    stwbrx |-> Form(FALSE, 4, TRUE, FALSE, "swap"),
    sthbrx |-> Form(FALSE, 2, TRUE, FALSE, "swap") ]

CAccess(i, m) ==
  LET f == CForms[i.op]
      ea == CAddress(i, m, f.indexed, f.update)
      read == BigEndian(m.mem, ea, f.width)
      value == CASE f.kind = "zero" -> read
                 [] f.kind = "sign" -> Extend(read, f.width * (W \div 4))
                 [] f.kind = "swap" -> Swapped(read, f.width)
      source == IF f.kind = "swap" THEN Swapped(m.gpr[i.d], f.width) ELSE m.gpr[i.d]
      accessed == IF f.load THEN [m EXCEPT !.gpr[i.d] = value]
                  ELSE CStore(m, ea, source, f.width)
  IN IF f.update THEN [accessed EXCEPT !.gpr[i.a] = ea] ELSE accessed

CMultiple(i, m) ==
  LET ea == CAddress(i, m, FALSE, FALSE)
      stored[r \in 0 .. Last + 1] ==
        IF r <= i.d THEN m ELSE CStore(stored[r - 1], Wrap(ea + 4 * (r - 1 - i.d)), m.gpr[r - 1], 4)
  IN IF i.op = "stmw" THEN stored[Last + 1]
     ELSE [m EXCEPT !.gpr = [r \in Registers |->
             IF r >= i.d THEN BigEndian(m.mem, ea + 4 * (r - i.d), 4) ELSE @[r]]]

CReserved(i, m) ==
  LET ea == CAddress(i, m, TRUE, FALSE)
      success == m.reserve.valid /\ ea = m.reserve.addr
      stored == [CStore(m, ea, m.gpr[i.d], 4) EXCEPT !.reserve.valid = FALSE]
      start == ea - (ea % Line)
      cleared == CStore(CStore(m, start, 0, 4), start + 4, 0, 4)
  IN CASE i.op = "lwarx"  -> [m EXCEPT !.gpr[i.d] = BigEndian(m.mem, ea, 4),
                                       !.reserve = [valid |-> TRUE, addr |-> ea]]
       [] i.op = "stwcx"  -> [(IF success THEN stored ELSE m) EXCEPT
                                !.cr = WithField(@, 0, Flag(success, 2) + XerSo(m.xer))]
       [] i.op = "dcbz"   -> cleared

(* Branches and traps: `next` is where the guest goes on.                  *)
CBranch(i, m) ==
  LET ctr == IF Bit(i.bo, 2) = 1 THEN m.ctr ELSE Wrap(m.ctr - 1)
      ctrOk == Bit(i.bo, 2) = 1 \/ ((ctr # 0) # (Bit(i.bo, 1) = 1))
      crOk == Bit(i.bo, 4) = 1 \/ (((m.cr & Lshr(Sign, i.bi)) # 0) = (Bit(i.bo, 3) = 1))
      goal == CASE i.op = "b" -> Target       [] i.op = "bc" -> Target
                [] i.op = "bclr" -> m.lr - (m.lr % 4) [] i.op = "bcctr" -> m.ctr - (m.ctr % 4)
      counted == IF i.op = "b" THEN m ELSE [m EXCEPT !.ctr = ctr]
  IN IF i.op = "b" \/ (ctrOk /\ crOk)
     THEN [counted EXCEPT !.next = goal, !.lr = IF i.lk THEN Here + 4 ELSE @]
     ELSE counted

CTrap(i, m) ==
  LET a == m.gpr[i.a]
      b == IF i.op = "twi" THEN Wrap(i.imm) ELSE m.gpr[i.b]
  IN IF \/ Signed(a) < Signed(b) /\ Bit(i.to, 4) = 1
        \/ Signed(a) > Signed(b) /\ Bit(i.to, 3) = 1
        \/ a = b /\ Bit(i.to, 2) = 1
        \/ a < b /\ Bit(i.to, 1) = 1
        \/ a > b /\ Bit(i.to, 0) = 1
     THEN [m EXCEPT !.next = Trap] ELSE m

CConditionBit(i, m) ==
  LET a == Bit(m.cr, W - 1 - i.a)
      b == Bit(m.cr, W - 1 - i.b)
      mask == Lshr(Sign, i.d)
      value == CASE i.op = "crand" -> a & b        [] i.op = "crandc" -> a & (1 - b)
                 [] i.op = "creqv" -> 1 - (a ^^ b) [] i.op = "crnand" -> 1 - (a & b)
                 [] i.op = "crnor" -> 1 - (a | b)  [] i.op = "cror" -> a | b
                 [] i.op = "crorc" -> a | (1 - b)  [] i.op = "crxor" -> a ^^ b
  IN [m EXCEPT !.cr = (@ & Invert(mask)) | (value * mask)]

Selected(i) == {f \in Fields : Bit(i.crm, (W \div 4) - 1 - f) = 1}

CMove(i, m) ==
  LET mask == MapThenSumSet(LAMBDA f : 15 * 2^FieldShift(f), Selected(i))
  IN CASE i.op = "mcrf"  -> [m EXCEPT !.cr = WithField(@, i.crf, Field(m.cr, i.from))]
       [] i.op = "mcrxr" -> [m EXCEPT !.cr = WithField(@, i.crf, Field(m.xer, 0)),
                                      !.xer = @ % 2^(W - 3)]
       [] i.op = "mfcr"  -> [m EXCEPT !.gpr[i.d] = m.cr]
       [] i.op = "mtcrf" -> [m EXCEPT !.cr = (@ & Invert(mask)) | (m.gpr[i.d] & mask)]
       [] i.op = "mfspr" -> [m EXCEPT !.gpr[i.d] =
                               CASE i.spr = "xer" -> m.xer [] i.spr = "lr" -> m.lr
                                 [] i.spr = "ctr" -> m.ctr]
       [] i.op = "mtspr" -> CASE i.spr = "xer" -> [m EXCEPT !.xer = m.gpr[i.d]]
                              [] i.spr = "lr"  -> [m EXCEPT !.lr = m.gpr[i.d]]
                              [] i.spr = "ctr" -> [m EXCEPT !.ctr = m.gpr[i.d]]

-----------------------------------------------------------------------------
(***************************************************************************)
(* DolIR, as LLVM executes it: condition fields cr[f], the bits ca, ov and *)
(* so, and the rest of XER are values of their own.                        *)
(***************************************************************************)

(* What the function reads at its entry, and what it commits.              *)
Unpacked(m) ==
  [ gpr |-> m.gpr, lr |-> m.lr, ctr |-> m.ctr, mem |-> m.mem, reserve |-> m.reserve,
    next |-> m.next, cr |-> [f \in Fields |-> Lshr(m.cr, FieldShift(f)) & 15],
    ca |-> Bit(m.xer, W - 3), ov |-> Bit(m.xer, W - 2), so |-> Bit(m.xer, W - 1),
    xer |-> m.xer ]
PackedXer(n) ==
  (n.xer % 2^(W - 3)) + n.ca * 2^(W - 3) + n.ov * 2^(W - 2) + n.so * 2^(W - 1)
PackedCr(n) == MapThenSumSet(LAMBDA f : Shl(n.cr[f], FieldShift(f)), Fields)
Packed(n) ==
  [ gpr |-> n.gpr, lr |-> n.lr, ctr |-> n.ctr, mem |-> n.mem, reserve |-> n.reserve,
    next |-> n.next, cr |-> PackedCr(n), xer |-> PackedXer(n) ]

SetField(n, f, bits) == [n EXCEPT !.cr[f] = bits & 15]
Less(signed, x, y) == IF signed THEN Signed(x) < Signed(y) ELSE x < y
Compared(n, f, x, y, signed) ==
  SetField(n, f, (Flag(Less(signed, x, y), 8) | Flag(Less(signed, y, x), 4))
                 | (Flag(x = y, 2) | n.so))
Recorded(i, n, value) == IF i.rc THEN Compared(n, 0, value, 0, TRUE) ELSE n
Result(i, n, reg, value) == Recorded(i, [n EXCEPT !.gpr[reg] = value], value)
Carried(i, n, wide) ==
  Recorded(i, [n EXCEPT !.gpr[i.d] = Wrap(wide), !.ca = Lshr(wide, W) % 2], Wrap(wide))

LowerImmediate(i, n) ==
  LET a == n.gpr[i.a] IN
  CASE i.op = "mulli"  -> [n EXCEPT !.gpr[i.d] = Wrap(Signed(a) * i.imm)]
    [] i.op = "subfic" -> Carried(i, n, Invert(a) + Wrap(i.imm) + 1)
    [] i.op = "addic"  -> Carried(i, n, a + Wrap(i.imm))
    [] i.op \in {"addi", "addis"} ->
         LET immediate == IF i.op = "addis" THEN Shl(Wrap(i.imm), W \div 2) ELSE Wrap(i.imm)
         IN [n EXCEPT !.gpr[i.d] = Wrap((IF i.a = 0 THEN 0 ELSE a) + immediate)]

LowerLogicalImmediate(i, n) ==
  LET immediate == IF i.op \in {"oris", "xoris", "andis"} THEN i.imm * Half ELSE i.imm
      s == n.gpr[i.d]
      value == CASE i.op \in {"ori", "oris"}   -> s | immediate
                 [] i.op \in {"xori", "xoris"} -> s ^^ immediate
                 [] i.op \in {"andi", "andis"} -> s & immediate
      written == [n EXCEPT !.gpr[i.a] = value]
  IN IF i.op \in {"andi", "andis"} THEN Compared(written, 0, value, 0, TRUE) ELSE written

LowerCompare(i, n) ==
  Compared(n, i.crf, n.gpr[i.a],
           CASE i.op = "cmpi" -> Wrap(i.imm) [] i.op = "cmpli" -> i.imm
             [] i.op \in {"cmp", "cmpl"} -> n.gpr[i.b],
           i.op \in {"cmpi", "cmp"})

LowerSum(i, n) ==
  LET a == n.gpr[i.a]
      b == n.gpr[i.b]
      first == IF i.op \in {"subfme", "subfze", "subfc", "subfe"} THEN Invert(a) ELSE a
      carry == CASE i.op \in {"adde", "subfe", "addme", "addze", "subfme", "subfze"} -> n.ca
                 [] i.op = "subfc" -> 1
                 [] i.op = "addc" -> 0
      second == CASE i.op \in {"addme", "subfme"} -> Ones
                  [] i.op \in {"addze", "subfze"} -> 0
                  [] i.op \in {"addc", "adde", "subfc", "subfe"} -> b
  IN CASE i.op = "add"  -> Result(i, n, i.d, Wrap(a + b))
       [] i.op = "subf" -> Result(i, n, i.d, Wrap(b - a))
       [] i.op = "neg"  -> Result(i, n, i.d, Wrap(0 - a))
       [] OTHER         -> Carried(i, n, first + second + carry)

LowerProduct(i, n) ==
  LET a == n.gpr[i.a]
      b == n.gpr[i.b]
      product == (IF i.op = "mulhwu" THEN a * b ELSE Signed(a) * Signed(b)) % 2^(2 * W)
      invalid == b = 0 \/ (i.op = "divw" /\ a = Sign /\ b = Ones)
      divisor == IF invalid THEN 1 ELSE b
  IN Result(i, n, i.d,
       CASE i.op = "mullw" -> Wrap(product)
         [] i.op \in {"mulhw", "mulhwu"} -> Wrap(Lshr(product, W))
         [] i.op = "divw"  -> IF invalid THEN Flag(Less(TRUE, a, 0), Ones)
                              ELSE Wrap(Quotient(Signed(a), Signed(divisor)))
         [] i.op = "divwu" -> IF invalid THEN 0 ELSE a \div divisor)

LowerLogical(i, n) ==
  LET s == n.gpr[i.d]
      b == IF i.op \in {"andc", "orc"} THEN Invert(n.gpr[i.b]) ELSE n.gpr[i.b]
      value == CASE i.op \in {"and", "andc", "nand"} -> s & b
                 [] i.op \in {"or", "orc", "nor"}    -> s | b
                 [] i.op \in {"xor", "eqv"}          -> s ^^ b
                 [] i.op = "cntlzw" -> LeadingZeros(s)
                 [] i.op = "extsb"  -> Extend(s % Byte, W \div 4)
                 [] i.op = "extsh"  -> Extend(s % Half, W \div 2)
  IN Result(i, n, i.a, IF i.op \in {"nand", "nor", "eqv"} THEN Invert(value) ELSE value)

(* Mutant: a shift by the word's width or more leaves the carry of the     *)
(* shortened shift.                                                        *)
LowerArithmeticShiftShort(i, n) ==
  LET value == n.gpr[i.d]
      sh == IF i.op = "srawi" THEN i.sh ELSE n.gpr[i.b] & (2 * W - 1)
      safe == sh & (W - 1)
      sign == Less(TRUE, value, 0)
      lost == (value & (Shl(1, safe) - 1)) # 0
      result == IF W - 1 < sh THEN Flag(sign, Ones) ELSE Wrap(Signed(value) \div 2^safe)
  IN Recorded(i, [n EXCEPT !.gpr[i.a] = result, !.ca = Flag(sign /\ lost, 1)], result)

LowerArithmeticShift(i, n) ==
  LET value == n.gpr[i.d]
      sh == IF i.op = "srawi" THEN i.sh ELSE n.gpr[i.b] & (2 * W - 1)
      safe == sh & (W - 1)
      sign == Less(TRUE, value, 0)
      big == W - 1 < sh
      lost == (value & (Shl(1, safe) - 1)) # 0
      result == IF big THEN Flag(sign, Ones) ELSE Wrap(Signed(value) \div 2^safe)
      carry == IF big THEN sign ELSE sign /\ lost
  IN Recorded(i, [n EXCEPT !.gpr[i.a] = result, !.ca = Flag(carry, 1)], result)

LowerShift(i, n) ==
  LET s == n.gpr[i.d]
      sh == n.gpr[i.b] & (2 * W - 1)
      safe == sh & (W - 1)
      shifted == IF i.op = "slw" THEN Shl(s, safe) ELSE Lshr(s, safe)
      mask == Mask(i.mb, i.me)
      rotated == Rotl(s, IF i.op = "rlwnm" THEN n.gpr[i.b] ELSE i.sh) & mask
  IN Result(i, n, i.a,
       CASE i.op \in {"slw", "srw"} -> IF W - 1 < sh THEN 0 ELSE shifted
         [] i.op \in {"rlwinm", "rlwnm"} -> rotated
         [] i.op = "rlwimi" -> (n.gpr[i.a] & Invert(mask)) | rotated)

(* LLVM's loads and stores are the host's, little-endian, with the bytes   *)
(* swapped to the width of the access.                                     *)
LittleEndian(mem, ea, width) ==
  MapThenSumSet(LAMBDA k : mem[Cell(ea + k)] * Byte^k, 0 .. width - 1)
GuestLoad(n, ea, width, sign) ==
  LET loaded == Swapped(LittleEndian(n.mem, ea, width), width)
  IN IF sign THEN Extend(loaded, width * (W \div 4)) ELSE loaded
GuestStore(n, ea, value, width) ==
  LET narrow == Swapped(value % Byte^width, width)
  IN [n EXCEPT
        !.mem = [c \in DOMAIN @ |->
                   LET k == (c - ea) % Cells
                   IN IF k < width THEN ByteOf(narrow, k) ELSE @[c]],
        !.reserve = Unreserved(@, ea)]

EffectiveAddress(i, n, indexed, update) ==
  LET base == IF i.a = 0 /\ ~update THEN 0 ELSE n.gpr[i.a]
  IN Wrap(base + IF indexed THEN n.gpr[i.b] ELSE Wrap(i.imm))

Loads == { "lwz", "lwzu", "lbz", "lbzu", "lhz", "lhzu", "lha", "lhau", "lwzx", "lwzux", "lbzx",
           "lbzux", "lhzx", "lhzux", "lhax", "lhaux", "lwbrx", "lhbrx" }
ByteAccesses == { "lbz", "lbzu", "lbzx", "lbzux", "stb", "stbu", "stbx", "stbux" }
HalfAccesses == { "lhz", "lhzu", "lha", "lhau", "lhzx", "lhzux", "lhax", "lhaux", "lhbrx",
                  "sth", "sthu", "sthx", "sthux", "sthbrx" }
Updating == { "lwzu", "lbzu", "lhzu", "lhau", "lwzux", "lbzux", "lhzux", "lhaux", "stwu", "stbu",
              "sthu", "stwux", "stbux", "sthux" }
Indexed == { "lwzx", "lwzux", "lbzx", "lbzux", "lhzx", "lhzux", "lhax", "lhaux", "lwbrx",
             "lhbrx", "stwx", "stwux", "stbx", "stbux", "sthx", "sthux", "stwbrx", "sthbrx" }
Reversed == { "lwbrx", "lhbrx", "stwbrx", "sthbrx" }

(* The byte swap of a reversed access is one of a whole word (BSWAP of I32).*)
LowerAccess(i, n) ==
  LET width == IF i.op \in ByteAccesses THEN 1 ELSE IF i.op \in HalfAccesses THEN 2 ELSE 4
      ea == EffectiveAddress(i, n, i.op \in Indexed, i.op \in Updating)
      loaded == GuestLoad(n, ea, width, i.op \in { "lha", "lhau", "lhax", "lhaux" })
      Reverse(v) == IF i.op \in Reversed THEN Swapped(v, 4) ELSE v
      accessed == IF i.op \in Loads THEN [n EXCEPT !.gpr[i.d] = Reverse(loaded)]
                  ELSE GuestStore(n, ea, Reverse(n.gpr[i.d]), width)
  IN IF i.op \in Updating THEN [accessed EXCEPT !.gpr[i.a] = ea] ELSE accessed

LowerMultiple(i, n) ==
  LET address == EffectiveAddress(i, n, FALSE, FALSE)
      after[r \in 0 .. Last + 1] ==
        IF r <= i.d THEN n
        ELSE LET ea == Wrap(address + 4 * (r - 1 - i.d))
             IN IF i.op = "lmw" THEN [after[r - 1] EXCEPT !.gpr[r - 1] = GuestLoad(n, ea, 4, FALSE)]
                ELSE GuestStore(after[r - 1], ea, n.gpr[r - 1], 4)
  IN after[Last + 1]

(* stwcx. is the runtime helper ppc_stwcx_op, on the packed state.         *)
StoreConditional(i, m, ea) ==
  LET success == m.reserve.valid /\ ea = m.reserve.addr
      stored == [CStore(m, ea, m.gpr[i.d], 4) EXCEPT !.reserve.valid = FALSE]
  IN IF ea % 4 # 0 THEN [m EXCEPT !.next = Alignment]
     ELSE [(IF success THEN stored ELSE m) EXCEPT
             !.cr = (@ % 2^(W - 4)) + Shl(Flag(success, 2) | XerSo(m.xer), W - 4)]

LowerReserved(i, n) ==
  LET ea == EffectiveAddress(i, n, TRUE, FALSE)
      line == ea & Invert(Line - 1)
  IN CASE i.op = "lwarx" -> [n EXCEPT !.gpr[i.d] = GuestLoad(n, ea, 4, FALSE),
                                      !.reserve = [valid |-> TRUE, addr |-> ea]]
       [] i.op = "stwcx" -> Unpacked(StoreConditional(i, Packed(n), ea))
       [] i.op = "dcbz"  -> GuestStore(GuestStore(n, line, 0, 4), Wrap(line + 4), 0, 4)

BranchCondition(i, n) ==
  LET ctr == IF Bit(i.bo, 2) = 0 THEN Wrap(n.ctr - 1) ELSE n.ctr
      ctrOk == Bit(i.bo, 2) = 0 => IF Bit(i.bo, 1) = 1 THEN ctr = 0 ELSE ctr # 0
      set == (n.cr[i.bi \div 4] & Lshr(8, i.bi % 4)) # 0
      crOk == Bit(i.bo, 4) = 0 => IF Bit(i.bo, 3) = 1 THEN set ELSE ~set
  IN [ctr |-> ctr, taken |-> ctrOk /\ crOk]

LowerBranch(i, n) ==
  LET c == BranchCondition(i, n)
      goal == CASE i.op = "bclr" -> n.lr - (n.lr % 4) [] i.op = "bcctr" -> c.ctr - (c.ctr % 4)
                [] i.op \in {"b", "bc"} -> Target
      linked == IF i.lk THEN [n EXCEPT !.lr = Here + 4] ELSE n
  IN IF i.op = "b" THEN [linked EXCEPT !.next = goal]
     ELSE [linked EXCEPT !.ctr = c.ctr, !.next = IF c.taken THEN goal ELSE Here + 4]

LowerTrap(i, n) ==
  LET a == n.gpr[i.a]
      c == IF i.op = "twi" THEN Wrap(i.imm) ELSE n.gpr[i.b]
      condition == \/ Bit(i.to, 4) = 1 /\ Less(TRUE, a, c)
                   \/ Bit(i.to, 3) = 1 /\ Less(TRUE, c, a)
                   \/ Bit(i.to, 2) = 1 /\ a = c
                   \/ Bit(i.to, 1) = 1 /\ Less(FALSE, a, c)
                   \/ Bit(i.to, 0) = 1 /\ Less(FALSE, c, a)
  IN [n EXCEPT !.next = IF condition THEN Trap ELSE n.next]

LowerConditionBit(i, n) ==
  LET Of(bit) == Lshr(n.cr[bit \div 4], 3 - (bit % 4)) & 1
      a == Of(i.a)
      b == IF i.op \in {"crandc", "crorc"} THEN Of(i.b) ^^ 1 ELSE Of(i.b)
      joined == CASE i.op \in {"crand", "crandc", "crnand"} -> a & b
                  [] i.op \in {"cror", "crorc", "crnor"}    -> a | b
                  [] i.op \in {"crxor", "creqv"}            -> a ^^ b
      value == IF i.op \in {"creqv", "crnand", "crnor"} THEN joined ^^ 1 ELSE joined
      bit == 2^(3 - (i.d % 4))
  IN SetField(n, i.d \div 4, (n.cr[i.d \div 4] & (15 - bit)) | (value * bit))

LowerMove(i, n) ==
  CASE i.op = "mcrf"  -> SetField(n, i.crf, n.cr[i.from])
    [] i.op = "mcrxr" -> [SetField(n, i.crf, ((n.so * 8) | (n.ov * 4)) | (n.ca * 2)) EXCEPT
                            !.ca = 0, !.ov = 0, !.so = 0]
    [] i.op = "mfcr"  -> [n EXCEPT !.gpr[i.d] = PackedCr(n)]
    [] i.op = "mtcrf" -> [n EXCEPT !.cr = [f \in Fields |->
                            IF f \in Selected(i) THEN Lshr(n.gpr[i.d], FieldShift(f)) & 15
                            ELSE @[f]]]
    [] i.op = "mfspr" -> [n EXCEPT !.gpr[i.d] =
                            CASE i.spr = "xer" -> PackedXer(n) [] i.spr = "lr" -> n.lr
                              [] i.spr = "ctr" -> n.ctr]
    [] i.op = "mtspr" ->
         LET value == n.gpr[i.d] IN
         CASE i.spr = "xer" -> [n EXCEPT !.xer = value % 2^(W - 3), !.ca = Lshr(value, W - 3) % 2,
                                         !.ov = Lshr(value, W - 2) % 2, !.so = Lshr(value, W - 1) % 2]
           [] i.spr = "lr"  -> [n EXCEPT !.lr = value]
           [] i.spr = "ctr" -> [n EXCEPT !.ctr = value]


-----------------------------------------------------------------------------
(***************************************************************************)
(* One instruction, from every machine the constants give, in both forms.  *)
(***************************************************************************)

Init ==
  /\ inst \in Instructions
  /\ before \in Machines(inst)
  /\ machine = before
  /\ native = Unpacked(before)
  /\ executed = FALSE

Execute(ops, Emitted(_, _), Lowered(_, _)) ==
  /\ ~executed
  /\ inst.op \in ops
  /\ machine' = Emitted(inst, machine)
  /\ native' = Lowered(inst, native)
  /\ executed' = TRUE
  /\ UNCHANGED << inst, before >>

Next ==
  \/ Execute({ "mulli", "subfic", "addi", "addis", "addic" }, CImmediate, LowerImmediate)
  \/ Execute({ "ori", "oris", "xori", "xoris", "andi", "andis" },
             CLogicalImmediate, LowerLogicalImmediate)
  \/ Execute({ "cmpi", "cmpli", "cmp", "cmpl" }, CCompareTo, LowerCompare)
  \/ Execute({ "add", "addc", "adde", "addme", "addze", "subf", "subfc", "subfe", "subfme",
               "subfze", "neg" }, CSum, LowerSum)
  \/ Execute({ "mullw", "mulhw", "mulhwu", "divw", "divwu" }, CProduct, LowerProduct)
  \/ Execute({ "and", "andc", "or", "orc", "xor", "nand", "nor", "eqv", "cntlzw", "extsb", "extsh" },
             CLogical, LowerLogical)
  \/ Execute({ "sraw", "srawi" }, CArithmeticShift, LowerArithmeticShift)
  \/ Execute({ "slw", "srw", "rlwinm", "rlwnm", "rlwimi" }, CShift, LowerShift)
  \/ Execute(DOMAIN CForms, CAccess, LowerAccess)
  \/ Execute({ "lmw", "stmw" }, CMultiple, LowerMultiple)
  \/ Execute({ "lwarx", "stwcx", "dcbz" }, CReserved, LowerReserved)
  \/ Execute({ "b", "bc", "bclr", "bcctr" }, CBranch, LowerBranch)
  \/ Execute({ "tw", "twi" }, CTrap, LowerTrap)
  \/ Execute({ "crand", "crandc", "creqv", "crnand", "crnor", "cror", "crorc", "crxor" },
             CConditionBit, LowerConditionBit)
  \/ Execute({ "mcrf", "mcrxr", "mfcr", "mtcrf", "mfspr", "mtspr" }, CMove, LowerMove)

-----------------------------------------------------------------------------
(***************************************************************************)
(* Properties.                                                             *)
(***************************************************************************)

(* What the two forms are known to do differently, register by register:   *)
(* the byte swap of a halfword; the link register of a branch that is not  *)
(* taken, and the target of one through the counter it decrements; the     *)
(* reserved bit of XER that mcrxr copies; the alignment stwcx. requires.   *)
Differs(i, m) ==
  CASE i.op = "lhbrx"  -> {"gpr"}
    [] i.op = "sthbrx" -> {"mem"}
    [] i.op \in {"bc", "bclr", "bcctr"} ->
         (IF i.lk /\ ~BranchCondition(i, Unpacked(m)).taken THEN {"lr"} ELSE {})
           \cup (IF i.op = "bcctr" /\ Bit(i.bo, 2) = 0 THEN {"next"} ELSE {})
    [] i.op = "mcrxr" -> IF Bit(m.xer, W - 4) = 1 THEN {"cr"} ELSE {}
    [] i.op = "stwcx" -> IF CAddress(i, m, TRUE, FALSE) % 4 # 0
                         THEN {"next", "cr", "mem", "reserve"} ELSE {}
    [] OTHER -> {}

(* Both backends leave every register, bit, byte and the reservation the   *)
(* same, whatever the operands, the aliasing of the registers and the      *)
(* carries, but for the differences named above; and packing what was      *)
(* unpacked changes nothing.                                               *)
BackendsAgree ==
  \A part \in DOMAIN machine \ Differs(inst, before) : Packed(native)[part] = machine[part]

(* A halfword loaded with its bytes reversed is the two bytes of memory in *)
(* the other order, as the tests of lhbrx expect.                          *)
HalfwordReversed ==
  executed /\ inst.op = "lhbrx" =>
    native.gpr[inst.d] = Swapped(BigEndian(before.mem, CAddress(inst, before, TRUE, FALSE), 2), 2)
=============================================================================
