---------------------------- MODULE Instructions ----------------------------
(***************************************************************************)
(* What instructions do: ARM's, Thumb's, the shifter and adder they share, *)
(* and what becomes of one that an interrupt or an abort comes between     *)
(* (alu.rs, arm.rs, thumb.rs and Cpu::step in crates/arm).                 *)
(*                                                                         *)
(* The machine is the same one drawn small: a word has Bits bits instead   *)
(* of 32, a byte a quarter of that, and a word still takes four byte       *)
(* addresses, so the address space holds Modulus bytes.  Instructions are  *)
(* records of their fields; what picks one record from its bits is left    *)
(* out, and so are the transfers of another mode's registers (Registers    *)
(* has them), the coprocessors (Mmu has CP15) and cycle counts.            *)
(***************************************************************************)
EXTENDS Integers, Sequences

CONSTANTS
    Bits,        \* of a word: 32
    PageSize,    \* bytes of a page
    Regs,        \* the registers told apart: of 0 to 15
    Trials,      \* what is tried: programs, and where each starts from
    Stored,      \* what is in memory
    Interrupts   \* how often the interrupt line rises

(* The powers of two. *)
Power[n \in 0 .. 2 * Bits] == IF n = 0 THEN 1 ELSE 2 * Power[n - 1]
Modulus == Power[Bits]

Word == 0 .. Modulus - 1
ByteBits == Bits \div 4
HalfBits == Bits \div 2

Wrap(x) == x % Modulus
TopBit(x) == x >= Power[Bits - 1]
Signed(x) == IF TopBit(x) THEN x - Modulus ELSE x
BitOf(x, n) == (x \div Power[n]) % 2 = 1
Complement(x) == Modulus - 1 - x
ToInt(c) == IF c THEN 1 ELSE 0

(* The word whose bits are those in S. *)
WordOf(S) ==
    LET sum[n \in 0 .. Bits] ==
            IF n = 0 THEN 0 ELSE sum[n - 1] + (IF n - 1 \in S THEN Power[n - 1] ELSE 0)
    IN  sum[Bits]

(* An n-bit number as a word, by its sign. *)
SignExtend(x, n) == Wrap(IF BitOf(x, n - 1) THEN x - Power[n] ELSE x)
Rotate(x, n) == x \div Power[n] + Wrap(x * Power[Bits - n])

----------------------------------------------------------------------------
(* The shifter and the adder. *)

Shifted(value, carry) == [value |-> value, carry |-> carry]

(* Every kind by at least one and by less than a word. *)
ShiftWithin(kind, x, n) ==
    IF kind = "LSL" THEN Shifted(Wrap(x * Power[n]), BitOf(x, Bits - n))
    ELSE Shifted(CASE kind = "LSR" -> x \div Power[n]
                   [] kind = "ASR" -> Wrap(Signed(x) \div Power[n])
                   [] kind = "ROR" -> Rotate(x, n),
                 BitOf(x, n - 1))

Filled(x) == Shifted(IF TopBit(x) THEN Modulus - 1 ELSE 0, TopBit(x))

(* An amount of 0 stands for a whole word, or for a rotation through carry. *)
ShiftImmediate(kind, x, n, c) ==
    CASE n # 0 -> ShiftWithin(kind, x, n)
      [] n = 0 /\ kind = "LSL" -> Shifted(x, c)
      [] n = 0 /\ kind = "LSR" -> Shifted(0, TopBit(x))
      [] n = 0 /\ kind = "ASR" -> Filled(x)
      [] n = 0 /\ kind = "ROR" -> Shifted(x \div 2 + Power[Bits - 1] * ToInt(c), BitOf(x, 0))

(* mutant: a shift by a whole word loses its carry *)
ShiftRegisterLosingLast(kind, x, amount, c) ==
    LET n == amount % 256
    IN  CASE n = 0 -> Shifted(x, c)
          [] n # 0 /\ kind = "ROR" ->
                IF n % Bits = 0 THEN Shifted(x, TopBit(x)) ELSE ShiftWithin(kind, x, n % Bits)
          [] n \in 1 .. Bits - 1 /\ kind # "ROR" -> ShiftWithin(kind, x, n)
          [] n >= Bits /\ kind = "ASR" -> Filled(x)
          [] n >= Bits /\ kind \in {"LSL", "LSR"} -> Shifted(0, FALSE)

(* The lowest byte of a register says by how much, and by more than a word *)
(* it may be.                                                              *)
ShiftRegister(kind, x, amount, c) ==
    LET n == amount % 256
    IN  CASE n = 0 -> Shifted(x, c)
          [] n # 0 /\ kind = "ROR" ->
                IF n % Bits = 0 THEN Shifted(x, TopBit(x)) ELSE ShiftWithin(kind, x, n % Bits)
          [] n \in 1 .. Bits - 1 /\ kind # "ROR" -> ShiftWithin(kind, x, n)
          [] n >= Bits /\ kind = "ASR" -> Filled(x)
          [] n >= Bits /\ kind = "LSL" -> Shifted(0, n = Bits /\ BitOf(x, 0))
          [] n >= Bits /\ kind = "LSR" -> Shifted(0, n = Bits /\ TopBit(x))

AddWithCarry(a, b, c) ==
    LET sum == a + b + ToInt(c)
        value == Wrap(sum)
    IN  [value |-> value, carry |-> sum >= Modulus,
         overflow |-> TopBit(a) # TopBit(value) /\ TopBit(b) # TopBit(value)]

(* Carry says that nothing was borrowed. *)
SubWithBorrow(a, b, c) == AddWithCarry(a, Complement(b), c)

Saturated(x) ==
    LET most == Power[Bits - 1] - 1
    IN  CASE x > most -> most [] x < -most - 1 -> Power[Bits - 1] [] OTHER -> Wrap(x)
Saturates(x) == x \notin -Power[Bits - 1] .. Power[Bits - 1] - 1

----------------------------------------------------------------------------
(* The core and its memory.  The registers a mode has of its own are       *)
(* copied to and fro as set_mode does; of those only r13, r14 and the      *)
(* saved status matter here.                                               *)

Exchange(s, mode) ==
    LET put == [s.bank EXCEPT ![s.cpsr.mode] = [sp |-> s.r[13], lr |-> s.r[14], spsr |-> s.spsr]]
    IN  [s EXCEPT !.bank = put, !.r[13] = put[mode].sp, !.r[14] = put[mode].lr,
                  !.spsr = put[mode].spsr, !.cpsr.mode = mode]

WriteStatus(s, status) == [Exchange(s, status.mode) EXCEPT !.cpsr = status]

TargetOf(e) ==
    CASE e = "swi" -> "svc" [] e = "undefined" -> "und" [] e = "irq" -> "irq"
      [] e \in {"prefetchAbort", "dataAbort"} -> "abt"

(* The vector is told apart by its name. *)
Enter(s, e, lr) ==
    [Exchange(s, TargetOf(e)) EXCEPT
        !.spsr = s.cpsr, !.r[14] = Wrap(lr), !.cpsr.t = FALSE, !.cpsr.i = TRUE,
        !.vector = e, !.branched = TRUE]

DataAbort(s, a) == Enter([s EXCEPT !.far = a], "dataAbort", s.at + 8)
Undefined(s) == Enter(s, "undefined", s.at + (IF s.cpsr.t THEN 2 ELSE 4))

SetReg(s, x, v) == [s EXCEPT !.r[x] = v, !.branched = @ \/ x = 15]
SetNZ(s, v) == [s EXCEPT !.cpsr.n = TopBit(v), !.cpsr.z = (v = 0)]
SetC(s, c) == [s EXCEPT !.cpsr.c = c]
SetV(s, v) == [s EXCEPT !.cpsr.v = v]
SetQ(s, on) == [s EXCEPT !.cpsr.q = @ \/ on]
SetSum(s, sum) == SetV(SetC(SetNZ(s, sum.value), sum.carry), sum.overflow)

Passes(f, cond) ==
    CASE cond = "EQ" -> f.z              [] cond = "NE" -> ~f.z
      [] cond = "CS" -> f.c              [] cond = "CC" -> ~f.c
      [] cond = "MI" -> f.n              [] cond = "PL" -> ~f.n
      [] cond = "VS" -> f.v              [] cond = "VC" -> ~f.v
      [] cond = "HI" -> f.c /\ ~f.z      [] cond = "LS" -> ~f.c \/ f.z
      [] cond = "GE" -> f.n = f.v        [] cond = "LT" -> f.n # f.v
      [] cond = "GT" -> ~f.z /\ f.n = f.v
      [] cond = "LE" -> f.z \/ f.n # f.v
      [] cond = "AL" -> TRUE

Branch(s, a) ==
    SetReg(s, 15, LET t == Wrap(a) IN t - (t % (IF s.cpsr.t THEN 2 ELSE 4)))
BranchExchange(s, a) == Branch([s EXCEPT !.cpsr.t = BitOf(a, 0)], a)

PageOf(a) == a \div PageSize
Pages == {PageOf(a) : a \in Word}
CodePage == Modulus \div PageSize    \* the program has a page of its own
NoAddress == Modulus
Mapped(s, a) == PageOf(a) \in s.mapped

(* A word is rotated by where in it the address is; what is shorter is not. *)
ReadAligned(s, a) == s.mem[a \div 4]
Read(s, a, size) ==
    CASE size = "word" -> Rotate(ReadAligned(s, a), ByteBits * (a % 4))
      [] size = "half" -> (ReadAligned(s, a) \div Power[HalfBits * ((a % 4) \div 2)]) % Power[HalfBits]
      [] size = "byte" -> (ReadAligned(s, a) \div Power[ByteBits * (a % 4)]) % Power[ByteBits]

Patch(word, part, at, bits) ==
    word - Power[at] * ((word \div Power[at]) % Power[bits]) + Power[at] * (part % Power[bits])
Written(s, a, size, v) ==
    [s EXCEPT !.mem[a \div 4] =
        CASE size = "word" -> v
          [] size = "half" -> Patch(@, v, HalfBits * ((a % 4) \div 2), HalfBits)
          [] size = "byte" -> Patch(@, v, ByteBits * (a % 4), ByteBits)]

----------------------------------------------------------------------------
(* ARM.  The program counter reads as two instructions on, and as three    *)
(* where a register says how far to shift, or is stored.                   *)

Read15(s, x, extra) == IF x = 15 THEN Wrap(s.r[15] + extra) ELSE s.r[x]

Operand(s, by) ==
    CASE by.form = "imm" ->
            IF by.turn = 0 THEN Shifted(by.value, s.cpsr.c)
            ELSE LET v == Rotate(by.value, by.turn) IN Shifted(v, TopBit(v))
      [] by.form = "shift" -> ShiftImmediate(by.kind, s.r[by.rm], by.amount, s.cpsr.c)
      [] by.form = "reg" ->
            ShiftRegister(by.kind, Read15(s, by.rm, 4), Read15(s, by.rs, 4), s.cpsr.c)

Discards == {"TST", "TEQ", "CMP", "CMN"}
Sums == {"SUB", "CMP", "RSB", "ADD", "CMN", "ADC", "SBC", "RSC"}

SumOf(code, a, b, c) ==
    CASE code \in {"SUB", "CMP"} -> SubWithBorrow(a, b, TRUE)
      [] code = "RSB" -> SubWithBorrow(b, a, TRUE)
      [] code \in {"ADD", "CMN"} -> AddWithCarry(a, b, FALSE)
      [] code = "ADC" -> AddWithCarry(a, b, c)
      [] code = "SBC" -> SubWithBorrow(a, b, c)
      [] code = "RSC" -> SubWithBorrow(b, a, c)

BitLogic(code, a, b) ==
    CASE code \in {"AND", "TST"} -> a /\ b
      [] code \in {"EOR", "TEQ"} -> a # b
      [] code = "ORR" -> a \/ b
      [] code = "BIC" -> a /\ ~b

Logic(code, a, b) ==
    CASE code = "MOV" -> b
      [] code = "MVN" -> Complement(b)
      [] OTHER -> WordOf({n \in 0 .. Bits - 1 : BitLogic(code, BitOf(a, n), BitOf(b, n))})

(* Into the program counter with S, it returns from an exception. *)
DataProcessing(s, i) ==
    LET by == Operand(s, i.by)
        a == Read15(s, i.rn, IF i.by.form = "reg" THEN 4 ELSE 0)
        sum == SumOf(i.code, a, by.value, s.cpsr.c)
        value == IF i.code \in Sums THEN sum.value ELSE Logic(i.code, a, by.value)
        put == IF i.code \in Discards THEN s ELSE SetReg(s, i.rd, value)
    IN  CASE i.rd = 15 /\ i.code \notin Discards ->
                Branch(IF i.flags THEN WriteStatus(s, s.spsr) ELSE s, value)
          [] (i.rd # 15 \/ i.code \in Discards) /\ i.flags ->
                IF i.code \in Sums THEN SetSum(put, sum)
                ELSE SetC(SetNZ(put, value), by.carry)
          [] OTHER -> put

(* MSR of the flags, all that User may change: the topmost bits. *)
WriteFlags(s, i) ==
    LET v == Operand(s, i.by).value
    IN  [s EXCEPT !.cpsr.n = BitOf(v, Bits - 1), !.cpsr.z = BitOf(v, Bits - 2),
                  !.cpsr.c = BitOf(v, Bits - 3), !.cpsr.v = BitOf(v, Bits - 4),
                  !.cpsr.q = IF Bits > 4 THEN BitOf(v, Bits - 5) ELSE s.cpsr.q]

Multiply(s, i) ==
    LET v == Wrap(s.r[i.rm] * s.r[i.rs] + (IF i.add THEN s.r[i.rn] ELSE 0))
        put == SetReg(s, i.rd, v)
    IN  IF i.flags THEN SetNZ(put, v) ELSE put

(* A double word: rd is its upper half, rn its lower. *)
Double(s, i) == s.r[i.rd] * Modulus + s.r[i.rn]
SetDouble(s, i, x) ==
    SetReg(SetReg(s, i.rn, Wrap(x)), i.rd, (x \div Modulus) % Modulus)

MultiplyLong(s, i) ==
    LET product == IF i.signed THEN Signed(s.r[i.rm]) * Signed(s.r[i.rs])
                   ELSE s.r[i.rm] * s.r[i.rs]
        v == (product + (IF i.add THEN Double(s, i) ELSE 0)) % Power[2 * Bits]
        put == SetDouble(s, i, v)
    IN  IF i.flags
        THEN [put EXCEPT !.cpsr.n = BitOf(v, 2 * Bits - 1), !.cpsr.z = (v = 0)]
        ELSE put

(* QADD, QSUB, QDADD and QDSUB. *)
Saturating(s, i) ==
    LET n == Signed(s.r[i.rn]) * (IF i.double THEN 2 ELSE 1)
        by == IF i.double THEN Signed(Saturated(n)) ELSE n
        sum == Signed(s.r[i.rm]) + (IF i.sub THEN -by ELSE by)
    IN  SetQ(SetReg(s, i.rd, Saturated(sum)), Saturates(sum) \/ Saturates(n))

HalfOf(x, high) ==
    Signed(SignExtend(IF high THEN x \div Power[HalfBits] ELSE x % Power[HalfBits], HalfBits))

(* SMLAxy, SMLAWy, SMULWy, SMLALxy and SMULxy. *)
SignedMultiply(s, i) ==
    LET y == HalfOf(s.r[i.rs], i.y)
        product == HalfOf(s.r[i.rm], i.x) * y
        wide == (Signed(s.r[i.rm]) * y) \div Power[HalfBits]
        added(v) == SetQ(SetReg(s, i.rd, Wrap(v + s.r[i.rn])), Saturates(v + Signed(s.r[i.rn])))
    IN  CASE i.code = "SMLA" -> added(product)
          [] i.code = "SMLAW" -> added(wide)
          [] i.code = "SMULW" -> SetReg(s, i.rd, Wrap(wide))
          [] i.code = "SMLAL" -> SetDouble(s, i, (product + Double(s, i)) % Power[2 * Bits])
          [] i.code = "SMUL" -> SetReg(s, i.rd, Wrap(product))

CountLeadingZeros(s, i) ==
    SetReg(s, i.rd,
           CHOOSE n \in 0 .. Bits :
               /\ s.r[i.rm] < Power[Bits - n]
               /\ n < Bits => s.r[i.rm] >= Power[Bits - n - 1])

----------------------------------------------------------------------------
(* Transfers of ARM. *)

Swap(s, i) ==
    LET a == s.r[i.rn]
        size == IF i.byte THEN "byte" ELSE "word"
    IN  IF Mapped(s, a)
        THEN SetReg(Written(s, a, size, s.r[i.rm]), i.rd, Read(s, a, size))
        ELSE DataAbort(s, a)

Moved(s, i, offset) == Wrap(s.r[i.rn] + (IF i.up THEN offset ELSE -offset))
AddressOf(s, i, offset) == IF i.pre THEN Moved(s, i, offset) ELSE s.r[i.rn]

(* Halfwords, signed bytes and doublewords.  The base is written last. *)
ExtraTransfer(s, i) ==
    LET offset == IF i.by.form = "imm" THEN i.by.value ELSE s.r[i.by.rm]
        a == AddressOf(s, i, offset)
        next == Wrap(a + 4)
        v == Read(s, a, i.size)
        wide == IF i.size = "half" THEN HalfBits ELSE ByteBits
        done == CASE i.size # "double" /\ i.load ->
                        SetReg(s, i.rd, IF i.signed THEN SignExtend(v, wide) ELSE v)
                  [] i.size # "double" /\ ~i.load -> Written(s, a, "half", s.r[i.rd])
                  [] i.size = "double" /\ i.load ->
                        SetReg(SetReg(s, i.rd, Read(s, a, "word")), i.rd + 1, Read(s, next, "word"))
                  [] i.size = "double" /\ ~i.load ->
                        Written(Written(s, a, "word", s.r[i.rd]), next, "word", s.r[i.rd + 1])
        first == Written(s, a, "word", s.r[i.rd])
    IN  CASE ~Mapped(s, a) -> DataAbort(s, a)
          [] Mapped(s, a) /\ i.size = "double" /\ ~Mapped(s, next) ->
                DataAbort(IF i.load THEN s ELSE first, next)
          [] OTHER -> IF (i.writeback \/ ~i.pre) /\ i.rn # 15
                      THEN [done EXCEPT !.r[i.rn] = Moved(s, i, offset)] ELSE done

(* mutant: the base is written whether or not the access fails *)
SingleTransferMovingFirst(s, i) ==
    LET offset == Operand(s, i.by).value
        a == AddressOf(s, i, offset)
        size == IF i.byte THEN "byte" ELSE "word"
        moved == IF (i.writeback \/ ~i.pre) /\ i.rn # i.rd
                 THEN [s EXCEPT !.r[i.rn] = Moved(s, i, offset)] ELSE s
    IN  CASE ~Mapped(s, a) -> DataAbort(moved, a)
          [] Mapped(s, a) /\ ~i.load -> Written(moved, a, size, Read15(s, i.rd, 4))
          [] Mapped(s, a) /\ i.load /\ i.rd # 15 -> SetReg(moved, i.rd, Read(s, a, size))
          [] Mapped(s, a) /\ i.load /\ i.rd = 15 -> BranchExchange(moved, Read(s, a, size))

(* The base is written before what was loaded, which wins. *)
SingleTransfer(s, i) ==
    LET offset == Operand(s, i.by).value
        a == AddressOf(s, i, offset)
        size == IF i.byte THEN "byte" ELSE "word"
        moved == IF (i.writeback \/ ~i.pre) /\ i.rn # i.rd
                 THEN [s EXCEPT !.r[i.rn] = Moved(s, i, offset)] ELSE s
    IN  CASE ~Mapped(s, a) -> DataAbort(s, a)
          [] Mapped(s, a) /\ ~i.load -> Written(moved, a, size, Read15(s, i.rd, 4))
          [] Mapped(s, a) /\ i.load /\ i.rd # 15 -> SetReg(moved, i.rd, Read(s, a, size))
          [] Mapped(s, a) /\ i.load /\ i.rd = 15 -> BranchExchange(moved, Read(s, a, size))

(* Several registers, the lowest from the lowest address, until one fails. *)
(* The program counter is the last of a list, and is loaded by whoever asks.*)
MoveOne(s, move) ==
    CASE s.branched -> s
      [] ~s.branched /\ ~Mapped(s, move.address) -> DataAbort(s, move.address)
      [] ~s.branched /\ Mapped(s, move.address) /\ move.load ->
            IF move.reg = 15 THEN s
            ELSE [s EXCEPT !.r[move.reg] = ReadAligned(s, move.address)]
      [] ~s.branched /\ Mapped(s, move.address) /\ ~move.load ->
            Written(s, move.address, "word", Read15(s, move.reg, 4))

MoveAll(s, load, list, start) ==
    LET after[k \in 0 .. Len(list)] ==
            IF k = 0 THEN s
            ELSE MoveOne(after[k - 1], [load |-> load, reg |-> list[k],
                                        address |-> Wrap(start + 4 * (k - 1))])
    IN  after[Len(list)]

Listed(x, list) == \E k \in DOMAIN list : list[k] = x

BlockTransfer(s, i) ==
    LET size == 4 * Len(i.list)
        base == s.r[i.rn]
        start == CASE i.up -> base + (IF i.pre THEN 4 ELSE 0)
                   [] ~i.up -> base - size + (IF i.pre THEN 0 ELSE 4)
        moved == MoveAll(s, i.load, i.list, start)
        based == IF i.writeback /\ ~(i.load /\ Listed(i.rn, i.list))
                 THEN [moved EXCEPT !.r[i.rn] = Wrap(IF i.up THEN base + size ELSE base - size)]
                 ELSE moved
    IN  CASE moved.branched -> moved
          [] ~moved.branched /\ i.load /\ Listed(15, i.list) ->
                BranchExchange(based, ReadAligned(s, Wrap(start + size - 4)))
          [] OTHER -> based

ArmBranch(s, i) ==
    CASE i.code = "B" -> Branch(s, s.r[15] + i.offset)
      [] i.code = "BL" ->
            Branch([s EXCEPT !.r[14] = Wrap(s.at + 4)], s.r[15] + i.offset)
      [] i.code = "BX" -> BranchExchange(s, s.r[i.rm])
      [] i.code = "BLX" -> BranchExchange([s EXCEPT !.r[14] = Wrap(s.at + 4)], s.r[i.rm])
      [] i.code = "BLXI" ->
            Branch([s EXCEPT !.r[14] = Wrap(s.at + 4), !.cpsr.t = TRUE], s.r[15] + i.offset)

(* The registers are those a condition, or none, lets the instruction find. *)
ExecuteArm(s, i) ==
    IF ~Passes(s.cpsr, i.cond) THEN s
    ELSE CASE i.op = "data" -> DataProcessing(s, i)
           [] i.op = "msr" -> WriteFlags(s, i)
           [] i.op = "multiply" -> Multiply(s, i)
           [] i.op = "long" -> MultiplyLong(s, i)
           [] i.op = "saturating" -> Saturating(s, i)
           [] i.op = "signed" -> SignedMultiply(s, i)
           [] i.op = "clz" -> CountLeadingZeros(s, i)
           [] i.op = "swap" -> Swap(s, i)
           [] i.op = "extra" -> ExtraTransfer(s, i)
           [] i.op = "single" -> SingleTransfer(s, i)
           [] i.op = "block" -> BlockTransfer(s, i)
           [] i.op = "branch" -> ArmBranch(s, i)
           [] i.op = "swi" -> Enter(s, "swi", s.at + 4)
           [] i.op = "undefined" -> Undefined(s)

----------------------------------------------------------------------------
(* Thumb. *)

SetLogic(s, rd, v) == SetNZ(SetReg(s, rd, v), v)

ThumbShift(s, i) ==
    LET by == ShiftImmediate(i.kind, s.r[i.rs], i.amount, s.cpsr.c)
    IN  SetC(SetLogic(s, i.rd, by.value), by.carry)

ThumbAddSub(s, i) ==
    LET b == IF i.form = "imm" THEN i.value ELSE s.r[i.rn]
        sum == IF i.sub THEN SubWithBorrow(s.r[i.rs], b, TRUE)
               ELSE AddWithCarry(s.r[i.rs], b, FALSE)
    IN  SetSum(SetReg(s, i.rd, sum.value), sum)

ThumbImmediate(s, i) ==
    LET sum == IF i.code = "ADD" THEN AddWithCarry(s.r[i.rd], i.value, FALSE)
               ELSE SubWithBorrow(s.r[i.rd], i.value, TRUE)
    IN  CASE i.code = "MOV" -> SetLogic(s, i.rd, i.value)
          [] i.code = "CMP" -> SetSum(s, sum)
          [] i.code \in {"ADD", "SUB"} -> SetSum(SetReg(s, i.rd, sum.value), sum)

(* mutant: NEG takes its operand for what it subtracts from *)
ThumbAluNegating(s, i) ==
    LET sum == SubWithBorrow(s.r[i.rs], 0, TRUE)
    IN  SetSum(SetReg(s, i.rd, sum.value), sum)

ThumbAlu(s, i) ==
    LET a == s.r[i.rd]
        b == s.r[i.rs]
        c == s.cpsr.c
        by == ShiftRegister(i.code, a, b, c)
        sum == CASE i.code = "ADC" -> AddWithCarry(a, b, c)
                 [] i.code = "SBC" -> SubWithBorrow(a, b, c)
                 [] i.code = "NEG" -> SubWithBorrow(0, b, TRUE)
                 [] i.code = "CMP" -> SubWithBorrow(a, b, TRUE)
                 [] i.code = "CMN" -> AddWithCarry(a, b, FALSE)
    IN  CASE i.code \in {"LSL", "LSR", "ASR", "ROR"} ->
                SetC(SetLogic(s, i.rd, by.value), by.carry)
          [] i.code \in {"ADC", "SBC", "NEG"} -> SetSum(SetReg(s, i.rd, sum.value), sum)
          [] i.code \in {"CMP", "CMN"} -> SetSum(s, sum)
          [] i.code = "TST" -> SetNZ(s, Logic("TST", a, b))
          [] i.code = "MUL" -> SetLogic(s, i.rd, Wrap(a * b))
          [] i.code \in {"AND", "EOR", "ORR", "BIC", "MVN"} ->
                SetLogic(s, i.rd, Logic(i.code, a, b))

ThumbHighRegister(s, i) ==
    LET a == s.r[i.rd]
        b == s.r[i.rs]
        v == IF i.code = "ADD" THEN Wrap(a + b) ELSE b
        linked == [s EXCEPT !.r[14] = Wrap(s.at + 2) + 1]
    IN  CASE i.code \in {"ADD", "MOV"} -> IF i.rd = 15 THEN Branch(s, v) ELSE SetReg(s, i.rd, v)
          [] i.code = "CMP" -> SetSum(s, SubWithBorrow(a, b, TRUE))
          [] i.code = "BX" -> BranchExchange(s, b)
          [] i.code = "BLX" -> BranchExchange(linked, b)

Aligned(x) == x - (x % 4)

(* Relative to a register, to r13 or to the program counter. *)
ThumbAddress(s, i) ==
    CASE i.form = "reg" -> Wrap(s.r[i.rb] + s.r[i.ro])
      [] i.form = "imm" ->
            Wrap((IF i.rb = 15 THEN Aligned(s.r[15]) ELSE s.r[i.rb])
                    + i.value * (CASE i.size = "word" -> 4 [] i.size = "half" -> 2
                                   [] i.size = "byte" -> 1))

ThumbTransfer(s, i) ==
    LET a == ThumbAddress(s, i)
        v == Read(s, a, i.size)
        wide == IF i.size = "half" THEN HalfBits ELSE ByteBits
    IN  CASE ~Mapped(s, a) -> DataAbort(s, a)
          [] Mapped(s, a) /\ ~i.load -> Written(s, a, i.size, s.r[i.rd])
          [] Mapped(s, a) /\ i.load ->
                SetReg(s, i.rd, IF i.signed THEN SignExtend(v, wide) ELSE v)

(* r13 moved by words, or a register set relative to it or to r15. *)
ThumbMoveStack(s, i) ==
    [s EXCEPT !.r[13] = Wrap(IF i.sub THEN @ - 4 * i.value ELSE @ + 4 * i.value)]
ThumbSetAddress(s, i) ==
    SetReg(s, i.rd, Wrap((IF i.rb = 13 THEN s.r[13] ELSE Aligned(s.r[15])) + 4 * i.value))

(* The stack pointer moves before anything is stored. *)
ThumbPush(s, i) ==
    LET down == Wrap(s.r[13] - 4 * Len(i.list))
    IN  MoveAll([s EXCEPT !.r[13] = down], FALSE, i.list, down)

ThumbPop(s, i) ==
    LET base == s.r[13]
        up == Wrap(base + 4 * Len(i.list))
        moved == MoveAll(s, TRUE, i.list, base)
        popped == [moved EXCEPT !.r[13] = up]
    IN  CASE moved.branched -> moved
          [] ~moved.branched /\ Listed(15, i.list) ->
                BranchExchange(popped, ReadAligned(s, Wrap(up - 4)))
          [] OTHER -> popped

ThumbBlockTransfer(s, i) ==
    LET moved == MoveAll(s, i.load, i.list, s.r[i.rb])
    IN  IF moved.branched \/ (i.load /\ Listed(i.rb, i.list)) THEN moved
        ELSE [moved EXCEPT !.r[i.rb] = Wrap(s.r[i.rb] + 4 * Len(i.list))]

(* The halves of BL and BLX: r14 holds the way between them. *)
ThumbBranchLink(s, i) ==
    LET target == s.r[14] + i.offset
        linked == [s EXCEPT !.r[14] = Wrap(s.at + 2) + 1]
    IN  CASE i.code = "first" -> [s EXCEPT !.r[14] = Wrap(s.r[15] + i.offset)]
          [] i.code = "second" -> Branch(linked, target)
          [] i.code = "exchange" -> Branch([linked EXCEPT !.cpsr.t = FALSE], target)

ExecuteThumb(s, i) ==
    CASE i.op = "shift" -> ThumbShift(s, i)
      [] i.op = "addSub" -> ThumbAddSub(s, i)
      [] i.op = "immediate" -> ThumbImmediate(s, i)
      [] i.op = "alu" -> ThumbAlu(s, i)
      [] i.op = "high" -> ThumbHighRegister(s, i)
      [] i.op = "transfer" -> ThumbTransfer(s, i)
      [] i.op = "stack" -> ThumbMoveStack(s, i)
      [] i.op = "address" -> ThumbSetAddress(s, i)
      [] i.op = "push" -> ThumbPush(s, i)
      [] i.op = "pop" -> ThumbPop(s, i)
      [] i.op = "several" -> ThumbBlockTransfer(s, i)
      [] i.op = "jump" -> IF Passes(s.cpsr, i.cond) THEN Branch(s, s.r[15] + i.offset) ELSE s
      [] i.op = "long" -> ThumbBranchLink(s, i)
      [] i.op = "swi" -> Enter(s, "swi", s.at + 2)
      [] i.op = "undefined" -> Undefined(s)

----------------------------------------------------------------------------
(* What there is to execute: the fields decoding finds, and their values.  *)
(* ARM has no use for r15 in products, swaps and doublewords ("UNPREDICT-  *)
(* ABLE"); the return from an exception is left to the handler.            *)

General == Regs \ {15}
Lower == Regs \cap 0 .. 7
Kinds == {"LSL", "LSR", "ASR", "ROR"}
Logics == {"AND", "TST", "EOR", "TEQ", "ORR", "MOV", "BIC", "MVN"}
Conditions ==
    {"EQ", "NE", "CS", "CC", "MI", "PL", "VS", "VC", "HI", "LS", "GE", "LT", "GT", "LE"}
Conds == Conditions \cup {"AL"}
Amounts == 0 .. Bits - 1

Operands ==
    [form : {"imm"}, value : Word, turn : Amounts]
        \cup [form : {"shift"}, rm : Regs, kind : Kinds, amount : Amounts]
        \cup [form : {"reg"}, rm : Regs, kind : Kinds, rs : Regs]

ArmData ==
    [op : {"data"}, cond : Conds, code : Sums \cup Logics, flags : BOOLEAN,
     rd : Regs, rn : Regs, by : Operands]
ArmProducts ==
    [op : {"multiply"}, cond : Conds, add : BOOLEAN, flags : BOOLEAN,
     rd : General, rn : General, rm : General, rs : General]
        \cup [op : {"long"}, cond : Conds, signed : BOOLEAN, add : BOOLEAN, flags : BOOLEAN,
              rd : General, rn : General, rm : General, rs : General]
        \cup [op : {"saturating"}, cond : Conds, double : BOOLEAN, sub : BOOLEAN,
              rd : General, rn : General, rm : General]
        \cup [op : {"signed"}, cond : Conds, code : {"SMLA", "SMLAW", "SMULW", "SMLAL", "SMUL"},
              x : BOOLEAN, y : BOOLEAN, rd : General, rn : General, rm : General, rs : General]
        \cup [op : {"clz"}, cond : Conds, rd : General, rm : General]
ArmTransfers ==
    [op : {"swap"}, cond : Conds, byte : BOOLEAN, rd : General, rn : General, rm : General]
        \cup [op : {"extra"}, cond : Conds, load : BOOLEAN, size : {"half", "byte"},
              signed : BOOLEAN, pre : BOOLEAN, up : BOOLEAN, writeback : BOOLEAN,
              rd : General, rn : Regs, by : Operands]
        \cup [op : {"extra"}, cond : Conds, load : BOOLEAN, size : {"double"},
              signed : BOOLEAN, pre : BOOLEAN, up : BOOLEAN, writeback : BOOLEAN,
              rd : {x \in General : x + 1 \in General}, rn : Regs, by : Operands]
        \cup [op : {"single"}, cond : Conds, load : BOOLEAN, byte : BOOLEAN, pre : BOOLEAN,
              up : BOOLEAN, writeback : BOOLEAN, rd : Regs, rn : Regs, by : Operands]
        \cup [op : {"block"}, cond : Conds, load : BOOLEAN, up : BOOLEAN, pre : BOOLEAN,
              writeback : BOOLEAN, rn : General, list : Seq(Regs)]
ArmOthers ==
    [op : {"msr"}, cond : Conds, by : Operands]
        \cup [op : {"branch"}, cond : Conds, code : {"B", "BL", "BLXI"}, offset : Int]
        \cup [op : {"branch"}, cond : Conds, code : {"BX", "BLX"}, rm : Regs]
        \cup [op : {"swi", "undefined"}, cond : Conds]
ArmInstructions ==
    {i \in ArmData : i.rd = 15 /\ i.flags => i.code \in Discards}
        \cup ArmProducts \cup ArmTransfers \cup ArmOthers

Scaled == 0 .. Modulus \div 4 - 1

ThumbOnRegisters ==
    [op : {"shift"}, kind : Kinds \ {"ROR"}, rd : Lower, rs : Lower, amount : Amounts]
        \cup [op : {"addSub"}, form : {"imm", "reg"}, sub : BOOLEAN,
              rd : Lower, rs : Lower, rn : Lower, value : Word]
        \cup [op : {"immediate"}, code : {"MOV", "CMP", "ADD", "SUB"}, rd : Lower, value : Word]
        \cup [op : {"alu"}, rd : Lower, rs : Lower,
              code : Kinds \cup {"AND", "EOR", "ADC", "SBC", "TST", "NEG", "CMP", "CMN",
                               "ORR", "MUL", "BIC", "MVN"}]
        \cup [op : {"high"}, code : {"ADD", "CMP", "MOV", "BX", "BLX"}, rd : Regs, rs : Regs]
        \cup [op : {"stack"}, sub : BOOLEAN, value : Scaled]
        \cup [op : {"address"}, form : {"imm"}, rd : Lower, rb : {13, 15}, value : Scaled]
ThumbTransfers ==
    [op : {"transfer"}, form : {"imm", "reg"}, load : BOOLEAN, size : {"word", "half", "byte"},
     signed : {FALSE}, rd : Lower, rb : Lower, ro : Lower, value : Scaled]
        \cup [op : {"transfer"}, form : {"imm", "reg"}, load : {TRUE}, size : {"half", "byte"},
              signed : {TRUE}, rd : Lower, rb : Lower, ro : Lower, value : Scaled]
        \cup [op : {"transfer"}, form : {"imm"}, load : BOOLEAN, size : {"word"},
              signed : {FALSE}, rd : Lower, rb : {13, 15}, value : Scaled]
        \cup [op : {"several"}, load : BOOLEAN, rb : Lower, list : Seq(Lower)]
        \cup [op : {"push"}, list : Seq(Lower \cup {14})]
        \cup [op : {"pop"}, list : Seq(Lower \cup {15})]
ThumbOthers ==
    [op : {"jump"}, cond : Conds, offset : Int]
        \cup [op : {"long"}, code : {"first", "second", "exchange"}, offset : Int]
        \cup [op : {"swi", "undefined"}]
ThumbInstructions == ThumbOnRegisters \cup ThumbTransfers \cup ThumbOthers

(* The program counter goes on to the next instruction. *)
ArmGoesOn(i) ==
    CASE i.op = "branch" -> FALSE
      [] i.op \in {"data", "single"} -> i.rd # 15
      [] i.op = "block" -> ~Listed(15, i.list)
      [] OTHER -> TRUE
ThumbGoesOn(i) ==
    CASE i.op = "jump" -> FALSE
      [] i.op = "high" -> i.code \in {"ADD", "CMP", "MOV"} /\ i.rd # 15
      [] i.op = "pop" -> ~Listed(15, i.list)
      [] i.op = "long" -> i.code = "first"
      [] OTHER -> TRUE

(* Only the last instruction of what is tried goes elsewhere. *)
IsProgram(p, thumb) ==
    /\ p \in Seq(IF thumb THEN ThumbInstructions ELSE ArmInstructions)
    /\ \A k \in 1 .. Len(p) - 1 : IF thumb THEN ThumbGoesOn(p[k]) ELSE ArmGoesOn(p[k])
    /\ (IF thumb THEN 2 ELSE 4) * Len(p) <= Modulus

ASSUME WordAssumption ==
    /\ Bits \in 1 .. 255 /\ Bits % 4 = 0    \* a byte counts them
    /\ PageSize \in Nat /\ PageSize > 0
    /\ Regs \subseteq 0 .. 15 /\ {0, 13, 14, 15} \subseteq Regs
    /\ Stored \in [0 .. Modulus \div 4 - 1 -> Word]
    /\ Interrupts \in Nat
ASSUME TrialsAssumption ==
    \A trial \in Trials :
        /\ trial.thumb \in BOOLEAN
        /\ \A p \in trial.programs : IsProgram(p, trial.thumb)
        /\ \A r \in trial.registers : r \in [Regs -> Word] /\ r[15] = 0
        /\ trial.carries \subseteq BOOLEAN
        /\ \A m \in trial.maps : m \subseteq Pages \cup {CodePage}

----------------------------------------------------------------------------
(* The core runs a program, and a handler whatever it goes to: the guest's *)
(* maps the page that was missing or quiets the line, and goes back the    *)
(* way the architecture says its exception is gone back from.              *)

VARIABLES
    cpu,         \* the machine, its memory, and what of it is mapped
    program,     \* the instructions at the addresses from 0 on
    left,        \* how many of them are not through
    line,        \* the interrupt line
    rises,       \* how often it still rises
    wanted       \* history: what the program comes to when nothing comes between

vars == <<cpu, program, left, line, rises, wanted>>

Width(s) == IF s.cpsr.t THEN 2 ELSE 4

Fetched(s) ==
    [s EXCEPT !.at = s.r[15], !.branched = FALSE, !.r[15] = Wrap(@ + 2 * Width(s))]

(* One instruction, from the address it is at. *)
Onward(s, done) ==
    IF done.branched THEN done ELSE [done EXCEPT !.r[15] = Wrap(s.r[15] + Width(s))]
Execute(s, i) ==
    Onward(s, IF s.cpsr.t THEN ExecuteThumb(Fetched(s), i) ELSE ExecuteArm(Fetched(s), i))

(* What User sees, besides which pages there are. *)
Seen(s) == [r |-> s.r, cpsr |-> s.cpsr, mem |-> s.mem]

(* The guest's answer to a call, or to what is no instruction, is to go on. *)
Plainly(s, i) ==
    IF i.op \in {"swi", "undefined"} THEN [s EXCEPT !.r[15] = Wrap(@ + Width(s))]
    ELSE Execute(s, i)

Straight(s, p) ==
    LET after[k \in 0 .. Len(p)] == IF k = 0 THEN s ELSE Plainly(after[k - 1], p[k])
    IN  after[Len(p)]

User == [mode |-> "usr", n |-> FALSE, z |-> FALSE, c |-> FALSE, v |-> FALSE, q |-> FALSE,
         t |-> FALSE, i |-> FALSE]

Begun(thumb, registers, carry, mapped) ==
    [r |-> registers, cpsr |-> [User EXCEPT !.t = thumb, !.c = carry], spsr |-> User,
     bank |-> [m \in {"usr", "irq", "abt", "svc", "und"} |-> [sp |-> 0, lr |-> 0, spsr |-> User]],
     vector |-> "none", far |-> NoAddress, at |-> 0, branched |-> FALSE,
     mem |-> Stored, mapped |-> mapped]

Init ==
    \E trial \in Trials :
    \E p \in trial.programs, r \in trial.registers, c \in trial.carries, m \in trial.maps :
        LET start == Begun(trial.thumb, r, c, m)
        IN  /\ cpu = start
            /\ program = p
            /\ left = Len(p)
            /\ line = FALSE
            /\ rises = Interrupts
            /\ wanted = Seen(Straight([start EXCEPT !.mapped = Pages], p))

InProgram == cpu.cpsr.mode = "usr"
Index == cpu.r[15] \div Width(cpu) + 1
Finished == InProgram /\ (left = 0 \/ Index \notin DOMAIN program)

LineRises ==
    /\ rises > 0 /\ ~Finished
    /\ line' = TRUE
    /\ rises' = rises - 1
    /\ UNCHANGED <<cpu, program, left, wanted>>

(* Between two instructions. *)
TakeInterrupt ==
    /\ line /\ ~cpu.cpsr.i /\ ~Finished
    /\ cpu' = Enter(cpu, "irq", cpu.r[15] + 4)
    /\ UNCHANGED <<program, left, line, rises, wanted>>

Undisturbed == InProgram /\ ~Finished /\ (line => cpu.cpsr.i)

FetchAborts ==
    /\ Undisturbed /\ CodePage \notin cpu.mapped
    /\ cpu' = Enter(cpu, "prefetchAbort", cpu.r[15] + 4)
    /\ UNCHANGED <<program, left, line, rises, wanted>>

Step ==
    /\ Undisturbed /\ CodePage \in cpu.mapped
    /\ cpu' = Execute(cpu, program[Index])
    /\ left' = IF cpu'.cpsr.mode = "abt" THEN left ELSE left - 1
    /\ UNCHANGED <<program, line, rises, wanted>>

(* SUBS pc, r14, #n *)
GoBack(n) ==
    [op |-> "data", cond |-> "AL", code |-> "SUB", flags |-> TRUE, rd |-> 15, rn |-> 14,
     by |-> [form |-> "imm", value |-> n, turn |-> 0]]

Handle ==
    /\ ~InProgram
    /\ LET repaired == [cpu EXCEPT !.mapped = @ \cup
                           (CASE cpu.vector = "prefetchAbort" -> {CodePage}
                              [] cpu.vector = "dataAbort" -> {PageOf(cpu.far)}
                              [] OTHER -> {})]
           behind == CASE cpu.vector \in {"irq", "prefetchAbort"} -> 4
                       [] cpu.vector = "dataAbort" -> 8
                       [] cpu.vector \in {"swi", "undefined"} -> 0
       IN  cpu' = Execute(repaired, GoBack(behind))
    /\ line' = (line /\ cpu.vector # "irq")
    /\ UNCHANGED <<program, left, rises, wanted>>

Next == LineRises \/ TakeInterrupt \/ FetchAborts \/ Step \/ Handle

Spec == Init /\ [][Next]_vars

----------------------------------------------------------------------------
(* Thumb PUSH has moved r13 when it fails, and a load may have replaced    *)
(* its own base: done again, they start from somewhere else.               *)
Repeatable(i) ==
    LET loses(base, list) == Listed(base, list) /\ list[Len(list)] # base
    IN  CASE i.op = "push" -> FALSE
          [] i.op = "several" -> ~(i.load /\ loses(i.rb, i.list))
          [] i.op = "block" -> ~(i.load /\ loses(i.rn, i.list))
          [] OTHER -> TRUE

(* A program comes to the same whatever comes between: an interrupt before *)
(* any instruction, the second half of a BL included, a page of the code   *)
(* or of the data that has to be mapped first, in either instruction set.  *)
(* Those that cannot be done again are held to it only if they never fail. *)
ProgramsAreUndisturbed ==
    Finished =>
        \/ Seen(cpu) = wanted
        \/ /\ cpu.far # NoAddress
           /\ \E k \in DOMAIN program : ~Repeatable(program[k])

----------------------------------------------------------------------------
(* The instruction of ARM a Thumb instruction abbreviates. *)

Register(x) == [form |-> "shift", rm |-> x, kind |-> "LSL", amount |-> 0]
Immediate(n) == [form |-> "imm", value |-> n, turn |-> 0]
By(i) == IF i.form = "imm" THEN Immediate(i.value) ELSE Register(i.rn)
Data(code, rd, rn, by, flags) ==
    [op |-> "data", cond |-> "AL", code |-> code, flags |-> flags, rd |-> rd, rn |-> rn, by |-> by]
Single(i, by) ==
    [op |-> "single", cond |-> "AL", load |-> i.load, byte |-> i.size = "byte",
     pre |-> TRUE, up |-> TRUE, writeback |-> FALSE, rn |-> i.rb, rd |-> i.rd, by |-> by]
Extra(i, by) ==
    [op |-> "extra", cond |-> "AL", load |-> i.load, size |-> i.size, signed |-> i.signed,
     pre |-> TRUE, up |-> TRUE, writeback |-> FALSE, rn |-> i.rb, rd |-> i.rd, by |-> by]
Block(load, up, pre, rn, list) ==
    [op |-> "block", cond |-> "AL", load |-> load, up |-> up, pre |-> pre,
     writeback |-> TRUE, rn |-> rn, list |-> list]
Scale(size) == CASE size = "word" -> 4 [] size = "half" -> 2 [] size = "byte" -> 1

HasArm(i) ==
    CASE i.op = "high" -> i.code # "BLX"
      [] i.op \in {"transfer", "address"} -> i.form # "imm" \/ i.rb # 15
      [] i.op \in {"long", "swi", "undefined"} -> FALSE
      [] OTHER -> TRUE

AsArm(i) ==
    CASE i.op = "shift" ->
            Data("MOV", i.rd, 0, [form |-> "shift", rm |-> i.rs, kind |-> i.kind,
                                  amount |-> i.amount], TRUE)
      [] i.op = "addSub" -> Data(IF i.sub THEN "SUB" ELSE "ADD", i.rd, i.rs, By(i), TRUE)
      [] i.op = "immediate" -> Data(i.code, i.rd, i.rd, Immediate(i.value), TRUE)
      [] i.op = "alu" ->
            CASE i.code \in {"LSL", "LSR", "ASR", "ROR"} ->
                    Data("MOV", i.rd, 0, [form |-> "reg", rm |-> i.rd, kind |-> i.code,
                                          rs |-> i.rs], TRUE)
              [] i.code = "NEG" -> Data("RSB", i.rd, i.rs, Immediate(0), TRUE)
              [] i.code = "MUL" ->
                    [op |-> "multiply", cond |-> "AL", add |-> FALSE, flags |-> TRUE,
                     rd |-> i.rd, rn |-> 0, rm |-> i.rd, rs |-> i.rs]
              [] OTHER -> Data(i.code, i.rd, i.rd, Register(i.rs), TRUE)
      [] i.op = "high" ->
            IF i.code = "BX" THEN [op |-> "branch", cond |-> "AL", code |-> "BX", rm |-> i.rs]
            ELSE Data(i.code, i.rd, i.rd, Register(i.rs), i.code = "CMP")
      [] i.op = "transfer" ->
            LET by == IF i.form = "imm" THEN Immediate(i.value * Scale(i.size))
                      ELSE Register(i.ro)
            IN  IF i.size = "half" \/ i.signed THEN Extra(i, by) ELSE Single(i, by)
      [] i.op = "stack" ->
            Data(IF i.sub THEN "SUB" ELSE "ADD", 13, 13, Immediate(4 * i.value), FALSE)
      [] i.op = "address" -> Data("ADD", i.rd, i.rb, Immediate(4 * i.value), FALSE)
      [] i.op = "push" -> Block(FALSE, FALSE, TRUE, 13, i.list)
      [] i.op = "pop" -> Block(TRUE, TRUE, FALSE, 13, i.list)
      [] i.op = "several" -> Block(i.load, TRUE, FALSE, i.rb, i.list)
      [] i.op = "jump" -> [op |-> "branch", cond |-> i.cond, code |-> "B", offset |-> i.offset]

Reached == InProgram /\ ~Finished

(* thumb.rs and arm.rs decide apart what each instruction does; where one  *)
(* of Thumb is a short form of one of ARM they agree on the registers, the *)
(* flags, the memory and the abort.  PUSH leaves r13 moved if it fails.    *)
ThumbIsArm ==
    (Reached /\ cpu.cpsr.t /\ HasArm(program[Index])) =>
        LET i == program[Index]
            thumb == ExecuteThumb(Fetched(cpu), i)
        IN  \/ thumb = ExecuteArm(Fetched(cpu), AsArm(i))
            \/ i.op = "push" /\ thumb.cpsr.mode = "abt"

(* What a condition says of what was compared. *)
Tells(cond, a, b) ==
    LET sa == Signed(a)
        sb == Signed(b)
    IN  CASE cond = "EQ" -> a = b        [] cond = "NE" -> a # b
          [] cond = "CS" -> a >= b       [] cond = "CC" -> a < b
          [] cond = "HI" -> a > b        [] cond = "LS" -> a <= b
          [] cond = "GE" -> sa >= sb     [] cond = "LT" -> sa < sb
          [] cond = "GT" -> sa > sb      [] cond = "LE" -> sa <= sb
          [] cond = "MI" -> TopBit(Wrap(a - b)) [] cond = "PL" -> ~TopBit(Wrap(a - b))
          [] cond = "VS" -> Saturates(sa - sb) [] cond = "VC" -> ~Saturates(sa - sb)

(* What is done to general registers, as they are and whatever the flags. *)
OnRegisters(i, codes) ==
    /\ i.op = "data" /\ i.cond = "AL" /\ i.code \in codes
    /\ i.rd \in General /\ i.rn \in General
    /\ i.by \in {Register(x) : x \in General}

ComparesTruly(s, i) ==
    (OnRegisters(i, {"CMP"}) /\ i.flags) =>
        \A cond \in Conditions :
            Passes(Execute(s, i).cpsr, cond) = Tells(cond, s.r[i.rn], s.r[i.by.rm])

(* Two words at a time, the carry between them in the flags. *)
Pair(s, low, high) == s.r[low] + Modulus * s.r[high]
InTwo == {<<"ADD", "ADC">>, <<"SUB", "SBC">>, <<"RSB", "RSC">>}

CarriesTruly(s, low, high) ==
    (/\ OnRegisters(low, {"ADD", "SUB", "RSB"}) /\ low.flags
     /\ OnRegisters(high, {"ADC", "SBC", "RSC"}) /\ <<low.code, high.code>> \in InTwo
     /\ low.rd \notin {high.rd, high.rn, high.by.rm}) =>
        LET x == Pair(s, low.rn, high.rn)
            y == Pair(s, low.by.rm, high.by.rm)
        IN  Pair(Execute(Execute(s, low), high), low.rd, high.rd) =
                (CASE low.code = "ADD" -> x + y
                   [] low.code = "SUB" -> x - y
                   [] low.code = "RSB" -> y - x) % Power[2 * Bits]

(* One more place is one more shift, and an immediate 0 a whole word. *)
ShiftsTruly(s, i) ==
    (i.op = "data" /\ i.code = "MOV" /\ i.by.form = "reg" /\ {i.by.rm, i.by.rs} \subseteq General) =>
        LET x == s.r[i.by.rm]
            by(n) == ShiftRegister(i.by.kind, x, n, s.cpsr.c)
            n == s.r[i.by.rs]
        IN  /\ Operand(s, i.by) = by(n)
            /\ n % 256 # 255 =>
                   by(n + 1) = ShiftRegister(i.by.kind, by(n).value, 1, by(n).carry)
            /\ n < Bits =>
                   ShiftImmediate(i.by.kind, x, n, s.cpsr.c) =
                       CASE n # 0 \/ i.by.kind = "LSL" -> by(n)
                         [] n = 0 /\ i.by.kind \in {"LSR", "ASR"} -> by(Bits)
                         [] n = 0 /\ i.by.kind = "ROR" ->
                                [by(1) EXCEPT !.value = (x \div 2) + Power[Bits - 1] * ToInt(s.cpsr.c)]

(* Compilers build everything out of these: comparisons and the condition  *)
(* after them, sums of several words through the carry, and shifts by any  *)
(* amount a register holds.                                                *)
ArithmeticIsTrue ==
    (Reached /\ ~cpu.cpsr.t) =>
        LET i == program[Index]
        IN  /\ ComparesTruly(cpu, i)
            /\ ShiftsTruly(cpu, i)
            /\ Index < Len(program) => CarriesTruly(cpu, i, program[Index + 1])
=============================================================================
