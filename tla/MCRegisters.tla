---------------------------- MODULE MCRegisters ----------------------------
(***************************************************************************)
(* Two things about the core, which share no state, so that one rests      *)
(* while the other runs.  The registers: User, FIQ and Abort, a register   *)
(* FIQ has of its own and one every bank has of its own, which is both     *)
(* stack pointer and link.  The instructions: words of four bits, programs *)
(* of one or two instructions, each from every value of its operands or    *)
(* from addresses in every position in a page and a word.                  *)
(***************************************************************************)
EXTENDS Registers, Instructions, TLC

CONSTANTS Fast, Sp, Lr, Old, New

----------------------------------------------------------------------------
(* The programs tried, and what they start from. *)

Everything == Pages \cup {CodePage}
ShiftedBy(rm, kind, n) == [form |-> "shift", rm |-> rm, kind |-> kind, amount |-> n]
ByRegister(rm, kind, rs) == [form |-> "reg", rm |-> rm, kind |-> kind, rs |-> rs]
Turned(v, n) == [form |-> "imm", value |-> v, turn |-> n]

OnTwo ==
    {<<Data(code, 2, 0, Register(1), TRUE)>> : code \in Sums \cup Logics}
        \cup {<<Data("MOV", 2, 0, ByRegister(0, kind, 1), TRUE)>> : kind \in Kinds}
        \cup {<<Data(p[1], 2, 0, Register(1), TRUE), Data(p[2], 14, 1, Register(0), FALSE)>> :
                  p \in {<<"ADD", "ADC">>, <<"SUB", "SBC">>, <<"RSB", "RSC">>}}
OnOne ==
    {<<Data(code, 2, 0, by, TRUE)>> :
        code \in {"MOV", "AND", "ADC"},
        by \in {ShiftedBy(0, kind, n) : kind \in Kinds, n \in 0 .. 3}
                   \cup {Turned(v, n) : v \in {1, 3}, n \in {0, 2}}}
Other(r) == [cond |-> "AL"] @@ r
Products ==
    {<<Other([op |-> "multiply", add |-> add, flags |-> TRUE, rd |-> 2, rn |-> 13, rm |-> 0, rs |-> 1])>> : add \in BOOLEAN}
        \cup {<<Other([op |-> "long", signed |-> signed, add |-> add, flags |-> TRUE,
                       rd |-> 2, rn |-> 14, rm |-> 0, rs |-> 1])>> : signed, add \in BOOLEAN}
        \cup {<<Other([op |-> "saturating", double |-> double, sub |-> sub, rd |-> 2, rn |-> 0, rm |-> 1])>> :
                  double, sub \in BOOLEAN}
        \cup {<<Other([op |-> "signed", code |-> code, x |-> x, y |-> y, rd |-> 2, rn |-> 13, rm |-> 0, rs |-> 1])>> :
                  code \in {"SMLA", "SMLAW", "SMULW", "SMLAL", "SMUL"}, x, y \in BOOLEAN}
        \cup {<<Other([op |-> "clz", rd |-> 2, rm |-> 0])>>,
              <<Other([op |-> "msr", by |-> Register(0)])>>}

ThumbOnTwo ==
    {<<[op |-> "alu", code |-> code, rd |-> 0, rs |-> 1]>> :
        code \in {"AND", "EOR", "ADC", "SBC", "TST", "NEG", "CMP", "CMN", "ORR", "MUL", "BIC", "MVN"} \cup Kinds}
        \cup {<<[op |-> "addSub", form |-> form, sub |-> sub, rd |-> 2, rs |-> 0, rn |-> 1, value |-> 5]>> :
                  form \in {"imm", "reg"}, sub \in BOOLEAN}
        \cup {<<[op |-> "high", code |-> code, rd |-> rd, rs |-> 1]>> : code \in {"ADD", "MOV"}, rd \in {0, 15}}
        \cup {<<[op |-> "high", code |-> "CMP", rd |-> 0, rs |-> 1]>>}
ThumbOnOne ==
    {<<[op |-> "shift", kind |-> kind, rd |-> 1, rs |-> 0, amount |-> n]>> :
        kind \in {"LSL", "LSR", "ASR"}, n \in 0 .. 3}
        \cup {<<[op |-> "immediate", code |-> code, rd |-> 0, value |-> n]>> :
                  code \in {"MOV", "CMP", "ADD", "SUB"}, n \in {0, 1, 9}}
        \cup {<<[op |-> "high", code |-> code, rd |-> 0, rs |-> 0]>> : code \in {"BX", "BLX"}}

SinglesArm ==
    {<<Other([op |-> "single", load |-> load, byte |-> byte, pre |-> form[1], up |-> form[2],
              writeback |-> form[3], rn |-> 0, rd |-> rd, by |-> by])>> :
        load, byte \in BOOLEAN, rd \in {0, 1, 15},
        form \in {<<TRUE, TRUE, FALSE>>, <<TRUE, FALSE, TRUE>>, <<FALSE, TRUE, FALSE>>},
        by \in {Immediate(4), ShiftedBy(2, "LSR", 1)}}
ExtrasArm ==
    {<<Other([op |-> "extra", load |-> kind[1], size |-> kind[2], signed |-> kind[3], pre |-> form[1],
              up |-> form[2], writeback |-> form[3], rn |-> 2, rd |-> 0, by |-> by])>> :
        kind \in {<<TRUE, "half", FALSE>>, <<TRUE, "half", TRUE>>, <<TRUE, "byte", TRUE>>,
                  <<FALSE, "half", FALSE>>, <<TRUE, "double", FALSE>>, <<FALSE, "double", FALSE>>},
        form \in {<<TRUE, TRUE, FALSE>>, <<TRUE, FALSE, TRUE>>, <<FALSE, TRUE, FALSE>>},
        by \in {Immediate(4), Register(1)}}
BlocksArm ==
    {<<Block(load, up, pre, 0, list)>> :
        load, up, pre \in BOOLEAN, list \in {<<1>>, <<0, 1>>, <<1, 2, 15>>, <<1, 2, 14>>}}
SwapsArm == {<<Other([op |-> "swap", byte |-> byte, rn |-> 0, rd |-> rd, rm |-> 1])>> : byte \in BOOLEAN, rd \in {1, 2}}

ThumbMemory ==
    {<<[op |-> "transfer", form |-> form, load |-> kind[1], size |-> kind[2], signed |-> kind[3], rb |-> 0,
        ro |-> 1, rd |-> 2, value |-> 1]>> :
        form \in {"imm", "reg"},
        kind \in {<<FALSE, "word", FALSE>>, <<FALSE, "half", FALSE>>, <<FALSE, "byte", FALSE>>,
                  <<TRUE, "word", FALSE>>, <<TRUE, "half", FALSE>>, <<TRUE, "byte", FALSE>>,
                  <<TRUE, "half", TRUE>>, <<TRUE, "byte", TRUE>>}}
        \cup {<<[op |-> "transfer", form |-> "imm", load |-> load, size |-> "word", signed |-> FALSE, rb |-> rb,
                 rd |-> 2, value |-> 1]>> : load \in BOOLEAN, rb \in {13, 15}}
        \cup {<<[op |-> "several", load |-> load, rb |-> 0, list |-> list]>> :
                  load \in BOOLEAN, list \in {<<1>>, <<0, 1>>, <<1, 2>>}}
        \cup {<<[op |-> op, list |-> list]>> : op \in {"push", "pop"}, list \in {<<0, 1>>}}
        \cup {<<[op |-> "push", list |-> <<0, 14>>]>>, <<[op |-> "pop", list |-> <<0, 15>>]>>}

Increment == [op |-> "immediate", code |-> "ADD", rd |-> 1, value |-> 1]
Sum(cond) == [Data("ADD", 1, 0, Immediate(3), FALSE) EXCEPT !.cond = cond]
Flows ==
    {<<[op |-> "long", code |-> "first", offset |-> 8], [op |-> "long", code |-> code, offset |-> 2]>> :
        code \in {"second", "exchange"}}
        \cup {<<[op |-> op], Increment>> : op \in {"swi", "undefined"}}
        \cup {<<[op |-> "jump", cond |-> cond, offset |-> 4]>> : cond \in {"AL", "CS"}}
        \cup {<<[op |-> "stack", sub |-> sub, value |-> 1]>> : sub \in BOOLEAN}
        \cup {<<[op |-> "address", form |-> "imm", rd |-> 0, rb |-> rb, value |-> 1]>> : rb \in {13, 15}}
FlowsArm ==
    {<<Other([op |-> op]), Sum("AL")>> : op \in {"swi", "undefined"}}
        \cup {<<Other([op |-> "branch", code |-> code, offset |-> 4])>> : code \in {"B", "BL", "BLXI"}}
        \cup {<<Other([op |-> "branch", code |-> code, rm |-> 1])>> : code \in {"BX", "BLX"}}
        \cup {<<Data("CMP", 0, 0, Register(1), TRUE), Sum(cond)>> : cond \in Conditions}

Try(thumb, programs, r0s, r1s, carries, maps) ==
    [thumb |-> thumb, programs |-> programs, carries |-> carries, maps |-> maps,
     registers |-> {[x \in Regs |-> CASE x = 0 -> r0 [] x = 1 -> r1 [] x = 2 -> 6 [] x = 13 -> 4
                                      [] x = 14 -> 11 [] x = 15 -> 0] : r0 \in r0s, r1 \in r1s}]

Partly == {Everything, {}, {0, CodePage}, {1, CodePage}}
Tried ==
    {Try(FALSE, OnTwo, Word, Word, BOOLEAN, {Everything}),
     Try(FALSE, OnOne, Word, {9}, BOOLEAN, {Everything}),
     Try(FALSE, Products, Word, {0, 3, 8, 15}, {FALSE}, {Everything}),
     Try(FALSE, FlowsArm, {0, 7, 8}, {1, 8, 12}, {FALSE}, {Everything, {}}),
     Try(FALSE, SinglesArm \cup ExtrasArm \cup BlocksArm \cup SwapsArm, {0, 4, 6, 9}, {1, 8, 10}, {FALSE}, Partly),
     Try(TRUE, ThumbOnTwo, Word, {0, 1, 3, 4, 5, 8, 15}, BOOLEAN, {Everything}),
     Try(TRUE, ThumbOnOne, Word, {1}, BOOLEAN, {Everything}),
     Try(TRUE, ThumbMemory, {0, 4, 6, 9}, {1, 4, 10}, {FALSE}, Partly),
     Try(TRUE, Flows, {0, 7}, {1}, BOOLEAN, {Everything, {}})}
Scattered == [k \in 0 .. 3 |-> CASE k = 0 -> 9 [] k = 1 -> 6 [] k = 2 -> 13 [] k = 3 -> 2]

----------------------------------------------------------------------------
Numbers == [x \in {Fast, Sp, Lr} |-> CASE x = Fast -> 8 [] x = Sp -> 13 [] x = Lr -> 14]
NumbersOfTwo == [x \in {Fast, Lr} |-> IF x = Fast THEN 8 ELSE 14]
Several == SUBSET Names \ {{}}
Memory == {[x \in Names |-> New]}
Entered == {"usr", "fiq", "abt"}

NoProgram ==
    /\ cpu = Begun(FALSE, [x \in Regs |-> 0], FALSE, {})
    /\ program = <<>> /\ left = 0 /\ line = FALSE /\ rises = 0
    /\ wanted = Seen(cpu)

InitBoth ==
    /\ RegistersInit
    /\ \/ NoProgram
       \/ core.mode = "usr" /\ core.r[Lr] = Old /\ Init

NextBoth ==
    \/ program = <<>> /\ RegistersNext /\ UNCHANGED vars
    \/ program # <<>> /\ Next /\ UNCHANGED core

SpecBoth == InitBoth /\ [][NextBoth]_<<core, vars>>
=============================================================================
