----------------------------- MODULE Registers -----------------------------
(***************************************************************************)
(* The registers of the core: the live ones, the copies the other modes'   *)
(* are spilled to, exceptions, and the instructions that move several at   *)
(* once and may abort in the middle (cpu.rs, arm.rs and thumb.rs in        *)
(* crates/arm).                                                            *)
(*                                                                         *)
(* The code keeps one live set and swaps at a change of mode; RegisterFile *)
(* is what that must amount to.  The state is one record because the code  *)
(* composes its changes: an exception is a change of mode and then more.   *)
(* Arithmetic is left out: what an instruction puts in a register is any   *)
(* value.                                                                  *)
(***************************************************************************)
EXTENDS Naturals

CONSTANTS
    Low, Mid, Top,    \* names of r0 to r7, r8 to r12, r13 and r14
    Stack, Link,      \* r13 and r14
    Number,           \* which register a name is
    Values,
    Modes,            \* the modes the core is put in
    NoMode,           \* a saved status that was never saved
    Raised,           \* the exceptions that happen, other than data aborts
    Lists,            \* the sets of registers moved at once
    Contents          \* what is found in memory for them

Names == Low \cup Mid \cup Top
Bank(m) == IF m = "sys" THEN "usr" ELSE m
Banks == {"usr"} \cup {Bank(m) : m \in Modes}

Exceptions == {"reset", "undefined", "swi", "prefetchAbort", "dataAbort", "irq", "fiq"}

TargetMode(e) ==
    CASE e \in {"reset", "swi"} -> "svc"
      [] e = "undefined" -> "und"
      [] e \in {"prefetchAbort", "dataAbort"} -> "abt"
      [] e \in {"irq", "fiq"} -> e

ASSUME NamesAssumption ==
    /\ Mid \cap Top = {} /\ Low \cap Mid = {} /\ Low \cap Top = {}
    /\ Stack \in Top /\ Link \in Top
    /\ Number \in [Names -> Nat]
ASSUME ModesAssumption ==
    /\ Modes \subseteq {"usr", "sys", "fiq", "irq", "svc", "abt", "und"}
    /\ {"usr", "abt"} \subseteq Modes
    /\ NoMode \notin Modes
    /\ Raised \subseteq Exceptions
    /\ \A e \in Raised : TargetMode(e) \in Modes
ASSUME MemoryAssumption ==
    /\ \A list \in Lists : list \subseteq Names
    /\ Contents \subseteq [Names -> Values]

VARIABLE core    \* the Cpu

(* Statuses are modes; the flags are left out. *)
Core ==
    [mode : Modes,                                   \* cpsr
     r : [Names -> Values],
     spsr : Modes \cup {NoMode},
     top : [Banks -> [Top -> Values]],               \* banked_r13_14
     spsrs : [Banks -> Modes \cup {NoMode}],         \* banked_spsr
     usrMid : [Mid -> Values],                       \* banked_usr_r8_12
     fiqMid : [Mid -> Values]]                       \* banked_fiq_r8_12

RegistersTypeOK == core \in Core

RegistersInit ==
    \E m \in Modes, v \in Values :
        core = [mode |-> m,
                r |-> [x \in Names |-> v],
                spsr |-> NoMode,
                top |-> [b \in Banks |-> [x \in Top |-> v]],
                spsrs |-> [b \in Banks |-> NoMode],
                usrMid |-> [x \in Mid |-> v],
                fiqMid |-> [x \in Mid |-> v]]

----------------------------------------------------------------------------
(* Changes of mode, and User's registers from elsewhere. *)

SetMode(c, new) ==
    LET swaps == (c.mode = "fiq") # (new = "fiq")
        moves == Bank(c.mode) # Bank(new)
    IN  [mode |-> new,
         r |-> [x \in Names |->
                  IF x \in Mid /\ swaps
                  THEN IF new = "fiq" THEN c.fiqMid[x] ELSE c.usrMid[x]
                  ELSE IF x \in Top /\ moves THEN c.top[Bank(new)][x] ELSE c.r[x]],
         spsr |-> IF moves THEN c.spsrs[Bank(new)] ELSE c.spsr,
         top |-> IF moves
                 THEN [c.top EXCEPT ![Bank(c.mode)] = [x \in Top |-> c.r[x]]]
                 ELSE c.top,
         spsrs |-> IF moves THEN [c.spsrs EXCEPT ![Bank(c.mode)] = c.spsr] ELSE c.spsrs,
         usrMid |-> IF swaps /\ new = "fiq" THEN [x \in Mid |-> c.r[x]] ELSE c.usrMid,
         fiqMid |-> IF swaps /\ new # "fiq" THEN [x \in Mid |-> c.r[x]] ELSE c.fiqMid]

(* mutant: the mode is saved before the bank changes *)
EnterExceptionSavingFirst(c, e, lr) ==
    [SetMode([c EXCEPT !.spsr = c.mode], TargetMode(e)) EXCEPT !.r[Link] = lr]

EnterException(c, e, lr) ==
    [SetMode(c, TargetMode(e)) EXCEPT !.spsr = c.mode, !.r[Link] = lr]

UserReg(c, x) ==
    CASE c.mode = "fiq" /\ x \in Mid -> c.usrMid[x]
      [] Bank(c.mode) # "usr" /\ x \in Top -> c.top["usr"][x]
      [] OTHER -> c.r[x]

(* set_user_reg for every register of a list. *)
SetUserRegs(c, list, contents) ==
    LET live(x) == \/ x \in Low
                   \/ x \in Mid /\ c.mode # "fiq"
                   \/ x \in Top /\ Bank(c.mode) = "usr"
    IN  [c EXCEPT
          !.r = [x \in Names |-> IF x \in list /\ live(x) THEN contents[x] ELSE c.r[x]],
          !.usrMid = [x \in Mid |-> IF x \in list /\ ~live(x) THEN contents[x] ELSE c.usrMid[x]],
          !.top["usr"] = [x \in Top |-> IF x \in list /\ ~live(x) THEN contents[x] ELSE c.top["usr"][x]]]

SetRegs(c, list, contents) ==
    [c EXCEPT !.r = [x \in Names |-> IF x \in list THEN contents[x] ELSE c.r[x]]]

Load(c, list, contents, users) ==
    IF users THEN SetUserRegs(c, list, contents) ELSE SetRegs(c, list, contents)

----------------------------------------------------------------------------
(* One instruction each. *)

Privileged == core.mode # "usr"
HasSpsr == Bank(core.mode) # "usr"

Write(x, v) == core' = [core EXCEPT !.r[x] = v]

(* MSR; User may change only the flags. *)
WriteCpsr(m) ==
    /\ Privileged
    /\ core' = SetMode(core, m)

(* The guest does this only where there is one. *)
WriteSpsr(m) ==
    /\ HasSpsr
    /\ core' = [core EXCEPT !.spsr = m]

Raise(e, lr) == core' = EnterException(core, e, lr)

(* A data operation on the program counter with S, or LDM with it. *)
Return ==
    /\ HasSpsr
    /\ core.spsr \in Modes
    /\ core' = SetMode(core, core.spsr)

(* What a load has loaded when it fails at a register, or at the program   *)
(* counter, which comes last.                                              *)
LoadedBefore(list, x) == {y \in list : Number[y] < Number[x]}

Writeback(c, base, list, v) == IF base \in list THEN c ELSE [c EXCEPT !.r[base] = v]

(* LDM, with or without S; POP and LDMIA of Thumb are of this form. *)
BlockLoad(base, list, contents, users, v) ==
    LET loaded == Load(core, list, contents, users)
    IN  core' \in {loaded, Writeback(loaded, base, list, v)}

BlockLoadReturn(base, list, contents, v) ==
    /\ HasSpsr
    /\ core.spsr \in Modes
    /\ LET loaded == Load(core, list, contents, FALSE)
       IN  core' \in {SetMode(loaded, core.spsr),
                      SetMode(Writeback(loaded, base, list, v), core.spsr)}

BlockLoadAborts(base, list, contents, users, lr) ==
    /\ base \in Names
    /\ \E done \in {list} \cup {LoadedBefore(list, x) : x \in list} :
           core' = EnterException(Load(core, done, contents, users), "dataAbort", lr)

(* STM; with S it stores User's registers. *)
BlockStore(base, v) == core' = [core EXCEPT !.r[base] = v]

BlockStoreAborts(base, lr) ==
    /\ base \in Names
    /\ core' = EnterException(core, "dataAbort", lr)

(* PUSH of Thumb moves the stack pointer first. *)
PushAborts(v, lr) ==
    core' = EnterException([core EXCEPT !.r[Stack] = v], "dataAbort", lr)

RegistersNext ==
    \/ \E m \in Modes : WriteCpsr(m) \/ WriteSpsr(m)
    \/ Return
    \/ \E v \in Values :
        \/ \E x \in Names : Write(x, v) \/ BlockStore(x, v) \/ BlockStoreAborts(x, v)
        \/ \E e \in Raised : Raise(e, v)
        \/ \E w \in Values : PushAborts(v, w)
        \/ \E base \in Names, list \in Lists, contents \in Contents :
            \/ \E users \in BOOLEAN :
                \/ BlockLoad(base, list, contents, users, v)
                \/ BlockLoadAborts(base, list, contents, users, v)
            \/ BlockLoadReturn(base, list, contents, v)

RegistersSpec == RegistersInit /\ [][RegistersNext]_core

----------------------------------------------------------------------------
(* Whose physical register a name stands for in a mode. *)
Owner(x, m) ==
    IF x \in Top THEN Bank(m) ELSE IF x \in Mid /\ m = "fiq" THEN "fiq" ELSE "usr"

(* What a physical register holds, live or spilled. *)
Held(c, x, b) ==
    IF Owner(x, c.mode) = b THEN c.r[x]
    ELSE IF x \in Top THEN c.top[b][x]
    ELSE IF b = "fiq" THEN c.fiqMid[x] ELSE c.usrMid[x]

Physical == {<<x, Owner(x, m)>> : x \in Names, m \in Modes}

SeenFile == [p \in Physical |-> Held(core, p[1], p[2])]

SeenSaved == [b \in Banks |-> IF b = Bank(core.mode) THEN core.spsr ELSE core.spsrs[b]]

File == INSTANCE RegisterFile
    WITH mode <- core.mode, file <- SeenFile, saved <- SeenSaved

(* Live registers and spilled copies together are a register file: what a  *)
(* mode leaves in its own registers it finds there again, whatever modes   *)
(* and exceptions came between, and an exception goes back where it came   *)
(* from.                                                                   *)
ImplementsRegisterFile == File!Spec

(* What STM with S stores is what User would find. *)
UserRegistersAreFound ==
    \A x \in Names : UserReg(core, x) = Held(core, x, Owner(x, "usr"))

=============================================================================
