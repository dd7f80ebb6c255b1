-------------------------------- MODULE Mmu --------------------------------
(***************************************************************************)
(* Address translation: the tables in the guest's memory, the CP15         *)
(* registers they are read with, and the cache in front of them (mmu.rs,   *)
(* cp15.rs, Cpu::step and its memory accessors in crates/arm).             *)
(*                                                                         *)
(* An instruction is three actions or more: it is fetched, it executes, an *)
(* action for each access, it retires.  Nothing else happens in between;   *)
(* they are apart so that each makes one translation at most.  Addresses   *)
(* are granules of 1 KB, the unit the cache is keyed by.  What a second-level descriptor covers is   *)
(* one granule (tiny), a page's four (small) or sixteen pages' (large),    *)
(* so a table is a function of granules of which one store changes         *)
(* several; coarse and fine tables differ in nothing else.                 *)
(***************************************************************************)
EXTENDS Naturals

CONSTANTS
    Granules,    \* virtual granules
    Sections,    \* virtual megabytes
    SectionOf,   \* the megabyte of a granule
    Slots,       \* entries of the cache
    SlotOf,      \* the entry a granule goes to
    Frames,      \* physical granules
    Domains,
    Bases,       \* first-level tables
    Tables,      \* second-level tables
    L1Values,    \* first-level descriptors the guest writes
    L2Values,    \* second-level descriptors the guest writes, by granule
    Spans,       \* the granules one second-level descriptor covers
    Controls,    \* what the guest writes to c1
    Dacrs,       \* what the guest writes to c3
    Pids,        \* what the guest writes to c13
    Relocated,   \* Cp15.fcse: where a granule is under each process
    Vector,      \* where exceptions go
    Empty,       \* no entry
    Patience     \* instructions a pending change of M waits at most: 8

Descriptor ==
    [kind : {"invalid"}]
        \cup [kind : {"section"}, domain : Domains, ap : 0 .. 3, frame : Frames]
        \cup [kind : {"table"}, domain : Domains, table : Tables]

Leaf == [kind : {"invalid"}] \cup [kind : {"page"}, ap : 0 .. 3, frame : Frames]

ASSUME MapAssumption ==
    /\ SectionOf \in [Granules -> Sections]
    /\ SlotOf \in [Granules -> Slots]
    /\ Relocated \in [Pids -> [Granules -> Granules]]
    /\ Vector \in Granules
ASSUME GuestAssumption ==
    /\ L1Values \subseteq Descriptor
    /\ \A span \in Spans : span \subseteq Granules
    /\ L2Values \subseteq [Granules -> Leaf]
    /\ Controls \subseteq [M : BOOLEAN, S : BOOLEAN, R : BOOLEAN]
    /\ Dacrs \subseteq [Domains -> 0 .. 3]
ASSUME PatienceAssumption == Patience \in Nat \ {0}

VARIABLES
    l1,          \* the first-level tables, by base and megabyte
    l2,          \* the second-level tables, by table and granule
    ttbr, dacr, control, pid,    \* c2, c3, c1, c13
    dirty,       \* tlb_dirty
    pending,     \* mmu_change_pending
    deadline,    \* mmu_change_deadline
    active,      \* mmu_active: the regime in force
    tlb,
    user,        \* not Cpu.privileged()
    pc,          \* the granule of r15
    branched,
    at,          \* "step", "execute", "transfer" (between accesses) or "retire"
    unflushed    \* history: granules whose tables changed and were not flushed

tables == <<l1, l2>>
registers == <<ttbr, dacr, control, pid>>
regime == <<pending, deadline, active>>
flow == <<user, pc, branched>>
vars == <<tables, registers, regime, flow, dirty, tlb, at, unflushed>>

Privileges == BOOLEAN \X BOOLEAN    \* privileged?, write?

Entry ==
    [tag : Granules, frame : Frames, perm : SUBSET Privileges,
     section : BOOLEAN, domain : Domains]

(* A failed walk: what of the fault status says why. *)
Fault ==
    [fault : {"translation"}, section : {TRUE}]
        \cup [fault : {"translation"}, section : {FALSE}, domain : Domains]
        \cup [fault : {"domain"}, section : BOOLEAN, domain : Domains]

TypeOK ==
    /\ l1 \in [Bases -> [Sections -> Descriptor]]
    /\ l2 \in [Tables -> [Granules -> Leaf]]
    /\ ttbr \in Bases
    /\ dacr \in [Domains -> 0 .. 3]
    /\ control \in [M : BOOLEAN, S : BOOLEAN, R : BOOLEAN]
    /\ pid \in Pids
    /\ dirty \in BOOLEAN
    /\ pending \in BOOLEAN
    /\ deadline \in 0 .. Patience
    /\ active \in BOOLEAN
    /\ tlb \in [Slots -> Entry \cup {Empty}]
    /\ user \in BOOLEAN
    /\ pc \in Granules
    /\ branched \in BOOLEAN
    /\ at \in {"step", "execute", "transfer", "retire"}
    /\ unflushed \subseteq Granules

EmptyTlb == [s \in Slots |-> Empty]

(* A core as it comes out of reset, on tables the firmware may have left. *)
Init ==
    /\ l1 \in [Bases -> [Sections -> L1Values]]
    /\ l2 \in [Tables -> L2Values]
    /\ ttbr \in Bases
    /\ dacr \in Dacrs
    /\ control = [M |-> FALSE, S |-> FALSE, R |-> FALSE]
    /\ pid \in Pids
    /\ dirty = FALSE
    /\ pending = FALSE
    /\ deadline = 0
    /\ active = FALSE
    /\ tlb = EmptyTlb
    /\ user = FALSE
    /\ pc = Vector
    /\ branched = FALSE
    /\ at = "step"
    /\ unflushed = {}

----------------------------------------------------------------------------
(* The walk. *)

ApPermits(ap, privileged, write) ==
    \/ ap = 0 /\ ~write /\ (control.R \/ (control.S /\ privileged))
    \/ ap = 1 /\ privileged
    \/ ap = 2 /\ (write => privileged)
    \/ ap = 3

PermMask(ap, manager) ==
    {p \in Privileges : manager \/ ApPermits(ap, p[1], p[2])}

PageEntry(g, leaf, domain) ==
    IF leaf.kind = "invalid"
    THEN [fault |-> "translation", section |-> FALSE, domain |-> domain]
    ELSE [tag |-> g, frame |-> leaf.frame,
          perm |-> PermMask(leaf.ap, dacr[domain] = 3),
          section |-> FALSE, domain |-> domain]

SectionEntry(g, d) ==
    [tag |-> g, frame |-> d.frame, perm |-> PermMask(d.ap, dacr[d.domain] = 3),
     section |-> TRUE, domain |-> d.domain]

Walk(g) ==
    LET d == l1[ttbr][SectionOf[g]]
    IN  CASE d.kind = "invalid" -> [fault |-> "translation", section |-> TRUE]
          [] d.kind # "invalid" /\ dacr[d.domain] = 0 ->
                [fault |-> "domain", section |-> d.kind = "section", domain |-> d.domain]
          [] d.kind = "section" /\ dacr[d.domain] # 0 -> SectionEntry(g, d)
          [] d.kind = "table" /\ dacr[d.domain] # 0 ->
                PageEntry(g, l2[d.table][g], d.domain)

----------------------------------------------------------------------------
(* The cache.  A failed walk is not kept, a denied one is. *)

Hit(cache, g) == cache[SlotOf[g]] # Empty /\ cache[SlotOf[g]].tag = g

Resolve(cache, g) == IF Hit(cache, g) THEN cache[SlotOf[g]] ELSE Walk(g)

Filled(cache, g) ==
    IF active /\ Resolve(cache, g) \in Entry
    THEN [cache EXCEPT ![SlotOf[g]] = Resolve(cache, g)]
    ELSE cache

Allows(resolved, privileged, write) ==
    resolved \in Entry /\ <<privileged, write>> \in resolved.perm

(* Whether an access goes through; with translation off all do. *)
Passes(cache, g, privileged, write) ==
    active => Allows(Resolve(cache, g), privileged, write)

Mva(v) == Relocated[pid][v]

----------------------------------------------------------------------------
(* An instruction. *)

FlushedIfDirty == IF dirty THEN EmptyTlb ELSE tlb

Enter ==
    /\ user' = FALSE
    /\ pc' = Vector
    /\ branched' = TRUE

(* Interrupts are sampled first, and end the step before it retires. *)
TakeInterrupt ==
    /\ at = "step"
    /\ tlb' = FlushedIfDirty
    /\ dirty' = FALSE
    /\ Enter
    /\ UNCHANGED <<tables, registers, regime, at, unflushed>>

Fetch ==
    /\ at = "step"
    /\ dirty' = FALSE
    /\ tlb' = Filled(FlushedIfDirty, Mva(pc))
    /\ IF Passes(FlushedIfDirty, Mva(pc), ~user, FALSE)
       THEN /\ at' = "execute"
            /\ branched' = FALSE
            /\ UNCHANGED <<user, pc>>
       ELSE at' = "retire" /\ Enter
    /\ UNCHANGED <<tables, registers, regime, unflushed>>

Executing == at \in {"execute", "transfer"}

Execute ==
    /\ at = "execute"
    /\ at' = "retire"

(* One access of those an instruction makes. *)
Transfer ==
    /\ Executing
    /\ at' \in {"transfer", "retire"}

(* Going elsewhere, with what was loaded or not. *)
GoTo(v) ==
    /\ Executing
    /\ at' = "retire"
    /\ pc' = v
    /\ branched' = TRUE

(* A load or store that changes no table; LDRT and STRT go as the user.    *)
(* The first that fails is the last.                                       *)
Access(v, write, asUser) ==
    /\ Transfer
    /\ tlb' = Filled(tlb, Mva(v))
    /\ IF Passes(tlb, Mva(v), ~user /\ ~asUser, write)
       THEN UNCHANGED flow
       ELSE at' = "retire" /\ Enter
    /\ UNCHANGED <<tables, registers, regime, dirty, unflushed>>

(* A store of the kernel to a table, through wherever it is mapped. *)
StoreToTable(v) ==
    /\ Transfer
    /\ ~user
    /\ Passes(tlb, Mva(v), TRUE, TRUE)
    /\ tlb' = Filled(tlb, Mva(v))
    /\ UNCHANGED <<registers, regime, flow, dirty>>
    /\ unflushed' = unflushed \cup {g \in Granules : Walk(g)' # Walk(g)}

WriteL1(v, b, s, d) ==
    /\ l1' = [l1 EXCEPT ![b][s] = d]
    /\ l2' = l2
    /\ StoreToTable(v)

WriteL2(v, t, span, leaves) ==
    /\ l2' = [l2 EXCEPT ![t] = [g \in Granules |-> IF g \in span THEN leaves[g] ELSE l2[t][g]]]
    /\ l1' = l1
    /\ StoreToTable(v)

(* Writes to CP15, which the kernel makes. *)
WriteCp15 ==
    /\ Execute
    /\ ~user
    /\ UNCHANGED <<tables, flow, tlb, active>>

Invalidate ==
    /\ dirty' = TRUE
    /\ unflushed' = {}

WriteControl(c) ==
    /\ WriteCp15
    /\ control' = c
    /\ IF c # control THEN Invalidate ELSE UNCHANGED <<dirty, unflushed>>
    /\ IF c.M # control.M
       THEN pending' = TRUE /\ deadline' = Patience
       ELSE UNCHANGED <<pending, deadline>>
    /\ UNCHANGED <<ttbr, dacr, pid>>

WriteTtbr(b) ==
    /\ WriteCp15
    /\ ttbr' = b
    /\ Invalidate
    /\ UNCHANGED <<dacr, control, pid, pending, deadline>>

(* mutant: cached entries keep the domain's old access *)
WriteDacrInPlace(d) ==
    /\ WriteCp15
    /\ dacr' = d
    /\ UNCHANGED <<ttbr, control, pid, pending, deadline, dirty, unflushed>>

WriteDacr(d) ==
    /\ WriteCp15
    /\ dacr' = d
    /\ Invalidate
    /\ UNCHANGED <<ttbr, control, pid, pending, deadline>>

WritePid(p) ==
    /\ WriteCp15
    /\ pid' = p
    /\ Invalidate
    /\ UNCHANGED <<ttbr, dacr, control, pending, deadline>>

FlushTlb ==
    /\ WriteCp15
    /\ Invalidate
    /\ UNCHANGED <<registers, pending, deadline>>

Branch(v) ==
    /\ GoTo(v)
    /\ UNCHANGED <<tables, registers, regime, user, dirty, tlb, unflushed>>

(* A software interrupt or an undefined instruction. *)
Trap ==
    /\ Execute
    /\ Enter
    /\ UNCHANGED <<tables, registers, regime, dirty, tlb, unflushed>>

ReturnToUser(v) ==
    /\ ~user
    /\ user' = TRUE
    /\ GoTo(v)
    /\ UNCHANGED <<tables, registers, regime, dirty, tlb, unflushed>>

(* mutant: a pending change turns translation over, whatever M now says *)
RetireTurningOver ==
    /\ at = "retire"
    /\ at' = "step"
    /\ IF pending /\ branched
       THEN /\ deadline' = deadline - 1
            /\ pending' = FALSE
            /\ active' = ~active
            /\ tlb' = EmptyTlb
            /\ unflushed' = {}
       ELSE UNCHANGED <<regime, tlb, unflushed>>
    /\ UNCHANGED <<tables, registers, flow, dirty>>

(* A change of M shows at a branch, or when its patience is over. *)
Retire ==
    /\ at = "retire"
    /\ at' = "step"
    /\ IF pending
       THEN LET left == IF deadline = 0 THEN 0 ELSE deadline - 1
            IN  /\ deadline' = left
                /\ IF branched \/ left = 0
                   THEN /\ pending' = FALSE
                        /\ active' = control.M
                        /\ tlb' = EmptyTlb
                        /\ unflushed' = {}
                   ELSE UNCHANGED <<pending, active, tlb, unflushed>>
       ELSE UNCHANGED <<regime, tlb, unflushed>>
    /\ UNCHANGED <<tables, registers, flow, dirty>>

Next ==
    \/ TakeInterrupt
    \/ Fetch
    \/ Retire
    \/ \E v \in Granules :
           \/ \E write, asUser \in BOOLEAN : Access(v, write, asUser)
           \/ \E b \in Bases, s \in Sections, d \in L1Values : WriteL1(v, b, s, d)
           \/ \E t \in Tables, span \in Spans, leaves \in L2Values :
                  WriteL2(v, t, span, leaves)
           \/ Branch(v)
           \/ ReturnToUser(v)
    \/ \E c \in Controls : WriteControl(c)
    \/ \E b \in Bases : WriteTtbr(b)
    \/ \E d \in Dacrs : WriteDacr(d)
    \/ \E p \in Pids : WritePid(p)
    \/ FlushTlb
    \/ Trap

Spec == Init /\ [][Next]_vars

----------------------------------------------------------------------------
(* What an instruction is told of a granule, address or fault, is what a   *)
(* walk of the tables with the registers as they are would tell, for every *)
(* privilege, unless the guest has changed the tables and flushed nothing  *)
(* since.  The mask of what an entry permits is worked out when it is      *)
(* filled; mmu.rs says it is "sound only because everything the mask       *)
(* depends on invalidates the whole TLB".                                  *)
AccessesAreCurrent ==
    Executing =>
        \A g \in Granules \ unflushed : Resolve(tlb, g) = Walk(g)

(* The regime in force is the one the guest asked for, or a change is on   *)
(* its way and will not wait for ever, however often M was written since.  *)
RegimeFollowsM ==
    active # control.M => pending /\ deadline > 0
=============================================================================
