----------------------------- MODULE CoreProofs -----------------------------
(***************************************************************************)
(* Theorems about the processor: Mmu, for any tables, cache and guest, and *)
(* Registers, for any registers, values, modes and lists, that satisfy the *)
(* assumptions.                                                            *)
(***************************************************************************)
EXTENDS Mmu, Registers, TLAPS

-----------------------------------------------------------------------------
(* The MMU.  The invariant under AccessesAreCurrent is that the cache      *)
(* agrees with the tables whenever no flush is due, and that none is due   *)
(* while an instruction executes.                                          *)

(* What a page's descriptor and a section's come to has the type of an     *)
(* entry or of a fault.                                                    *)
LEMMA PageEntryType ==
    ASSUME NEW g \in Granules, NEW leaf \in Leaf, NEW domain \in Domains
    PROVE  PageEntry(g, leaf, domain) \in Entry \cup Fault
<1>1. PermMask(leaf.ap, dacr[domain] = 3) \in SUBSET Privileges
    BY DEF PermMask
<1>2. CASE leaf.kind = "invalid"
    BY <1>2 DEF PageEntry, Fault
<1>3. CASE leaf.kind # "invalid"
    <2>1. leaf.frame \in Frames
        BY <1>3 DEF Leaf
    <2> QED
        BY <1>1, <1>3, <2>1 DEF PageEntry, Entry
<1> QED
    BY <1>2, <1>3

LEMMA SectionEntryType ==
    ASSUME NEW g \in Granules, NEW d \in Descriptor, d.kind = "section"
    PROVE  SectionEntry(g, d) \in Entry
<1>1. PermMask(d.ap, dacr[d.domain] = 3) \in SUBSET Privileges
    BY DEF PermMask
<1>2. d.frame \in Frames /\ d.domain \in Domains
    BY DEF Descriptor
<1> QED
    BY <1>1, <1>2 DEF SectionEntry, Entry

LEMMA DomainFaultType ==
    ASSUME NEW section \in BOOLEAN, NEW domain \in Domains
    PROVE  [fault |-> "domain", section |-> section, domain |-> domain] \in Fault
    BY Zenon DEF Fault

(* A walk ends in an entry for its granule, or in a fault. *)
LEMMA WalkType ==
    ASSUME TypeOK, NEW g \in Granules
    PROVE  Walk(g) \in Entry \cup Fault
<1> DEFINE d == l1[ttbr][SectionOf[g]]
<1>1. d \in Descriptor
    BY MapAssumption DEF TypeOK
<1>2. CASE d.kind = "invalid"
    BY <1>2 DEF Walk, Fault
<1>3. CASE d.kind # "invalid" /\ dacr[d.domain] = 0
    <2>1. d.domain \in Domains
        BY <1>1, <1>3 DEF Descriptor
    <2>2. Walk(g) = [fault |-> "domain", section |-> d.kind = "section", domain |-> d.domain]
        BY <1>3 DEF Walk
    <2> QED
        BY <2>1, <2>2, DomainFaultType
<1>4. CASE d.kind = "section" /\ dacr[d.domain] # 0
    <2>1. Walk(g) = SectionEntry(g, d)
        BY <1>4 DEF Walk
    <2> QED
        BY <1>1, <1>4, <2>1, SectionEntryType
<1>5. CASE d.kind = "table" /\ dacr[d.domain] # 0
    <2>1. Walk(g) = PageEntry(g, l2[d.table][g], d.domain)
        BY <1>5 DEF Walk
    <2>2. d.table \in Tables /\ d.domain \in Domains
        BY <1>1, <1>5 DEF Descriptor
    <2>3. l2[d.table][g] \in Leaf
        BY <2>2 DEF TypeOK
    <2> QED
        BY <2>1, <2>2, <2>3, PageEntryType
<1>6. d.kind \in {"invalid", "section", "table"}
    BY <1>1 DEF Descriptor
<1> QED
    BY <1>2, <1>3, <1>4, <1>5, <1>6

LEMMA WalkTag ==
    ASSUME TypeOK, NEW g \in Granules, Walk(g) \in Entry
    PROVE  Walk(g).tag = g
<1> DEFINE d == l1[ttbr][SectionOf[g]]
<1>1. d \in Descriptor
    BY MapAssumption DEF TypeOK
<1>2. \A r \in Entry : "fault" \notin DOMAIN r
    BY DEF Entry
<1>3. d.kind \in {"invalid", "section", "table"}
    BY <1>1 DEF Descriptor
<1>4. CASE d.kind = "section" /\ dacr[d.domain] # 0
    BY <1>4 DEF Walk, SectionEntry
<1>5. CASE d.kind = "table" /\ dacr[d.domain] # 0
    <2>1. Walk(g) = PageEntry(g, l2[d.table][g], d.domain)
        BY <1>5 DEF Walk
    <2> QED
        BY <1>2, <2>1 DEF PageEntry
<1>6. CASE d.kind = "invalid"
    <2>1. Walk(g) = [fault |-> "translation", section |-> TRUE]
        BY <1>6 DEF Walk
    <2> QED
        BY <1>2, <2>1
<1>7. CASE d.kind # "invalid" /\ dacr[d.domain] = 0
    <2>1. Walk(g) = [fault |-> "domain", section |-> d.kind = "section", domain |-> d.domain]
        BY <1>7 DEF Walk
    <2> QED
        BY <1>2, <2>1
<1> QED
    BY <1>3, <1>4, <1>5, <1>6, <1>7

LEMMA FilledType ==
    ASSUME TypeOK, NEW cache \in [Slots -> Entry \cup {Empty}], NEW g \in Granules
    PROVE  Filled(cache, g) \in [Slots -> Entry \cup {Empty}]
    BY MapAssumption DEF Filled

LEMMA FlushedType ==
    ASSUME TypeOK
    PROVE  FlushedIfDirty \in [Slots -> Entry \cup {Empty}]
    BY DEF FlushedIfDirty, EmptyTlb, TypeOK

LEMMA MvaType ==
    ASSUME TypeOK, NEW v \in Granules
    PROVE  Mva(v) \in Granules
    BY MapAssumption DEF Mva, TypeOK

(* What entering an exception leaves typed. *)
LEMMA EnterType ==
    ASSUME Enter
    PROVE  user' \in BOOLEAN /\ pc' \in Granules /\ branched' \in BOOLEAN
    BY MapAssumption DEF Enter

LEMMA InitType == Init => TypeOK
<1> SUFFICES ASSUME Init PROVE TypeOK
    OBVIOUS
<1>1. l1 \in [Bases -> [Sections -> Descriptor]] /\ l2 \in [Tables -> [Granules -> Leaf]]
    BY GuestAssumption DEF Init
<1>2. dacr \in [Domains -> 0 .. 3] /\ pc \in Granules
    BY GuestAssumption, MapAssumption DEF Init
<1>3. control \in [M : BOOLEAN, S : BOOLEAN, R : BOOLEAN]
    BY DEF Init
<1>4. tlb \in [Slots -> Entry \cup {Empty}]
    BY DEF Init, EmptyTlb
<1>5. ttbr \in Bases /\ pid \in Pids /\ deadline \in 0 .. Patience
    BY PatienceAssumption DEF Init
<1>6. /\ dirty \in BOOLEAN /\ pending \in BOOLEAN /\ active \in BOOLEAN
      /\ user \in BOOLEAN /\ branched \in BOOLEAN
      /\ at \in {"step", "execute", "transfer", "retire"} /\ unflushed \subseteq Granules
    BY DEF Init
<1> QED
    BY <1>1, <1>2, <1>3, <1>4, <1>5, <1>6 DEF TypeOK

LEMMA FetchType == ASSUME TypeOK, Fetch PROVE TypeOK'
<1>1. tlb' \in [Slots -> Entry \cup {Empty}]
    BY FlushedType, MvaType, FilledType DEF Fetch, TypeOK
<1>2. /\ user' \in BOOLEAN /\ pc' \in Granules /\ branched' \in BOOLEAN
      /\ at' \in {"step", "execute", "transfer", "retire"}
    BY EnterType DEF Fetch, TypeOK
<1> QED
    BY <1>1, <1>2 DEF Fetch, TypeOK, tables, registers, regime

LEMMA AccessType ==
    ASSUME TypeOK, NEW v \in Granules, NEW write, NEW asUser, Access(v, write, asUser)
    PROVE  TypeOK'
<1>1. tlb' \in [Slots -> Entry \cup {Empty}]
    BY MvaType, FilledType DEF Access, TypeOK
<1>2. user' \in BOOLEAN /\ pc' \in Granules /\ branched' \in BOOLEAN
    BY EnterType DEF Access, flow, TypeOK
<1> QED
    BY <1>1, <1>2 DEF Access, Transfer, Executing, TypeOK, tables, registers, regime

(* Every write to CP15 keeps all but its own register's type. *)
LEMMA WriteCp15Type ==
    ASSUME TypeOK, WriteCp15,
           ttbr' \in Bases, dacr' \in [Domains -> 0 .. 3], pid' \in Pids,
           control' \in [M : BOOLEAN, S : BOOLEAN, R : BOOLEAN],
           dirty' \in BOOLEAN, unflushed' \subseteq Granules,
           pending' \in BOOLEAN, deadline' \in 0 .. Patience
    PROVE  TypeOK'
    BY DEF WriteCp15, Execute, Executing, TypeOK, tables, flow

LEMMA RetireType == ASSUME TypeOK, Retire PROVE TypeOK'
<1>1. tlb' \in [Slots -> Entry \cup {Empty}]
    BY DEF Retire, EmptyTlb, TypeOK
<1>2. deadline' \in 0 .. Patience
    BY PatienceAssumption DEF Retire, regime, TypeOK
<1>3. control.M \in BOOLEAN
    BY DEF TypeOK
<1>4. pending' \in BOOLEAN /\ active' \in BOOLEAN /\ unflushed' \subseteq Granules
    BY <1>3 DEF Retire, regime, TypeOK
<1> QED
    BY <1>1, <1>2, <1>4 DEF Retire, TypeOK, tables, registers, flow

(* The variables keep their types, for any tables, cache and guest. *)
THEOREM TypeCorrect == Spec => []TypeOK
<1>1. Init => TypeOK
    BY InitType
<1>2. TypeOK /\ [Next]_vars => TypeOK'
    <2> SUFFICES ASSUME TypeOK, [Next]_vars PROVE TypeOK'
        OBVIOUS
    <2>1. CASE TakeInterrupt
        <3>1. tlb' \in [Slots -> Entry \cup {Empty}]
            BY <2>1, FlushedType DEF TakeInterrupt
        <3> QED
            BY <2>1, <3>1, EnterType DEF TakeInterrupt, TypeOK, tables, registers, regime
    <2>2. CASE Fetch
        BY <2>2, FetchType
    <2>3. CASE Retire
        BY <2>3, RetireType
    <2>4. ASSUME NEW v \in Granules, NEW write \in BOOLEAN, NEW asUser \in BOOLEAN,
                 Access(v, write, asUser)
          PROVE  TypeOK'
        BY <2>4, AccessType
    <2>5. ASSUME NEW v \in Granules, NEW b \in Bases, NEW s \in Sections,
                 NEW d \in L1Values, WriteL1(v, b, s, d)
          PROVE  TypeOK'
        <3>1. l1' \in [Bases -> [Sections -> Descriptor]]
            BY <2>5, GuestAssumption DEF WriteL1, TypeOK
        <3>2. tlb' \in [Slots -> Entry \cup {Empty}]
            BY <2>5, MvaType, FilledType DEF WriteL1, StoreToTable, TypeOK
        <3> QED
            BY <2>5, <3>1, <3>2
            DEF WriteL1, StoreToTable, Transfer, Executing, TypeOK, registers, regime, flow
    <2>6. ASSUME NEW v \in Granules, NEW t \in Tables, NEW span \in Spans,
                 NEW leaves \in L2Values, WriteL2(v, t, span, leaves)
          PROVE  TypeOK'
        <3>1. leaves \in [Granules -> Leaf]
            BY GuestAssumption
        <3>2. [g \in Granules |-> IF g \in span THEN leaves[g] ELSE l2[t][g]] \in [Granules -> Leaf]
            BY <3>1 DEF TypeOK
        <3>3. l2' \in [Tables -> [Granules -> Leaf]]
            BY <2>6, <3>2 DEF WriteL2, TypeOK
        <3>4. tlb' \in [Slots -> Entry \cup {Empty}]
            BY <2>6, MvaType, FilledType DEF WriteL2, StoreToTable, TypeOK
        <3> QED
            BY <2>6, <3>3, <3>4
            DEF WriteL2, StoreToTable, Transfer, Executing, TypeOK, registers, regime, flow
    <2>7. ASSUME NEW v \in Granules, Branch(v) \/ ReturnToUser(v)
          PROVE  TypeOK'
        BY <2>7 DEF Branch, ReturnToUser, GoTo, Executing, TypeOK, tables, registers, regime
    <2>8. ASSUME NEW c \in Controls, WriteControl(c) PROVE TypeOK'
        <3>1. /\ ttbr' \in Bases /\ dacr' \in [Domains -> 0 .. 3] /\ pid' \in Pids
              /\ control' \in [M : BOOLEAN, S : BOOLEAN, R : BOOLEAN]
            BY <2>8, GuestAssumption DEF WriteControl, TypeOK
        <3>2. dirty' \in BOOLEAN /\ unflushed' \subseteq Granules
            BY <2>8 DEF WriteControl, Invalidate, TypeOK
        <3>3. Patience \in 0 .. Patience
            BY PatienceAssumption
        <3>4. pending' \in BOOLEAN
            BY <2>8 DEF WriteControl, TypeOK
        <3>5. deadline' \in 0 .. Patience
            BY <2>8, <3>3 DEF WriteControl, TypeOK
        <3> QED
            BY <2>8, <3>1, <3>2, <3>4, <3>5, WriteCp15Type DEF WriteControl
    <2>9. ASSUME NEW b \in Bases, WriteTtbr(b) PROVE TypeOK'
        BY <2>9, WriteCp15Type DEF WriteTtbr, Invalidate, TypeOK
    <2>10. ASSUME NEW d \in Dacrs, WriteDacr(d) PROVE TypeOK'
        BY <2>10, GuestAssumption, WriteCp15Type DEF WriteDacr, Invalidate, TypeOK
    <2>11. ASSUME NEW p \in Pids, WritePid(p) PROVE TypeOK'
        BY <2>11, WriteCp15Type DEF WritePid, Invalidate, TypeOK
    <2>12. CASE FlushTlb
        BY <2>12, WriteCp15Type DEF FlushTlb, Invalidate, registers, TypeOK
    <2>13. CASE Trap
        BY <2>13, EnterType DEF Trap, Execute, Executing, TypeOK, tables, registers, regime
    <2>14. CASE UNCHANGED vars
        BY <2>14 DEF vars, tables, registers, regime, flow, TypeOK
    <2> QED
        BY <2>1, <2>2, <2>3, <2>4, <2>5, <2>6, <2>7, <2>8, <2>9, <2>10, <2>11, <2>12,
           <2>13, <2>14 DEF Next
<1> QED
    BY <1>1, <1>2, PTL DEF Spec

----------------------------------------------------------------------------
(* The cache agrees with the tables. *)

Agrees(cache) == \A g \in Granules \ unflushed : Hit(cache, g) => cache[SlotOf[g]] = Walk(g)

Coherent ==
    /\ ~dirty => Agrees(tlb)
    /\ dirty => ~Executing

IInv == TypeOK /\ Coherent

LEMMA FlushedAgrees == Agrees(EmptyTlb)
    BY MapAssumption DEF Agrees, Hit, EmptyTlb

(* Filling an entry for one granule says nothing false of another. *)
LEMMA FilledAgrees ==
    ASSUME TypeOK, NEW cache \in [Slots -> Entry \cup {Empty}], NEW v \in Granules,
           Agrees(cache)
    PROVE  Agrees(Filled(cache, v))
<1>1. CASE Filled(cache, v) = cache
    BY <1>1
<1>2. CASE Filled(cache, v) # cache
    <2>1. /\ Resolve(cache, v) \in Entry
          /\ Filled(cache, v) = [cache EXCEPT ![SlotOf[v]] = Resolve(cache, v)]
        BY <1>2 DEF Filled
    <2>2. ~Hit(cache, v)
        BY <1>2, <2>1 DEF Resolve
    <2>3. Resolve(cache, v) = Walk(v) /\ Walk(v).tag = v
        BY <2>1, <2>2, WalkTag DEF Resolve
    <2> SUFFICES ASSUME NEW g \in Granules \ unflushed, Hit(Filled(cache, v), g)
                 PROVE  Filled(cache, v)[SlotOf[g]] = Walk(g)
        BY DEF Agrees
    <2>4. CASE SlotOf[g] = SlotOf[v]
        BY <2>1, <2>3, <2>4, MapAssumption DEF Hit
    <2>5. CASE SlotOf[g] # SlotOf[v]
        BY <2>1, <2>5, MapAssumption DEF Hit, Agrees
    <2> QED
        BY <2>4, <2>5
<1> QED
    BY <1>1, <1>2

(* A walk depends on the tables and on three registers. *)
LEMMA WalkStays ==
    ASSUME UNCHANGED <<l1, l2, ttbr, dacr, control>>, NEW g
    PROVE  Walk(g)' = Walk(g)
    BY DEF Walk, PageEntry, SectionEntry, PermMask, ApPermits

LEMMA AgreesStays ==
    ASSUME UNCHANGED <<l1, l2, ttbr, dacr, control, unflushed>>, Agrees(tlb')
    PROVE  Agrees(tlb)'
    BY WalkStays DEF Agrees, Hit

LEMMA FlushedIfDirtyAgrees == ASSUME Coherent PROVE Agrees(FlushedIfDirty)
    BY FlushedAgrees DEF Coherent, FlushedIfDirty

LEMMA InitCoherent == Init => Coherent
    BY FlushedAgrees DEF Init, Coherent

(* A store to a table makes stale only what it names. *)
LEMMA StoreCoherent ==
    ASSUME IInv, NEW v \in Granules, StoreToTable(v)
    PROVE  Coherent'
<1>1. ~dirty /\ dirty' = dirty
    BY DEF IInv, Coherent, StoreToTable, Transfer, Executing
<1>2. tlb \in [Slots -> Entry \cup {Empty}] /\ Mva(v) \in Granules
    BY MvaType DEF IInv, TypeOK
<1>3. Agrees(tlb')
    BY <1>1, <1>2, FilledAgrees DEF IInv, Coherent, StoreToTable
<1>4. \A g \in Granules \ unflushed' : g \notin unflushed /\ Walk(g)' = Walk(g)
    BY DEF StoreToTable
<1>5. Agrees(tlb)'
    BY <1>3, <1>4 DEF Agrees, Hit
<1> QED
    BY <1>1, <1>5 DEF Coherent

LEMMA NextCoherent == IInv /\ [Next]_vars => Coherent'
<1> SUFFICES ASSUME IInv, [Next]_vars PROVE Coherent'
    OBVIOUS
<1> USE DEF IInv
<1>1. CASE TakeInterrupt
    <2>1. Agrees(tlb')
        BY <1>1, FlushedIfDirtyAgrees DEF TakeInterrupt
    <2>2. Agrees(tlb)'
        BY <1>1, <2>1, AgreesStays DEF TakeInterrupt, tables, registers
    <2> QED
        BY <1>1, <2>2 DEF TakeInterrupt, Coherent
<1>2. CASE Fetch
    <2>1. Agrees(tlb')
        BY <1>2, FlushedIfDirtyAgrees, FlushedType, MvaType, FilledAgrees DEF Fetch, TypeOK
    <2>2. Agrees(tlb)'
        BY <1>2, <2>1, AgreesStays DEF Fetch, tables, registers
    <2> QED
        BY <1>2, <2>2 DEF Fetch, Coherent
<1>3. CASE Retire
    <2>1. CASE UNCHANGED <<tlb, unflushed>>
        <3>1. ~dirty => Agrees(tlb)'
            BY <1>3, <2>1, AgreesStays DEF Retire, tables, registers, Coherent, Executing
        <3> QED
            BY <1>3, <3>1 DEF Retire, Coherent, Executing
    <2>2. CASE tlb' = EmptyTlb
        <3>1. Agrees(tlb)'
            BY <2>2, MapAssumption DEF Agrees, Hit, EmptyTlb
        <3> QED
            BY <1>3, <3>1 DEF Retire, Coherent, Executing
    <2> QED
        BY <1>3, <2>1, <2>2 DEF Retire
<1>4. ASSUME NEW v \in Granules, NEW write \in BOOLEAN, NEW asUser \in BOOLEAN,
             Access(v, write, asUser)
      PROVE  Coherent'
    <2>1. ~dirty
        BY <1>4 DEF Access, Transfer, Executing, Coherent
    <2>2. Agrees(tlb')
        BY <1>4, <2>1, MvaType, FilledAgrees DEF Access, Coherent, TypeOK
    <2>3. Agrees(tlb)'
        BY <1>4, <2>2, AgreesStays DEF Access, tables, registers
    <2> QED
        BY <1>4, <2>1, <2>3 DEF Access, Coherent
<1>5. ASSUME NEW v \in Granules, NEW b \in Bases, NEW s \in Sections,
             NEW d \in L1Values, WriteL1(v, b, s, d)
      PROVE  Coherent'
    BY <1>5, StoreCoherent DEF WriteL1
<1>6. ASSUME NEW v \in Granules, NEW t \in Tables, NEW span \in Spans,
             NEW leaves \in L2Values, WriteL2(v, t, span, leaves)
      PROVE  Coherent'
    BY <1>6, StoreCoherent DEF WriteL2
<1>7. ASSUME UNCHANGED <<tables, registers, dirty, tlb, unflushed>>, ~Executing' \/ at' = at
      PROVE  Coherent'
    BY <1>7, AgreesStays DEF Coherent, Executing, tables, registers
<1>8. ASSUME NEW v \in Granules, Branch(v) \/ ReturnToUser(v)
      PROVE  Coherent'
    BY <1>7, <1>8 DEF Branch, ReturnToUser, GoTo, Executing
<1>9. ASSUME WriteCp15, Invalidate PROVE Coherent'
    BY <1>9 DEF WriteCp15, Execute, Executing, Invalidate, Coherent
<1>10. ASSUME NEW c \in Controls, WriteControl(c) PROVE Coherent'
    <2>1. CASE c # control
        BY <1>9, <1>10, <2>1 DEF WriteControl
    <2>2. CASE c = control
        BY <1>7, <1>10, <2>2 DEF WriteControl, WriteCp15, Execute, Executing, registers
    <2> QED
        BY <2>1, <2>2
<1>11. ASSUME NEW b \in Bases, WriteTtbr(b) PROVE Coherent'
    BY <1>9, <1>11 DEF WriteTtbr
<1>12. ASSUME NEW d \in Dacrs, WriteDacr(d) PROVE Coherent'
    BY <1>9, <1>12 DEF WriteDacr
<1>13. ASSUME NEW p \in Pids, WritePid(p) PROVE Coherent'
    BY <1>9, <1>13 DEF WritePid
<1>14. CASE FlushTlb
    BY <1>9, <1>14 DEF FlushTlb
<1>15. CASE Trap
    BY <1>7, <1>15 DEF Trap, Execute, Executing
<1>16. CASE UNCHANGED vars
    BY <1>7, <1>16 DEF vars
<1> QED
    BY <1>1, <1>2, <1>3, <1>4, <1>5, <1>6, <1>8, <1>10, <1>11, <1>12, <1>13, <1>14,
       <1>15, <1>16 DEF Next

(* What an instruction is told of a granule is what the tables say, unless *)
(* the guest changed them and has flushed nothing since.                   *)
THEOREM NothingStaleIsUsed == Spec => []AccessesAreCurrent
<1>1. Init => Coherent
    BY InitCoherent
<1>2. IInv /\ [Next]_vars => Coherent'
    BY NextCoherent
<1>3. IInv => AccessesAreCurrent
    BY DEF IInv, Coherent, Agrees, AccessesAreCurrent, Resolve
<1> QED
    BY <1>1, <1>2, <1>3, TypeCorrect, PTL DEF Spec, IInv

(* Translation is on or off as M says, or a change is on its way. *)
THEOREM RegimeCatchesUp == Spec => []RegimeFollowsM
<1>1. Init => RegimeFollowsM
    <2>1. Init => control = [M |-> FALSE, S |-> FALSE, R |-> FALSE] /\ active = FALSE
        BY DEF Init
    <2>2. [M |-> FALSE, S |-> FALSE, R |-> FALSE].M = FALSE
        OBVIOUS
    <2> QED
        BY <2>1, <2>2, Zenon DEF RegimeFollowsM
<1>2. TypeOK /\ RegimeFollowsM /\ [Next]_vars => RegimeFollowsM'
    <2> SUFFICES ASSUME TypeOK, RegimeFollowsM, [Next]_vars PROVE RegimeFollowsM'
        OBVIOUS
    <2>1. ASSUME UNCHANGED <<regime, control>> PROVE RegimeFollowsM'
        BY <2>1 DEF RegimeFollowsM, regime
    <2>2. CASE Retire
        <3>1. CASE pending
            <4>1. CASE active' = control.M
                BY <2>2, <4>1 DEF Retire, registers, RegimeFollowsM
            <4>2. CASE active' # control.M
                <5>1. pending' = pending
                    BY <2>2, <3>1, <4>2, Zenon DEF Retire
                <5>2. deadline' = 0 => active' = control.M
                    BY <2>2, <3>1, Zenon DEF Retire
                <5>3. deadline' \in 0 .. Patience
                    BY <2>2, RetireType DEF TypeOK
                <5>4. deadline' > 0
                    BY <4>2, <5>2, <5>3, PatienceAssumption
                <5> QED
                    BY <3>1, <5>1, <5>4, Zenon DEF RegimeFollowsM
            <4> QED
                BY <4>1, <4>2
        <3>2. CASE ~pending
            BY <2>1, <2>2, <3>2 DEF Retire, registers
        <3> QED
            BY <3>1, <3>2
    <2>3. ASSUME NEW c \in Controls, WriteControl(c) PROVE RegimeFollowsM'
        <3>1. CASE c.M # control.M
            BY <2>3, <3>1, PatienceAssumption DEF WriteControl, RegimeFollowsM
        <3>2. CASE c.M = control.M
            BY <2>3, <3>2 DEF WriteControl, WriteCp15, RegimeFollowsM
        <3> QED
            BY <3>1, <3>2
    <2>4. ASSUME NEW b \in Bases, WriteTtbr(b) PROVE RegimeFollowsM'
        BY <2>1, <2>4 DEF WriteTtbr, WriteCp15, regime
    <2>5. ASSUME NEW d \in Dacrs, WriteDacr(d) PROVE RegimeFollowsM'
        BY <2>1, <2>5 DEF WriteDacr, WriteCp15, regime
    <2>6. ASSUME NEW p \in Pids, WritePid(p) PROVE RegimeFollowsM'
        BY <2>1, <2>6 DEF WritePid, WriteCp15, regime
    <2>7. CASE FlushTlb
        BY <2>1, <2>7 DEF FlushTlb, WriteCp15, registers, regime
    <2>8. ASSUME NEW v \in Granules, StoreToTable(v) PROVE RegimeFollowsM'
        BY <2>1, <2>8 DEF StoreToTable, registers
    <2>9. CASE TakeInterrupt \/ Fetch \/ Trap \/ UNCHANGED vars
        BY <2>1, <2>9 DEF TakeInterrupt, Fetch, Trap, registers, vars
    <2>10. ASSUME NEW v \in Granules, NEW write \in BOOLEAN, NEW asUser \in BOOLEAN,
                  Access(v, write, asUser) \/ Branch(v) \/ ReturnToUser(v)
           PROVE  RegimeFollowsM'
        BY <2>1, <2>10 DEF Access, Branch, ReturnToUser, registers
    <2> QED
        BY <2>2, <2>3, <2>4, <2>5, <2>6, <2>7, <2>8, <2>9, <2>10 DEF Next, WriteL1, WriteL2
<1> QED
    BY <1>1, <1>2, TypeCorrect, PTL DEF Spec

-----------------------------------------------------------------------------
(* The registers.  A change of mode moves registers between the live set   *)
(* and the banks and changes none: everything else follows from that and   *)
(* from what each instruction puts where.                                  *)

USE DEF Names

LEMMA BankType ==
    ASSUME NEW m \in Modes
    PROVE  Bank(m) \in Banks /\ (Bank(m) = "fiq" <=> m = "fiq")
    BY DEF Bank, Banks

LEMMA UserBank == "usr" \in Banks
    BY DEF Banks

----------------------------------------------------------------------------
(* Types. *)

LEMMA SetModeType ==
    ASSUME NEW c \in Core, NEW m \in Modes
    PROVE  SetMode(c, m) \in Core /\ SetMode(c, m).mode = m
<1>1. /\ c.r \in [Names -> Values]
      /\ c.spsr \in Modes \cup {NoMode}
      /\ c.top \in [Banks -> [Top -> Values]]
      /\ c.spsrs \in [Banks -> Modes \cup {NoMode}]
      /\ c.usrMid \in [Mid -> Values]
      /\ c.fiqMid \in [Mid -> Values]
      /\ c.mode \in Modes
    BY DEF Core
<1>2. Bank(c.mode) \in Banks /\ Bank(m) \in Banks
    BY <1>1, BankType
<1> DEFINE d == SetMode(c, m)
<1>3. d.r \in [Names -> Values]
    BY <1>1, <1>2 DEF SetMode
<1>4. d.spsr \in Modes \cup {NoMode} /\ d.spsrs \in [Banks -> Modes \cup {NoMode}]
    BY <1>1, <1>2 DEF SetMode
<1>5. d.top \in [Banks -> [Top -> Values]]
    <2>1. [x \in Top |-> c.r[x]] \in [Top -> Values]
        BY <1>1
    <2> QED
        BY <1>1, <1>2, <2>1 DEF SetMode
<1>6. d.usrMid \in [Mid -> Values] /\ d.fiqMid \in [Mid -> Values]
    BY <1>1 DEF SetMode
<1> QED
    BY <1>3, <1>4, <1>5, <1>6 DEF SetMode, Core

LEMMA EnterExceptionType ==
    ASSUME NEW c \in Core, NEW e, TargetMode(e) \in Modes, NEW lr \in Values
    PROVE  EnterException(c, e, lr) \in Core
<1> DEFINE d == SetMode(c, TargetMode(e))
<1>1. d \in Core
    BY SetModeType
<1>2. c.mode \in Modes /\ Link \in Names
    BY NamesAssumption DEF Core
<1>3. EnterException(c, e, lr) = [d EXCEPT !.spsr = c.mode, !.r = [d.r EXCEPT ![Link] = lr]]
    BY <1>1 DEF EnterException, Core
<1>4. [d.r EXCEPT ![Link] = lr] \in [Names -> Values]
    BY <1>1 DEF Core
<1> HIDE DEF d
<1> QED
    BY <1>1, <1>2, <1>3, <1>4 DEF Core

LEMMA PutType ==
    ASSUME NEW c \in Core, NEW x \in Names, NEW v \in Values
    PROVE  [c EXCEPT !.r[x] = v] \in Core
    BY DEF Core

(* The parts that a load for User changes, each by itself. *)
Live(c, x) == \/ x \in Low
              \/ x \in Mid /\ c.mode # "fiq"
              \/ x \in Top /\ Bank(c.mode) = "usr"

UserLoadedR(c, list, contents) ==
    [x \in Names |-> IF x \in list /\ Live(c, x) THEN contents[x] ELSE c.r[x]]
UserLoadedMid(c, list, contents) ==
    [x \in Mid |-> IF x \in list /\ ~Live(c, x) THEN contents[x] ELSE c.usrMid[x]]
UserLoadedTop(c, list, contents) ==
    [x \in Top |-> IF x \in list /\ ~Live(c, x) THEN contents[x] ELSE c.top["usr"][x]]

UserLoaded(c, list, contents) ==
    [mode |-> c.mode,
     r |-> UserLoadedR(c, list, contents),
     spsr |-> c.spsr,
     top |-> [c.top EXCEPT !["usr"] = UserLoadedTop(c, list, contents)],
     spsrs |-> c.spsrs,
     usrMid |-> UserLoadedMid(c, list, contents),
     fiqMid |-> c.fiqMid]

LEMMA SetUserRegsIs ==
    ASSUME NEW c \in Core, NEW list, NEW contents
    PROVE  SetUserRegs(c, list, contents) = UserLoaded(c, list, contents)
<1>1. SetUserRegs(c, list, contents) =
          [c EXCEPT !.r = UserLoadedR(c, list, contents),
                    !.usrMid = UserLoadedMid(c, list, contents),
                    !.top = [c.top EXCEPT !["usr"] = UserLoadedTop(c, list, contents)]]
    BY DEF SetUserRegs, UserLoadedR, UserLoadedMid, UserLoadedTop, Live, Core
<1> QED
    BY <1>1 DEF Core, UserLoaded

LEMMA LoadType ==
    ASSUME NEW c \in Core, NEW list \in SUBSET Names, NEW contents \in Contents,
           NEW users \in BOOLEAN
    PROVE  Load(c, list, contents, users) \in Core
<1>1. contents \in [Names -> Values]
    BY MemoryAssumption
<1>2. SetRegs(c, list, contents) \in Core
    <2>1. [x \in Names |-> IF x \in list THEN contents[x] ELSE c.r[x]] \in [Names -> Values]
        BY <1>1 DEF Core
    <2> QED
        BY <2>1 DEF SetRegs, Core
<1>3. SetUserRegs(c, list, contents) \in Core
    <2>1. /\ UserLoadedR(c, list, contents) \in [Names -> Values]
          /\ UserLoadedMid(c, list, contents) \in [Mid -> Values]
        BY <1>1 DEF Core, UserLoadedR, UserLoadedMid
    <2>2. UserLoadedTop(c, list, contents) \in [Top -> Values]
        BY <1>1, UserBank DEF Core, UserLoadedTop
    <2>3. [c.top EXCEPT !["usr"] = UserLoadedTop(c, list, contents)]
            \in [Banks -> [Top -> Values]]
        BY <2>2 DEF Core
    <2>4. UserLoaded(c, list, contents) \in Core
        BY <2>1, <2>3 DEF UserLoaded, Core
    <2> QED
        BY <2>4, SetUserRegsIs
<1> QED
    BY <1>2, <1>3 DEF Load

LEMMA WritebackType ==
    ASSUME NEW c \in Core, NEW base \in Names, NEW list, NEW v \in Values
    PROVE  Writeback(c, base, list, v) \in Core
    BY PutType DEF Writeback

LEMMA AbortType ==
    ASSUME NEW c \in Core, NEW lr \in Values
    PROVE  EnterException(c, "dataAbort", lr) \in Core
<1>1. TargetMode("dataAbort") = "abt"
    BY DEF TargetMode
<1> QED
    BY <1>1, EnterExceptionType, ModesAssumption

LEMMA ListType ==
    ASSUME NEW list \in Lists, NEW done \in {list} \cup {LoadedBefore(list, x) : x \in list}
    PROVE  done \in SUBSET Names
    BY MemoryAssumption DEF LoadedBefore

LEMMA RegistersInitType == RegistersInit => RegistersTypeOK
    BY BankType DEF RegistersInit, RegistersTypeOK, Core

LEMMA RegistersNextType == RegistersTypeOK /\ [RegistersNext]_core => RegistersTypeOK'
<1> SUFFICES ASSUME core \in Core, [RegistersNext]_core PROVE core' \in Core
    BY DEF RegistersTypeOK
<1>1. ASSUME NEW m \in Modes, WriteCpsr(m) PROVE core' \in Core
    BY <1>1, SetModeType DEF WriteCpsr
<1>2. ASSUME NEW m \in Modes, WriteSpsr(m) PROVE core' \in Core
    BY <1>2 DEF WriteSpsr, Core
<1>3. CASE Return
    BY <1>3, SetModeType DEF Return
<1>4. ASSUME NEW v \in Values, NEW x \in Names, Write(x, v) \/ BlockStore(x, v)
      PROVE  core' \in Core
    BY <1>4, PutType DEF Write, BlockStore
<1>5. ASSUME NEW v \in Values, NEW x \in Names, BlockStoreAborts(x, v)
      PROVE  core' \in Core
    BY <1>5, AbortType DEF BlockStoreAborts
<1>6. ASSUME NEW v \in Values, NEW e \in Raised, Raise(e, v) PROVE core' \in Core
    BY <1>6, EnterExceptionType, ModesAssumption DEF Raise
<1>7. ASSUME NEW v \in Values, NEW w \in Values, PushAborts(v, w) PROVE core' \in Core
    <2>1. [core EXCEPT !.r[Stack] = v] \in Core
        BY PutType, NamesAssumption
    <2> QED
        BY <1>7, <2>1, AbortType DEF PushAborts
<1>8. ASSUME NEW v \in Values, NEW base \in Names, NEW list \in Lists,
             NEW contents \in Contents, NEW users \in BOOLEAN,
             BlockLoad(base, list, contents, users, v)
      PROVE  core' \in Core
    <2>1. Load(core, list, contents, users) \in Core
        BY LoadType, MemoryAssumption
    <2> QED
        BY <1>8, <2>1, WritebackType DEF BlockLoad
<1>9. ASSUME NEW v \in Values, NEW base \in Names, NEW list \in Lists,
             NEW contents \in Contents, NEW users \in BOOLEAN,
             BlockLoadAborts(base, list, contents, users, v)
      PROVE  core' \in Core
    <2>1. PICK done \in {list} \cup {LoadedBefore(list, x) : x \in list} :
              core' = EnterException(Load(core, done, contents, users), "dataAbort", v)
        BY <1>9 DEF BlockLoadAborts
    <2>2. Load(core, done, contents, users) \in Core
        BY ListType, LoadType
    <2> QED
        BY <2>1, <2>2, AbortType
<1>10. ASSUME NEW v \in Values, NEW base \in Names, NEW list \in Lists,
              NEW contents \in Contents, BlockLoadReturn(base, list, contents, v)
       PROVE  core' \in Core
    <2>1. Load(core, list, contents, FALSE) \in Core
        BY LoadType, MemoryAssumption
    <2>2. Writeback(Load(core, list, contents, FALSE), base, list, v) \in Core
        BY <2>1, WritebackType
    <2>3. core.spsr \in Modes
        BY <1>10 DEF BlockLoadReturn
    <2>4. Load(core, list, contents, FALSE) = SetRegs(core, list, contents)
        BY DEF Load
    <2> QED
        BY <1>10, <2>1, <2>2, <2>3, <2>4, SetModeType DEF BlockLoadReturn
<1>11. CASE UNCHANGED core
    BY <1>11
<1> QED
    BY <1>1, <1>2, <1>3, <1>4, <1>5, <1>6, <1>7, <1>8, <1>9, <1>10, <1>11 DEF RegistersNext

(* Registers and statuses keep their types, so no mode is entered that was *)
(* never saved (set_mode, enter_exception, write_cpsr).                    *)
THEOREM RegistersTypeCorrect == RegistersSpec => []RegistersTypeOK
<1>1. RegistersInit => RegistersTypeOK
    BY RegistersInitType
<1>2. RegistersTypeOK /\ [RegistersNext]_core => RegistersTypeOK'
    BY RegistersNextType
<1> QED
    BY <1>1, <1>2, PTL DEF RegistersSpec

----------------------------------------------------------------------------
(* The register file, of a core that need not be the present one. *)

FileOf(c) == [p \in Physical |-> Held(c, p[1], p[2])]
SavedOf(c) == [b \in Banks |-> IF b = Bank(c.mode) THEN c.spsr ELSE c.spsrs[b]]
SeenFrom(m) == {<<x, Owner(x, m)>> : x \in Names}

(* The registers outside a set are the same in two cores. *)
Keeps(c, d, changing) == \A p \in Physical \ changing : FileOf(d)[p] = FileOf(c)[p]

LEMMA PhysicalIs ==
    ASSUME NEW p \in Physical
    PROVE  \E x \in Names, m \in Modes : p = <<x, Owner(x, m)>>
    BY DEF Physical

LEMMA OwnerType ==
    ASSUME NEW x \in Names, NEW m \in Modes
    PROVE  /\ Owner(x, m) \in Banks
           /\ x \in Low => Owner(x, m) = "usr"
           /\ x \in Mid => Owner(x, m) \in {"usr", "fiq"} /\ (Owner(x, m) = "fiq" <=> m = "fiq")
           /\ x \in Top => Owner(x, m) = Bank(m)
    BY BankType, UserBank, NamesAssumption DEF Owner

LEMMA HeldType ==
    ASSUME NEW c \in Core, NEW x \in Names, NEW m \in Modes
    PROVE  Held(c, x, Owner(x, m)) \in Values
<1>1. c.mode \in Modes
    BY DEF Core
<1>2. CASE x \in Low
    BY <1>1, <1>2, OwnerType DEF Held, Core
<1>3. CASE x \in Mid
    BY <1>1, <1>3, OwnerType, NamesAssumption DEF Held, Core
<1>4. CASE x \in Top
    BY <1>1, <1>4, OwnerType DEF Held, Core
<1> QED
    BY <1>2, <1>3, <1>4

LEMMA FileType ==
    ASSUME NEW c \in Core
    PROVE  FileOf(c) \in [Physical -> Values]
<1>1. ASSUME NEW p \in Physical PROVE Held(c, p[1], p[2]) \in Values
    <2>1. PICK x \in Names, m \in Modes : p = <<x, Owner(x, m)>>
        BY PhysicalIs
    <2> QED
        BY <2>1, HeldType
<1> QED
    BY <1>1 DEF FileOf

LEMMA HeldStays ==
    ASSUME NEW c \in Core, NEW new \in Modes, NEW x \in Names, NEW m \in Modes
    PROVE  Held(SetMode(c, new), x, Owner(x, m)) = Held(c, x, Owner(x, m))
<1> DEFINE d == SetMode(c, new)
<1>1. c.mode \in Modes /\ d.mode = new
    BY DEF Core, SetMode
<1>2. CASE x \in Low
    <2>1. d.r[x] = c.r[x]
        BY <1>2, NamesAssumption DEF SetMode
    <2> QED
        BY <1>1, <1>2, <2>1, OwnerType DEF Held
<1>3. CASE x \in Mid
    <2>1. x \notin Top
        BY <1>3, NamesAssumption
    <2>2. d.r[x] = IF (c.mode = "fiq") # (new = "fiq")
                   THEN IF new = "fiq" THEN c.fiqMid[x] ELSE c.usrMid[x] ELSE c.r[x]
        BY <1>3, <2>1 DEF SetMode
    <2>3. /\ d.usrMid[x] = IF c.mode # "fiq" /\ new = "fiq" THEN c.r[x] ELSE c.usrMid[x]
          /\ d.fiqMid[x] = IF c.mode = "fiq" /\ new # "fiq" THEN c.r[x] ELSE c.fiqMid[x]
        BY <1>3 DEF SetMode
    <2>4. \A n \in {m, new, c.mode} :
              Owner(x, n) \in {"usr", "fiq"} /\ (Owner(x, n) = "fiq" <=> n = "fiq")
        BY <1>1, <1>3, OwnerType
    <2> HIDE DEF d
    <2>5. Held(d, x, Owner(x, m)) = Held(c, x, Owner(x, m))
        BY <1>1, <2>1, <2>2, <2>3, <2>4 DEF Held
    <2> QED
        BY <2>5 DEF d
<1>4. CASE x \in Top
    <2>1. x \notin Mid /\ Owner(x, m) \in Banks /\ Bank(c.mode) \in Banks
        BY <1>1, <1>4, NamesAssumption, OwnerType, BankType
    <2>2. d.r[x] = IF Bank(c.mode) # Bank(new) THEN c.top[Bank(new)][x] ELSE c.r[x]
        BY <1>4, <2>1 DEF SetMode
    <2>3. \A b \in Banks :
              d.top[b][x] = IF Bank(c.mode) # Bank(new) /\ b = Bank(c.mode)
                            THEN c.r[x] ELSE c.top[b][x]
        BY <1>4, <2>1 DEF SetMode, Core
    <2>4. Owner(x, d.mode) = Bank(new) /\ Owner(x, c.mode) = Bank(c.mode)
        BY <1>1, <1>4, OwnerType
    <2> HIDE DEF d
    <2>5. Held(d, x, Owner(x, m)) = Held(c, x, Owner(x, m))
        BY <1>4, <2>1, <2>2, <2>3, <2>4 DEF Held
    <2> QED
        BY <2>5 DEF d
<1> QED
    BY <1>2, <1>3, <1>4

(* A change of mode changes no register and no status. *)
LEMMA SetModeFile ==
    ASSUME NEW c \in Core, NEW new \in Modes
    PROVE  /\ FileOf(SetMode(c, new)) = FileOf(c)
           /\ SavedOf(SetMode(c, new)) = SavedOf(c)
<1>1. ASSUME NEW p \in Physical
      PROVE  Held(SetMode(c, new), p[1], p[2]) = Held(c, p[1], p[2])
    <2>1. PICK x \in Names, m \in Modes : p = <<x, Owner(x, m)>>
        BY PhysicalIs
    <2> QED
        BY <2>1, HeldStays
<1>2. FileOf(SetMode(c, new)) = FileOf(c)
    BY <1>1 DEF FileOf
<1>3. SavedOf(SetMode(c, new)) = SavedOf(c)
    <2> DEFINE d == SetMode(c, new)
    <2>1. c.mode \in Modes /\ d.mode = new
        BY DEF Core, SetMode
    <2>2. d.spsr = IF Bank(c.mode) # Bank(new) THEN c.spsrs[Bank(new)] ELSE c.spsr
        BY DEF SetMode
    <2>3. \A b \in Banks :
              d.spsrs[b] = IF Bank(c.mode) # Bank(new) /\ b = Bank(c.mode)
                           THEN c.spsr ELSE c.spsrs[b]
        BY DEF SetMode, Core
    <2> HIDE DEF d
    <2>4. \A b \in Banks : (IF b = Bank(d.mode) THEN d.spsr ELSE d.spsrs[b])
                            = (IF b = Bank(c.mode) THEN c.spsr ELSE c.spsrs[b])
        BY <2>1, <2>2, <2>3
    <2>5. SavedOf(d) = SavedOf(c)
        BY <2>4 DEF SavedOf
    <2> QED
        BY <2>5 DEF d
<1> QED
    BY <1>2, <1>3

(* Instructions change only registers seen from their mode or from User's. *)
LEMMA LiveKeeps ==
    ASSUME NEW c, NEW d,
           d.mode = c.mode, d.spsr = c.spsr, d.top = c.top, d.spsrs = c.spsrs,
           d.usrMid = c.usrMid, d.fiqMid = c.fiqMid
    PROVE  Keeps(c, d, SeenFrom(c.mode)) /\ SavedOf(d) = SavedOf(c)
<1>1. ASSUME NEW p \in Physical \ SeenFrom(c.mode) PROVE FileOf(d)[p] = FileOf(c)[p]
    <2>1. PICK y \in Names, m \in Modes : p = <<y, Owner(y, m)>>
        BY PhysicalIs
    <2>2. Owner(y, m) # Owner(y, c.mode)
        BY <2>1 DEF SeenFrom
    <2>3. Held(d, y, Owner(y, m)) = Held(c, y, Owner(y, m))
        BY <2>2 DEF Held
    <2> QED
        BY <2>1, <2>3 DEF FileOf
<1> QED
    BY <1>1 DEF Keeps, SavedOf

LEMMA PutKeeps ==
    ASSUME NEW c \in Core, NEW x \in Names, NEW v \in Values
    PROVE  LET d == [c EXCEPT !.r[x] = v]
           IN  /\ Keeps(c, d, SeenFrom(c.mode))
               /\ SavedOf(d) = SavedOf(c) /\ d.mode = c.mode /\ d.spsr = c.spsr
<1> DEFINE d == [c EXCEPT !.r[x] = v]
<1>1. /\ d.mode = c.mode /\ d.spsr = c.spsr /\ d.top = c.top /\ d.spsrs = c.spsrs
      /\ d.usrMid = c.usrMid /\ d.fiqMid = c.fiqMid
    BY DEF Core
<1> HIDE DEF d
<1> QED
    BY <1>1, LiveKeeps DEF d

LEMMA SetRegsKeeps ==
    ASSUME NEW c \in Core, NEW list, NEW contents
    PROVE  LET d == SetRegs(c, list, contents)
           IN  /\ Keeps(c, d, SeenFrom(c.mode))
               /\ SavedOf(d) = SavedOf(c) /\ d.mode = c.mode /\ d.spsr = c.spsr
<1> DEFINE d == SetRegs(c, list, contents)
<1>1. /\ d.mode = c.mode /\ d.spsr = c.spsr /\ d.top = c.top /\ d.spsrs = c.spsrs
      /\ d.usrMid = c.usrMid /\ d.fiqMid = c.fiqMid
    BY DEF Core, SetRegs
<1> HIDE DEF d
<1> QED
    BY <1>1, LiveKeeps DEF d

LEMMA UserLoadedKeeps ==
    ASSUME NEW c \in Core, NEW list, NEW contents
    PROVE  LET d == UserLoaded(c, list, contents)
           IN  /\ Keeps(c, d, SeenFrom(c.mode) \cup SeenFrom("usr"))
               /\ SavedOf(d) = SavedOf(c) /\ d.mode = c.mode /\ d.spsr = c.spsr
<1> DEFINE d == UserLoaded(c, list, contents)
<1>1. /\ d.mode = c.mode /\ d.spsr = c.spsr /\ d.spsrs = c.spsrs /\ d.fiqMid = c.fiqMid
      /\ \A b \in Banks \ {"usr"} : d.top[b] = c.top[b]
    BY DEF UserLoaded, Core
<1> HIDE DEF d
<1>2. ASSUME NEW p \in Physical \ (SeenFrom(c.mode) \cup SeenFrom("usr"))
      PROVE  FileOf(d)[p] = FileOf(c)[p]
    <2>1. PICK y \in Names, m \in Modes : p = <<y, Owner(y, m)>>
        BY PhysicalIs
    <2>2. Owner(y, m) # Owner(y, c.mode) /\ Owner(y, m) # Owner(y, "usr")
        BY <2>1 DEF SeenFrom
    <2>3. Owner(y, "usr") = "usr" /\ Owner(y, m) \in Banks
        BY OwnerType DEF Owner, Bank
    <2>4. y \notin Top => Owner(y, m) = "fiq"
        BY <2>2, <2>3 DEF Owner
    <2>5. Held(d, y, Owner(y, m)) = Held(c, y, Owner(y, m))
        BY <1>1, <2>2, <2>3, <2>4 DEF Held
    <2> QED
        BY <2>1, <2>5 DEF FileOf
<1>3. SavedOf(d) = SavedOf(c)
    BY <1>1 DEF SavedOf
<1> QED
    BY <1>1, <1>2, <1>3 DEF Keeps, d

LEMMA LoadKeeps ==
    ASSUME NEW c \in Core, NEW list, NEW contents, NEW users \in BOOLEAN
    PROVE  LET d == Load(c, list, contents, users)
           IN  /\ Keeps(c, d, SeenFrom(c.mode) \cup SeenFrom("usr"))
               /\ SavedOf(d) = SavedOf(c) /\ d.mode = c.mode /\ d.spsr = c.spsr
    BY SetRegsKeeps, SetUserRegsIs, UserLoadedKeeps DEF Load, Keeps

LEMMA WritebackKeeps ==
    ASSUME NEW c \in Core, NEW base \in Names, NEW list, NEW v \in Values
    PROVE  LET d == Writeback(c, base, list, v)
           IN  /\ Keeps(c, d, SeenFrom(c.mode))
               /\ SavedOf(d) = SavedOf(c) /\ d.mode = c.mode /\ d.spsr = c.spsr
    BY PutKeeps DEF Writeback, Keeps

(* An exception saves the mode it comes from, and changes the link of the  *)
(* bank it goes to.                                                        *)
LEMMA ExceptionKeeps ==
    ASSUME NEW c \in Core, NEW e, TargetMode(e) \in Modes \ {"usr", "sys"}, NEW lr \in Values
    PROVE  LET d == EnterException(c, e, lr)
               m == TargetMode(e)
           IN  /\ d.mode = m
               /\ Keeps(c, d, {<<Link, Bank(m)>>})
               /\ SavedOf(d) = [SavedOf(c) EXCEPT ![Bank(m)] = c.mode]
<1> DEFINE m == TargetMode(e)
           s == SetMode(c, m)
           d == EnterException(c, e, lr)
<1>1. s \in Core /\ s.mode = m /\ FileOf(s) = FileOf(c) /\ SavedOf(s) = SavedOf(c)
    BY SetModeType, SetModeFile
<1>2. /\ d.mode = m /\ d.spsr = c.mode /\ d.top = s.top /\ d.spsrs = s.spsrs
      /\ d.usrMid = s.usrMid /\ d.fiqMid = s.fiqMid
      /\ \A x \in Names \ {Link} : d.r[x] = s.r[x]
    BY <1>1 DEF EnterException, Core
<1>3. Owner(Link, m) = Bank(m) /\ Bank(m) \in Banks
    BY OwnerType, BankType, NamesAssumption
<1> HIDE DEF s, d, m
<1>4. ASSUME NEW p \in Physical \ {<<Link, Bank(m)>>} PROVE FileOf(d)[p] = FileOf(s)[p]
    <2>1. PICK y \in Names, n \in Modes : p = <<y, Owner(y, n)>>
        BY PhysicalIs
    <2>2. y = Link => Owner(y, n) # Owner(y, m)
        BY <1>3, <2>1
    <2>3. Held(d, y, Owner(y, n)) = Held(s, y, Owner(y, n))
        BY <1>1, <1>2, <2>2 DEF Held
    <2> QED
        BY <2>1, <2>3 DEF FileOf
<1>5. SavedOf(d) = [SavedOf(s) EXCEPT ![Bank(m)] = c.mode]
    BY <1>1, <1>2, <1>3 DEF SavedOf
<1> QED
    BY <1>1, <1>2, <1>4, <1>5 DEF Keeps, d, m

----------------------------------------------------------------------------
(* Each step is a step of the register file. *)

LEMMA Mapped ==
    /\ SeenFile = FileOf(core) /\ SeenSaved = SavedOf(core)
    /\ SeenFile' = FileOf(core') /\ SeenSaved' = SavedOf(core')
    BY DEF SeenFile, SeenSaved, FileOf, SavedOf

LEMMA OnlyChanges ==
    ASSUME core' \in Core, NEW changing, Keeps(core, core', changing)
    PROVE  File!OnlyChange(changing)
<1>1. FileOf(core') \in [Physical -> Values]
    BY FileType
<1>2. File!Physical = Physical
    BY DEF File!Physical, Physical, File!Owner, Owner, File!Bank, Bank, File!Names
<1> QED
    BY <1>1, <1>2, Mapped DEF File!OnlyChange, Keeps

LEMMA SeenIs == ASSUME NEW m PROVE File!Seen(m) = SeenFrom(m) /\ File!Bank(m) = Bank(m)
    BY DEF File!Seen, SeenFrom, File!Owner, Owner, File!Bank, Bank, File!Names

LEMMA ComputeRefines ==
    ASSUME core \in Core, core' \in Core,
           Keeps(core, core', SeenFrom(core.mode) \cup SeenFrom("usr")),
           SavedOf(core') = SavedOf(core), core'.mode = core.mode
    PROVE  File!Compute
<1>1. File!OnlyChange(SeenFrom(core.mode) \cup SeenFrom("usr"))
    BY OnlyChanges
<1>2. File!Seen(core.mode) = SeenFrom(core.mode) /\ File!Seen("usr") = SeenFrom("usr")
    BY SeenIs
<1> QED
    BY <1>1, <1>2, Mapped DEF File!Compute

LEMMA MoveRefines ==
    ASSUME core \in Core, NEW m \in Modes, core' = SetMode(core, m)
    PROVE  File!Move
    BY SetModeType, SetModeFile, Mapped DEF File!Move

LEMMA ReturnRefines ==
    ASSUME core \in Core, NEW c \in Core, HasSpsr, core.spsr \in Modes,
           core' = SetMode(c, core.spsr),
           Keeps(core, c, SeenFrom(core.mode)), SavedOf(c) = SavedOf(core)
    PROVE  File!Return
<1>1. /\ core' \in Core /\ core'.mode = core.spsr
      /\ FileOf(core') = FileOf(c) /\ SavedOf(core') = SavedOf(core)
    BY SetModeType, SetModeFile
<1>2. File!OnlyChange(File!Seen(core.mode))
    BY <1>1, OnlyChanges, SeenIs DEF Keeps
<1>3. core.mode \in Modes
    BY DEF Core
<1>4. SavedOf(core)[Bank(core.mode)] = core.spsr
    BY <1>3, BankType DEF SavedOf
<1> QED
    BY <1>1, <1>2, <1>4, Mapped, SeenIs DEF File!Return, File!HasSaved, HasSpsr

LEMMA TargetType ==
    ASSUME NEW e \in Raised \cup {"dataAbort"}
    PROVE  TargetMode(e) \in Modes \ {"usr", "sys"}
<1>1. e \in Exceptions /\ TargetMode(e) \in Modes
    BY ModesAssumption DEF Exceptions, TargetMode
<1>2. TargetMode(e) \notin {"usr", "sys"}
    BY <1>1 DEF Exceptions, TargetMode
<1> QED
    BY <1>1, <1>2

LEMMA RaiseRefines ==
    ASSUME core \in Core, NEW e \in Raised, NEW lr \in Values,
           core' = EnterException(core, e, lr)
    PROVE  File!Except
<1> DEFINE m == TargetMode(e)
<1>1. m \in Modes \ {"usr", "sys"}
    BY TargetType
<1>2. core' \in Core
    BY <1>1, EnterExceptionType
<1>3. /\ core'.mode = m /\ Keeps(core, core', {<<Link, Bank(m)>>})
      /\ SavedOf(core') = [SavedOf(core) EXCEPT ![Bank(m)] = core.mode]
    BY <1>1, ExceptionKeeps
<1> HIDE DEF m
<1>4. File!SavesInto(m)
    BY <1>1, <1>3, Mapped, SeenIs DEF File!SavesInto, File!HasSaved, Bank
<1>5. File!OnlyChange({<<Link, File!Bank(core'.mode)>>})
    BY <1>2, <1>3, OnlyChanges, SeenIs
<1> QED
    BY <1>1, <1>4, <1>5 DEF File!Except

LEMMA AbortRefines ==
    ASSUME core \in Core, NEW c \in Core, NEW lr \in Values,
           Keeps(core, c, SeenFrom(core.mode) \cup SeenFrom("usr")),
           SavedOf(c) = SavedOf(core), c.mode = core.mode,
           core' = EnterException(c, "dataAbort", lr)
    PROVE  File!Abort
<1>1. TargetMode("dataAbort") = "abt" /\ Bank("abt") = "abt"
    BY DEF TargetMode, Bank
<1>2. "abt" \in Modes
    BY ModesAssumption
<1>3. core' \in Core
    BY AbortType
<1>4. /\ core'.mode = "abt" /\ Keeps(c, core', {<<Link, "abt">>})
      /\ SavedOf(core') = [SavedOf(core) EXCEPT !["abt"] = core.mode]
    BY <1>1, <1>2, ExceptionKeeps
<1>5. File!SavesInto("abt")
    BY <1>1, <1>4, Mapped, SeenIs DEF File!SavesInto, File!HasSaved
<1>6. Keeps(core, core', SeenFrom(core.mode) \cup SeenFrom("usr") \cup {<<Link, "abt">>})
    BY <1>4 DEF Keeps
<1>7. File!OnlyChange(SeenFrom(core.mode) \cup SeenFrom("usr") \cup {<<Link, "abt">>})
    BY <1>3, <1>6, OnlyChanges
<1>8. File!Seen(core.mode) = SeenFrom(core.mode) /\ File!Seen("usr") = SeenFrom("usr")
    BY SeenIs
<1> QED
    BY <1>5, <1>7, <1>8 DEF File!Abort

LEMMA InitRefines == RegistersInit => File!Init
<1> SUFFICES ASSUME RegistersInit PROVE File!Init
    OBVIOUS
<1>1. core \in Core
    BY RegistersInitType DEF RegistersTypeOK
<1>2. FileOf(core) \in [Physical -> Values] /\ core.mode \in Modes
    BY <1>1, FileType DEF Core
<1>3. SavedOf(core) = [b \in Banks |-> NoMode]
    BY DEF RegistersInit, SavedOf
<1>4. File!Physical = Physical /\ File!Banks = Banks
    BY DEF File!Physical, Physical, File!Owner, Owner, File!Banks, Banks, File!Bank, Bank,
           File!Names
<1> QED
    BY <1>2, <1>3, <1>4, Mapped DEF File!Init

LEMMA NextRefines ==
    RegistersTypeOK /\ [RegistersNext]_core => [File!Next]_<<core.mode, SeenFile, SeenSaved>>
<1> SUFFICES ASSUME core \in Core, core' \in Core, [RegistersNext]_core
             PROVE  File!Next \/ UNCHANGED <<core.mode, SeenFile, SeenSaved>>
    BY RegistersNextType DEF RegistersTypeOK
<1> USE DEF File!Next
<1>1. ASSUME NEW m \in Modes, WriteCpsr(m) PROVE File!Next
    BY <1>1, MoveRefines DEF WriteCpsr
<1>2. ASSUME NEW m \in Modes, WriteSpsr(m) PROVE File!Next
    <2>1. /\ core'.mode = core.mode /\ core'.spsr = m /\ core'.spsrs = core.spsrs
          /\ core'.r = core.r /\ core'.top = core.top
          /\ core'.usrMid = core.usrMid /\ core'.fiqMid = core.fiqMid
        BY <1>2 DEF WriteSpsr, Core
    <2>2. FileOf(core') = FileOf(core)
        BY <2>1 DEF FileOf, Held
    <2>3. core.mode \in Modes /\ Bank(core.mode) \in Banks
        BY BankType DEF Core
    <2>4. SavedOf(core') = [SavedOf(core) EXCEPT ![Bank(core.mode)] = m]
        BY <2>1, <2>3 DEF SavedOf
    <2>5. File!HasSaved(core.mode) /\ File!Bank(core.mode) = Bank(core.mode)
        BY <1>2, SeenIs DEF WriteSpsr, HasSpsr, File!HasSaved
    <2> QED
        BY <2>1, <2>2, <2>4, <2>5, Mapped DEF File!SetSaved
<1>3. CASE Return
    BY <1>3, ReturnRefines DEF Return, Keeps
<1>4. ASSUME NEW v \in Values, NEW x \in Names, Write(x, v) \/ BlockStore(x, v)
      PROVE  File!Next
    <2>1. core' = [core EXCEPT !.r[x] = v]
        BY <1>4 DEF Write, BlockStore
    <2> QED
        BY <2>1, PutKeeps, ComputeRefines DEF Keeps
<1>5. ASSUME NEW v \in Values, NEW x \in Names, BlockStoreAborts(x, v)
      PROVE  File!Next
    BY <1>5, AbortRefines DEF BlockStoreAborts, Keeps
<1>6. ASSUME NEW v \in Values, NEW e \in Raised, Raise(e, v) PROVE File!Next
    BY <1>6, RaiseRefines DEF Raise
<1>7. ASSUME NEW v \in Values, NEW w \in Values, PushAborts(v, w) PROVE File!Next
    <2> DEFINE c == [core EXCEPT !.r[Stack] = v]
    <2>1. Stack \in Names
        BY NamesAssumption
    <2>2. /\ c \in Core /\ Keeps(core, c, SeenFrom(core.mode))
          /\ SavedOf(c) = SavedOf(core) /\ c.mode = core.mode
        BY <2>1, PutType, PutKeeps
    <2>3. core' = EnterException(c, "dataAbort", w)
        BY <1>7 DEF PushAborts
    <2> HIDE DEF c
    <2> QED
        BY <2>2, <2>3, AbortRefines DEF Keeps
<1>8. ASSUME NEW v \in Values, NEW base \in Names, NEW list \in Lists,
             NEW contents \in Contents, NEW users \in BOOLEAN,
             BlockLoad(base, list, contents, users, v)
      PROVE  File!Next
    <2> DEFINE c == Load(core, list, contents, users)
               d == Writeback(c, base, list, v)
    <2>1. /\ c \in Core /\ SavedOf(c) = SavedOf(core) /\ c.mode = core.mode
          /\ Keeps(core, c, SeenFrom(core.mode) \cup SeenFrom("usr"))
        BY LoadType, MemoryAssumption, LoadKeeps
    <2>2. core' = c \/ core' = d
        BY <1>8 DEF BlockLoad
    <2> HIDE DEF c
    <2>3. /\ SavedOf(d) = SavedOf(c) /\ d.mode = c.mode
          /\ Keeps(c, d, SeenFrom(c.mode))
        BY <2>1, WritebackKeeps
    <2> HIDE DEF d
    <2>4. Keeps(core, d, SeenFrom(core.mode) \cup SeenFrom("usr"))
        BY <2>1, <2>3 DEF Keeps
    <2> QED
        BY <2>1, <2>2, <2>3, <2>4, ComputeRefines
<1>9. ASSUME NEW v \in Values, NEW base \in Names, NEW list \in Lists,
             NEW contents \in Contents, NEW users \in BOOLEAN,
             BlockLoadAborts(base, list, contents, users, v)
      PROVE  File!Next
    <2>1. PICK done \in {list} \cup {LoadedBefore(list, x) : x \in list} :
              core' = EnterException(Load(core, done, contents, users), "dataAbort", v)
        BY <1>9 DEF BlockLoadAborts
    <2> DEFINE c == Load(core, done, contents, users)
    <2>2. c \in Core
        BY ListType, LoadType
    <2>3. /\ SavedOf(c) = SavedOf(core) /\ c.mode = core.mode
          /\ Keeps(core, c, SeenFrom(core.mode) \cup SeenFrom("usr"))
        BY LoadKeeps
    <2> QED
        BY <2>1, <2>2, <2>3, AbortRefines
<1>10. ASSUME NEW v \in Values, NEW base \in Names, NEW list \in Lists,
              NEW contents \in Contents, BlockLoadReturn(base, list, contents, v)
       PROVE  File!Next
    <2> DEFINE c == Load(core, list, contents, FALSE)
               d == Writeback(c, base, list, v)
    <2>1. c = SetRegs(core, list, contents) /\ c \in Core
        BY LoadType, MemoryAssumption DEF Load
    <2>2. HasSpsr /\ core.spsr \in Modes
        BY <1>10 DEF BlockLoadReturn
    <2>3. core' = SetMode(c, core.spsr) \/ core' = SetMode(d, core.spsr)
        BY <1>10 DEF BlockLoadReturn
    <2> HIDE DEF c
    <2>4. /\ SavedOf(c) = SavedOf(core) /\ c.mode = core.mode
          /\ Keeps(core, c, SeenFrom(core.mode))
        BY <2>1, SetRegsKeeps
    <2>5. d \in Core /\ SavedOf(d) = SavedOf(c) /\ Keeps(c, d, SeenFrom(c.mode))
        BY <2>1, WritebackType, WritebackKeeps
    <2> HIDE DEF d
    <2>6. Keeps(core, d, SeenFrom(core.mode))
        BY <2>4, <2>5 DEF Keeps
    <2>7. CASE core' = SetMode(c, core.spsr)
        BY <2>1, <2>2, <2>4, <2>7, ReturnRefines
    <2>8. CASE core' = SetMode(d, core.spsr)
        BY <2>2, <2>4, <2>5, <2>6, <2>8, ReturnRefines
    <2> QED
        BY <2>3, <2>7, <2>8
<1>11. CASE UNCHANGED core
    BY <1>11, Mapped
<1> QED
    BY <1>1, <1>2, <1>3, <1>4, <1>5, <1>6, <1>7, <1>8, <1>9, <1>10, <1>11 DEF RegistersNext

(* The live registers and the copies set_mode spills and fills are the     *)
(* register file of the architecture, through any nesting of exceptions    *)
(* and any block transfer, whole or aborted.                               *)
THEOREM RefinesRegisterFile == RegistersSpec => ImplementsRegisterFile
<1>1. RegistersInit => File!Init
    BY InitRefines
<1>2. RegistersTypeOK /\ [RegistersNext]_core => [File!Next]_<<core.mode, SeenFile, SeenSaved>>
    BY NextRefines
<1> QED
    BY <1>1, <1>2, RegistersTypeCorrect, PTL DEF RegistersSpec, ImplementsRegisterFile, File!Spec

(* user_reg finds User's registers from every mode, for STM with S.        *)
THEOREM UsersAreFound == RegistersSpec => []UserRegistersAreFound
<1>1. RegistersTypeOK => UserRegistersAreFound
    <2> SUFFICES ASSUME core \in Core, NEW x \in Names
                 PROVE  UserReg(core, x) = Held(core, x, Owner(x, "usr"))
        BY DEF RegistersTypeOK, UserRegistersAreFound
    <2>1. core.mode \in Modes /\ "usr" \in Modes
        BY ModesAssumption DEF Core
    <2>2. CASE x \in Low
        BY <2>1, <2>2, OwnerType, NamesAssumption DEF UserReg, Held
    <2>3. CASE x \in Mid
        <3>1. x \notin Top /\ Owner(x, "usr") = "usr"
            BY <2>1, <2>3, OwnerType, NamesAssumption
        <3>2. Owner(x, core.mode) \in {"usr", "fiq"}
              /\ (Owner(x, core.mode) = "fiq" <=> core.mode = "fiq")
            BY <2>1, <2>3, OwnerType
        <3> QED
            BY <2>3, <3>1, <3>2 DEF UserReg, Held
    <2>4. CASE x \in Top
        <3>1. x \notin Mid /\ Owner(x, "usr") = "usr" /\ Owner(x, core.mode) = Bank(core.mode)
            BY <2>1, <2>4, OwnerType, NamesAssumption DEF Bank
        <3> QED
            BY <2>4, <3>1 DEF UserReg, Held
    <2> QED
        BY <2>2, <2>3, <2>4
<1> QED
    BY <1>1, RegistersTypeCorrect, PTL
=============================================================================
