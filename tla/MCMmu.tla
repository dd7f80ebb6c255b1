------------------------------- MODULE MCMmu -------------------------------
(***************************************************************************)
(* A page of two granules with permissions of their own, and a granule     *)
(* that goes to the same entry of the cache as the first of them; two      *)
(* first-level tables, one of them mapping the lot by a section.           *)
(***************************************************************************)
EXTENDS Mmu

CONSTANTS Low, High, Far, Megabyte, Domain, Base1, Base2, PageTable,
    Ram, Rom, Slot1, Slot2, Kernel, Program

Addresses == {Low, High, Far}
Megabytes == [g \in Addresses |-> Megabyte]
Placement == [g \in Addresses |-> IF g = High THEN Slot2 ELSE Slot1]
DescriptorSpans == {{Low, High}, {Far}}

ByTable == [kind |-> "table", domain |-> Domain, table |-> PageTable]
BySection == [kind |-> "section", domain |-> Domain, ap |-> 0, frame |-> Rom]
FirstLevel == {ByTable, BySection}

Page(ap) == [kind |-> "page", ap |-> ap, frame |-> Ram]
Mapped == [g \in Addresses |-> IF g = High THEN Page(3) ELSE Page(1)]
Unmapped == [g \in Addresses |-> [kind |-> "invalid"]]
SecondLevel == {Mapped, Unmapped}

Switches == {[M |-> m, S |-> s, R |-> FALSE] : m, s \in BOOLEAN}
Access3 == {[d \in {Domain} |-> n] : n \in {0, 1, 3}}

Processes == {Kernel, Program}
Places == [p \in Processes |-> [g \in Addresses |->
    IF p = Program /\ g = Low THEN High ELSE g]]
=============================================================================
