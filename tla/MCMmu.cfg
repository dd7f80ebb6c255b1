SPECIFICATION Spec
CONSTANTS
    Low = Low
    High = High
    Far = Far
    Megabyte = Megabyte
    Domain = Domain
    Base1 = Base1
    Base2 = Base2
    PageTable = PageTable
    Ram = Ram
    Rom = Rom
    Slot1 = Slot1
    Slot2 = Slot2
    Kernel = Kernel
    Program = Program
    Empty = Empty
    Granules <- Addresses
    Sections = {Megabyte}
    SectionOf <- Megabytes
    Slots = {Slot1, Slot2}
    SlotOf <- Placement
    Frames = {Ram, Rom}
    Domains = {Domain}
    Bases = {Base1, Base2}
    Tables = {PageTable}
    L1Values <- FirstLevel
    L2Values <- SecondLevel
    Spans <- DescriptorSpans
    Controls <- Switches
    Dacrs <- Access3
    Pids <- Processes
    Relocated <- Places
    Vector = Far
    Patience = 2
INVARIANTS AccessesAreCurrent RegimeFollowsM
