----------------------------- MODULE FatVolume -----------------------------
(***************************************************************************)
(* The FAT32 volume on the USB drive, as the host writes it (fatfile.rs).  *)
(*                                                                         *)
(* A volume is its allocation table and its clusters.  The copies of the   *)
(* table are written together and are one.  A cluster is PerCluster slots: *)
(* those of a directory are entries, those of a file are all its data.     *)
(* A name is the sequence of the parts its long entries carry; short names *)
(* differ in their number only.  Sizes are in clusters.                    *)
(***************************************************************************)
EXTENDS Naturals, Sequences, SequencesExt, FiniteSetsExt

CONSTANTS
    Total,        \* how many clusters there are
    PerCluster,   \* slots in a cluster
    Aliases,      \* the numbers tried for a short name: 999
    LooksLong,    \* data that has 0x0F where an entry has its attributes
    Megabytes     \* the sizes a new drive may be asked to have

ASSUME MegabytesAssumption == Megabytes \subseteq Nat

Clusters == 2 .. Total + 1
Root == 2
Free == 0
EndOfChain == 1

Zero == [kind |-> "zero", dead |-> FALSE]
Label == [kind |-> "label", dead |-> FALSE]
Block(slot) == [i \in 1 .. PerCluster |-> slot]
DataBlock(x) == Block([kind |-> "data", dead |-> FALSE, is |-> x])

(* A volume as format leaves it: the root is one cluster, with the label.  *)
Formatted ==
    [fat |-> [c \in Clusters |-> IF c = Root THEN EndOfChain ELSE Free],
     disk |-> [c \in Clusters |-> IF c = Root THEN [Block(Zero) EXCEPT ![1] = Label] ELSE Block(Zero)]]

(* One that was formatted elsewhere, without a label.                      *)
Unlabelled == [Formatted EXCEPT !.disk[Root] = Block(Zero)]

-----------------------------------------------------------------------------
(* Reading. *)

(* A chain ends where the table says nothing that is a cluster. *)
Chain(v, start) ==
    LET upTo[n \in 0 .. Total] ==
            IF n = 0 THEN << >>
            ELSE LET prior == upTo[n - 1]
                     next == IF prior = << >> THEN start ELSE v.fat[Last(prior)]
                 IN  IF Len(prior) = n - 1 /\ next \in Clusters THEN Append(prior, next) ELSE prior
    IN  upTo[Total]

(* Where the slots of the root are, in the order of its chain. *)
RootSlots(v) ==
    LET chain == Chain(v, Root)
    IN  [i \in 1 .. PerCluster * Len(chain) |->
            <<chain[1 + (i - 1) \div PerCluster], 1 + ((i - 1) % PerCluster)>>]

SlotAt(v, at) == v.disk[at[1]][at[2]]

(* The files of the root.  The long entries before a short one are its     *)
(* name, whatever they were written for; one without any has the empty     *)
(* name, for the short name it is listed by.                               *)
List(v) ==
    LET see(seen, at) ==
            LET e == SlotAt(v, at)
            IN  IF seen.over THEN seen
                ELSE CASE e.kind = "zero" /\ ~e.dead -> [seen EXCEPT !.over = TRUE]
                       [] e.kind = "long" /\ ~e.dead -> [seen EXCEPT !.long = << e.part >> \o @]
                       [] e.kind = "short" /\ ~e.dead ->
                             [seen EXCEPT !.long = << >>,
                                          !.files = @ \cup {[name |-> seen.long, size |-> e.size,
                                                             cluster |-> e.cluster, at |-> at]}]
                       [] OTHER -> [seen EXCEPT !.long = << >>]
    IN  FoldLeft(see, [files |-> {}, long |-> << >>, over |-> FALSE], RootSlots(v)).files

(* What a cluster of a file holds; a byte of it may have been marked dead. *)
Held(block) == IF \E i \in DOMAIN block : block[i].dead THEN "spoiled" ELSE block[1].is

ReadFile(v, e) ==
    LET chain == Chain(v, e.cluster)
    IN  [i \in 1 .. Min({e.size, Len(chain)}) |-> Held(v.disk[chain[i]])]

-----------------------------------------------------------------------------
(* Writing: what is written to the store, in order. *)

ToTable(c, value) == [to |-> "table", cluster |-> c, value |-> value]
ToCluster(c, block) == [to |-> "cluster", cluster |-> c, value |-> block]
ToSlot(at, slot) == [to |-> "slot", cluster |-> at[1], slot |-> at[2], value |-> slot]

Write(v, w) ==
    CASE w.to = "table" -> [v EXCEPT !.fat[w.cluster] = w.value]
      [] w.to = "cluster" -> [v EXCEPT !.disk[w.cluster] = w.value]
      [] w.to = "slot" -> [v EXCEPT !.disk[w.cluster][w.slot] = w.value]

WriteAll(v, ws) == FoldLeft(Write, v, ws)

Dead(v, at) == ToSlot(at, [SlotAt(v, at) EXCEPT !.dead = TRUE])

(* The slot that lies before one on the disk. *)
Back(at) == IF at[2] > 1 THEN <<at[1], at[2] - 1>> ELSE <<at[1] - 1, PerCluster>>

(* Byte 11 is the attributes of an entry, dead or not, and any byte of data. *)
IsLong(slot) == slot.kind = "long" \/ (slot.kind = "data" /\ slot.is \in LooksLong)

(* What lies before a slot of the disk and looks like a long entry, the    *)
(* nearest first, whatever it belongs to.  Before the first cluster is the *)
(* end of the table, taken to be zeros here.                               *)
LongBefore(v, at) ==
    LET upTo[n \in Nat] ==
            IF n = 0 THEN << >>
            ELSE LET prior == upTo[n - 1]
                     b == Back(IF prior = << >> THEN at ELSE Last(prior))
                 IN  IF Len(prior) = n - 1 /\ b[1] \in Clusters /\ IsLong(SlotAt(v, b))
                     THEN Append(prior, b) ELSE prior
    IN  upTo[PerCluster * Total]

(* Mutant of RemoveFile: the long entries stay. *)
RemoveShortEntry(v, e) ==
    LET chain == Chain(v, e.cluster)
    IN  [i \in DOMAIN chain |-> ToTable(chain[i], Free)] \o << Dead(v, e.at) >>

RemoveFile(v, e) ==
    LET chain == Chain(v, e.cluster)
        long == LongBefore(v, e.at)
    IN  [i \in DOMAIN chain |-> ToTable(chain[i], Free)] \o << Dead(v, e.at) >>
            \o [i \in DOMAIN long |-> Dead(v, long[i])]

(* The long entries of a file: those that come before it in the root.      *)
OwnLong(v, e) ==
    LET slots == RootSlots(v)
        short == CHOOSE i \in DOMAIN slots : slots[i] = e.at
        live(i) == SlotAt(v, slots[i]).kind = "long" /\ ~SlotAt(v, slots[i]).dead
    IN  {slots[i] : i \in {j \in 1 .. short - 1 : \A k \in j .. short - 1 : live(k)}}

(* A removal that marks what is in use and not of the file, or leaves long *)
(* entries of its own behind.                                              *)
GoesAstray(v, e) ==
    {at \in ToSet(LongBefore(v, e.at)) :
        /\ ~SlotAt(v, at).dead
        /\ v.fat[at[1]] # Free
        /\ at[1] \notin ToSet(Chain(v, e.cluster))} # OwnLong(v, e)

(* The guest's own driver deletes what is the file's and nothing else.     *)
Deleted(v, e) ==
    LET freed == [c \in Clusters |-> IF c \in ToSet(Chain(v, e.cluster)) THEN Free ELSE v.fat[c]]
        dead == OwnLong(v, e) \cup {e.at}
    IN  [fat |-> freed,
         disk |-> [c \in Clusters |-> [i \in 1 .. PerCluster |->
                      [v.disk[c][i] EXCEPT !.dead = @ \/ <<c, i>> \in dead]]]]

(* The first clusters that are free; none, if there are too few.           *)
Allocate(v, n) ==
    LET free == SetToSortSeq({c \in Clusters : v.fat[c] = Free}, <)
    IN  IF Len(free) < n THEN << >> ELSE SubSeq(free, 1, n)

(* The number of a short name nothing else has; when there is none, the    *)
(* last, whoever has it.                                                   *)
Alias(v) ==
    LET taken == {SlotAt(v, at).alias : at \in {a \in ToSet(RootSlots(v)) :
                        SlotAt(v, a).kind = "short" /\ ~SlotAt(v, a).dead}}
        fresh == (1 .. Aliases) \ taken
    IN  IF fresh = {} THEN Aliases ELSE Min(fresh)

(* The parts of a name, the last first. *)
LongEntries(name) ==
    [i \in DOMAIN name |-> [kind |-> "long", dead |-> FALSE, part |-> name[Len(name) + 1 - i]]]

Entries(v, name, cluster, size) ==
    Append(LongEntries(name),
           [kind |-> "short", dead |-> FALSE, cluster |-> cluster, size |-> size, alias |-> Alias(v)])

(* The first so many free slots in a row. *)
FreeSlots(v, n) ==
    LET slots == RootSlots(v)
        free(i) == SlotAt(v, slots[i]).dead \/ SlotAt(v, slots[i]).kind = "zero"
        runs == {i \in DOMAIN slots : i + n - 1 <= Len(slots) /\ \A j \in i .. i + n - 1 : free(j)}
    IN  IF runs = {} THEN << >> ELSE SubSeq(slots, Min(runs), Min(runs) + n - 1)

(* The zero slots at the end of the root, which hide what is after them.   *)
Zeros(v) ==
    LET tail == SelectSeq(RootSlots(v), LAMBDA at : SlotAt(v, at) = Zero)
    IN  [i \in DOMAIN tail |-> Dead(v, tail[i])]

(* Mutant of Grown: the slots at the end of the last cluster stay zero.    *)
GrownAsItIs(v) ==
    LET extra == Allocate(v, 1)
    IN  IF extra = << >> THEN << >>
        ELSE << ToCluster(extra[1], Block(Zero)), ToTable(Last(Chain(v, Root)), extra[1]),
                ToTable(extra[1], EndOfChain) >>

(* The root is given another cluster. *)
Grown(v) ==
    LET extra == Allocate(v, 1)
    IN  IF extra = << >> THEN Zeros(v)
        ELSE Zeros(v) \o << ToCluster(extra[1], Block(Zero)),
                            ToTable(Last(Chain(v, Root)), extra[1]), ToTable(extra[1], EndOfChain) >>

(* The slots of a name at the beginning of that cluster, if they fit.      *)
NewSlots(v, n) ==
    LET extra == Allocate(v, 1)
    IN  IF extra = << >> \/ PerCluster < n THEN << >> ELSE [i \in 1 .. n |-> <<extra[1], i>>]

(* The data, then the chain, then the entries: a file half written is in   *)
(* no directory.  What it replaces is removed before anything else.        *)
Create(v, name, content) ==
    LET old == {e \in List(v) : e.name = name}
        removal == IF old = {} THEN << >> ELSE RemoveFile(v, CHOOSE e \in old : TRUE)
        v1 == WriteAll(v, removal)
        clusters == Allocate(v1, Max({1, Len(content)}))
        n == Len(clusters)
        data == [i \in 1 .. n |-> ToCluster(clusters[i], DataBlock(IF i > Len(content) THEN "zero"
                                                                    ELSE content[i]))]
        chain == [i \in 1 .. n |-> ToTable(clusters[i], IF i = n THEN EndOfChain ELSE clusters[i + 1])]
        v2 == WriteAll(v1, data \o chain)
        need == Len(name) + 1
        fits == FreeSlots(v2, need)
        growth == IF fits = << >> THEN Grown(v2) ELSE << >>
        slots == IF fits # << >> THEN fits ELSE NewSlots(v2, need)
        entries == Entries(v2, name, clusters[1], Len(content))
    IN  removal
        \o IF clusters = << >> THEN << >>
           ELSE data \o chain \o growth
                \o IF slots = << >> THEN << >> ELSE [i \in 1 .. need |-> ToSlot(slots[i], entries[i])]

-----------------------------------------------------------------------------
(* What a volume is in order means.                                        *)

Needed(size) == Max({1, size})

(* A file whose chain is all there. *)
WholeFile(v, e) ==
    LET chain == Chain(v, e.cluster)
    IN  Len(chain) = Needed(e.size) /\ v.fat[Last(chain)] = EndOfChain

(* Long entries with no short one after them. *)
Orphaned(v) ==
    LET slots == RootSlots(v)
        live(i, kind) == SlotAt(v, slots[i]).kind = kind /\ ~SlotAt(v, slots[i]).dead
    IN  \E i \in DOMAIN slots :
            live(i, "long") /\ (i = Len(slots) \/ ~(live(i + 1, "long") \/ live(i + 1, "short")))

(* In the middle of writes that only make sense together. *)
Torn(v) ==
    \/ \E e \in List(v) : ~WholeFile(v, e)
    \/ Orphaned(v)
    \/ v.fat[Last(Chain(v, Root))] # EndOfChain

(* The files of the volume: what a name holds. *)
FilesOf(v) ==
    LET whole == {e \in List(v) : WholeFile(v, e)}
    IN  [n \in {e.name : e \in whole} |-> ReadFile(v, CHOOSE e \in whole : e.name = n)]

-----------------------------------------------------------------------------
(* How a new drive of so many megabytes is laid out: the FAT32 volume      *)
(* (fat32.rs) and the geometry its disk-image footer gives (vhd.rs).  A    *)
(* sector is 512 bytes, and an entry of the table is 4.                    *)

(* MIN_MEGABYTES to MAX_MEGABYTES. *)
Clamped(mb) == IF mb < 64 THEN 64 ELSE IF mb > 32768 THEN 32768 ELSE mb

Sectors(mb) == 2048 * mb
PartitionStart == 2048
Reserved == 32
Fats == 2
LeastClusters == 65525

Up(n, k) == (n + k - 1) \div k

(* Mutant of SectorsPerCluster: the least the format allows is enough.     *)
SectorsPerClusterOnTheLine(total) ==
    LET fit == {spc \in {64, 32, 16, 8, 4, 2} : total \div spc >= LeastClusters}
    IN  IF fit = {} THEN 1 ELSE CHOOSE spc \in fit : \A other \in fit : other <= spc

(* The largest cluster that leaves clusters enough, with some to spare.    *)
SectorsPerCluster(total) ==
    LET fit == {spc \in {64, 32, 16, 8, 4, 2} : total \div spc >= 70000}
    IN  IF fit = {} THEN 1 ELSE CHOOSE spc \in fit : \A other \in fit : other <= spc

(* The table for the clusters, and the clusters after the table.  The      *)
(* first is about (volume - reserved) * 64 / (spc * 64 + 1).               *)
Layout(total) ==
    LET volume == total - PartitionStart
        spc == SectorsPerCluster(total)
        each == spc * 64 + 1
        approx == ((volume - Reserved) \div each) * 64 + (((volume - Reserved) % each) * 64) \div each
        table == Up((approx + 2) * 4, 512)
        start == Reserved + Fats * table
    IN  [volume |-> volume, spc |-> spc, table |-> table, start |-> start,
         clusters |-> (volume - start) \div spc]

(* The cylinders, heads and sectors of a footer. *)
Geometry(sectors) ==
    LET total == IF sectors < 65535 * 16 * 255 THEN sectors ELSE 65535 * 16 * 255
        made(s, h) == [cylinders |-> (total \div s) \div h, heads |-> h, sectors |-> s]
        heads == IF Up(total \div 17, 1024) < 4 THEN 4 ELSE Up(total \div 17, 1024)
    IN  IF total >= 65535 * 16 * 63 THEN made(255, 16)
        ELSE IF total \div 17 < heads * 1024 /\ heads <= 16 THEN made(17, heads)
        ELSE IF total \div 31 < 16 * 1024 THEN made(31, 16)
        ELSE made(63, 16)

(* A size can be made, is FAT32 and not FAT16, has a table entry for each  *)
(* cluster, and ends where the disk does; and what the footer gives fits   *)
(* its fields and is nearly all of the disk, never more.                   *)
LayoutIsSound(mb) ==
    LET l == Layout(Sectors(mb))
        g == Geometry(Sectors(mb))
        said == g.cylinders * g.heads * g.sectors
    IN  /\ l.clusters >= LeastClusters
        /\ 4 * (l.clusters + 2) <= 512 * l.table
        /\ l.start + l.clusters * l.spc <= l.volume
        /\ g.cylinders < 65536 /\ g.heads <= 16
        /\ said <= Sectors(mb) /\ Sectors(mb) < said + (g.heads + 1) * g.sectors
=============================================================================
