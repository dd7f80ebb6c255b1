------------------------------- MODULE Pcmcia -------------------------------
(***************************************************************************)
(* The PC card socket with a CompactFlash card in it (pcmcia.rs), and the  *)
(* guest's ATA driver.                                                     *)
(*                                                                         *)
(* A sector is two halfwords, and the answer to IDENTIFY is one word; of   *)
(* the address registers only the number they make is kept.                *)
(***************************************************************************)
EXTENDS Naturals, Sequences

CONSTANTS
    Sectors,      \* how many sectors the card has
    Halves,       \* the halfwords a sector may hold
    Counts,       \* the size of the count register's range: 256
    Requests,     \* what the driver may be asked to do
    CardResets    \* bound on the restarts and the broken off requests

ASSUME CardAssumption == Sectors \in Nat /\ Counts \in Nat \ {0, 1}

(* A request is of one sector or more, up to as many as the count can say. *)
ASSUME RequestsAssumption ==
    \A r \in Requests : r.kind # "none" /\ r.lba \in Nat /\ r.sectors \in 1 .. Counts

VARIABLES
    card,         \* the card
    ata,          \* the driver's request and how far it is
    cardResets    \* restarts left

cardVars == <<card, ata, cardResets>>

SectorWords == 2
Identity == << "identity", "identity" >>
Disk == 0 .. Sectors - 1

-----------------------------------------------------------------------------
(* The task file. *)

(* A reset of the device: the registers of the request stay. *)
Reset(c) ==
    [c EXCEPT !.status = {"ready"}, !.error = "none", !.buffer = << >>, !.at = 0,
              !.phase = "idle", !.remaining = 0]

Fail(c) == [c EXCEPT !.status = {"ready", "err"}, !.error = "aborted", !.phase = "idle"]

(* The count is of one byte: a count of 256 is 0 here. *)
BeginRead(c, sectors) ==
    [c EXCEPT !.at = 0, !.remaining = sectors % Counts, !.phase = "reading",
              !.status = {"ready", "drq"}]

Loaded(c) == [c EXCEPT !.buffer = c.data[c.lba]]

ReadSectors(c) ==
    IF c.lba \in Disk THEN BeginRead(Loaded(c), IF c.count = 0 THEN Counts ELSE c.count)
                      ELSE Fail(c)

WriteSectors(c) ==
    IF c.lba \in Disk
    THEN [c EXCEPT !.remaining = c.count, !.buffer = << "zero", "zero" >>, !.at = 0,
                   !.phase = "writing", !.status = {"ready", "drq"}]
    ELSE Fail(c)

Issued(c, cmd) ==
    LET fresh == [c EXCEPT !.error = "none", !.status = {"ready"}]
    IN  CASE cmd = "identify" -> BeginRead([fresh EXCEPT !.buffer = Identity], 1)
          [] cmd = "read" -> ReadSectors(fresh)
          [] cmd = "write" -> WriteSectors(fresh)
          [] cmd = "set features" -> fresh
          [] cmd = "diagnose" -> [fresh EXCEPT !.error = "passed"]
          [] OTHER -> Fail(fresh)

Minus(n) == IF n = 0 THEN 0 ELSE n - 1

(* Mutant of TakeData: the next sector is loaded from where the last was.  *)
TakeDataInPlace(c) ==
    IF c.phase # "reading" THEN c
    ELSE IF c.at + 1 < SectorWords THEN [c EXCEPT !.at = @ + 1]
    ELSE IF Minus(c.remaining) = 0
         THEN [c EXCEPT !.at = @ + 1, !.remaining = 0, !.phase = "idle", !.status = {"ready"}]
         ELSE Loaded([c EXCEPT !.at = 0, !.remaining = @ - 1])

(* The driver has read a halfword: after the last of a sector the next is  *)
(* loaded, if more were asked for.                                         *)
TakeData(c) ==
    IF c.phase # "reading" THEN c
    ELSE IF c.at + 1 < SectorWords THEN [c EXCEPT !.at = @ + 1]
    ELSE IF Minus(c.remaining) = 0
         THEN [c EXCEPT !.at = @ + 1, !.remaining = 0, !.phase = "idle", !.status = {"ready"}]
         ELSE LET next == [c EXCEPT !.at = 0, !.remaining = @ - 1, !.lba = @ + 1]
              IN  IF next.lba \in Disk
                  THEN [Loaded(next) EXCEPT !.status = {"ready", "drq"}]
                  ELSE Fail(next)

(* What the data port shows. *)
DataPort(c) == IF c.phase = "reading" /\ c.at < SectorWords THEN c.buffer[c.at + 1] ELSE "zero"

(* A halfword is written: after the last of a sector it goes to the disk,  *)
(* where there is one.                                                     *)
PutData(c, half) ==
    LET filled == [c EXCEPT !.buffer[c.at + 1] = half, !.at = @ + 1]
        stored == IF c.lba \in Disk THEN [filled EXCEPT !.data[c.lba] = filled.buffer] ELSE filled
    IN  IF c.phase # "writing" THEN c
        ELSE IF filled.at < SectorWords THEN filled
        ELSE IF Minus(c.remaining) = 0
             THEN [stored EXCEPT !.remaining = 0, !.phase = "idle", !.status = {"ready"}]
             ELSE [stored EXCEPT !.remaining = @ - 1, !.lba = @ + 1, !.at = 0,
                                 !.status = {"ready", "drq"}]

-----------------------------------------------------------------------------
(* The driver: it sets the registers, issues the command, and moves a      *)
(* sector whenever the card asks for one, until the card asks no more.     *)

NoRequest == [kind |-> "none"]

CardInit ==
    /\ card = [data |-> [s \in Disk |-> << "zero", "zero" >>], status |-> {"ready"},
               error |-> "none", count |-> 1, lba |-> 0, buffer |-> << >>, at |-> 0,
               phase |-> "idle", remaining |-> 0]
    /\ ata = NoRequest
    /\ cardResets = CardResets

Issue(r) ==
    /\ ata.kind = "none"
    /\ card' = Issued([card EXCEPT !.count = r.sectors % Counts, !.lba = r.lba], r.kind)
    /\ ata' = [kind |-> r.kind, ask |-> r, moved |-> << >>, before |-> card.data]
    /\ UNCHANGED cardResets

Read ==
    /\ ata.kind \in {"read", "identify"}
    /\ "drq" \in card.status
    /\ card' = TakeData(card)
    /\ ata' = [ata EXCEPT !.moved = Append(@, DataPort(card))]
    /\ UNCHANGED cardResets

Write(half) ==
    /\ ata.kind = "write"
    /\ "drq" \in card.status
    /\ card' = PutData(card, half)
    /\ ata' = [ata EXCEPT !.moved = Append(@, half)]
    /\ UNCHANGED cardResets

(* It asks no more: the request is over, as the status says. *)
Over == ata.kind # "none" /\ "drq" \notin card.status

Conclude == Over /\ ata' = NoRequest /\ UNCHANGED <<card, cardResets>>

(* The machine is restarted, and the card is not.  The driver may reset it *)
(* by the control register or the configuration register, or not.          *)
BreakOff ==
    /\ cardResets > 0
    /\ cardResets' = cardResets - 1
    /\ card' \in {card, Reset(card)}
    /\ ata' = NoRequest

CardNext ==
    \/ \E r \in Requests : Issue(r)
    \/ Read
    \/ \E half \in Halves : Write(half)
    \/ Conclude
    \/ BreakOff

-----------------------------------------------------------------------------
CardSpec == CardInit /\ [][CardNext]_cardVars

(* The sectors the card takes a request to be of.  The most the count can  *)
(* say, 256, is for it a 0 that it counts down, and one sector ends it:    *)
(* `n as u8` and the count of WRITE SECTORS (pcmcia.rs:427-441).           *)
Taken(r) == IF r.sectors = Counts THEN 1 ELSE r.sectors

(* Those of the driver's request, one after another. *)
Requested == {ata.ask.lba + i : i \in 0 .. Taken(ata.ask) - 1}
SectorMoved(s) == LET i == SectorWords * (s - ata.ask.lba) IN SubSeq(ata.moved, i + 1, i + SectorWords)

(* A request that ends without an error has moved the sectors the card     *)
(* took it to be of: a read has those of the disk, and a write has put     *)
(* those the disk has room for on it, and no others, whatever was broken   *)
(* off before.  The sectors of a write past the end of the card are taken  *)
(* from the driver and dropped, and there is no error (command, take_data  *)
(* and put_data of pcmcia.rs).                                             *)
RequestsAreServed ==
    (Over /\ "err" \notin card.status) =>
        CASE ata.kind = "identify" -> ata.moved = Identity
          [] ata.kind = "read" ->
                /\ Requested \subseteq Disk
                /\ Len(ata.moved) = SectorWords * Taken(ata.ask)
                /\ \A s \in Requested : SectorMoved(s) = card.data[s]
          [] ata.kind = "write" ->
                /\ Len(ata.moved) = SectorWords * Taken(ata.ask)
                /\ card.data = [s \in Disk |-> IF s \in Requested THEN SectorMoved(s) ELSE ata.before[s]]
          [] OTHER -> card.data = ata.before

(* What a driver has to rely on: a transfer that ends without an error is  *)
(* of all the sectors it asked for, 256 where the count says 0 (line 427), *)
(* and they are all on the card.  It fails for a write past the end and    *)
(* for 256 sectors, and no run has this among its properties.              *)
RequestsAreWhole ==
    (Over /\ "err" \notin card.status /\ ata.kind \in {"read", "write"}) =>
        /\ Len(ata.moved) = SectorWords * ata.ask.sectors
        /\ {ata.ask.lba + i : i \in 0 .. ata.ask.sectors - 1} \subseteq Disk
=============================================================================
