------------------------------ MODULE UsbDisk ------------------------------
(***************************************************************************)
(* The emulated USB flash drive (gandalf/usbdisk.rs): its bulk-only        *)
(* transport, which takes a command wrapper, then data one way or the      *)
(* other, then gives a status wrapper back; the commands it knows; and the *)
(* control requests that reach it.  Lengths are counted in cells: a sector *)
(* is some cells long, a wrapper and a register one each.                  *)
(*                                                                         *)
(* The definitions that change the drive are conjuncts of the controller's *)
(* steps in Ohci.                                                          *)
(***************************************************************************)
EXTENDS Naturals, Sequences, FiniteSetsExt

CONSTANTS
    NumSectors,
    SectorCells,  \* cells in a sector
    Data,         \* what the host writes in a cell
    Blank,        \* what a fresh drive holds
    Junk,         \* what a wrapper leaves in a cell it is written to
    Reg           \* a cell of an answer that is not the drive's contents

ASSUME DriveAssumption ==
    /\ NumSectors \in Nat
    /\ SectorCells \in Nat \ {0}
    /\ Blank \in Data
    /\ Junk \notin Data
    /\ Reg \notin Data

StoreCells == 0 .. NumSectors * SectorCells - 1

VARIABLES
    phase,        \* UsbDisk.phase
    tag,          \* UsbDisk.tag
    expected,     \* UsbDisk.expected
    moved,        \* UsbDisk.moved
    status,       \* UsbDisk.status, the one the wrapper will carry
    toHost,       \* UsbDisk.to_host
    writeAt,      \* UsbDisk.write_at
    writeLeft,    \* UsbDisk.write_left
    sense,        \* UsbDisk.sense
    store         \* UsbDisk.store

transport == <<phase, tag, expected, moved, status, toHost, writeAt, writeLeft, sense>>
diskVars == <<transport, store>>

Tags == 0 .. 1
Commands == {"ready", "sense", "inquiry", "read", "write", "unknown"}
Senses == {"none", "range", "opcode"}

(* Two kinds of packet go out: a command wrapper, and cells of data. *)
Wrapper(c, t) == [cbw |-> TRUE, command |-> c, tag |-> t]
Packet(cells) == [cbw |-> FALSE, cells |-> cells]

(* A status wrapper is one cell. *)
StatusCells ==
    [tag : Tags, residue : 0 .. (NumSectors + 2) * SectorCells, status : {"good", "failed"}]

DiskTypeOK ==
    /\ phase \in {"command", "dataIn", "dataOut", "status"}
    /\ tag \in Tags
    /\ expected \in Nat
    /\ moved \in Nat
    /\ status \in {"good", "failed"}
    /\ toHost \in Seq(Data \cup {Junk, Reg})
    /\ writeAt \in Nat
    /\ writeLeft \in Nat
    /\ sense \in Senses
    /\ store \in [StoreCells -> Data \cup {Junk}]

DiskInit ==
    /\ phase = "command"
    /\ tag = 0
    /\ expected = 0
    /\ moved = 0
    /\ status = "good"
    /\ toHost = << >>
    /\ writeAt = 0
    /\ writeLeft = 0
    /\ sense = "none"
    /\ store = [c \in StoreCells |-> Blank]

-----------------------------------------------------------------------------
(* Commands: an operation, where it starts, how many sectors, how many     *)
(* cells the host will move, and which way.                                *)

Length(c) == c.count * SectorCells
Start(c) == c.lba * SectorCells
InRange(c) == Start(c) + Length(c) <= NumSectors * SectorCells

Contents(from, n) == [i \in 1 .. n |-> store[from + i - 1]]

Fails(why) == status' = "failed" /\ sense' = why

(* What an operation has for the host, ... *)
Reply(c) ==
    CASE c.op \in {"sense", "inquiry"} -> << Reg >>
      [] c.op = "read" /\ InRange(c) -> Contents(Start(c), Length(c))
      [] OTHER -> << >>

(* ... what it is going to write, and how it ends. *)
Scsi(c) ==
    LET writes == c.op = "write" /\ InRange(c)
    IN  /\ toHost' = Reply(c)
        /\ writeAt' = IF writes THEN Start(c) ELSE writeAt
        /\ writeLeft' = IF writes THEN Length(c) ELSE 0
        /\ \/ c.op \in {"ready", "sense"} /\ status' = "good" /\ sense' = "none"
           \/ c.op = "inquiry" /\ status' = "good" /\ UNCHANGED sense
           \/ /\ c.op \in {"read", "write"}
              /\ IF InRange(c) THEN status' = "good" /\ UNCHANGED sense ELSE Fails("range")
           \/ c.op = "unknown" /\ Fails("opcode")

Command(packet) ==
    LET c == packet.command
    IN  /\ tag' = packet.tag
        /\ expected' = c.cells
        /\ moved' = 0
        /\ Scsi(c)
        /\ phase' = IF c.cells = 0 THEN "status" ELSE IF c.in THEN "dataIn" ELSE "dataOut"
        /\ UNCHANGED store

(* Not a wrapper at all: the command fails, for the host to collect. *)
NotACommand ==
    /\ status' = "failed"
    /\ phase' = "status"
    /\ UNCHANGED <<tag, expected, moved, toHost, writeAt, writeLeft, sense, store>>

-----------------------------------------------------------------------------
(* The bulk endpoints. *)

CellsOf(packet) == IF packet.cbw THEN << Junk >> ELSE packet.cells

(* Mutant of TakeData: each packet goes where the first one went. *)
TakeDataInPlace(cells) ==
    LET n == Min({Len(cells), writeLeft})
    IN  /\ store' = [c \in StoreCells |->
                        IF c \in writeAt .. writeAt + n - 1 THEN cells[c - writeAt + 1]
                        ELSE store[c]]
        /\ writeLeft' = writeLeft - n
        /\ moved' = moved + Len(cells)
        /\ phase' = IF writeLeft' = 0 \/ moved' >= expected THEN "status" ELSE phase
        /\ UNCHANGED <<tag, expected, status, toHost, writeAt, sense>>

(* Whatever comes while data is expected is data, as much as is left to write. *)
TakeData(cells) ==
    LET n == Min({Len(cells), writeLeft})
    IN  /\ store' = [c \in StoreCells |->
                        IF c \in writeAt .. writeAt + n - 1 THEN cells[c - writeAt + 1]
                        ELSE store[c]]
        /\ writeAt' = writeAt + n
        /\ writeLeft' = writeLeft - n
        /\ moved' = moved + Len(cells)
        /\ phase' = IF writeLeft' = 0 \/ moved' >= expected THEN "status" ELSE phase
        /\ UNCHANGED <<tag, expected, status, toHost, sense>>

(* With data or a status still to collect, a packet goes nowhere. *)
BulkOut(packet) ==
    \/ phase = "command" /\ packet.cbw /\ Command(packet)
    \/ phase = "command" /\ ~packet.cbw /\ NotACommand
    \/ phase = "dataOut" /\ TakeData(CellsOf(packet))
    \/ phase \in {"dataIn", "status"} /\ UNCHANGED diskVars

StatusWrapper ==
    [tag |-> tag,
     residue |-> IF expected > moved THEN expected - moved ELSE 0,
     status |-> status]

(* What the host gets when it asks for `want` cells, ... *)
Given(want) ==
    CASE phase = "dataIn" -> SubSeq(toHost, 1, Min({want, Len(toHost)}))
      [] phase = "dataOut" -> << >>
      [] OTHER -> << StatusWrapper >>

(* ... and what that does to the drive. *)
BulkIn(want) ==
    LET n == Min({want, Len(toHost)})
    IN  \/ /\ phase = "dataIn"
           /\ toHost' = SubSeq(toHost, n + 1, Len(toHost))
           /\ moved' = moved + n
           /\ phase' = IF toHost' = << >> THEN "status" ELSE phase
           /\ UNCHANGED <<tag, expected, status, writeAt, writeLeft, sense, store>>
        \/ /\ phase \in {"status", "command"}
           /\ phase' = "command"
           /\ UNCHANGED <<tag, expected, moved, status, toHost, writeAt, writeLeft, sense, store>>
        \/ /\ phase = "dataOut"
           /\ UNCHANGED diskVars

-----------------------------------------------------------------------------
(* The control endpoint: a request, which way its data goes, and how much. *)

Requests ==
    [name : {"describe", "address", "reset", "refused"}, in : BOOLEAN, cells : 0 .. 1]

Accepts(r) == r.name # "refused"

Answer(r) == IF r.name = "describe" THEN SubSeq(<< Reg >>, 1, r.cells) ELSE << >>

(* Bulk-only mass storage reset; no other request is felt by the transport. *)
Control(r) ==
    IF r.name = "reset"
    THEN /\ phase' = "command"
         /\ toHost' = << >>
         /\ writeLeft' = 0
         /\ UNCHANGED <<tag, expected, moved, status, writeAt, sense, store>>
    ELSE UNCHANGED diskVars
=============================================================================
