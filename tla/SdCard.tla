------------------------------- MODULE SdCard -------------------------------
(***************************************************************************)
(* The emulated SD card (pxa270/sdcard.rs): its command states, the        *)
(* transfer on its data lines, and the blocks it marks dirty.  A word is   *)
(* what one access of the controller's FIFO moves (four bytes); positions  *)
(* and command arguments count words.                                      *)
(*                                                                         *)
(* The definitions that change the card are conjuncts of the controller's  *)
(* actions in Mmc.                                                         *)
(***************************************************************************)
EXTENDS Naturals, Sequences

CONSTANTS
    NumBlocks,    \* blocks on the card
    BlockWords,   \* words in a block
    Data,         \* what a word of the card can hold
    Blank,        \* what a fresh card, or a read past the end, gives
    RegWord,      \* a word of a register sent over the data lines
    Floating,     \* a word read from lines nobody drives
    ScrWords,     \* words ACMD51 sends
    SsrWords,     \* words ACMD13 sends
    MaxPending    \* bound on register words waiting unread

ASSUME GeometryAssumption ==
    /\ NumBlocks \in Nat
    /\ BlockWords \in Nat \ {0}
    /\ Blank \in Data
    /\ ScrWords \in Nat
    /\ SsrWords \in Nat
    /\ MaxPending \in Nat

Words == 0 .. NumBlocks * BlockWords - 1
BlockOf(p) == p \div BlockWords

VARIABLES
    state,        \* SdCard.state, named as a status register names it
    transfer,     \* SdCard.transfer
    multiBlock,   \* SdCard.multi_block
    position,     \* SdCard.position
    dataOut,      \* SdCard.data_out, as the number of words in it
    rca,          \* SdCard.rca
    appCmd,       \* SdCard.app_cmd
    initPolls,    \* SdCard.init_polls, which only matters up to two
    data,         \* SdCard.data
    dirtyBlocks   \* SdCard.dirty_blocks

lines == <<transfer, multiBlock, position, dataOut>>
contents == <<data, dirtyBlocks>>
setup == <<rca, initPolls>>
cardVars == <<state, lines, appCmd, setup, contents>>

States == {"idle", "ready", "ident", "stby", "tran", "data", "rcv"}
Transfers == {"none", "reading", "writing"}

CardTypeOK ==
    /\ state \in States
    /\ transfer \in Transfers
    /\ multiBlock \in BOOLEAN
    /\ position \in Nat
    /\ dataOut \in 0 .. MaxPending
    /\ rca \in Nat
    /\ appCmd \in BOOLEAN
    /\ initPolls \in 0 .. 2
    /\ data \in [Words -> Data]
    /\ dirtyBlocks \subseteq 0 .. NumBlocks - 1

CardInit ==
    /\ state = "idle"
    /\ transfer = "none"
    /\ multiBlock = FALSE
    /\ position = 0
    /\ dataOut = 0
    /\ rca = 0
    /\ appCmd = FALSE
    /\ initPolls = 0
    /\ data = [w \in Words |-> Blank]
    /\ dirtyBlocks = {}

-----------------------------------------------------------------------------
(* Commands.  Nothing looks at the state a command arrives in. *)

(* Mutant of GoIdleState: register words waiting are kept. *)
GoIdleKeepingData ==
    /\ state' = "idle"
    /\ transfer' = "none"
    /\ UNCHANGED <<dataOut, multiBlock, position, setup>>

(* CMD0: the one command the card does not answer. *)
GoIdleState ==
    /\ state' = "idle"
    /\ transfer' = "none"
    /\ dataOut' = 0
    /\ UNCHANGED <<multiBlock, position, setup>>

(* CMD1 and ACMD41: busy the first time it is asked. *)
SendOpCond ==
    /\ initPolls' = IF initPolls < 2 THEN initPolls + 1 ELSE 2
    /\ state' = IF initPolls' = 2 THEN "ready" ELSE state
    /\ UNCHANGED <<lines, rca>>

(* CMD2 and CMD7, and every command that only answers. *)
MoveTo(s) ==
    /\ state' = s
    /\ UNCHANGED <<lines, setup>>

(* CMD3: the host names an address, or leaves the card to (SD has it be 1). *)
RelativeAddress(arg) ==
    /\ state' = "stby"
    /\ rca' = IF arg = 0 THEN 1 ELSE arg
    /\ UNCHANGED <<lines, initPolls>>

(* Mutant of StopTransmission: the card stays in its data state. *)
StopInPlace ==
    /\ transfer' = "none"
    /\ multiBlock' = FALSE
    /\ UNCHANGED <<state, position, dataOut, setup>>

(* CMD12. *)
StopTransmission ==
    /\ transfer' = "none"
    /\ multiBlock' = FALSE
    /\ state' = "tran"
    /\ UNCHANGED <<position, dataOut, setup>>

(* CMD17 and CMD18, CMD24 and CMD25. *)
BeginTransfer(way, s, many, arg) ==
    /\ position' = arg
    /\ transfer' = way
    /\ multiBlock' = many
    /\ state' = s
    /\ UNCHANGED <<dataOut, setup>>

PlainCommand(cmd, arg) ==
    \/ cmd = 0 /\ GoIdleState
    \/ cmd = 1 /\ SendOpCond
    \/ cmd = 2 /\ MoveTo("ident")
    \/ cmd = 3 /\ RelativeAddress(arg)
    \/ cmd = 7 /\ MoveTo(IF arg = rca THEN "tran" ELSE "stby")
    \/ cmd = 12 /\ StopTransmission
    \/ cmd \in {17, 18} /\ BeginTransfer("reading", "data", cmd = 18, arg)
    \/ cmd \in {24, 25} /\ BeginTransfer("writing", "rcv", cmd = 25, arg)
    \/ cmd \notin {0, 1, 2, 3, 7, 12, 17, 18, 24, 25} /\ MoveTo(state)

(* ACMD13 and ACMD51 put a register on the data lines. *)
SendRegister(words) ==
    /\ dataOut + words <= MaxPending
    /\ dataOut' = dataOut + words
    /\ transfer' = "reading"
    /\ UNCHANGED <<state, multiBlock, position, setup>>

AppCommand(cmd) ==
    \/ cmd = 41 /\ SendOpCond
    \/ cmd = 13 /\ SendRegister(SsrWords)
    \/ cmd = 51 /\ SendRegister(ScrWords)
    \/ cmd \notin {13, 41, 51} /\ MoveTo(state)

(* CMD55 makes the next command, whatever it is, an application command. *)
Command(cmd, arg) ==
    /\ appCmd' = (cmd = 55 /\ ~appCmd)
    /\ \/ ~appCmd /\ PlainCommand(cmd, arg)
       \/ appCmd /\ AppCommand(cmd)
    /\ UNCHANGED contents

Answers(cmd) == appCmd \/ cmd # 0

-----------------------------------------------------------------------------
(* The data lines. *)

HasData == dataOut > 0 \/ transfer = "reading"

(* The word the card would put on the lines now. *)
NextWord ==
    IF dataOut > 0 THEN RegWord
    ELSE IF transfer # "reading" THEN Floating
    ELSE IF position \in Words THEN data[position] ELSE Blank

(* transfer_finished: the controller has counted the last word. *)
TransferFinished ==
    /\ transfer' = IF multiBlock THEN transfer ELSE "none"
    /\ state' = IF ~multiBlock /\ state \in {"data", "rcv"} THEN "tran" ELSE state

Settle(finished) ==
    IF finished THEN TransferFinished ELSE UNCHANGED <<transfer, state>>

ReadWord(finished) ==
    /\ dataOut' = IF dataOut > 0 THEN dataOut - 1 ELSE 0
    /\ position' = IF dataOut = 0 /\ transfer = "reading" THEN position + 1 ELSE position
    /\ Settle(finished)
    /\ UNCHANGED <<multiBlock, appCmd, setup, contents>>

(* Mutant of StoreWord: a word is stored one on.                           *)
StoreNextWord(v) ==
    IF transfer = "writing" /\ position + 1 \in Words
    THEN /\ data' = [data EXCEPT ![position + 1] = v]
         /\ dirtyBlocks' = dirtyBlocks \cup {BlockOf(position + 1)}
    ELSE UNCHANGED contents

(* A word clocked in lands where the transfer has got to, if on the card. *)
StoreWord(v) ==
    IF transfer = "writing" /\ position \in Words
    THEN /\ data' = [data EXCEPT ![position] = v]
         /\ dirtyBlocks' = dirtyBlocks \cup {BlockOf(position)}
    ELSE UNCHANGED contents

WriteWord(v, finished) ==
    /\ StoreWord(v)
    /\ position' = IF transfer = "writing" THEN position + 1 ELSE position
    /\ Settle(finished)
    /\ UNCHANGED <<multiBlock, dataOut, appCmd, setup>>
=============================================================================
