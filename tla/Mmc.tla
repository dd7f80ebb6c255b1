--------------------------------- MODULE Mmc ---------------------------------
(***************************************************************************)
(* The PXA270 MMC controller with a card fitted (pxa270/mmc.rs).  Writing  *)
(* CMDAT runs the staged command to its end at once; what is left to take  *)
(* time is the data, which the guest or a DMA channel moves through the    *)
(* FIFO a word at a time while the controller counts.  Every register the  *)
(* guest stages before CMDAT is a parameter of Execute.                    *)
(***************************************************************************)
EXTENDS SdCard

VARIABLES
    clockOn,      \* Mmc.clock_on
    writing,      \* CMDAT's WR_RD bit, as last written
    stat,         \* MMC_STAT: the bits that stay set
    iReg,         \* MMC_I_REG, which a read clears
    wordsLeft     \* Mmc.bytesleft, in words

hostVars == <<clockOn, writing, stat, iReg, wordsLeft>>

StatBits == {"noResponse", "dataDone", "prgDone", "endCmd"}
IntBits == {"dataDone", "prgDone", "endCmd", "rxReq", "txReq"}

HostTypeOK ==
    /\ clockOn \in BOOLEAN
    /\ writing \in BOOLEAN
    /\ stat \subseteq StatBits
    /\ iReg \subseteq IntBits
    /\ wordsLeft \in Nat

HostInit ==
    /\ clockOn = FALSE
    /\ writing = FALSE
    /\ stat = {}
    /\ iReg = {}
    /\ wordsLeft = 0

(* STRPCL *)
SetClock(on) ==
    /\ clockOn' = on
    /\ UNCHANGED <<writing, stat, iReg, wordsLeft, cardVars>>

(* Which FIFO request a transfer with something left raises. *)
FifoRequest(write, left) ==
    IF left = 0 THEN {} ELSE IF write THEN {"txReq"} ELSE {"rxReq"}

(* The command runs to its end: execute_command.  `words` is what NOB and  *)
(* BLKLEN make; a command without data is done with it as it answers.      *)
Execute(cmd, arg, cmdat, words) ==
    LET done == IF cmdat.dataEn THEN {} ELSE {"prgDone", "dataDone"}
    IN  /\ Command(cmd, arg)
        /\ wordsLeft' = IF cmdat.dataEn THEN words ELSE 0
        /\ stat' = (stat \ {"noResponse"}) \cup {"endCmd"} \cup done
                   \cup (IF cmdat.wants /\ ~Answers(cmd) THEN {"noResponse"} ELSE {})
        /\ iReg' = iReg \cup {"endCmd"} \cup done \cup FifoRequest(cmdat.write, wordsLeft')

(* CMDAT, with CMD, ARG, NOB and BLKLEN staged: it is this write that      *)
(* issues the command, if the clock runs.                                  *)
WriteCmdat(cmd, arg, cmdat, words) ==
    /\ writing' = cmdat.write
    /\ IF clockOn THEN Execute(cmd, arg, cmdat, words)
                  ELSE UNCHANGED <<wordsLeft, stat, iReg, cardVars>>
    /\ UNCHANGED clockOn

(* What one word more through the FIFO does to the count: moved_bytes. *)
Last == wordsLeft = 1

MovedWord(request) ==
    /\ wordsLeft' = IF wordsLeft = 0 THEN 0 ELSE wordsLeft - 1
    /\ LET done == IF ~Last THEN {}
                   ELSE {"dataDone"} \cup (IF writing THEN {"prgDone"} ELSE {})
       IN  /\ stat' = stat \cup done
           /\ iReg' = (iReg \ {request}) \cup done \cup FifoRequest(writing, wordsLeft')
    /\ UNCHANGED <<clockOn, writing>>

(* RXFIFO and TXFIFO *)
ReadFifo == MovedWord("rxReq") /\ ReadWord(Last)

WriteFifo(v) == MovedWord("txReq") /\ WriteWord(v, Last)

(* A read of I_REG clears it, requests and all. *)
ReadIReg ==
    /\ iReg' = {}
    /\ UNCHANGED <<clockOn, writing, stat, wordsLeft, cardVars>>
=============================================================================
