-------------------------------- MODULE Ohci --------------------------------
(***************************************************************************)
(* The USB host controller: its registers (pxa270/ohci.rs) and the walk of *)
(* its lists (gandalf/usb.rs).  The driver keeps a list of endpoints in    *)
(* memory and, on each, a queue of transfers linked from a head to a tail. *)
(* One service runs what is queued, up to a limit, moving each transfer    *)
(* onto a done stack, and hands that stack to the driver through the HCCA. *)
(*                                                                         *)
(* A service is one call between two instructions of the guest; it is      *)
(* modelled a transfer at a time, and the driver does nothing meanwhile.   *)
(***************************************************************************)
EXTENDS UsbDisk

CONSTANTS
    Tds,          \* where transfer descriptors are in memory
    Null,         \* an address of zero
    NoSetup,      \* no control transfer in progress
    NoReply,      \* the device has not answered, or refuses to
    MaxTds        \* MAX_TDS, the most transfers in one service

ASSUME OhciAssumption ==
    /\ MaxTds \in Nat \ {0}
    /\ Null \notin Tds
    /\ NoReply \notin Seq({Reg})

ControlList == << "ctl" >>
BulkList == << "in", "out" >>
Eds == {"ctl", "in", "out"}

VARIABLES
    operational,  \* HcControl: the controller runs and both lists are enabled
    enabled,      \* HcInterruptEnable: the done interrupt, and the master
    raised,       \* HcInterruptStatus: the done interrupt
    doneHead,     \* Ohci.done_head
    hccaDone,     \* HccaDoneHead, in memory
    ed,           \* the endpoint descriptors, in memory
    td,           \* the transfer descriptors, in memory
    setup,        \* Gandalf.usb_setup
    reply,        \* Gandalf.usb_reply
    dataOut,      \* Gandalf.usb_data_out, as the number of cells in it
    walk,         \* the endpoints this service has yet to see
    served        \* the transfers it has run

registers == <<operational, enabled, raised>>
memory == <<hccaDone, ed, td>>
ctlVars == <<setup, reply, dataOut>>
service == <<walk, served>>
ohciVars == <<registers, doneHead, memory, ctlVars, service>>

(* A transfer: SETUP carries a request, OUT a packet, IN asks for cells. *)
Transfer(pid, what, want) ==
    [pid |-> pid, what |-> what, want |-> want, next |-> Null, done |-> FALSE,
     stalled |-> FALSE, got |-> << >>]
NoTransfer == Transfer("out", Null, 0)
EmptyEd(t) == [head |-> t, tail |-> t, halted |-> FALSE]

OhciTypeOK ==
    /\ operational \in BOOLEAN
    /\ enabled \in BOOLEAN
    /\ raised \in BOOLEAN
    /\ doneHead \in Tds \cup {Null}
    /\ hccaDone \in Tds \cup {Null}
    /\ \A e \in Eds : /\ ed[e].head \in Tds \cup {Null}
                      /\ ed[e].tail \in Tds
                      /\ ed[e].halted \in BOOLEAN
    /\ \A t \in Tds : /\ td[t].pid \in {"setup", "in", "out"}
                      /\ td[t].next \in Tds \cup {Null}
                      /\ Len(td[t].got) <= td[t].want
    /\ setup \in Requests \cup {NoSetup}
    /\ reply = NoReply \/ reply \in Seq({Reg})
    /\ dataOut \in Nat
    /\ walk \in Seq(Eds)
    /\ Len(served) <= MaxTds

Serving == walk # << >>

-----------------------------------------------------------------------------
(* One transfer. *)

(* A request is answered as it arrives, unless it has data still to come. *)
Asked(r) == r.in \/ r.cells = 0

(* Mutant of RunSetup: a refusal is an answer with nothing in it. *)
RunSetupRefusingNothing(d) ==
    /\ setup' = d.what
    /\ dataOut' = 0
    /\ reply' = IF Asked(d.what) THEN Answer(d.what) ELSE NoReply
    /\ IF Asked(d.what) THEN Control(d.what) ELSE UNCHANGED diskVars

RunSetup(d) ==
    /\ setup' = d.what
    /\ dataOut' = 0
    /\ reply' = IF Asked(d.what) /\ Accepts(d.what) THEN Answer(d.what) ELSE NoReply
    /\ IF Asked(d.what) THEN Control(d.what) ELSE UNCHANGED diskVars

(* The status stage.  What the host has sent is delivered now. *)
FinishControl ==
    IF setup = NoSetup THEN UNCHANGED <<ctlVars, diskVars>>
    ELSE /\ IF ~setup.in /\ dataOut > 0 THEN Control(setup) ELSE UNCHANGED diskVars
         /\ setup' = NoSetup
         /\ reply' = NoReply
         /\ dataOut' = 0

(* Up to `want` cells of the answer; without one, the endpoint stalls. *)
ReplyCells(want) ==
    IF reply = NoReply THEN << >> ELSE SubSeq(reply, 1, Min({want, Len(reply)}))

RunControlIn(d) ==
    \/ /\ d.want = 0
       /\ FinishControl
    \/ /\ d.want > 0
       /\ reply' = IF reply = NoReply THEN NoReply
                   ELSE SubSeq(reply, Len(ReplyCells(d.want)) + 1, Len(reply))
       /\ UNCHANGED <<setup, dataOut, diskVars>>

RunControlOut(d) ==
    \/ /\ d.what.cells = << >>
       /\ FinishControl
    \/ /\ d.what.cells # << >>
       /\ dataOut' = dataOut + Len(d.what.cells)
       /\ UNCHANGED <<setup, reply, diskVars>>

Run(e, d) ==
    \/ d.pid = "setup" /\ RunSetup(d)
    \/ d.pid = "in" /\ e = "ctl" /\ RunControlIn(d)
    \/ d.pid = "out" /\ e = "ctl" /\ RunControlOut(d)
    \/ d.pid = "in" /\ e # "ctl" /\ BulkIn(d.want) /\ UNCHANGED ctlVars
    \/ d.pid = "out" /\ e # "ctl" /\ BulkOut(d.what) /\ UNCHANGED ctlVars

(* What lands in its buffer: no more than the buffer holds. *)
Received(e, d) ==
    LET cells == IF e = "ctl" THEN ReplyCells(d.want) ELSE Given(d.want)
    IN  IF d.pid = "in" THEN SubSeq(cells, 1, Min({d.want, Len(cells)})) ELSE << >>

Stalls(e, d) == e = "ctl" /\ d.pid = "in" /\ reply = NoReply

(* Mutants of Retire: the link is reused before the next transfer is read   *)
(* from it; the done queue grows at its end.                               *)
RetireThenLook(e, t, stalled) ==
    /\ td' = [td EXCEPT ![t].next = doneHead, ![t].done = TRUE, ![t].stalled = stalled,
                        ![t].got = Received(e, td[t])]
    /\ ed' = [ed EXCEPT ![e].head = doneHead, ![e].halted = stalled]
    /\ doneHead' = t

(* The result goes into the descriptor, which goes from the head of its    *)
(* endpoint's queue onto the done stack.                                   *)
Retire(e, t, stalled) ==
    /\ td' = [td EXCEPT ![t].next = doneHead, ![t].done = TRUE, ![t].stalled = stalled,
                        ![t].got = Received(e, td[t])]
    /\ ed' = [ed EXCEPT ![e].head = td[t].next, ![e].halted = stalled]
    /\ doneHead' = t

-----------------------------------------------------------------------------
(* One service. *)

(* Mutant of Runnable: the last transfer before the tail is left. *)
RunnableButLast(e) ==
    ~ed[e].halted /\ ed[e].head # ed[e].tail /\ td[ed[e].head].next # ed[e].tail

Runnable(e) == ~ed[e].halted /\ ed[e].head # ed[e].tail

(* A service that finds nothing to run leaves everything as it is. *)
StartService ==
    /\ operational
    /\ ~Serving
    /\ \E e \in Eds : Runnable(e)
    /\ walk' = ControlList \o BulkList
    /\ served' = << >>
    /\ UNCHANGED <<registers, doneHead, memory, ctlVars, diskVars>>

RunTd ==
    /\ Serving
    /\ Len(served) < MaxTds
    /\ LET e == Head(walk)
           t == ed[e].head
       IN  /\ Runnable(e)
           /\ Run(e, td[t])
           /\ Retire(e, t, Stalls(e, td[t]))
           /\ served' = Append(served, t)
    /\ UNCHANGED <<registers, hccaDone, walk>>

NextEd ==
    /\ Serving
    /\ Len(served) < MaxTds
    /\ ~Runnable(Head(walk))
    /\ Len(walk) > 1
    /\ walk' = Tail(walk)
    /\ UNCHANGED <<registers, doneHead, memory, ctlVars, served, diskVars>>

(* hand_over_done_queue, once the limit or the end of the lists is reached. *)
HandOver ==
    /\ Serving
    /\ Len(served) = MaxTds \/ (Len(walk) = 1 /\ ~Runnable(Head(walk)))
    /\ hccaDone' = doneHead
    /\ raised' = TRUE
    /\ doneHead' = Null
    /\ walk' = << >>
    /\ served' = << >>
    /\ UNCHANGED <<operational, enabled, ed, td, ctlVars, diskVars>>

Service == StartService \/ RunTd \/ NextEd \/ HandOver

(* The line to the interrupt controller follows status and enable. *)
Interrupting == raised /\ enabled

-----------------------------------------------------------------------------
(* Registers. *)

(* HcCommandStatus, host controller reset. *)
HcReset ==
    /\ operational' = FALSE
    /\ raised' = FALSE
    /\ enabled' = FALSE
    /\ doneHead' = Null

(* HcInterruptStatus *)
ClearDone ==
    /\ raised' = FALSE
    /\ UNCHANGED <<operational, enabled>>
=============================================================================
