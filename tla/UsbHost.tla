------------------------------ MODULE UsbHost ------------------------------
(***************************************************************************)
(* The USB controller and the flash drive behind it, under the guest's     *)
(* drivers, which are not part of the emulator: one client sends commands  *)
(* to the drive's bulk endpoints, a stage at a time; another makes control *)
(* requests of it; and an interrupt handler hears which transfers are done *)
(* and tells them.                                                         *)
(*                                                                         *)
(* The machine may be reset between any two instructions.  restart in      *)
(* main.rs leaves the controller, its lists and the drive as they are; the *)
(* drivers start again by resetting the controller, and the drive if they  *)
(* are of the kind that does (SendsReset).                                 *)
(***************************************************************************)
EXTENDS Ohci, Functions

CONSTANTS
    CommandSet,   \* the commands the guest gives the drive
    RequestSet,   \* the control requests it makes
    ControlTds,   \* the descriptors its control client has, the other has the rest
    SendsReset,   \* whether bring-up resets the drive's transport
    MaxStarted,   \* bound on the commands and requests made
    MaxResets     \* bound on the resets of the machine

ResetRequest == [name |-> "reset", in |-> FALSE, cells |-> 0]

ASSUME DriversAssumption ==
    /\ ControlTds \subseteq Tds
    /\ IsFiniteSet(Tds)
    /\ Cardinality(ControlTds) >= 1
    /\ Cardinality(Tds \ ControlTds) >= 2
    /\ SendsReset \in BOOLEAN
    /\ MaxStarted \in Nat
    /\ MaxResets \in Nat

(* A request with no data has its status stage in, whatever it says of its *)
(* direction; the drive accepts none that sends it data; and it is reset   *)
(* in bring-up only.                                                       *)
ASSUME RequestsAssumption ==
    /\ RequestSet \subseteq Requests
    /\ \A r \in RequestSet :
          /\ r.in => r.cells > 0
          /\ Accepts(r) => Asked(r)
          /\ r.name # "reset"

(* The wrapper of a command says how much the command moves, and which way. *)
(* One the drive does not know may say anything.                           *)
ASSUME CommandsAssumption ==
    \A c \in CommandSet :
        /\ c.op \in Commands
        /\ {c.lba, c.count, c.cells} \subseteq Nat
        /\ c.in \in BOOLEAN
        /\ c.op \in {"read", "write"} => c.cells = Length(c)
        /\ c.op \in {"ready", "sense", "inquiry"} /\ c.cells > 0 => c.in
        /\ c.op = "read" => c.in
        /\ c.op = "write" => ~c.in

VARIABLES
    up,           \* how far bring-up is
    cli,          \* the stage the bulk client is in
    job,          \* its command
    myTag,        \* the tag it gave it
    buf,          \* the data it has read
    ctl,          \* the control request being made
    asked,        \* the transfers each client waits for, per endpoint
    told,         \* those of them the handler has told of
    isr,          \* the handler: "idle" or about to "clear" its interrupt
    started,
    resets

client == <<cli, job, myTag, buf>>
waits == <<asked, told>>
guestVars == <<up, client, ctl, waits, isr, started, resets>>
vars == <<diskVars, ohciVars, guestVars>>

NoJob == [op |-> "none", lba |-> 0, count |-> 0, cells |-> 0, in |-> FALSE, fill |-> Blank]
NoRequest == [name |-> "none", in |-> FALSE, cells |-> 0]
NothingAsked == [e \in Eds |-> << >>]

TypeOK ==
    /\ DiskTypeOK
    /\ OhciTypeOK
    /\ up \in {"off", "stopped", "resetting", "up"}
    /\ cli \in {"idle", "cbw", "data", "csw"}
    /\ job \in CommandSet \cup {NoJob}
    /\ myTag \in Tags
    /\ buf \in Seq(Data \cup {Junk, Reg} \cup StatusCells)
    /\ ctl \in RequestSet \cup {ResetRequest, NoRequest}
    /\ \A e \in Eds : asked[e] \in Seq(Tds)
    /\ told \subseteq Tds
    /\ isr \in {"idle", "clear"}
    /\ started \in 0 .. MaxStarted
    /\ resets \in 0 .. MaxResets

(* Each client keeps the descriptors of its endpoints. *)
Pool(e) == IF e = "ctl" THEN ControlTds ELSE Tds \ ControlTds

(* Some of a set, one after another. *)
Row(S, n) == CHOOSE row \in [1 .. n -> S] : \A i, j \in 1 .. n : row[i] = row[j] => i = j
FirstTd ==
    [e \in Eds |-> CASE e = "ctl" -> Row(Pool(e), 1)[1]
                    [] e = "in" -> Row(Pool(e), 2)[1]
                    [] e = "out" -> Row(Pool(e), 2)[2]]
EmptyQueues == [e \in Eds |-> EmptyEd(FirstTd[e])]

Init ==
    /\ DiskInit
    /\ operational = FALSE
    /\ enabled = FALSE
    /\ raised = FALSE
    /\ doneHead = Null
    /\ ed = EmptyQueues
    /\ td = [t \in Tds |-> NoTransfer]
    /\ hccaDone = Null
    /\ setup = NoSetup
    /\ reply = NoReply
    /\ dataOut = 0
    /\ walk = << >>
    /\ served = << >>
    /\ up = "off"
    /\ cli = "idle"
    /\ job = NoJob
    /\ myTag = 0
    /\ buf = << >>
    /\ ctl = NoRequest
    /\ asked = NothingAsked
    /\ told = {}
    /\ isr = "idle"
    /\ started = 0
    /\ resets = 0

-----------------------------------------------------------------------------
(* The lists, as the driver keeps them. *)

(* The transfers on a stack. *)
Linked(from) ==
    LET next(t) == IF t \in Tds THEN td[t].next ELSE t
        reached[n \in 0 .. Cardinality(Tds)] ==
            IF n = 0 THEN {from} ELSE reached[n - 1] \cup {next(t) : t \in reached[n - 1]}
    IN  reached[Cardinality(Tds)] \ {Null}

(* A client asks once it has been told of all it asked for before, and uses *)
(* that again.                                                             *)
Others(e) == {f \in Eds : Pool(f) # Pool(e)}
InUse(e) == {ed[f].tail : f \in Eds} \cup UNION {Range(asked[f]) : f \in Others(e)}
Free(e) == Pool(e) \ InUse(e)

(* Where transfers go: the first where the tail is, and after them a tail. *)
Slots(e, n) == << ed[e].tail >> \o Row(Free(e), n)

(* Moving the tail, which is written last, makes the transfers visible. *)
Queue(e, transfers) ==
    /\ Cardinality(Free(e)) >= Len(transfers)
    /\ \E ts \in {transfers}, slots \in {Slots(e, Len(transfers))}, kept \in {InUse(e)} :
           LET n == Len(ts)
               tail == slots[n + 1]
           IN  /\ td' = [t \in Tds |->
                            IF \E i \in 1 .. n : slots[i] = t
                            THEN LET i == CHOOSE j \in 1 .. n : slots[j] = t
                                 IN  [ts[i] EXCEPT !.next = slots[i + 1]]
                            ELSE IF t \in kept \ {tail} THEN td[t] ELSE NoTransfer]
               /\ ed' = [ed EXCEPT ![e].tail = tail]
               /\ asked' = [f \in Eds |-> IF f = e THEN SubSeq(slots, 1, n)
                                         ELSE IF f \in Others(e) THEN asked[f] ELSE << >>]
    /\ UNCHANGED <<registers, doneHead, hccaDone, ctlVars, service, diskVars>>

Told(e) == asked[e] # << >> /\ Range(asked[e]) \subseteq told

(* What the transfers of an endpoint received, in order. *)
Gathered(e) ==
    LET upTo[n \in 0 .. Len(asked[e])] ==
            IF n = 0 THEN << >> ELSE upTo[n - 1] \o td[asked[e][n]].got
    IN  upTo[Len(asked[e])]

Forget(e) == told' = told \ Range(asked[e])

-----------------------------------------------------------------------------
(* Bring-up.  The drivers run between services and once the handler, if it *)
(* was called, has finished.                                               *)

GuestRuns == ~Serving /\ isr = "idle"

StopController ==
    /\ GuestRuns
    /\ up = "off"
    /\ HcReset
    /\ up' = "stopped"
    /\ UNCHANGED <<memory, ctlVars, service, diskVars, client, ctl, waits, isr, started, resets>>

StartController ==
    /\ GuestRuns
    /\ up = "stopped"
    /\ ed' = EmptyQueues
    /\ td' = [t \in Tds |-> NoTransfer]
    /\ hccaDone' = Null
    /\ operational' = TRUE
    /\ enabled' = TRUE
    /\ up' = IF SendsReset THEN "resetting" ELSE "up"
    /\ UNCHANGED <<raised, doneHead, ctlVars, service, diskVars,
                   client, ctl, waits, isr, started, resets>>

-----------------------------------------------------------------------------
(* The bulk client. *)

SendCommand(c) ==
    /\ GuestRuns
    /\ up = "up"
    /\ cli = "idle"
    /\ started < MaxStarted
    /\ started' = started + 1
    /\ cli' = "cbw"
    /\ job' = c
    /\ myTag' = 1 - myTag
    /\ Queue("out", << Transfer("out", Wrapper(c, myTag'), 0) >>)
    /\ UNCHANGED <<up, buf, ctl, told, isr, resets>>

DataEnd == IF job.in THEN "in" ELSE "out"

(* A transfer for each cell of a sector; anything else comes in one. *)
DataTransfers ==
    IF ~job.in THEN [i \in 1 .. job.cells |-> Transfer("out", Packet(<< job.fill >>), 0)]
    ELSE IF job.op = "read" THEN [i \in 1 .. job.cells |-> Transfer("in", Null, 1)]
    ELSE << Transfer("in", Null, job.cells) >>

AskForStatus == Queue("in", << Transfer("in", Null, 1) >>)

(* The wrapper is out: data, if the command has any, or the status. *)
AfterCommand ==
    /\ GuestRuns
    /\ cli = "cbw"
    /\ Told("out")
    /\ Forget("out")
    /\ \/ job.cells > 0 /\ cli' = "data" /\ Queue(DataEnd, DataTransfers)
       \/ job.cells = 0 /\ cli' = "csw" /\ AskForStatus
    /\ UNCHANGED <<up, job, myTag, buf, ctl, isr, started, resets>>

AfterData ==
    /\ GuestRuns
    /\ cli = "data"
    /\ Told(DataEnd)
    /\ Forget(DataEnd)
    /\ buf' = Gathered(DataEnd)
    /\ cli' = "csw"
    /\ AskForStatus
    /\ UNCHANGED <<up, job, myTag, ctl, isr, started, resets>>

StatusIsHere == cli = "csw" /\ Told("in")

AfterStatus ==
    /\ GuestRuns
    /\ StatusIsHere
    /\ Forget("in")
    /\ asked' = [asked EXCEPT !["in"] = << >>]
    /\ cli' = "idle"
    /\ job' = NoJob
    /\ buf' = << >>
    /\ UNCHANGED <<up, myTag, ctl, isr, started, resets, ohciVars, diskVars>>

-----------------------------------------------------------------------------
(* The control client: setup, data if there is any, and a status stage the *)
(* other way, all queued at once.                                          *)

ControlTransfers(r) ==
    LET data == IF r.cells = 0 THEN << >>
                ELSE IF r.in THEN << Transfer("in", Null, r.cells) >>
                ELSE << Transfer("out", Packet(<< Reg >>), 0) >>
        last == IF r.in THEN Transfer("out", Packet(<< >>), 0) ELSE Transfer("in", Null, 0)
    IN  << Transfer("setup", r, 0) >> \o data \o << last >>

Request(r) ==
    /\ GuestRuns
    /\ ctl = NoRequest
    /\ \/ /\ up = "up" /\ r \in RequestSet
          /\ started < MaxStarted
          /\ started' = started + 1
       \/ /\ up = "resetting" /\ r = ResetRequest
          /\ UNCHANGED started
    /\ ctl' = r
    /\ Queue("ctl", ControlTransfers(r))
    /\ UNCHANGED <<up, client, told, isr, resets>>

(* It is over when every transfer is told of, or one of them has stalled. *)
RequestIsOver ==
    /\ ctl # NoRequest
    /\ \A t \in Range(asked["ctl"]) : t \in told \/ (ed["ctl"].halted /\ ~td[t].done)

EndRequest ==
    /\ GuestRuns
    /\ RequestIsOver
    /\ Forget("ctl")
    /\ ctl' = NoRequest
    /\ asked' = [asked EXCEPT !["ctl"] = << >>]
    /\ ed' = [ed EXCEPT !["ctl"] = EmptyEd(ed["ctl"].tail)]
    /\ up' = IF up = "resetting" THEN "up" ELSE up
    /\ UNCHANGED <<registers, doneHead, hccaDone, td, ctlVars, service, diskVars,
                   client, isr, started, resets>>

-----------------------------------------------------------------------------
(* The interrupt handler: it takes the stack, and then clears what it was  *)
(* called for.                                                             *)

TakeDone ==
    /\ ~Serving
    /\ up \in {"resetting", "up"}
    /\ isr = "idle"
    /\ Interrupting
    /\ told' = told \cup Linked(hccaDone)
    /\ hccaDone' = Null
    /\ isr' = "clear"
    /\ UNCHANGED <<registers, doneHead, ed, td, ctlVars, service, diskVars,
                   up, client, ctl, asked, started, resets>>

AcknowledgeDone ==
    /\ ~Serving
    /\ isr = "clear"
    /\ ClearDone
    /\ isr' = "idle"
    /\ UNCHANGED <<doneHead, memory, ctlVars, service, diskVars,
                   up, client, ctl, waits, started, resets>>

-----------------------------------------------------------------------------
MachineReset ==
    /\ ~Serving
    /\ resets < MaxResets
    /\ resets' = resets + 1
    /\ up' = "off"
    /\ cli' = "idle"
    /\ job' = NoJob
    /\ myTag' = 0
    /\ buf' = << >>
    /\ ctl' = NoRequest
    /\ asked' = NothingAsked
    /\ told' = {}
    /\ isr' = "idle"
    /\ UNCHANGED <<started, ohciVars, diskVars>>

Serve == Service /\ UNCHANGED guestVars

Handler == TakeDone \/ AcknowledgeDone

Proceed ==
    \/ StopController
    \/ StartController
    \/ AfterCommand
    \/ AfterData
    \/ AfterStatus
    \/ EndRequest
    \/ (up = "resetting" /\ Request(ResetRequest))

Next ==
    \/ Serve
    \/ Handler
    \/ Proceed
    \/ \E c \in CommandSet : SendCommand(c)
    \/ \E r \in RequestSet : Request(r)
    \/ MachineReset

Spec == Init /\ [][Next]_vars

(* The board's tick comes round, and between its services the guest runs:  *)
(* its handler, and whichever of its clients can go on.                    *)
Fairness ==
    /\ WF_vars(Serve)
    /\ SF_vars(Handler)
    /\ SF_vars(Proceed)

FairSpec == Spec /\ Fairness

-----------------------------------------------------------------------------
(* The transfers asked of an endpoint, and its tail. *)
Path(e) == Append(asked[e], ed[e].tail)

(* The queue of each endpoint is, in the order they were asked for, the    *)
(* transfers that are not done: none runs twice or is skipped, although a  *)
(* done one's link is reused for the done stack (usb.rs retire).           *)
QueuesAreWhole ==
    up \in {"resetting", "up"} =>
        \A e \in Eds : \E k \in 0 .. Len(asked[e]) :
            /\ \A i \in 1 .. Len(asked[e]) : td[asked[e][i]].done <=> i <= k
            /\ ed[e].head = Path(e)[k + 1]
            /\ \A i \in k + 1 .. Len(asked[e]) : td[asked[e][i]].next = Path(e)[i + 1]

(* A command the drive cannot carry out. *)
Unable(c) == c.op = "unknown" \/ (c.op \in {"read", "write"} /\ ~InRange(c))

(* What a client is told is the answer to what it asked: a command its own *)
(* tag, how it ended, and how much did not come (usbdisk.rs: "the device   *)
(* answering somebody else's question"); a control request its own reply,  *)
(* or a stall if and only if the drive refuses it, whatever was stalled or *)
(* abandoned before.                                                       *)
RequestsAreAnswered ==
    /\ StatusIsHere =>
           \E s \in [tag : {myTag}, residue : 0 .. job.cells, status : {"good", "failed"}] :
               /\ Gathered("in") = << s >>
               /\ s.status = IF Unable(job) THEN "failed" ELSE "good"
               /\ ~Unable(job) /\ job.op # "write" => s.residue = job.cells - Len(buf)
    /\ RequestIsOver =>
           /\ ed["ctl"].halted = ~Accepts(ctl)
           /\ Accepts(ctl) => Gathered("ctl") = Answer(ctl)

(* A command that ended well has moved what it should: a read has what the *)
(* drive holds, a write has put its data there. The drive changes only     *)
(* where the command in hand writes, and only while it does: a reset never *)
(* turns a later wrapper into data (bulk_out takes whatever comes in       *)
(* DataOut as data).                                                       *)
DataIsRight ==
    [][/\ StatusIsHere /\ InRange(job) =>
           /\ job.op = "read" => buf = Contents(Start(job), Length(job))
           /\ job.op = "write" =>
                  \A c \in Start(job) .. Start(job) + Length(job) - 1 : store[c] = job.fill
       /\ up = "up" => \A c \in StoreCells : store'[c] # store[c] =>
              /\ cli = "data"
              /\ job.op = "write"
              /\ c \in Start(job) .. Start(job) + Length(job) - 1]_vars

(* Transfers that are done, but that neither the handler nor the controller*)
(* holds any more, or that are in the HCCA with no interrupt to say so.    *)
Untold ==
    {t \in UNION {Range(asked[e]) : e \in Eds} :
        /\ td[t].done
        /\ t \notin told
        /\ t \notin Linked(doneHead)
        /\ ~(raised /\ t \in Linked(hccaDone))}

(* Bring-up, every command and every request come to an end, unless a      *)
(* completion is lost to the driver (usb.rs service and its limit, and the *)
(* raise of hand_over_done_queue).                                         *)
Busy == up # "up" \/ cli # "idle" \/ ctl # NoRequest
WorkFinishes == Busy ~> (~Busy \/ Untold # {})

(* Between commands the drive waits for a command, after a reset as at the *)
(* first start (lib.rs on resetting the board: "What has to go is the      *)
(* state the running system left in the *devices*").                       *)
ReadyForCommands == up = "up" /\ cli = "idle" => phase = "command"

(* usb.rs: "When the queue is handed over ... the driver knows its         *)
(* transfers finished".  No completion, then, is lost to it.               *)
CompletionsAreTold == Untold = {}
=============================================================================
