---------------------------- MODULE BusProofs ----------------------------
(***************************************************************************)
(* What two drivers read bit by bit, or word by word, is what the parts    *)
(* hold: the SD card behind the MMC controller, for any card, any requests *)
(* and resets anywhere; and the serial number's part on its single wire.   *)
(* What is written to the card is whole when it has finished.              *)
(*                                                                         *)
(* On the card's bus three counts go together while data moves: what the   *)
(* driver has moved, what the controller still expects, and where the card *)
(* has got to.  They start together only if nothing waits on the card's    *)
(* lines when a request is made; and a reset may leave words there.  CMD0  *)
(* throws them away unless the card takes it for an application command,   *)
(* and when it does, there are none.  On the wire it is time that both     *)
(* ends go by: the part takes in, or lets out, a bit in each slot.         *)
(***************************************************************************)
EXTENDS SdHost, OneWire, FiniteSetTheorems, SequenceTheorems, WellFoundedInduction, TLAPS

Values == Data \cup {RegWord, Floating}
Jobs == {NoJob, ScrJob, SsrJob} \cup {r \in Requests : Legal(r)}

Moving == {"ack", "data"}
Moved == {"done", "stop", "poll"}
Prepared == {"acmd41", "acmd51", "acmd13"}

(* A CMD55 still counts only where the driver has just sent one, or has    *)
(* been reset since; no words wait from the moment CMD0 has been sent.     *)
Control ==
    /\ pc \in Places
    /\ pc # "off" => clockOn
    /\ appCmd \in BOOLEAN
    /\ pc \in Prepared => appCmd
    /\ pc \notin Prepared \cup {"off", "cmd0"} => ~appCmd
    /\ appCmd => dataOut = 0
    /\ pc \notin Moving \cup {"off", "cmd0"} => dataOut = 0

Shape ==
    /\ job \in Jobs
    /\ moved \in 0 .. WordsOf(job)
    /\ got \in Seq(Values)
    /\ data \in [Words -> Data]

Together ==
    pc \in Moving =>
        /\ wordsLeft = WordsOf(job) - moved
        /\ pc = "ack" => moved = 0
        /\ job.way # "write" => Len(got) = moved
        /\ job.way \in {"scr", "ssr"} => dataOut = WordsOf(job) - moved
        /\ job.way \in {"read", "write"} => dataOut = 0 /\ position = StartOf(job) + moved
        /\ moved < WordsOf(job) /\ job.way = "read" => transfer = "reading"
        /\ moved < WordsOf(job) /\ job.way = "write" => transfer = "writing"
        /\ job.way # "none"

Filled ==
    /\ job.way = "write" => \A k \in 0 .. moved - 1 : data[StartOf(job) + k] = job.fill
    /\ pc \in Moved => moved = WordsOf(job)

TInv == Control /\ Shape /\ Together /\ InterruptMeansDone /\ Filled /\ ReadsAreRight

-----------------------------------------------------------------------------
(* A request lies on the card. *)
LEMMA JobFacts ==
    ASSUME NEW r \in Jobs
    PROVE  /\ WordsOf(r) \in Nat /\ StartOf(r) \in Nat
           /\ r.way \in {"none", "scr", "ssr", "read", "write"}
           /\ r.fill \in Data
           /\ r.way \in {"read", "write"} => WordsOf(r) > 0
           /\ r.way \in {"read", "write"} =>
                  \A k \in 0 .. WordsOf(r) - 1 : StartOf(r) + k \in Words
<1>1. CASE r \in {NoJob, ScrJob, SsrJob}
    <2>1. /\ r = [way |-> r.way, many |-> FALSE, first |-> 0, count |-> 0, fill |-> Blank]
          /\ r.way \in {"none", "scr", "ssr"}
        BY <1>1 DEF NoJob, ScrJob, SsrJob
    <2>2. StartOf(r) = 0 /\ WordsOf(r) \in Nat
        <3>1. 0 * BlockWords = 0
            BY GeometryAssumption
        <3>2. r.first = 0 /\ r.count = 0
            BY <2>1
        <3> QED
            BY <2>1, <3>1, <3>2, GeometryAssumption DEF StartOf, WordsOf
    <2>3. r.fill = Blank
        BY <2>1
    <2> QED
        BY <2>1, <2>2, <2>3, GeometryAssumption
<1>2. CASE r \in Requests /\ Legal(r)
    <2>1. /\ r.first \in Nat /\ r.count \in Nat /\ r.first + r.count <= NumBlocks
          /\ r.way \in {"read", "write"} /\ r.fill \in Data
        BY <1>2, GeometryAssumption DEF Requests, Legal
    <2>2. WordsOf(r) = r.count * BlockWords /\ StartOf(r) = r.first * BlockWords
        BY <2>1 DEF WordsOf, StartOf
    <2>3. ASSUME NEW a \in Nat, NEW b \in Nat, NEW n \in Nat, a + b <= n
          PROVE  /\ a * BlockWords \in Nat /\ b * BlockWords \in Nat /\ n * BlockWords \in Nat
                 /\ a * BlockWords + b * BlockWords <= n * BlockWords
        <3>1. PICK m \in Nat, c \in Nat : m = a + b /\ n = m + c
            <4>1. a + b \in Nat /\ n - (a + b) \in Nat /\ n = (a + b) + (n - (a + b))
                BY <2>3
            <4> QED
                BY <4>1
        <3>2. m * BlockWords = a * BlockWords + b * BlockWords
            BY <3>1, GeometryAssumption, SMTT(30)
        <3>3. n * BlockWords = m * BlockWords + c * BlockWords
            BY <3>1, GeometryAssumption, SMTT(30)
        <3>4. \A p \in Nat : p * BlockWords \in Nat
            BY GeometryAssumption, SMTT(30)
        <3> QED
            BY <3>2, <3>3, <3>4
    <2>4. /\ WordsOf(r) \in Nat /\ StartOf(r) \in Nat /\ NumBlocks * BlockWords \in Nat
          /\ StartOf(r) + WordsOf(r) <= NumBlocks * BlockWords
        BY <2>1, <2>2, <2>3, GeometryAssumption
    <2>5. \A k \in 0 .. WordsOf(r) - 1 : StartOf(r) + k \in Words
        BY <2>4 DEF Words
    <2>6. WordsOf(r) > 0
        BY <1>2, <2>2, GeometryAssumption, SMTT(30) DEF Requests
    <2> QED
        BY <2>1, <2>4, <2>5, <2>6
<1> QED
    BY <1>1, <1>2 DEF Jobs

-----------------------------------------------------------------------------
(* What a command does to what the invariant is about, with the clock on. *)
LEMMA CommandDoes ==
    ASSUME NEW cmd, NEW arg, NEW cmdat, NEW words, clockOn, appCmd \in BOOLEAN,
           WriteCmdat(cmd, arg, cmdat, words)
    PROVE  /\ clockOn' /\ data' = data
           /\ appCmd' \in BOOLEAN /\ (appCmd' <=> cmd = 55 /\ ~appCmd)
           /\ cmdat.dataEn => wordsLeft' = words
           /\ ~appCmd /\ cmd = 0 => dataOut' = 0
           /\ ~appCmd /\ cmd # 0 => dataOut' = dataOut
           /\ ~appCmd /\ cmd \in {17, 18} => position' = arg /\ transfer' = "reading"
           /\ ~appCmd /\ cmd \in {24, 25} => position' = arg /\ transfer' = "writing"
           /\ appCmd /\ cmd = 51 => dataOut' = dataOut + ScrWords
           /\ appCmd /\ cmd = 13 => dataOut' = dataOut + SsrWords
           /\ appCmd /\ cmd \notin {13, 51} => dataOut' = dataOut
<1>1. /\ clockOn' = clockOn /\ Command(cmd, arg)
      /\ wordsLeft' = IF cmdat.dataEn THEN words ELSE 0
    BY DEF WriteCmdat, Execute
<1>2. data' = data /\ appCmd' = (cmd = 55 /\ ~appCmd)
    BY <1>1 DEF Command, contents
<1>5. appCmd' \in BOOLEAN /\ (appCmd' <=> cmd = 55 /\ ~appCmd)
    BY <1>2
<1>3. ASSUME ~appCmd
      PROVE  /\ cmd = 0 => dataOut' = 0
             /\ cmd # 0 => dataOut' = dataOut
             /\ cmd \in {17, 18} => position' = arg /\ transfer' = "reading"
             /\ cmd \in {24, 25} => position' = arg /\ transfer' = "writing"
    <2>1. PlainCommand(cmd, arg)
        BY <1>1, <1>3 DEF Command
    <2> QED
        BY <2>1 DEF PlainCommand, GoIdleState, SendOpCond, MoveTo, RelativeAddress, StopTransmission,
                    BeginTransfer, lines
<1>4. ASSUME appCmd
      PROVE  /\ cmd = 51 => dataOut' = dataOut + ScrWords
             /\ cmd = 13 => dataOut' = dataOut + SsrWords
             /\ cmd \notin {13, 51} => dataOut' = dataOut
    <2>1. AppCommand(cmd)
        BY <1>1, <1>4 DEF Command
    <2> QED
        BY <2>1 DEF AppCommand, SendOpCond, SendRegister, MoveTo, lines
<1> QED
    BY <1>1, <1>2, <1>3, <1>4, <1>5

(* A command without data, which starts no request and ends none. *)
LEMMA CommandKeeps ==
    ASSUME TInv, data' = data, UNCHANGED <<job, moved, got>>, Control',
           pc' \notin Moving, pc' \in Moved => pc \in Moved
    PROVE  TInv'
<1>1. Shape'
    BY DEF TInv, Shape
<1>2. Together' /\ InterruptMeansDone'
    BY DEF Together, InterruptMeansDone, Moving
<1>3. Filled'
    BY DEF TInv, Filled
<1>4. ReadsAreRight'
    BY DEF TInv, ReadsAreRight
<1> QED
    BY <1>1, <1>2, <1>3, <1>4 DEF TInv

LEMMA StepKeeps ==
    ASSUME TInv, NEW from, NEW cmd, NEW arg, NEW cmdat, NEW to, Step(from, cmd, arg, cmdat, to),
           \/ from = "cmd0" /\ cmd = 0 /\ to = "cmd55"
           \/ from = "cmd55" /\ cmd = 55 /\ to = "acmd41"
           \/ from = "acmd41" /\ cmd = 41 /\ to \in {"cmd55", "cmd2"}
           \/ from = "cmd55" /\ cmd = 1 /\ to \in {"cmd55", "cmd2"}
           \/ from = "cmd2" /\ cmd = 2 /\ to = "cmd3"
           \/ from = "cmd3" /\ cmd = 3 /\ to = "cmd7"
           \/ from = "cmd7" /\ cmd = 7 /\ to = "scr55"
           \/ from = "scr55" /\ cmd = 55 /\ to = "acmd51"
           \/ from = "ssr55" /\ cmd = 55 /\ to = "acmd13"
           \/ from \in Moved /\ cmd \in {12, 13} /\ to \in Moved
    PROVE  TInv'
<1>1. /\ pc = from /\ pc' = to /\ WriteCmdat(cmd, arg, cmdat, 0) /\ UNCHANGED <<job, moved, got>>
    BY DEF Step, Goto
<1>2. clockOn /\ appCmd \in BOOLEAN
    BY <1>1 DEF TInv, Control, Moved
<1>3. /\ clockOn' /\ data' = data
      /\ appCmd' \in BOOLEAN /\ (appCmd' <=> cmd = 55 /\ ~appCmd)
      /\ ~appCmd /\ cmd = 0 => dataOut' = 0
      /\ ~appCmd /\ cmd # 0 => dataOut' = dataOut
      /\ appCmd /\ cmd \notin {13, 51} => dataOut' = dataOut
    BY <1>1, <1>2, CommandDoes
<1>4. dataOut' = 0
    <2>1. CASE from = "cmd0"
        <3>1. cmd = 0 /\ (appCmd => dataOut = 0)
            BY <2>1 DEF TInv, Control, Moved
        <3> QED
            BY <1>2, <1>3, <3>1
    <2>2. CASE from # "cmd0"
        <3>1. dataOut = 0 /\ (appCmd => from \in Prepared)
            BY <1>1, <2>2 DEF TInv, Control, Moving, Moved, Prepared
        <3> QED
            BY <1>2, <1>3, <2>2, <3>1 DEF Prepared, Moved
    <2> QED
        BY <2>1, <2>2
<1>5. cmd = 55 => ~appCmd
    BY <1>1 DEF TInv, Control, Prepared
<1>6. Control'
    <2>1. pc' \in Places \ {"off", "cmd0"}
        BY <1>1 DEF Places, Moved
    <2>2. pc' \in Prepared <=> cmd = 55
        BY <1>1 DEF Prepared, Moved
    <2>3. appCmd' \in BOOLEAN /\ (appCmd' <=> cmd = 55)
        BY <1>3, <1>5
    <2> QED
        BY <1>3, <1>4, <2>1, <2>2, <2>3 DEF Control
<1>7. pc' \notin Moving /\ (pc' \in Moved => pc \in Moved)
    BY <1>1 DEF Moving, Moved
<1> QED
    BY <1>1, <1>3, <1>6, <1>7, CommandKeeps

LEMMA BringUpKeeps == ASSUME TInv, BringUp PROVE TInv'
<1>1. CASE AskUntilReady("acmd41", 41) \/ AskUntilReady("cmd55", 1)
    BY <1>1, StepKeeps DEF AskUntilReady
<1>2. CASE \E arg \in {0, HostAddress} : Step("cmd3", 3, arg, Plain, "cmd7")
    BY <1>2, StepKeeps
<1>3. CASE ~(AskUntilReady("acmd41", 41) \/ AskUntilReady("cmd55", 1))
    BY <1>2, <1>3, StepKeeps DEF BringUp
<1> QED
    BY <1>1, <1>3

-----------------------------------------------------------------------------
(* A request starts the three counts together. *)
LEMMA BeginKeeps ==
    ASSUME TInv, NEW r \in Jobs, Begin(r), pc' = "ack", clockOn', ~appCmd', appCmd' \in BOOLEAN,
           data' = data, wordsLeft' = WordsOf(r), r.way # "none",
           r.way \in {"scr", "ssr"} => dataOut' = WordsOf(r),
           r.way \in {"read", "write"} => dataOut' = 0 /\ position' = StartOf(r),
           r.way = "read" => transfer' = "reading",
           r.way = "write" => transfer' = "writing"
    PROVE  TInv'
<1>1. job' = r /\ moved' = 0 /\ got' = << >>
    BY DEF Begin
<1>2. WordsOf(r) \in Nat /\ StartOf(r) \in Nat
    BY JobFacts
<1>3. Control'
    BY DEF Control, Places, Prepared, Moving
<1>4. Shape'
    BY <1>1, <1>2 DEF TInv, Shape
<1>5. Together'
    BY <1>1, <1>2 DEF Together, Moving
<1>6. InterruptMeansDone' /\ Filled' /\ ReadsAreRight'
    BY <1>1 DEF InterruptMeansDone, Filled, ReadsAreRight, Moved
<1> QED
    BY <1>3, <1>4, <1>5, <1>6 DEF TInv

LEMMA ReadRegistersKeeps == ASSUME TInv, ReadRegisters PROVE TInv'
<1>0. WordsOf(ScrJob) = ScrWords /\ WordsOf(SsrJob) = SsrWords
    BY DEF WordsOf, ScrJob, SsrJob, NoJob
<1>1. PICK from, cmd, r : /\ ReadRegister(from, cmd, r) /\ from \in {"acmd51", "acmd13"}
                          /\ \/ cmd = 51 /\ r = ScrJob /\ WordsOf(r) = ScrWords
                             \/ cmd = 13 /\ r = SsrJob /\ WordsOf(r) = SsrWords
    BY <1>0 DEF ReadRegisters
<1>2. /\ WriteCmdat(cmd, 0, Reading, WordsOf(r)) /\ Begin(r) /\ pc = from /\ pc' = "ack"
      /\ Reading.dataEn
    BY <1>1 DEF ReadRegister, Reading, Plain
<1>3. clockOn /\ appCmd /\ appCmd \in BOOLEAN /\ dataOut = 0
    BY <1>1, <1>2 DEF TInv, Control, Prepared, Moving
<1>4. /\ clockOn' /\ data' = data /\ appCmd' \in BOOLEAN /\ ~appCmd' /\ wordsLeft' = WordsOf(r)
      /\ dataOut' = dataOut + WordsOf(r)
    BY <1>1, <1>2, <1>3, CommandDoes
<1>5. r \in Jobs /\ r.way \in {"scr", "ssr"}
    BY <1>1 DEF Jobs, ScrJob, SsrJob, NoJob
<1>6. dataOut' = WordsOf(r)
    BY <1>3, <1>4, <1>5, JobFacts
<1> QED
    BY <1>2, <1>4, <1>5, <1>6, BeginKeeps

LEMMA IssueKeeps == ASSUME TInv, NEW r \in Requests, Issue(r) PROVE TInv'
<1>1. /\ r \in Jobs /\ r.way \in {"read", "write"} /\ Begin(r) /\ pc = "idle" /\ pc' = "ack"
    BY DEF Issue, Jobs, Requests
<1>2. PICK cmd, cmdat : /\ WriteCmdat(cmd, StartOf(r), cmdat, WordsOf(r)) /\ cmdat.dataEn
                        /\ r.way = "read" => cmd \in {17, 18}
                        /\ r.way = "write" => cmd \in {24, 25}
    <2>0. Reading.dataEn /\ Writing.dataEn
        BY DEF Writing, Reading, Plain
    <2>1. CASE r.way = "read"
        BY <2>0, <2>1 DEF Issue
    <2>2. CASE r.way = "write"
        BY <2>0, <2>2 DEF Issue
    <2> QED
        BY <1>1, <2>1, <2>2
<1>3. clockOn /\ ~appCmd /\ appCmd \in BOOLEAN /\ dataOut = 0
    BY <1>1 DEF TInv, Control, Prepared, Moving
<1>4. /\ clockOn' /\ data' = data /\ appCmd' \in BOOLEAN /\ wordsLeft' = WordsOf(r)
      /\ dataOut' = 0 /\ position' = StartOf(r) /\ (appCmd' <=> cmd = 55)
      /\ r.way = "read" => transfer' = "reading"
      /\ r.way = "write" => transfer' = "writing"
    BY <1>1, <1>2, <1>3, CommandDoes
<1>5. ~appCmd'
    BY <1>1, <1>2, <1>4
<1> QED
    BY <1>1, <1>4, <1>5, BeginKeeps

(* The command's interrupts are cleared before a word has moved. *)
LEMMA AcknowledgeKeeps == ASSUME TInv, Acknowledge PROVE TInv'
<1>1. /\ pc = "ack" /\ pc' = "data" /\ iReg' = {}
      /\ UNCHANGED <<job, moved, got, clockOn, appCmd, dataOut, data, wordsLeft, position, transfer>>
    BY DEF Acknowledge, ReadIReg, Goto, cardVars, lines, contents
<1> QED
    BY <1>1 DEF TInv, Control, Places, Prepared, Moving, Moved, Shape, Together, InterruptMeansDone,
                Filled, ReadsAreRight

(* What a word through the FIFO does to the controller. *)
LEMMA MovedWordDoes ==
    ASSUME NEW request, MovedWord(request), wordsLeft \in Nat \ {0}
    PROVE  /\ clockOn' = clockOn /\ wordsLeft' = wordsLeft - 1
           /\ "dataDone" \in iReg' => "dataDone" \in iReg \/ wordsLeft' = 0
    BY DEF MovedWord, Last, FifoRequest

(* The card's position follows each word, and only the last ends it. *)
LEMMA SettleDoes ==
    ASSUME NEW finished \in BOOLEAN, Settle(finished)
    PROVE  ~finished => transfer' = transfer
    BY DEF Settle

(* What holds of a request while its words move. *)
LEMMA WordToMove ==
    ASSUME TInv, pc = "data", moved < WordsOf(job)
    PROVE  /\ wordsLeft \in Nat \ {0} /\ wordsLeft = WordsOf(job) - moved
           /\ moved \in Nat /\ WordsOf(job) \in Nat /\ StartOf(job) \in Nat
           /\ "dataDone" \notin iReg
           /\ job \in Jobs /\ job.way \in {"scr", "ssr", "read", "write"}
           /\ job.way \in {"scr", "ssr"} => dataOut = wordsLeft
           /\ job.way \in {"read", "write"} =>
                  dataOut = 0 /\ position = StartOf(job) + moved /\ position \in Words
           /\ job.way = "read" => transfer = "reading"
           /\ job.way = "write" => transfer = "writing"
           /\ job.way # "write" => Len(got) = moved
<1>1. job \in Jobs /\ moved \in 0 .. WordsOf(job)
    BY DEF TInv, Shape
<1>2. /\ WordsOf(job) \in Nat /\ StartOf(job) \in Nat
      /\ job.way \in {"none", "scr", "ssr", "read", "write"}
      /\ job.way \in {"read", "write"} => \A k \in 0 .. WordsOf(job) - 1 : StartOf(job) + k \in Words
    BY <1>1, JobFacts
<1>3. /\ wordsLeft = WordsOf(job) - moved /\ job.way # "none"
      /\ job.way \in {"scr", "ssr"} => dataOut = WordsOf(job) - moved
      /\ job.way \in {"read", "write"} => dataOut = 0 /\ position = StartOf(job) + moved
      /\ job.way = "read" => transfer = "reading"
      /\ job.way = "write" => transfer = "writing"
      /\ job.way # "write" => Len(got) = moved
    BY DEF TInv, Together, Moving
<1>4. moved \in 0 .. WordsOf(job) - 1 /\ wordsLeft \in Nat \ {0}
    BY <1>1, <1>2, <1>3
<1>5. "dataDone" \notin iReg
    BY <1>1, <1>2 DEF TInv, InterruptMeansDone
<1> QED
    BY <1>1, <1>2, <1>3, <1>4, <1>5

(* The word that is next is the one the request wants next. *)
LEMMA NextWordIsRight ==
    ASSUME TInv, pc = "data", moved < WordsOf(job), job.way # "write"
    PROVE  /\ NextWord \in Values
           /\ job.way = "read" => NextWord = data[StartOf(job) + moved]
           /\ job.way \in {"scr", "ssr"} => NextWord = RegWord
<1>1. CASE job.way \in {"scr", "ssr"}
    <2>1. dataOut > 0
        BY <1>1, WordToMove
    <2> QED
        BY <1>1, <2>1 DEF NextWord, Values
<1>2. CASE job.way = "read"
    <2>1. /\ ~(dataOut > 0) /\ transfer = "reading"
          /\ position = StartOf(job) + moved /\ position \in Words
        BY <1>2, WordToMove
    <2>2. NextWord = data[position]
        BY <2>1 DEF NextWord
    <2>3. data[position] \in Data
        BY <2>1 DEF TInv, Shape
    <2> QED
        BY <1>2, <2>1, <2>2, <2>3 DEF Values
<1> QED
    BY <1>1, <1>2, WordToMove

LEMMA MoveInKeeps == ASSUME TInv, MoveIn PROVE TInv'
<1>1. /\ pc = "data" /\ pc' = "data" /\ job' = job /\ job.way # "write"
      /\ moved < WordsOf(job) /\ moved' = moved + 1
      /\ got' = Append(got, NextWord)
      /\ MovedWord("rxReq") /\ ReadWord(Last)
    BY DEF MoveIn, ReadFifo
<1>2. /\ wordsLeft \in Nat \ {0} /\ wordsLeft = WordsOf(job) - moved
      /\ moved \in Nat /\ WordsOf(job) \in Nat /\ StartOf(job) \in Nat
      /\ "dataDone" \notin iReg /\ job \in Jobs
      /\ job.way \in {"scr", "ssr", "read"}
      /\ job.way \in {"scr", "ssr"} => dataOut = wordsLeft
      /\ job.way = "read" => dataOut = 0 /\ position = StartOf(job) + moved /\ transfer = "reading"
      /\ Len(got) = moved /\ got \in Seq(Values)
    BY <1>1, WordToMove DEF TInv, Shape
<1>3. /\ dataOut' = IF dataOut > 0 THEN dataOut - 1 ELSE 0
      /\ position' = IF dataOut = 0 /\ transfer = "reading" THEN position + 1 ELSE position
      /\ wordsLeft # 1 => transfer' = transfer
      /\ appCmd' = appCmd /\ data' = data
    BY <1>1, SettleDoes DEF ReadWord, Last, contents
<1>4. /\ clockOn' = clockOn /\ wordsLeft' = wordsLeft - 1
      /\ "dataDone" \in iReg' => wordsLeft' = 0
    BY <1>1, <1>2, MovedWordDoes
<1>5. /\ NextWord \in Values
      /\ job.way = "read" => NextWord = data[StartOf(job) + moved]
      /\ job.way \in {"scr", "ssr"} => NextWord = RegWord
    BY <1>1, NextWordIsRight
<1>6. /\ got' \in Seq(Values) /\ Len(got') = moved + 1
      /\ \A i \in 1 .. moved : got'[i] = got[i]
      /\ got'[moved + 1] = NextWord
    BY <1>1, <1>2, <1>5
<1>7. Control'
    BY <1>1, <1>3, <1>4 DEF TInv, Control, Prepared, Moving
<1>8. Shape'
    BY <1>1, <1>2, <1>3, <1>6 DEF TInv, Shape
<1>9. Together' /\ InterruptMeansDone'
    <2>1. /\ wordsLeft' = WordsOf(job) - moved'
          /\ wordsLeft' = 0 => moved' = WordsOf(job)
          /\ moved' < WordsOf(job) => transfer' = transfer
        BY <1>1, <1>2, <1>3, <1>4
    <2>2. job.way \in {"scr", "ssr"} => dataOut' = WordsOf(job) - moved'
        BY <1>1, <1>2, <1>3
    <2>3. job.way = "read" => dataOut' = 0 /\ position' = StartOf(job) + moved'
        BY <1>1, <1>2, <1>3
    <2>4. Together'
        BY <1>1, <1>2, <1>6, <2>1, <2>2, <2>3 DEF Together
    <2>5. InterruptMeansDone'
        BY <1>1, <1>4, <2>1 DEF InterruptMeansDone
    <2> QED
        BY <2>4, <2>5
<1>10. Filled'
    BY <1>1, <1>2 DEF Filled, Moved
<1>11. ReadsAreRight'
    <2> SUFFICES ASSUME NEW i \in 1 .. moved + 1
                 PROVE  /\ job.way = "read" => got'[i] = data[StartOf(job) + i - 1]
                        /\ job.way \in {"scr", "ssr"} => got'[i] = RegWord
        BY <1>1, <1>3, <1>6 DEF ReadsAreRight
    <2>1. CASE i = moved + 1
        BY <1>2, <1>5, <1>6, <2>1
    <2>2. CASE i # moved + 1
        <3>1. i \in 1 .. moved /\ i \in 1 .. Len(got)
            BY <1>2, <2>2
        <3> QED
            BY <1>6, <3>1 DEF TInv, ReadsAreRight
    <2> QED
        BY <2>1, <2>2
<1> QED
    BY <1>7, <1>8, <1>9, <1>10, <1>11 DEF TInv

(* A word written lands where the request's next word belongs. *)
LEMMA MoveOutStores ==
    ASSUME TInv, MoveOut
    PROVE  /\ StartOf(job) + moved \in Words
           /\ data' = [data EXCEPT ![StartOf(job) + moved] = job.fill]
<1>1. StoreWord(job.fill) /\ pc = "data" /\ moved < WordsOf(job) /\ job.way = "write"
    BY DEF MoveOut, WriteFifo, WriteWord
<1>2. position = StartOf(job) + moved /\ position \in Words /\ transfer = "writing"
    BY <1>1, WordToMove
<1> QED
    BY <1>1, <1>2 DEF StoreWord

LEMMA MoveOutKeeps == ASSUME TInv, MoveOut PROVE TInv'
<1>1. /\ pc = "data" /\ pc' = "data" /\ job' = job /\ job.way = "write"
      /\ moved < WordsOf(job) /\ moved' = moved + 1 /\ got' = got
      /\ MovedWord("txReq") /\ WriteWord(job.fill, Last)
    BY DEF MoveOut, WriteFifo
<1>2. /\ wordsLeft \in Nat \ {0} /\ wordsLeft = WordsOf(job) - moved
      /\ moved \in Nat /\ WordsOf(job) \in Nat /\ StartOf(job) \in Nat
      /\ "dataDone" \notin iReg /\ job \in Jobs
      /\ dataOut = 0 /\ position = StartOf(job) + moved /\ transfer = "writing"
    BY <1>1, WordToMove
<1>3. /\ dataOut' = dataOut /\ position' = position + 1
      /\ wordsLeft # 1 => transfer' = transfer
      /\ appCmd' = appCmd
    BY <1>1, <1>2, SettleDoes DEF WriteWord, Last
<1>4. /\ clockOn' = clockOn /\ wordsLeft' = wordsLeft - 1
      /\ "dataDone" \in iReg' => wordsLeft' = 0
    BY <1>1, <1>2, MovedWordDoes
<1>5. /\ StartOf(job) + moved \in Words
      /\ data' = [data EXCEPT ![StartOf(job) + moved] = job.fill]
    BY MoveOutStores
<1>6. job.fill \in Data
    BY <1>2, JobFacts
<1>7. Control'
    BY <1>1, <1>3, <1>4 DEF TInv, Control, Prepared, Moving
<1>8. Shape'
    BY <1>1, <1>2, <1>5, <1>6 DEF TInv, Shape
<1>9. Together' /\ InterruptMeansDone'
    <2>1. /\ wordsLeft' = WordsOf(job) - moved'
          /\ wordsLeft' = 0 => moved' = WordsOf(job)
          /\ moved' < WordsOf(job) => transfer' = transfer
        BY <1>1, <1>2, <1>3, <1>4
    <2>2. dataOut' = 0 /\ position' = StartOf(job) + moved'
        BY <1>1, <1>2, <1>3
    <2>3. Together'
        BY <1>1, <1>2, <2>1, <2>2 DEF Together
    <2>4. InterruptMeansDone'
        BY <1>1, <1>4, <2>1 DEF InterruptMeansDone
    <2> QED
        BY <2>3, <2>4
<1>10. Filled'
    <2> SUFFICES ASSUME NEW k \in 0 .. moved PROVE data'[StartOf(job) + k] = job.fill
        BY <1>1, <1>2 DEF Filled, Moved
    <2>1. CASE k = moved
        BY <1>5, <2>1 DEF TInv, Shape
    <2>2. CASE k # moved
        <3>1. k \in 0 .. moved - 1 /\ StartOf(job) + k # StartOf(job) + moved
            BY <1>2, <2>2
        <3>2. data[StartOf(job) + k] = job.fill
            BY <1>1, <3>1 DEF TInv, Filled
        <3> QED
            BY <1>5, <3>1, <3>2, <1>6 DEF TInv, Shape
    <2> QED
        BY <2>1, <2>2
<1>11. ReadsAreRight'
    BY <1>1 DEF ReadsAreRight
<1> QED
    BY <1>7, <1>8, <1>9, <1>10, <1>11 DEF TInv

(* When the controller says it is done, every word has moved. *)
LEMMA DataDoneKeeps == ASSUME TInv, DataDone PROVE TInv'
<1>1. /\ pc = "data" /\ pc' \in Moved /\ "dataDone" \in iReg
      /\ UNCHANGED <<job, moved, got, clockOn, appCmd, dataOut, data>>
    BY DEF DataDone, ReadIReg, Goto, cardVars, lines, contents, Moved
<1>2. moved = WordsOf(job)
    BY <1>1 DEF TInv, InterruptMeansDone
<1>3. dataOut = 0
    <2>1. job \in Jobs /\ job.way # "none"
        BY <1>1 DEF TInv, Shape, Together, Moving
    <2>2. job.way \in {"scr", "ssr", "read", "write"} /\ WordsOf(job) \in Nat
        BY <2>1, JobFacts
    <2> QED
        BY <1>1, <1>2, <2>2 DEF TInv, Together, Moving
<1>4. Control'
    BY <1>1, <1>3 DEF TInv, Control, Places, Prepared, Moving, Moved
<1>5. Shape' /\ ReadsAreRight'
    BY <1>1 DEF TInv, Shape, ReadsAreRight
<1>6. Together' /\ InterruptMeansDone' /\ Filled'
    BY <1>1, <1>2 DEF TInv, Together, InterruptMeansDone, Filled, Moving, Moved
<1> QED
    BY <1>4, <1>5, <1>6 DEF TInv

LEMMA StopOrPollKeeps == ASSUME TInv, Stop \/ Poll PROVE TInv'
<1>1. PICK from, cmd, to : /\ Step(from, cmd, 0, Plain, to)
                           /\ from \in Moved /\ cmd \in {12, 13} /\ to \in Moved
    <2>1. CASE Stop
        BY <2>1 DEF Stop, Moved
    <2>2. CASE Poll
        BY <2>2 DEF Poll, Step, Moved
    <2> QED
        BY <2>1, <2>2
<1> QED
    BY <1>1, StepKeeps

(* Between requests, and after a reset, there is no request. *)
LEMMA NoJobKeeps ==
    ASSUME TInv, Begin(NoJob) \/ (job' = NoJob /\ moved' = 0 /\ got' = << >>),
           data' = data, Control', pc' \notin Moving \cup Moved
    PROVE  TInv'
<1>1. job' = NoJob /\ moved' = 0 /\ got' = << >>
    BY DEF Begin
<1>2. NoJob \in Jobs /\ WordsOf(NoJob) \in Nat
    <2>1. NoJob \in Jobs
        BY DEF Jobs
    <2> QED
        BY <2>1, JobFacts
<1>3. Shape'
    BY <1>1, <1>2 DEF TInv, Shape
<1>4. Together' /\ InterruptMeansDone' /\ Filled' /\ ReadsAreRight'
    BY <1>1 DEF Together, InterruptMeansDone, Filled, ReadsAreRight, NoJob, Moving
<1> QED
    BY <1>3, <1>4 DEF TInv

LEMMA FinishKeeps == ASSUME TInv, Finish PROVE TInv'
<1>1. /\ pc = "done" /\ pc' \in {"ssr55", "idle"} /\ Begin(NoJob)
      /\ UNCHANGED <<clockOn, appCmd, dataOut, data>>
    BY DEF Finish, cardVars, hostVars, lines, contents
<1>2. Control'
    BY <1>1 DEF TInv, Control, Places, Prepared, Moving
<1> QED
    BY <1>1, <1>2, NoJobKeeps DEF Moving, Moved

LEMMA ResetKeeps == ASSUME TInv, MachineReset PROVE TInv'
<1>1. /\ pc' = "off" /\ job' = NoJob /\ moved' = 0 /\ got' = << >>
      /\ UNCHANGED <<appCmd, dataOut, data>>
    BY DEF MachineReset, cardVars, lines, contents
<1>2. Control'
    BY <1>1 DEF TInv, Control, Places, Prepared
<1> QED
    BY <1>1, <1>2, NoJobKeeps DEF Moving, Moved

LEMMA StartClockKeeps == ASSUME TInv, StartClock PROVE TInv'
<1>1. /\ pc' = "cmd0" /\ clockOn' = TRUE
      /\ UNCHANGED <<job, moved, got, appCmd, dataOut, data>>
    BY DEF StartClock, SetClock, Goto, cardVars, lines, contents
<1>2. Control'
    BY <1>1 DEF TInv, Control, Places, Prepared
<1> QED
    BY <1>1, <1>2, CommandKeeps DEF Moving, Moved

LEMMA StutterKeeps == ASSUME TInv, UNCHANGED vars PROVE TInv'
<1>1. UNCHANGED <<pc, clockOn, appCmd, dataOut, job, moved, got, data, wordsLeft, position, transfer, iReg>>
    BY DEF vars, cardVars, hostVars, driverVars, lines, contents
<1> QED
    BY <1>1 DEF TInv, Control, Shape, Together, InterruptMeansDone, Filled, ReadsAreRight

-----------------------------------------------------------------------------
LEMMA InitTInv == Init => TInv
<1> SUFFICES ASSUME Init PROVE TInv
    OBVIOUS
<1>1. /\ pc = "off" /\ job = NoJob /\ moved = 0 /\ got = << >>
      /\ appCmd = FALSE /\ dataOut = 0 /\ data = [w \in Words |-> Blank]
    BY DEF Init, CardInit, HostInit
<1>2. Control
    BY <1>1 DEF Control, Places, Prepared
<1>3. NoJob \in Jobs /\ WordsOf(NoJob) \in Nat
    <2>1. NoJob \in Jobs
        BY DEF Jobs
    <2> QED
        BY <2>1, JobFacts
<1>4. Shape
    BY <1>1, <1>3, GeometryAssumption DEF Shape
<1>5. Together /\ InterruptMeansDone /\ Filled /\ ReadsAreRight
    BY <1>1 DEF Together, InterruptMeansDone, Filled, ReadsAreRight, NoJob, Moving, Moved
<1> QED
    BY <1>2, <1>4, <1>5 DEF TInv

LEMMA NextTInv == ASSUME TInv, [Next]_vars PROVE TInv'
<1>1. CASE Work
    BY <1>1, StartClockKeeps, BringUpKeeps, ReadRegistersKeeps, AcknowledgeKeeps, MoveInKeeps,
       MoveOutKeeps, DataDoneKeeps, StopOrPollKeeps, FinishKeeps DEF Work
<1>2. CASE \E r \in Requests : Issue(r)
    BY <1>2, IssueKeeps
<1> QED
    BY <1>1, <1>2, ResetKeeps, StutterKeeps DEF Next

(* Only the words of a write under way change, and the last of them has    *)
(* been written when the driver takes the write for done.                  *)
LEMMA WordsChange ==
    ASSUME TInv, [Next]_vars
    PROVE  \/ data' = data
           \/ MoveOut
<1>1. CASE BringUp \/ ReadRegisters \/ Stop \/ Poll \/ \E r \in Requests : Issue(r)
    <2>1. PICK cmd, arg, cmdat, words : WriteCmdat(cmd, arg, cmdat, words)
        BY <1>1 DEF BringUp, AskUntilReady, Step, ReadRegisters, ReadRegister, Stop, Poll, Issue
    <2> QED
        BY <2>1 DEF WriteCmdat, Execute, Command, cardVars, contents
<1>2. CASE StartClock \/ Acknowledge \/ DataDone \/ Finish \/ MachineReset \/ UNCHANGED vars
    BY <1>2 DEF StartClock, SetClock, Acknowledge, DataDone, ReadIReg, Finish, MachineReset, vars,
                cardVars, contents
<1>3. CASE MoveIn
    BY <1>3 DEF MoveIn, ReadFifo, ReadWord, contents
<1> QED
    BY <1>1, <1>2, <1>3 DEF Next, Work

LEMMA OnlyPollEndsAWrite ==
    ASSUME Next, pc' = "done", job.way = "write"
    PROVE  Poll
<1>1. ~(StartClock \/ ReadRegisters \/ Acknowledge \/ MoveIn \/ MoveOut \/ Finish \/ MachineReset)
    BY DEF StartClock, Goto, ReadRegisters, ReadRegister, Acknowledge, MoveIn, MoveOut, Finish, MachineReset
<1>2. ~BringUp /\ ~(\E r \in Requests : Issue(r))
    BY DEF BringUp, AskUntilReady, Step, Goto, Issue
<1>3. ~DataDone /\ ~Stop
    BY DEF DataDone, Stop, Step, Goto
<1> QED
    BY <1>1, <1>2, <1>3 DEF Next, Work

LEMMA WritesStayWhole ==
    ASSUME TInv, [Next]_vars
    PROVE  [/\ \A w \in Words : data'[w] # data[w] => job.way = "write" /\ w \in Span(job)
            /\ pc' = "done" /\ job.way = "write" => \A w \in Span(job) : data'[w] = job.fill]_vars
<1> SUFFICES ASSUME Next
             PROVE  /\ \A w \in Words : data'[w] # data[w] => job.way = "write" /\ w \in Span(job)
                    /\ pc' = "done" /\ job.way = "write" => \A w \in Span(job) : data'[w] = job.fill
    OBVIOUS
<1>0. job \in Jobs /\ moved \in 0 .. WordsOf(job) /\ data \in [Words -> Data]
    BY DEF TInv, Shape
<1>1. WordsOf(job) \in Nat /\ StartOf(job) \in Nat
    BY <1>0, JobFacts
<1>2. ASSUME NEW w \in Words, data'[w] # data[w] PROVE job.way = "write" /\ w \in Span(job)
    <2>1. MoveOut
        BY <1>2, WordsChange
    <2>2. w = StartOf(job) + moved
        BY <1>0, <1>2, <2>1, MoveOutStores
    <2>3. job.way = "write" /\ moved < WordsOf(job)
        BY <2>1 DEF MoveOut
    <2> QED
        BY <1>0, <1>1, <2>2, <2>3 DEF Span
<1>3. ASSUME pc' = "done", job.way = "write", NEW w \in Span(job) PROVE data'[w] = job.fill
    <2>1. Poll
        BY <1>3, OnlyPollEndsAWrite
    <2>2. pc \in Moved /\ ~MoveOut
        BY <2>1 DEF Poll, MoveOut, Moved
    <2>3. data' = data
        BY <2>2, WordsChange
    <2>4. moved = WordsOf(job)
        BY <2>2 DEF TInv, Filled
    <2>5. w - StartOf(job) \in 0 .. moved - 1 /\ w = StartOf(job) + (w - StartOf(job))
        BY <1>1, <1>3, <2>4 DEF Span
    <2>6. data[StartOf(job) + (w - StartOf(job))] = job.fill
        BY <1>3, <2>5 DEF TInv, Filled
    <2> QED
        BY <2>3, <2>5, <2>6
<1> QED
    BY <1>2, <1>3

(* What the driver reads of the card is what the card holds there, in      *)
(* order, and of a register what the register holds (read_byte of          *)
(* sdcard.rs, moved_bytes of mmc.rs), for any card and any resets.         *)
THEOREM ReadsRight == Spec => []ReadsAreRight
<1>1. Init => TInv
    BY InitTInv
<1>2. TInv /\ [Next]_vars => TInv'
    BY NextTInv
<1>3. TInv => ReadsAreRight
    BY DEF TInv
<1> QED
    BY <1>1, <1>2, <1>3, PTL DEF Spec

(* No step of anyone changes a word outside the write under way, and a     *)
(* write that the driver takes for done has filled every word it asked for *)
(* (write_byte and transfer_finished of sdcard.rs), for any card, requests *)
(* and resets.                                                             *)
THEOREM WritesWhole == Spec => WritesAreWhole
<1>1. Init => TInv
    BY InitTInv
<1>2. TInv /\ [Next]_vars => TInv'
    BY NextTInv
<1>3. TInv /\ [Next]_vars =>
          [/\ \A w \in Words : data'[w] # data[w] => job.way = "write" /\ w \in Span(job)
           /\ pc' = "done" /\ job.way = "write" => \A w \in Span(job) : data'[w] = job.fill]_vars
    BY WritesStayWhole
<1> QED
    BY <1>1, <1>2, <1>3, PTL DEF Spec, WritesAreWhole

(* The data-done interrupt, once the command's own has been acknowledged,  *)
(* means that every word has crossed the FIFO (moved_bytes of mmc.rs).     *)
THEOREM DoneMeansDone == Spec => []InterruptMeansDone
<1>1. Init => TInv
    BY InitTInv
<1>2. TInv /\ [Next]_vars => TInv'
    BY NextTInv
<1>3. TInv => InterruptMeansDone
    BY DEF TInv
<1> QED
    BY <1>1, <1>2, <1>3, PTL DEF Spec

-----------------------------------------------------------------------------
(* The card is back in its transfer state, and the controller's count at   *)
(* zero, whenever a request is over: a transfer of one block ends with its *)
(* last word, and one of many with CMD12.                                  *)

Selected == {"scr55", "acmd51", "ssr55", "acmd13", "idle", "done"}
Counted == {"ssr55", "acmd13", "idle"} \cup Moved

Ready ==
    /\ pc \in Selected => state = "tran"
    /\ pc \in Counted => wordsLeft = 0
    /\ pc \in Moving /\ job.way \in {"scr", "ssr"} => state = "tran"
    /\ pc \in Moving /\ job.way \in {"read", "write"} =>
           /\ multiBlock = job.many
           /\ moved < WordsOf(job) => state \in {"data", "rcv"}
           /\ moved = WordsOf(job) /\ ~job.many => state = "tran"

LEMMA CommandMoves ==
    ASSUME NEW cmd, NEW arg, NEW cmdat, NEW words, clockOn, appCmd \in BOOLEAN,
           WriteCmdat(cmd, arg, cmdat, words)
    PROVE  /\ ~cmdat.dataEn => wordsLeft' = 0
           /\ ~appCmd /\ cmd = 7 /\ arg = rca => state' = "tran"
           /\ ~appCmd /\ cmd = 12 => state' = "tran"
           /\ ~appCmd /\ cmd \in {13, 55} => state' = state
           /\ ~appCmd /\ cmd \in {17, 18} => state' = "data" /\ multiBlock' = (cmd = 18)
           /\ ~appCmd /\ cmd \in {24, 25} => state' = "rcv" /\ multiBlock' = (cmd = 25)
           /\ appCmd /\ cmd \in {13, 51} => state' = state
<1>1. Command(cmd, arg) /\ wordsLeft' = IF cmdat.dataEn THEN words ELSE 0
    BY DEF WriteCmdat, Execute
<1>2. ASSUME ~appCmd
      PROVE  /\ cmd = 7 /\ arg = rca => state' = "tran"
             /\ cmd = 12 => state' = "tran"
             /\ cmd \in {13, 55} => state' = state
             /\ cmd \in {17, 18} => state' = "data" /\ multiBlock' = (cmd = 18)
             /\ cmd \in {24, 25} => state' = "rcv" /\ multiBlock' = (cmd = 25)
    <2>1. PlainCommand(cmd, arg)
        BY <1>1, <1>2 DEF Command
    <2> QED
        BY <2>1 DEF PlainCommand, MoveTo, StopTransmission, BeginTransfer
<1>3. ASSUME appCmd, cmd \in {13, 51} PROVE state' = state
    <2>1. AppCommand(cmd)
        BY <1>1, <1>3 DEF Command
    <2> QED
        BY <1>3, <2>1 DEF AppCommand, SendRegister
<1> QED
    BY <1>1, <1>2, <1>3

LEMMA StepReady == ASSUME TInv, Ready, BringUp \/ Stop \/ Poll PROVE Ready'
<1> USE DEF Selected, Counted, Moving, Moved
<1>0. clockOn /\ appCmd \in BOOLEAN
    BY DEF BringUp, AskUntilReady, Step, Stop, Poll, TInv, Control
<1>1. ~Plain.dataEn /\ ~Quiet.dataEn
    BY DEF Plain, Quiet
<1>2. CASE Step("cmd7", 7, rca, Plain, "scr55")
    BY <1>0, <1>2, CommandMoves DEF Step, Goto, Ready, TInv, Control, Prepared
<1>3. CASE Step("scr55", 55, 0, Plain, "acmd51") \/ Step("ssr55", 55, 0, Plain, "acmd13")
    BY <1>0, <1>1, <1>3, CommandMoves DEF Step, Goto, Ready, TInv, Control, Prepared
<1>4. CASE BringUp /\ pc' \notin Selected
    <2>1. pc' \notin Moving \cup Moved
        BY <1>4 DEF BringUp, AskUntilReady, Step, Goto
    <2> QED
        BY <1>4, <2>1 DEF Ready
<1>5. CASE BringUp /\ pc' \in Selected
    BY <1>2, <1>3, <1>5 DEF BringUp, AskUntilReady, Step, Goto
<1>6. CASE Stop
    BY <1>0, <1>1, <1>6, CommandMoves DEF Stop, Step, Goto, Ready, TInv, Control, Prepared
<1>7. CASE Poll
    BY <1>0, <1>1, <1>7, CommandMoves DEF Poll, Goto, Ready, TInv, Control, Prepared
<1> QED
    BY <1>4, <1>5, <1>6, <1>7

LEMMA RequestReady == ASSUME TInv, Ready, ReadRegisters \/ (\E r \in Requests : Issue(r)) PROVE Ready'
<1> USE DEF Selected, Counted, Moving, Moved
<1>0. clockOn /\ appCmd \in BOOLEAN
    BY DEF ReadRegisters, ReadRegister, Issue, TInv, Control
<1>1. CASE ReadRegisters
    <2>1. PICK from, cmd, r : /\ ReadRegister(from, cmd, r) /\ from \in {"acmd51", "acmd13"}
                              /\ cmd \in {13, 51} /\ r \in {ScrJob, SsrJob}
        BY <1>1 DEF ReadRegisters
    <2>2. appCmd /\ state = "tran"
        BY <2>1 DEF ReadRegister, TInv, Control, Prepared, Ready
    <2>3. state' = state
        BY <1>0, <2>1, <2>2, CommandMoves DEF ReadRegister
    <2>4. pc' = "ack" /\ job' = r /\ r.way \in {"scr", "ssr"}
        BY <2>1 DEF ReadRegister, Begin, ScrJob, SsrJob, NoJob
    <2> QED
        BY <2>2, <2>3, <2>4 DEF Ready
<1>2. ASSUME NEW r \in Requests, Issue(r) PROVE Ready'
    <2>1. /\ r \in Jobs /\ r.way \in {"read", "write"} /\ r.many \in BOOLEAN
          /\ pc = "idle" /\ pc' = "ack" /\ job' = r /\ moved' = 0
        BY <1>2 DEF Issue, Jobs, Requests, Begin
    <2>2. ~appCmd
        BY <2>1 DEF TInv, Control, Prepared
    <2>3. PICK cmd, cmdat : /\ WriteCmdat(cmd, StartOf(r), cmdat, WordsOf(r))
                            /\ \/ cmd \in {17, 18} /\ (cmd = 18 <=> r.many)
                               \/ cmd \in {24, 25} /\ (cmd = 25 <=> r.many)
        <3>1. CASE r.way = "read"
            BY <1>2, <3>1 DEF Issue
        <3>2. CASE r.way # "read"
            BY <1>2, <3>2 DEF Issue
        <3> QED
            BY <3>1, <3>2
    <2>4. state' \in {"data", "rcv"} /\ multiBlock' = r.many
        BY <1>0, <2>1, <2>2, <2>3, CommandMoves
    <2>5. WordsOf(r) > 0
        BY <2>1, JobFacts
    <2> QED
        BY <2>1, <2>4, <2>5 DEF Ready
<1> QED
    BY <1>1, <1>2

LEMMA WordReady == ASSUME TInv, Ready, MoveIn \/ MoveOut PROVE Ready'
<1> USE DEF Selected, Counted, Moving, Moved
<1>1. /\ pc = "data" /\ pc' = "data" /\ job' = job /\ moved < WordsOf(job) /\ moved' = moved + 1
      /\ Settle(Last) /\ multiBlock' = multiBlock
    BY DEF MoveIn, MoveOut, ReadFifo, WriteFifo, ReadWord, WriteWord
<1>2. /\ moved \in Nat /\ WordsOf(job) \in Nat /\ wordsLeft = WordsOf(job) - moved
    BY <1>1, WordToMove
<1>3. Last <=> moved' = WordsOf(job)
    BY <1>1, <1>2 DEF Last
<1>4. CASE Last
    BY <1>1, <1>2, <1>3, <1>4 DEF Settle, TransferFinished, Ready
<1>5. CASE ~Last
    BY <1>1, <1>2, <1>3, <1>5 DEF Settle, Ready
<1> QED
    BY <1>4, <1>5

LEMMA NextReady == ASSUME TInv, Ready, [Next]_vars PROVE Ready'
<1> USE DEF Selected, Counted, Moving, Moved
<1>1. CASE StartClock \/ MachineReset
    BY <1>1 DEF StartClock, Goto, MachineReset, Ready
<1>2. CASE Acknowledge
    BY <1>2 DEF Acknowledge, ReadIReg, Goto, cardVars, lines, Ready
<1>3. CASE DataDone
    <2>1. /\ pc = "data" /\ UNCHANGED <<state, wordsLeft>> /\ moved = WordsOf(job) /\ wordsLeft = 0
          /\ pc' = IF job.many THEN "stop" ELSE IF job.way = "write" THEN "poll" ELSE "done"
        BY <1>3 DEF DataDone, ReadIReg, Goto, cardVars, TInv, InterruptMeansDone
    <2>2. job.way \in {"scr", "ssr", "read", "write"}
        <3>1. job \in Jobs /\ job.way # "none"
            BY <2>1 DEF TInv, Shape, Together
        <3> QED
            BY <3>1, JobFacts
    <2> QED
        BY <2>1, <2>2 DEF Ready
<1>4. CASE Finish
    BY <1>4 DEF Finish, cardVars, hostVars, Ready
<1>5. CASE UNCHANGED vars
    BY <1>5 DEF vars, cardVars, hostVars, driverVars, lines, Ready
<1> QED
    BY <1>1, <1>2, <1>3, <1>4, <1>5, StepReady, RequestReady, WordReady DEF Next, Work

(* Between requests the card is selected and nothing of an earlier         *)
(* transfer is left on its lines or in the controller's count, whatever    *)
(* the resets interrupted (command of sdcard.rs), for any card.            *)
THEOREM ReadyBetweenRequests == Spec => []ReadyForRequests
<1>1. Init => TInv /\ Ready
    <2>1. Init => Ready
        BY DEF Init, Ready, Selected, Counted, Moving, Moved
    <2> QED
        BY <2>1, InitTInv
<1>2. TInv /\ Ready /\ [Next]_vars => TInv' /\ Ready'
    BY NextTInv, NextReady
<1>3. TInv /\ Ready => ReadyForRequests
    BY DEF TInv, Control, Ready, ReadyForRequests, Selected, Counted, Prepared, Moving
<1> QED
    BY <1>1, <1>2, <1>3, PTL DEF Spec

-----------------------------------------------------------------------------
(* The serial number's wire. *)

(* A function defined from its value before. *)
Recurs(f, n, start, step) == f = [i \in 0 .. n |-> IF i = 0 THEN start ELSE step[i][f[i - 1]]]

Successors(n, S) == [1 .. n -> [S -> S]]

LEMMA Iterates ==
    ASSUME NEW S, NEW start \in S, NEW m \in Nat, NEW step \in Successors(m, S)
    PROVE  \A n \in 0 .. m : \E f \in [0 .. n -> S] : Recurs(f, n, start, step)
<1> DEFINE bad == {k \in 0 .. m : ~\E f \in [0 .. k -> S] : Recurs(f, k, start, step)}
<1> SUFFICES ASSUME bad # {} PROVE FALSE
    OBVIOUS
<1>1. PICK k \in bad : \A j \in bad : <<j, k>> \notin OpToRel(<, Nat)
    <2>1. bad \subseteq Nat
        OBVIOUS
    <2> HIDE DEF bad
    <2> QED
        BY <2>1, NatLessThanWellFounded, WFMin
<1>2. k \in 0 .. m /\ ~\E f \in [0 .. k -> S] : Recurs(f, k, start, step)
    OBVIOUS
<1>3. CASE k = 0
    <2>1. [i \in 0 .. 0 |-> start] \in [0 .. 0 -> S]
        OBVIOUS
    <2>2. Recurs([i \in 0 .. 0 |-> start], 0, start, step)
        BY DEF Recurs
    <2> QED
        BY <1>2, <1>3, <2>1, <2>2
<1>4. CASE k # 0
    <2>1. k - 1 \in 0 .. m /\ <<k - 1, k>> \in OpToRel(<, Nat) /\ k \in 1 .. m
        BY <1>2, <1>4 DEF OpToRel
    <2>2. PICK f \in [0 .. k - 1 -> S] : Recurs(f, k - 1, start, step)
        BY <1>1, <2>1
    <2>3. \A i \in 0 .. k - 1 : f[i] = IF i = 0 THEN start ELSE step[i][f[i - 1]]
        BY <2>2 DEF Recurs
    <2>4. PICK x \in S : x = step[k][f[k - 1]]
        <3>1. k \in 1 .. m /\ k - 1 \in 0 .. k - 1
            BY <1>2, <1>4
        <3>2. f[k - 1] \in S /\ step[k] \in [S -> S]
            BY <2>2, <3>1 DEF Successors
        <3> QED
            BY <3>2
    <2>5. PICK g : g = [i \in 0 .. k |-> IF i = k THEN x ELSE f[i]]
        OBVIOUS
    <2>6. g \in [0 .. k -> S]
        <3>1. ASSUME NEW i \in 0 .. k, i # k PROVE i \in 0 .. k - 1
            BY <1>2, <3>1
        <3> QED
            BY <2>2, <2>4, <2>5, <3>1
    <2>7. ASSUME NEW i \in 0 .. k
          PROVE  g[i] = IF i = 0 THEN start ELSE step[i][g[i - 1]]
        <3>1. CASE i = k
            <4>1. k - 1 \in 0 .. k /\ k - 1 # k
                BY <1>2, <1>4
            <4>2. g[k - 1] = f[k - 1]
                BY <2>5, <4>1
            <4> QED
                BY <1>4, <2>4, <2>5, <3>1, <4>2
        <3>2. CASE i # k
            <4>1. i \in 0 .. k - 1 /\ (i # 0 => i - 1 \in 0 .. k /\ i - 1 # k)
                BY <1>2, <3>2
            <4>2. g[i] = f[i] /\ (i # 0 => g[i - 1] = f[i - 1])
                BY <2>5, <3>2, <4>1
            <4> QED
                BY <2>3, <4>1, <4>2
        <3> QED
            BY <3>1, <3>2
    <2>8. Recurs(g, k, start, step)
        BY <2>5, <2>7 DEF Recurs
    <2> QED
        BY <1>2, <2>6, <2>8
<1> QED
    BY <1>3, <1>4

(* The powers of two. *)
LEMMA Weights ==
    /\ Weight \in [0 .. ByteBits -> Nat]
    /\ Weight[0] = 1
    /\ \A i \in 1 .. ByteBits : Weight[i] = 2 * Weight[i - 1]
<1> DEFINE n == ByteBits
<1>0. n \in Nat
    BY WireAssumption
<1>1. PICK step : step = [i \in 1 .. n |-> [x \in Nat |-> 2 * x]]
    OBVIOUS
<1>2. step \in Successors(n, Nat)
    BY <1>1 DEF Successors
<1>3. PICK f \in [0 .. n -> Nat] : Recurs(f, n, 1, step)
    <2>1. n \in 0 .. n /\ 1 \in Nat
        BY <1>0
    <2> HIDE DEF n
    <2> QED
        BY <1>0, <1>2, <2>1, Iterates
<1>4. \A i \in 0 .. n : f[i] = IF i = 0 THEN 1 ELSE 2 * f[i - 1]
    <2>1. \A i \in 0 .. n : f[i] = IF i = 0 THEN 1 ELSE step[i][f[i - 1]]
        BY <1>3 DEF Recurs
    <2>2. ASSUME NEW i \in 0 .. n, i # 0 PROVE step[i][f[i - 1]] = 2 * f[i - 1]
        <3>1. i \in 1 .. n /\ i - 1 \in 0 .. n
            BY <1>0, <2>2
        <3>2. f[i - 1] \in Nat
            BY <1>3, <3>1
        <3> QED
            BY <1>1, <3>1, <3>2
    <2> QED
        BY <2>1, <2>2
<1>5. f = [i \in 0 .. n |-> IF i = 0 THEN 1 ELSE 2 * f[i - 1]]
    BY <1>3, <1>4
<1>6. Weight = [i \in 0 .. n |-> IF i = 0 THEN 1 ELSE 2 * Weight[i - 1]]
    BY <1>5 DEF Weight
<1>7. \A i \in 0 .. n : Weight[i] = IF i = 0 THEN 1 ELSE 2 * Weight[i - 1]
    BY <1>6
<1>8. Weight[0] = 1 /\ \A i \in 1 .. n : Weight[i] = 2 * Weight[i - 1]
    BY <1>0, <1>7
<1>9. \A i \in 0 .. n : Weight[i] \in Nat
    <2> DEFINE bad == {k \in 0 .. n : Weight[k] \notin Nat}
    <2> SUFFICES ASSUME bad # {} PROVE FALSE
        OBVIOUS
    <2>1. PICK k \in bad : \A j \in bad : <<j, k>> \notin OpToRel(<, Nat)
        <3>1. bad \subseteq Nat
            OBVIOUS
        <3> HIDE DEF bad
        <3> QED
            BY <3>1, NatLessThanWellFounded, WFMin
    <2>2. k \in 0 .. n /\ Weight[k] \notin Nat
        OBVIOUS
    <2>3. k # 0
        BY <1>8, <2>2
    <2>4. k - 1 \in 0 .. n /\ k \in 1 .. n
        BY <2>2, <2>3, <1>0
    <2>5. <<k - 1, k>> \in OpToRel(<, Nat)
        BY <2>4 DEF OpToRel
    <2>6. Weight[k - 1] \in Nat
        BY <2>1, <2>4, <2>5
    <2> QED
        BY <1>8, <2>2, <2>4, <2>6
<1> QED
    BY <1>6, <1>8, <1>9

(* The sum of the bits of a byte, as far as each of them. *)
AreSums(s, bits) ==
    s = [i \in 0 .. ByteBits |-> IF i = 0 THEN 0 ELSE s[i - 1] + bits[i] * Weight[i - 1]]

LEMMA ValueIs ==
    ASSUME NEW bits \in [1 .. ByteBits -> {0, 1}]
    PROVE  \E s : AreSums(s, bits) /\ Value(bits) = s[ByteBits]
<1> DEFINE n == ByteBits
<1>0. n \in Nat
    BY WireAssumption
<1>1. PICK step : step = [i \in 1 .. n |-> [x \in Nat |-> x + bits[i] * Weight[i - 1]]]
    OBVIOUS
<1>2. step \in Successors(n, Nat)
    <2>1. ASSUME NEW i \in 1 .. n PROVE bits[i] * Weight[i - 1] \in Nat
        <3>1. i - 1 \in 0 .. n
            BY <1>0
        <3>2. Weight[i - 1] \in Nat
            BY <3>1, Weights
        <3>3. bits[i] = 0 \/ bits[i] = 1
            OBVIOUS
        <3> QED
            BY <3>2, <3>3
    <2>2. ASSUME NEW i \in 1 .. n, NEW x \in Nat PROVE x + bits[i] * Weight[i - 1] \in Nat
        <3>1. PICK y \in Nat : y = bits[i] * Weight[i - 1]
            BY <2>1
        <3> QED
            BY <3>1
    <2> QED
        BY <1>1, <2>2 DEF Successors
<1>3. PICK f \in [0 .. n -> Nat] : Recurs(f, n, 0, step)
    <2>1. n \in 0 .. n /\ 0 \in Nat
        BY <1>0
    <2> HIDE DEF n
    <2> QED
        BY <1>0, <1>2, <2>1, Iterates
<1>4. \A i \in 0 .. n : f[i] = IF i = 0 THEN 0 ELSE f[i - 1] + bits[i] * Weight[i - 1]
    <2>1. \A i \in 0 .. n : f[i] = IF i = 0 THEN 0 ELSE step[i][f[i - 1]]
        BY <1>3 DEF Recurs
    <2>2. ASSUME NEW i \in 0 .. n, i # 0
          PROVE  step[i][f[i - 1]] = f[i - 1] + bits[i] * Weight[i - 1]
        <3>1. i \in 1 .. n /\ i - 1 \in 0 .. n
            BY <1>0, <2>2
        <3>2. f[i - 1] \in Nat
            BY <1>3, <3>1
        <3>3. step[i] = [x \in Nat |-> x + bits[i] * Weight[i - 1]]
            BY <1>1, <3>1
        <3> QED
            BY <3>2, <3>3
    <2> QED
        BY <2>1, <2>2
<1>5. AreSums(f, bits)
    BY <1>3, <1>4 DEF AreSums
<1>6. PICK s : s = CHOOSE g : g = [i \in 0 .. ByteBits |->
                                     IF i = 0 THEN 0 ELSE g[i - 1] + bits[i] * Weight[i - 1]]
    OBVIOUS
<1>7. AreSums(s, bits)
    BY <1>5, <1>6, Zenon DEF AreSums
<1>8. Value(bits) = s[ByteBits]
    BY <1>6 DEF Value
<1> QED
    BY <1>7, <1>8

(* Division, as the number it is. *)
LEMMA DivisionIs ==
    ASSUME NEW n \in Nat, NEW k \in Nat, NEW q \in Nat, NEW r \in Nat, n = q * k + r, r < k
    PROVE  n \div k = q /\ n % k = r
<1>1. PICK p \in Nat : p = n \div k
    BY SMT
<1>2. PICK t \in Nat : t = n % k /\ t < k /\ n = p * k + t
    BY <1>1, SMT
<1>3. ~(p < q)
    <2> SUFFICES ASSUME p < q PROVE FALSE
        OBVIOUS
    <2>1. p + 1 <= q
        OBVIOUS
    <2>2. (p + 1) * k <= q * k
        BY <2>1, SMT
    <2>3. (p + 1) * k = p * k + k
        BY SMT
    <2>4. p * k \in Nat /\ q * k \in Nat
        BY SMT
    <2> QED
        BY <1>2, <2>2, <2>3, <2>4, SMT
<1>4. ~(q < p)
    <2> SUFFICES ASSUME q < p PROVE FALSE
        OBVIOUS
    <2>1. q + 1 <= p
        OBVIOUS
    <2>2. (q + 1) * k <= p * k
        BY <2>1, SMT
    <2>3. (q + 1) * k = q * k + k
        BY SMT
    <2>4. p * k \in Nat /\ q * k \in Nat
        BY SMT
    <2> QED
        BY <1>2, <2>2, <2>3, <2>4, SMT
<1>5. p = q
    BY <1>3, <1>4
<1> QED
    BY <1>1, <1>2, <1>5, SMT

(* A bit is weighed by a number that is not 0. *)
LEMMA WeightsArePositive == \A i \in 0 .. ByteBits : Weight[i] \in Nat /\ Weight[i] > 0
<1> DEFINE bad == {k \in 0 .. ByteBits : ~(Weight[k] > 0)}
<1>1. ByteBits \in Nat
    BY WireAssumption
<1>2. bad = {}
    <2> SUFFICES ASSUME bad # {} PROVE FALSE
        OBVIOUS
    <2>1. PICK k \in bad : \A j \in bad : <<j, k>> \notin OpToRel(<, Nat)
        <3>1. bad \subseteq Nat
            OBVIOUS
        <3> HIDE DEF bad
        <3> QED
            BY <3>1, NatLessThanWellFounded, WFMin
    <2>2. k \in 0 .. ByteBits /\ ~(Weight[k] > 0)
        OBVIOUS
    <2>3. k # 0
        BY <2>2, Weights
    <2>4. k - 1 \in 0 .. ByteBits /\ k \in 1 .. ByteBits
        BY <1>1, <2>2, <2>3
    <2>5. <<k - 1, k>> \in OpToRel(<, Nat)
        BY <2>4 DEF OpToRel
    <2>6. Weight[k - 1] > 0
        BY <2>1, <2>4, <2>5
    <2> QED
        BY <2>2, <2>4, <2>6, Weights
<1> QED
    BY <1>2, Weights

LEMMA BitsAre == ASSUME NEW n \in Nat PROVE BitsOf(n) \in [1 .. ByteBits -> {0, 1}]
<1>1. ASSUME NEW i \in 1 .. ByteBits PROVE (n \div Weight[i - 1]) % 2 \in {0, 1}
    <2>1. i - 1 \in 0 .. ByteBits
        BY WireAssumption
    <2>2. PICK w \in Nat : w = Weight[i - 1] /\ w > 0
        BY <2>1, WeightsArePositive
    <2>3. n \div w \in Nat
        BY <2>2, SMT
    <2> QED
        BY <2>2, <2>3, SMT
<1> QED
    BY <1>1 DEF BitsOf

(* A byte is what its bits add up to: as far as each bit, the sum is what  *)
(* is left of it below that bit.                                           *)
LEMMA ValueOfBits == ASSUME NEW n \in Byte PROVE Value(BitsOf(n)) = n
<1>1. ByteBits \in Nat /\ n \in Nat /\ n < Weight[ByteBits]
    <2>1. ByteBits \in Nat
        BY WireAssumption
    <2>2. Weight[ByteBits] \in Nat
        BY <2>1, Weights
    <2> QED
        BY <2>1, <2>2 DEF Byte
<1>2. PICK s : AreSums(s, BitsOf(n)) /\ Value(BitsOf(n)) = s[ByteBits]
    BY <1>1, BitsAre, ValueIs
<1>3. \A i \in 0 .. ByteBits : s[i] = IF i = 0 THEN 0 ELSE s[i - 1] + BitsOf(n)[i] * Weight[i - 1]
    BY <1>2 DEF AreSums
<1> DEFINE Left(i, x) == x \in Nat /\ x < Weight[i] /\ \E q \in Nat : n = q * Weight[i] + x
           bad == {i \in 0 .. ByteBits : ~Left(i, s[i])}
<1>4. Left(0, 0)
    BY <1>1, Weights, n = n * 1 + 0
<1>5. ASSUME NEW i \in 1 .. ByteBits, NEW x, Left(i - 1, x)
      PROVE  Left(i, x + BitsOf(n)[i] * Weight[i - 1])
    <2>1. i - 1 \in 0 .. ByteBits
        BY <1>1
    <2>2. PICK w \in Nat : w = Weight[i - 1] /\ w > 0 /\ Weight[i] = 2 * w
        BY <2>1, WeightsArePositive, Weights
    <2>3. PICK q \in Nat : x \in Nat /\ x < w /\ n = q * w + x
        BY <1>5, <2>2
    <2>4. n \div w = q
        BY <1>1, <2>2, <2>3, DivisionIs
    <2>5. BitsOf(n)[i] = q % 2
        BY <2>2, <2>4 DEF BitsOf
    <2>6. PICK h \in Nat, b \in {0, 1} : q = 2 * h + b /\ b = q % 2
        BY SMT
    <2>7. q * w = h * (2 * w) + b * w
        BY <2>2, <2>6, SMT
    <2>8. b * w \in Nat /\ b * w <= w /\ h * (2 * w) \in Nat /\ q * w \in Nat
        BY <2>2, <2>3, <2>6, SMT
    <2>9. x + b * w \in Nat /\ x + b * w < 2 * w
        <3>1. PICK y \in Nat : y = b * w /\ y <= w
            BY <2>8
        <3> QED
            BY <2>2, <2>3, <3>1
    <2>10. n = h * (2 * w) + (x + b * w)
        BY <2>3, <2>7, <2>8, SMT
    <2> QED
        BY <2>2, <2>5, <2>6, <2>9, <2>10
<1>6. bad = {}
    <2> HIDE DEF Left
    <2> SUFFICES ASSUME bad # {} PROVE FALSE
        OBVIOUS
    <2>1. PICK k \in bad : \A j \in bad : <<j, k>> \notin OpToRel(<, Nat)
        <3>1. bad \subseteq Nat
            OBVIOUS
        <3> HIDE DEF bad
        <3> QED
            BY <3>1, NatLessThanWellFounded, WFMin
    <2>2. k \in 0 .. ByteBits /\ ~Left(k, s[k])
        OBVIOUS
    <2>3. k # 0
        BY <1>3, <1>4, <2>2
    <2>4. k - 1 \in 0 .. ByteBits /\ k \in 1 .. ByteBits
        BY <1>1, <2>2, <2>3
    <2>5. <<k - 1, k>> \in OpToRel(<, Nat)
        BY <2>4 DEF OpToRel
    <2>6. Left(k - 1, s[k - 1])
        BY <2>1, <2>4, <2>5
    <2>7. s[k] = s[k - 1] + BitsOf(n)[k] * Weight[k - 1]
        BY <1>3, <2>3, <2>4
    <2> QED
        BY <1>5, <2>2, <2>4, <2>6, <2>7
<1>7. Left(ByteBits, s[ByteBits])
    <2>1. ByteBits \in 0 .. ByteBits
        BY <1>1
    <2> QED
        BY <1>6, <2>1
<1>8. PICK q \in Nat, w \in Nat, x \in Nat : w = Weight[ByteBits] /\ x = s[ByteBits] /\ n = q * w + x /\ n < w
    <2>1. ByteBits \in 0 .. ByteBits
        BY <1>1
    <2> QED
        BY <1>1, <1>7, <2>1, Weights
<1>9. q = 0
    <2> SUFFICES ASSUME q >= 1 PROVE FALSE
        BY <1>8
    <2>1. q * w >= 1 * w /\ q * w \in Nat
        BY SMT
    <2> QED
        BY <1>1, <1>8, <2>1
<1>10. n = x
    BY <1>8, <1>9
<1> QED
    BY <1>2, <1>8, <1>10

(* The requests are bytes. *)
LEMMA SmallBytes == 0 .. 3 \subseteq Byte /\ \A a \in 0 .. Len(Memory) - 1 : a \in Byte
<1>1. ByteBits \in Nat /\ ByteBits >= 2 /\ Len(Memory) <= Weight[ByteBits] /\ Len(Memory) \in Nat
    BY WireAssumption
<1>2. Weight[2] = 4
    <2>1. Weight[1] = 2 * Weight[1 - 1] /\ Weight[2] = 2 * Weight[2 - 1]
        BY <1>1, Weights, 1 \in 1 .. ByteBits, 2 \in 1 .. ByteBits
    <2> QED
        BY <2>1, Weights
<1> DEFINE bad == {i \in 2 .. ByteBits : ~(Weight[i] >= 4)}
<1>3. bad = {}
    <2> SUFFICES ASSUME bad # {} PROVE FALSE
        OBVIOUS
    <2>1. PICK k \in bad : \A j \in bad : <<j, k>> \notin OpToRel(<, Nat)
        <3>1. bad \subseteq Nat
            OBVIOUS
        <3> HIDE DEF bad
        <3> QED
            BY <3>1, NatLessThanWellFounded, WFMin
    <2>2. k \in 2 .. ByteBits /\ ~(Weight[k] >= 4)
        OBVIOUS
    <2>3. k # 2
        BY <1>2, <2>2
    <2>4. k - 1 \in 2 .. ByteBits /\ k \in 1 .. ByteBits /\ k - 1 \in 0 .. ByteBits
        BY <1>1, <2>2, <2>3
    <2>5. <<k - 1, k>> \in OpToRel(<, Nat)
        BY <2>4 DEF OpToRel
    <2>6. Weight[k - 1] >= 4 /\ Weight[k - 1] \in Nat
        BY <2>1, <2>4, <2>5, Weights
    <2> QED
        BY <2>2, <2>4, <2>6, Weights
<1>4. Weight[ByteBits] >= 4 /\ Weight[ByteBits] \in Nat
    <2>1. ByteBits \in 2 .. ByteBits /\ ByteBits \in 0 .. ByteBits
        BY <1>1
    <2> QED
        BY <1>3, <2>1, Weights
<1> QED
    BY <1>1, <1>4 DEF Byte

-----------------------------------------------------------------------------
(* Time. *)
Ticks == 0 .. Wrap - 1

(* t is e ticks after s. *)
After(s, t, e) == s \in Ticks /\ t \in Ticks /\ (t = s + e \/ t = s + e - Wrap)

(* The counter, at most once round. *)
LEMMA Wraps ==
    ASSUME NEW t \in Nat, t < 2 * Wrap
    PROVE  /\ t % Wrap \in Ticks
           /\ t % Wrap = t \/ t % Wrap = t - Wrap
<1>1. Wrap \in Nat
    BY WireAssumption
<1>2. CASE t < Wrap
    <2>1. t = 0 * Wrap + t
        BY <1>1, SMT
    <2>2. t % Wrap = t
        BY <1>1, <1>2, <2>1, DivisionIs
    <2> QED
        BY <1>1, <1>2, <2>2 DEF Ticks
<1>3. CASE t >= Wrap
    <2>1. PICK r \in Nat : r = t - Wrap
        BY <1>1, <1>3
    <2>2. t = 1 * Wrap + r /\ r < Wrap
        BY <1>1, <2>1, SMT
    <2>3. t % Wrap = r
        BY <1>1, <2>2, DivisionIs, 1 \in Nat
    <2> QED
        BY <1>1, <2>1, <2>2, <2>3 DEF Ticks
<1> QED
    BY <1>1, <1>2, <1>3

(* Half a turn of it is longer than any read. *)
Half == Wrap \div 2

(* The slots of a read, at most. *)
Slots == ByteBits * (Len(Rom) + 4)

LEMMA HalfIs ==
    /\ Half \in Nat /\ Wrap \in Nat /\ 2 * Half <= Wrap /\ Wrap < 2 * Half + 2
    /\ Slots \in Nat /\ LongestZero \in Nat /\ LongestZero >= 7
    /\ LongestSlot = LongestZero + 5
    /\ LongestSlot * Slots \in Nat /\ Half >= LongestSlot * Slots + 2 * LongestSlot
<1>1. Wrap \in Nat /\ ByteBits \in Nat /\ Len(Rom) \in Nat
    BY WireAssumption
<1>2. PICK slots \in Nat : slots = Slots
    <2>1. Len(Rom) + 4 \in Nat
        BY <1>1
    <2> QED
        BY <1>1, <2>1 DEF Slots
<1>3. Half >= LongestSlot * (slots + 2)
    BY <1>2, WireAssumption DEF Slots, Half
<1>4. PICK long \in Nat : /\ long = LongestSlot /\ long = LongestZero + 5
                          /\ LongestZero \in Nat /\ LongestZero >= 7
    BY WireAssumption DEF LongestSlot, ResetHigh, SampleAfter, Recovery
<1>5. Half \in Nat /\ 2 * Half <= Wrap /\ Wrap < 2 * Half + 2
    BY <1>1 DEF Half
<1>6. long * (slots + 2) = long * slots + 2 * long /\ long * slots \in Nat
    BY <1>2, <1>4, SMT
<1>7. Half >= long * slots + 2 * long
    BY <1>3, <1>4, <1>6
<1> QED
    BY <1>1, <1>2, <1>4, <1>5, <1>6, <1>7

(* What the slots take together. *)
LEMMA SlotsTake ==
    ASSUME NEW spent \in Nat, spent + 1 <= Slots
    PROVE  /\ LongestSlot * spent \in Nat
           /\ LongestSlot * (spent + 1) = LongestSlot * spent + LongestSlot
           /\ LongestSlot * spent + 3 * LongestSlot <= Half
<1>1. PICK long \in Nat, slots \in Nat :
         /\ long = LongestSlot /\ slots = Slots
         /\ long * slots \in Nat /\ Half >= long * slots + 2 * long
    BY HalfIs
<1>2. long * spent \in Nat /\ long * (spent + 1) = long * spent + long
    BY <1>1, SMT
<1>3. PICK next \in Nat : next = spent + 1 /\ next <= slots
    BY <1>1
<1>4. long * next <= long * slots
    BY <1>1, <1>3, SMT
<1>5. Half \in Nat
    BY HalfIs
<1> QED
    BY <1>1, <1>2, <1>3, <1>4, <1>5

(* Half a turn is two slots and more. *)
LEMMA HalfIsLong ==
    Wrap \in Nat /\ 2 * Half <= Wrap /\ Half \in Nat /\ Half >= 24 /\ Half >= LongestZero + 17
BY HalfIs

(* What comes later is after by so much more. *)
LEMMA Later ==
    ASSUME NEW s, NEW t, NEW e \in Nat, After(s, t, e), NEW k \in Nat, e + k < Half
    PROVE  After(s, (t + k) % Wrap, e + k)
<1>1. Wrap \in Nat /\ 2 * Half <= Wrap /\ Half \in Nat
    BY HalfIs
<1>2. s \in Nat /\ t \in Nat /\ s < Wrap /\ t < Wrap
    BY <1>1 DEF After, Ticks
<1>3. PICK y : y = (t + k) % Wrap
    OBVIOUS
<1>4. PICK n \in Nat : n = t + k /\ n < 2 * Wrap
    BY <1>1, <1>2
<1>5. y \in Ticks /\ (y = n \/ y = n - Wrap)
    BY <1>3, <1>4, Wraps
<1>6. y \in Nat /\ y < Wrap
    BY <1>1, <1>5 DEF Ticks
<1>7. t = s + e \/ t = s + e - Wrap
    BY DEF After
<1>8. y = s + (e + k) \/ y = s + (e + k) - Wrap
    BY <1>1, <1>2, <1>4, <1>5, <1>6, <1>7
<1> QED
    BY <1>3, <1>5, <1>8 DEF After

(* The line is free once it has been let go, for half a turn, *)
LEMMA FreeAfter ==
    ASSUME NEW d, NEW t, NEW e \in Nat, After(d.release, t, e), e < Half
    PROVE  Line(d, t)
<1>1. Wrap \in Nat /\ 2 * Half <= Wrap /\ Half \in Nat
    BY HalfIs
<1>2. PICK s : s = d.release
    OBVIOUS
<1>3. /\ s \in Nat /\ t \in Nat /\ s < Wrap /\ t < Wrap /\ (t = s + e \/ t = s + e - Wrap)
    BY <1>1, <1>2 DEF After, Ticks
<1>4. PICK x \in Nat : x = t - s + Wrap /\ x < 2 * Wrap /\ (x = e \/ x = e + Wrap)
    BY <1>1, <1>3
<1>5. x % Wrap \in Ticks /\ (x % Wrap = x \/ x % Wrap = x - Wrap)
    BY <1>4, Wraps
<1>6. PICK y : y = x % Wrap
    OBVIOUS
<1>7. y \in 0 .. Wrap - 1 /\ (y = x \/ y = x - Wrap)
    BY <1>5, <1>6 DEF Ticks
<1>8. y < Half
    BY <1>1, <1>4, <1>7
<1>9. ~(y >= Half)
    BY <1>1, <1>7, <1>8
<1> QED
    BY <1>2, <1>4, <1>6, <1>9, Zenon DEF Line, Half

(* and low until then. *)
LEMMA LowBefore ==
    ASSUME NEW d, d.pulling, NEW t, NEW e \in 1 .. 3, After(t, d.release, e)
    PROVE  ~Line(d, t)
<1>1. Wrap \in Nat /\ 2 * Half <= Wrap /\ Half \in Nat /\ Half >= 24
    BY HalfIsLong
<1>2. PICK s : s = d.release
    OBVIOUS
<1>3. /\ s \in Nat /\ t \in Nat /\ s < Wrap /\ t < Wrap /\ (s = t + e \/ s = t + e - Wrap)
    BY <1>1, <1>2 DEF After, Ticks
<1>4. PICK x \in Nat : x = t - s + Wrap /\ x < 2 * Wrap /\ (x = Wrap - e \/ x = Wrap - e + Wrap)
    BY <1>1, <1>3
<1>5. x % Wrap \in Ticks /\ (x % Wrap = x \/ x % Wrap = x - Wrap)
    BY <1>4, Wraps
<1>6. PICK y : y = x % Wrap
    OBVIOUS
<1>7. y \in 0 .. Wrap - 1 /\ (y = x \/ y = x - Wrap)
    BY <1>5, <1>6 DEF Ticks
<1>8. y >= Half
    BY <1>1, <1>4, <1>7
<1> QED
    BY <1>2, <1>4, <1>6, <1>8, Zenon DEF Line, Half

(* A slot, and when the kernel looks. *)
Up(held) == (now + held) % Wrap

LEMMA SlotIs ==
    ASSUME NEW held \in 1 .. LongestZero, NEW wait \in 1 .. 3, now \in Ticks, Slot(held, wait)
    PROVE  /\ Up(held) \in Ticks
           /\ dev' = Released(dev, held, Up(held))
           /\ now' \in Ticks
           /\ now' = (((Up(held) + wait) % Wrap) + Recovery) % Wrap
           /\ Sampled(wait) <=> Line(dev', (Up(held) + wait) % Wrap)
<1>1. Wrap \in Nat /\ 2 * Half <= Wrap /\ Half \in Nat /\ Half >= 24
    BY HalfIsLong
<1>2. now + held \in Nat /\ now + held < 2 * Wrap
    BY <1>1, HalfIs, HalfIsLong DEF Ticks
<1>3. PICK up : up = Up(held)
    OBVIOUS
<1>4. up \in Ticks /\ up = (now + held) % Wrap
    BY <1>2, <1>3, Wraps DEF Up
<1>5. up + wait \in Nat /\ up + wait < 2 * Wrap
    BY <1>1, <1>4 DEF Ticks
<1>6. PICK seen : seen = (up + wait) % Wrap
    OBVIOUS
<1>7. seen \in Ticks
    BY <1>5, <1>6, Wraps
<1>8. PICK n \in Nat : n = seen + 4 /\ n < 2 * Wrap
    BY <1>1, <1>7 DEF Ticks
<1>9. PICK next : next = (seen + 4) % Wrap
    OBVIOUS
<1>10. next \in Ticks /\ (next = seen + 4 \/ next = seen + 4 - Wrap)
    <2>1. next \in Ticks /\ (next = n \/ next = n - Wrap)
        BY <1>8, <1>9, Wraps
    <2> QED
        BY <1>1, <1>7, <1>8, <2>1 DEF Ticks
<1>11. now' = next /\ dev' = Released(dev, held, up)
    BY <1>4, <1>6, <1>9 DEF Slot, Recovery
<1>12. PICK x \in Nat : x = next + Wrap - 4 /\ x < 2 * Wrap
    BY <1>1, <1>10 DEF Ticks
<1>13. x % Wrap = seen
    <2>1. x % Wrap \in Ticks /\ (x % Wrap = x \/ x % Wrap = x - Wrap)
        BY <1>12, Wraps
    <2>2. PICK y : y = x % Wrap
        OBVIOUS
    <2>3. y \in 0 .. Wrap - 1 /\ (y = x \/ y = x - Wrap) /\ seen \in 0 .. Wrap - 1
        BY <1>7, <2>1, <2>2 DEF Ticks
    <2>4. y = seen
        BY <1>1, <1>10, <1>12, <2>3
    <2> QED
        BY <2>2, <2>4
<1>14. (now' + Wrap - Recovery) % Wrap = seen
    BY <1>11, <1>12, <1>13 DEF Recovery
<1>15. Sampled(wait) <=> Line(dev', seen)
    BY <1>14, Zenon DEF Sampled
<1> QED
    BY <1>3, <1>4, <1>6, <1>9, <1>10, <1>11, <1>15 DEF Recovery

-----------------------------------------------------------------------------
(* The bytes of a request, and those a read is of. *)
Reads == -1 .. Len(Memory) - 1

RequestBytes(at) == IF at < 0 THEN << ReadRom >> ELSE << SkipRom, ReadMemory, at, 0 >>

Wanted(at) == IF at < 0 THEN Rom ELSE << Memory[at + 1] >>

(* Bits are those of bytes, one byte after the other, as far as they go. *)
AreBitsOf(bits, bytes) ==
    \A m \in 0 .. Len(bytes) - 1, i \in 1 .. ByteBits :
        m * ByteBits + i <= Len(bits) => bits[m * ByteBits + i] = BitsOf(bytes[m + 1])[i]

LEMMA WantedAre ==
    ASSUME NEW at \in Reads
    PROVE  /\ Wanted(at) \in Seq(Byte) /\ Len(Wanted(at)) \in 1 .. Len(Rom)
           /\ at < 0 => Wanted(at) = Rom
           /\ at >= 0 => at + 1 \in DOMAIN Memory /\ Memory[at + 1] \in Byte
                         /\ Wanted(at) = << Memory[at + 1] >> /\ Len(Wanted(at)) = 1
<1>1. Rom \in Seq(Byte) /\ Len(Rom) \in Nat /\ Len(Rom) # 0 /\ Memory \in Seq(Byte)
    BY WireAssumption
<1>2. at \in Int
    BY <1>1 DEF Reads
<1>3. CASE at < 0
    BY <1>1, <1>2, <1>3 DEF Wanted
<1>4. CASE at >= 0
    <2>1. at + 1 \in 1 .. Len(Memory)
        BY <1>1, <1>2, <1>4 DEF Reads
    <2>2. at + 1 \in DOMAIN Memory /\ Memory[at + 1] \in Byte
        BY <1>1, <2>1
    <2>3. Wanted(at) = << Memory[at + 1] >>
        BY <1>2, <1>4 DEF Wanted
    <2> QED
        BY <1>1, <1>2, <1>4, <2>2, <2>3
<1> QED
    BY <1>2, <1>3, <1>4

LEMMA RequestBytesAre ==
    ASSUME NEW at \in Reads
    PROVE  RequestBytes(at) \in Seq(Byte) /\ Len(RequestBytes(at)) \in {1, 4}
<1>1. 1 \in Byte /\ 2 \in Byte /\ 3 \in Byte /\ 0 \in Byte
    BY SmallBytes
<1>2. at < 0 \/ at \in Byte
    <2>1. at \in Int /\ (at < 0 \/ at \in 0 .. Len(Memory) - 1)
        BY WireAssumption DEF Reads
    <2> QED
        BY <2>1, SmallBytes
<1> QED
    BY <1>1, <1>2 DEF RequestBytes, ReadRom, SkipRom, ReadMemory

(* One sequence of bits after another. *)
IsJoined(s, t, st) ==
    /\ st \in Seq({0, 1}) /\ Len(st) = Len(s) + Len(t)
    /\ \A i \in 1 .. Len(s) : st[i] = s[i]
    /\ \A i \in 1 .. Len(t) : st[Len(s) + i] = t[i]

LEMMA Joined == \A s, t \in Seq({0, 1}) : IsJoined(s, t, s \o t)
BY DEF IsJoined

LEMMA RequestIs ==
    ASSUME NEW k, k.at \in Reads
    PROVE  /\ Len(Request(k)) = ByteBits * Len(RequestBytes(k.at))
           /\ AreBitsOf(Request(k), RequestBytes(k.at))
<1> DEFINE B == ByteBits
<1>1. B \in Nat /\ k.at \in Int
    BY WireAssumption DEF Reads
<1>2. \A n \in Byte : BitsOf(n) \in Seq({0, 1}) /\ Len(BitsOf(n)) = B /\ DOMAIN BitsOf(n) = 1 .. B
    BY <1>1, BitsAre, WireAssumption, Weights DEF Byte
<1>3. CASE k.at < 0
    <2>1. Request(k) = BitsOf(1) /\ RequestBytes(k.at) = << 1 >>
        BY <1>3 DEF Request, RequestBytes, ReadRom
    <2>2. Len(BitsOf(1)) = B
        BY <1>2, SmallBytes
    <2>3. AreBitsOf(BitsOf(1), << 1 >>)
        BY <1>1 DEF AreBitsOf
    <2> QED
        BY <1>1, <2>1, <2>2, <2>3
<1>4. CASE k.at >= 0
    <2>1. PICK at \in Byte : at = k.at
        BY <1>1, <1>4, SmallBytes DEF Reads
    <2>2. PICK a, b, c, d : a = BitsOf(2) /\ b = BitsOf(3) /\ c = BitsOf(at) /\ d = BitsOf(0)
        OBVIOUS
    <2>3. /\ a \in Seq({0, 1}) /\ Len(a) = B /\ b \in Seq({0, 1}) /\ Len(b) = B
          /\ c \in Seq({0, 1}) /\ Len(c) = B /\ d \in Seq({0, 1}) /\ Len(d) = B
        BY <1>2, <2>1, <2>2, SmallBytes
    <2>4. PICK r : r = Request(k)
        OBVIOUS
    <2>5. r = ((a \o b) \o c) \o d /\ RequestBytes(k.at) = << 2, 3, at, 0 >>
        BY <1>1, <1>4, <2>1, <2>2, <2>4 DEF Request, RequestBytes, SkipRom, ReadMemory
    <2>9. PICK ab, abc : ab = a \o b /\ abc = ab \o c /\ r = abc \o d
        BY <2>5
    <2>11. /\ ab \in Seq({0, 1}) /\ Len(ab) = B + B
           /\ \A i \in 1 .. B : ab[i] = a[i] /\ ab[B + i] = b[i]
        <3>1. IsJoined(a, b, ab)
            BY <2>3, <2>9, Joined
        <3> QED
            BY <2>3, <3>1 DEF IsJoined
    <2>12. /\ abc \in Seq({0, 1}) /\ Len(abc) = (B + B) + B
           /\ \A i \in 1 .. B + B : abc[i] = ab[i]
           /\ \A i \in 1 .. B : abc[(B + B) + i] = c[i]
        <3>1. IsJoined(ab, c, abc)
            BY <2>3, <2>9, <2>11, Joined
        <3> QED
            BY <2>3, <2>11, <3>1 DEF IsJoined
    <2>13. /\ Len(r) = ((B + B) + B) + B
           /\ \A i \in 1 .. (B + B) + B : r[i] = abc[i]
           /\ \A i \in 1 .. B : r[((B + B) + B) + i] = d[i]
        <3>1. IsJoined(abc, d, r)
            BY <2>3, <2>9, <2>12, Joined
        <3> QED
            BY <2>3, <2>12, <3>1 DEF IsJoined
    <2>6. Len(r) = 4 * B
        BY <1>1, <2>13
    <2>7. ASSUME NEW i \in 1 .. B
          PROVE  r[i] = a[i] /\ r[B + i] = b[i] /\ r[2 * B + i] = c[i] /\ r[3 * B + i] = d[i]
        <3>1. /\ i \in 1 .. B + B /\ B + i \in 1 .. B + B
              /\ i \in 1 .. (B + B) + B /\ B + i \in 1 .. (B + B) + B
              /\ 2 * B + i \in 1 .. (B + B) + B
              /\ 2 * B + i = (B + B) + i /\ 3 * B + i = ((B + B) + B) + i
            BY <1>1
        <3> QED
            BY <2>11, <2>12, <2>13, <3>1
    <2>8. AreBitsOf(r, RequestBytes(k.at))
        <3>1. PICK bytes : bytes = RequestBytes(k.at)
            OBVIOUS
        <3>2. Len(bytes) = 4 /\ bytes[1] = 2 /\ bytes[2] = 3 /\ bytes[3] = at /\ bytes[4] = 0
            BY <2>5, <3>1
        <3>3. ASSUME NEW m \in 0 .. 3, NEW i \in 1 .. B
              PROVE  r[m * B + i] = BitsOf(bytes[m + 1])[i]
            <4>1. /\ 0 * B + i = i /\ 1 * B + i = B + i
                BY <1>1
            <4>2. m = 0 \/ m = 1 \/ m = 2 \/ m = 3
                OBVIOUS
            <4>3. CASE m = 0
                BY <2>2, <2>7, <3>2, <4>1, <4>3
            <4>4. CASE m = 1
                BY <2>2, <2>7, <3>2, <4>1, <4>4
            <4>5. CASE m = 2
                BY <2>2, <2>7, <3>2, <4>5
            <4>6. CASE m = 3
                BY <2>2, <2>7, <3>2, <4>6
            <4> QED
                BY <4>2, <4>3, <4>4, <4>5, <4>6
        <3>4. AreBitsOf(r, bytes)
            BY <3>2, <3>3 DEF AreBitsOf
        <3> QED
            BY <3>1, <3>4
    <2> QED
        BY <1>1, <2>4, <2>5, <2>6, <2>8, Len(<< 2, 3, 0, 0 >>) = 4
<1> QED
    BY <1>1, <1>3, <1>4

-----------------------------------------------------------------------------
(* Places in a sequence of bytes. *)
LEMMA BytePlaces ==
    ASSUME NEW m \in Nat, NEW j \in Nat, NEW i \in 1 .. ByteBits, NEW x \in 1 .. ByteBits,
           m * ByteBits + i = j * ByteBits + x
    PROVE  m = j /\ i = x
<1>1. ByteBits \in Nat
    BY WireAssumption
<1>2. PICK n \in Nat, r \in Nat, s \in Nat : /\ n = m * ByteBits + r /\ n = j * ByteBits + s
                                             /\ r = i - 1 /\ s = x - 1 /\ r < ByteBits /\ s < ByteBits
    <2>1. PICK a \in Nat, b \in Nat : a = m * ByteBits /\ b = j * ByteBits
        BY <1>1, SMT
    <2>2. a + (i - 1) \in Nat /\ a + (i - 1) = b + (x - 1) /\ i - 1 \in Nat /\ x - 1 \in Nat
        BY <2>1
    <2> QED
        BY <1>1, <2>1, <2>2
<1>3. n \div ByteBits = m /\ n % ByteBits = r
    BY <1>1, <1>2, DivisionIs
<1>4. n \div ByteBits = j /\ n % ByteBits = s
    BY <1>1, <1>2, DivisionIs
<1> QED
    BY <1>2, <1>3, <1>4

(* The places of a byte are among those of the bytes. *)
LEMMA PlacesWithin ==
    ASSUME NEW len \in Nat, NEW m \in 0 .. len - 1
    PROVE  /\ m * ByteBits \in Nat /\ ByteBits * len \in Nat
           /\ m * ByteBits + ByteBits <= ByteBits * len
           /\ (m + 1) * ByteBits = m * ByteBits + ByteBits
           /\ m # len - 1 => m * ByteBits + ByteBits < ByteBits * len
<1>1. ByteBits \in Nat /\ ByteBits >= 2
    BY WireAssumption
<1>2. m * ByteBits \in Nat /\ ByteBits * len \in Nat /\ (m + 1) * ByteBits = m * ByteBits + ByteBits
    BY <1>1, SMT
<1>3. m + 1 <= len /\ m + 1 \in Nat
    OBVIOUS
<1>4. PICK n \in Nat : n = m + 1 /\ n <= len
    BY <1>3
<1>5. n * ByteBits <= ByteBits * len
    BY <1>1, <1>4, SMT
<1>6. ASSUME n # len PROVE n * ByteBits + ByteBits <= ByteBits * len
    <2>1. PICK o \in Nat : o = n + 1 /\ o <= len
        BY <1>4, <1>6
    <2>2. o * ByteBits <= ByteBits * len
        BY <1>1, <2>1, SMT
    <2>3. o * ByteBits = n * ByteBits + ByteBits
        BY <1>1, <1>4, <2>1, SMT
    <2> QED
        BY <2>2, <2>3
<1>7. m # len - 1 => n # len
    BY <1>4
<1>8. PICK a \in Nat, b \in Nat, c \in Nat :
        a = m * ByteBits /\ b = ByteBits * len /\ c = n * ByteBits /\ c = a + ByteBits
    BY <1>1, <1>2, <1>4
<1> QED
    BY <1>1, <1>2, <1>5, <1>6, <1>7, <1>8

(* A read that has all its bits has the bytes. *)
LEMMA BytesAre ==
    ASSUME NEW bytes \in Seq(Byte), NEW bits \in Seq({0, 1}),
           Len(bits) = ByteBits * Len(bytes), AreBitsOf(bits, bytes)
    PROVE  Bytes(bits) = bytes
<1>1. ByteBits \in Nat /\ ByteBits >= 2
    BY WireAssumption
<1>2. PICK len \in Nat : len = Len(bytes)
    OBVIOUS
<1>3. Len(bits) \div ByteBits = len
    <2>1. Len(bits) = len * ByteBits + 0
        BY <1>1, <1>2, SMT
    <2> QED
        BY <1>1, <1>2, <2>1, DivisionIs, 0 \in Nat
<1>4. ASSUME NEW i \in 1 .. len
      PROVE  Value(SubSeq(bits, ByteBits * (i - 1) + 1, ByteBits * i)) = bytes[i]
    <2>1. PICK m \in 0 .. len - 1 : m = i - 1
        BY <1>2
    <2>2. PICK a \in Nat : /\ a = m * ByteBits /\ a + ByteBits <= Len(bits)
                           /\ ByteBits * (i - 1) = a /\ ByteBits * i = a + ByteBits
        <3>1. m * ByteBits \in Nat /\ m * ByteBits + ByteBits <= ByteBits * len
            BY <1>2, <2>1, PlacesWithin
        <3>2. ByteBits * (i - 1) = m * ByteBits
            BY <1>1, <2>1, SMT
        <3>3. ByteBits * i = m * ByteBits + ByteBits
            BY <1>1, <2>1, SMT
        <3> QED
            BY <1>2, <3>1, <3>2, <3>3
    <2>3. \A x \in 1 .. ByteBits : bits[a + x] = BitsOf(bytes[i])[x]
        <3>1. ASSUME NEW x \in 1 .. ByteBits PROVE bits[a + x] = BitsOf(bytes[i])[x]
            <4>1. a + x <= Len(bits)
                BY <1>1, <2>2
            <4>2. m + 1 = i /\ m \in 0 .. Len(bytes) - 1
                BY <1>2, <2>1
            <4>3. m * ByteBits + x <= Len(bits) => bits[m * ByteBits + x] = BitsOf(bytes[m + 1])[x]
                BY <4>2 DEF AreBitsOf
            <4> QED
                BY <2>2, <4>1, <4>2, <4>3
        <3> QED
            BY <3>1
    <2>4. PICK sub : sub = SubSeq(bits, a + 1, a + ByteBits)
        OBVIOUS
    <2>5. sub = [x \in 1 .. ByteBits |-> bits[a + x]]
        <3>1. sub \in Seq({0, 1}) /\ Len(sub) = ByteBits /\ \A x \in 1 .. ByteBits : sub[x] = bits[a + x]
            <4>1. PICK first \in Nat, last \in Nat :
                    first = a + 1 /\ last = a + ByteBits /\ last <= Len(bits)
                BY <1>1, <2>2
            <4>2. \A n \in first .. last : bits[n] \in {0, 1}
                BY <4>1
            <4>3. /\ sub \in Seq({0, 1}) /\ Len(sub) = IF first <= last THEN last - first + 1 ELSE 0
                  /\ \A x \in 1 .. last - first + 1 : sub[x] = bits[first + x - 1]
                BY <2>4, <4>1, <4>2, SubSeqProperties
            <4>4. ASSUME NEW x \in 1 .. ByteBits PROVE sub[x] = bits[a + x]
                <5>1. x \in 1 .. last - first + 1 /\ first + x - 1 = a + x
                    BY <1>1, <4>1
                <5> QED
                    BY <4>3, <5>1
            <4> QED
                BY <1>1, <4>1, <4>3, <4>4
        <3> QED
            BY <3>1
    <2>6. bytes[i] \in Byte
        BY <1>2
    <2>7. sub = BitsOf(bytes[i])
        BY <2>3, <2>5 DEF BitsOf
    <2> QED
        BY <2>2, <2>4, <2>6, <2>7, ValueOfBits
<1>5. Bytes(bits) = [i \in 1 .. len |-> bytes[i]]
    BY <1>3, <1>4 DEF Bytes
<1> QED
    BY <1>2, <1>5

-----------------------------------------------------------------------------
(* The part. *)
IsPart(d) ==
    d = [stage |-> d.stage, in |-> d.in, out |-> d.out, queue |-> d.queue, cursor |-> d.cursor,
         started |-> d.started, pulling |-> d.pulling, release |-> d.release]

(* The same moment of the same reset. *)
SamePull(d, e) == e.started = d.started /\ e.pulling = d.pulling /\ e.release = d.release

(* It has been sent some bits of a request, of which j bytes are whole. *)
Hears(d, at, sent, j) ==
    /\ j \in 0 .. Len(RequestBytes(at)) - 1
    /\ d.in \in Seq({0, 1}) /\ Len(d.in) < ByteBits
    /\ sent = j * ByteBits + Len(d.in)
    /\ \A i \in 1 .. Len(d.in) : d.in[i] = BitsOf(RequestBytes(at)[j + 1])[i]
    /\ d.out = << >> /\ d.queue = << >>
    /\ d.stage = IF j \in {0, 1} THEN "command" ELSE IF j = 2 THEN "low" ELSE "high"
    /\ j = 3 => d.cursor = at

(* It has said some bits of an answer, of which j bytes are whole. *)
Utters(d, at, said, j) ==
    /\ j \in 0 .. Len(Wanted(at)) - 1
    /\ d.out \in Seq({0, 1}) /\ Len(d.out) \in 1 .. ByteBits
    /\ said + Len(d.out) = j * ByteBits + ByteBits
    /\ \A i \in 1 .. Len(d.out) :
          d.out[i] = BitsOf(Wanted(at)[j + 1])[ByteBits - Len(d.out) + i]
    /\ at < 0 => d.queue = SubSeq(Rom, j + 2, Len(Rom))

LEMMA LoadsQueue ==
    ASSUME NEW d, IsPart(d), d.queue # << >>, NEW e, e = LoadNext(d)
    PROVE  IsPart(e) /\ SamePull(d, e) /\ e.out = BitsOf(Head(d.queue)) /\ e.queue = Tail(d.queue)
<1>1. e = [d EXCEPT !.out = BitsOf(Head(d.queue)), !.queue = Tail(d.queue)]
    BY DEF LoadNext
<1>2. e = [stage |-> d.stage, in |-> d.in, out |-> BitsOf(Head(d.queue)), queue |-> Tail(d.queue),
           cursor |-> d.cursor, started |-> d.started, pulling |-> d.pulling, release |-> d.release]
    BY <1>1 DEF IsPart
<1> QED
    BY <1>2 DEF IsPart, SamePull

LEMMA LoadsMemory ==
    ASSUME NEW d, IsPart(d), d.queue = << >>, d.cursor + 1 \in DOMAIN Memory, NEW e, e = LoadNext(d)
    PROVE  IsPart(e) /\ SamePull(d, e) /\ e.out = BitsOf(Memory[d.cursor + 1])
<1>1. e = [d EXCEPT !.out = BitsOf(Memory[d.cursor + 1]), !.cursor = @ + 1]
    BY DEF LoadNext
<1>2. e = [stage |-> d.stage, in |-> d.in, out |-> BitsOf(Memory[d.cursor + 1]), queue |-> d.queue,
           cursor |-> d.cursor + 1, started |-> d.started, pulling |-> d.pulling,
           release |-> d.release]
    BY <1>1 DEF IsPart
<1> QED
    BY <1>2 DEF IsPart, SamePull

(* What is loaded is a byte to say from its first bit. *)
LEMMA LoadedSays ==
    ASSUME NEW at \in Reads, NEW j \in 0 .. Len(Wanted(at)) - 1, NEW said,
           said = j * ByteBits, NEW e, e.out = BitsOf(Wanted(at)[j + 1]),
           at < 0 => e.queue = SubSeq(Rom, j + 2, Len(Rom))
    PROVE  Utters(e, at, said, j)
<1>1. ByteBits \in Nat /\ ByteBits >= 2
    BY WireAssumption
<1>2. Wanted(at)[j + 1] \in Byte /\ Wanted(at)[j + 1] \in Nat
    <2>1. Wanted(at) \in Seq(Byte)
        BY WantedAre
    <2>2. Wanted(at)[j + 1] \in Byte
        BY <2>1
    <2> QED
        BY <2>2, Weights DEF Byte
<1>3. e.out \in [1 .. ByteBits -> {0, 1}]
    BY <1>2, BitsAre
<1>4. e.out \in Seq({0, 1}) /\ Len(e.out) = ByteBits
    BY <1>1, <1>3
<1>5. j * ByteBits \in Nat
    BY <1>1, SMT
<1>6. \A i \in 1 .. ByteBits : ByteBits - ByteBits + i = i
    BY <1>1
<1> QED
    BY <1>1, <1>4, <1>5, <1>6 DEF Utters

(* What the part does with a byte. *)
LEMMA ByteIns ==
    ASSUME NEW d, IsPart(d), NEW byte
    PROVE  /\ d.stage = "command" /\ byte = 1 => ByteIn(d, byte) = SendRom(d)
           /\ d.stage = "command" /\ byte = 2 => ByteIn(d, byte) = d
           /\ d.stage = "command" /\ byte = 3 => ByteIn(d, byte) = [d EXCEPT !.stage = "low"]
           /\ d.stage = "low" => ByteIn(d, byte) = [d EXCEPT !.cursor = byte, !.stage = "high"]
           /\ d.stage = "high" => ByteIn(d, byte) = SendMemory(d, byte)
<1>1. ASSUME d.stage = "command", byte = 1 PROVE ByteIn(d, byte) = SendRom(d)
    BY <1>1 DEF ByteIn, ReadRom, ReadMemory, IsPart
<1>2. ASSUME d.stage = "command", byte = 2 PROVE ByteIn(d, byte) = d
    BY <1>2 DEF ByteIn, ReadRom, ReadMemory, IsPart
<1>3. ASSUME d.stage = "command", byte = 3 PROVE ByteIn(d, byte) = [d EXCEPT !.stage = "low"]
    BY <1>3 DEF ByteIn, ReadRom, ReadMemory, IsPart
<1>4. ASSUME d.stage = "low" PROVE ByteIn(d, byte) = [d EXCEPT !.cursor = byte, !.stage = "high"]
    BY <1>4 DEF ByteIn, ReadRom, ReadMemory, IsPart
<1>5. ASSUME d.stage = "high" PROVE ByteIn(d, byte) = SendMemory(d, byte)
    BY <1>5 DEF ByteIn, ReadRom, ReadMemory, IsPart
<1> QED
    BY <1>1, <1>2, <1>3, <1>4, <1>5

(* A whole byte of the request moves it on, the last of them to saying.    *)
LEMMA HearsByte ==
    ASSUME NEW at \in Reads, NEW sent, NEW j, NEW d, IsPart(d), Hears(d, at, sent, j),
           NEW e, e = ByteIn([d EXCEPT !.in = << >>], RequestBytes(at)[j + 1])
    PROVE  /\ IsPart(e) /\ SamePull(d, e)
           /\ IF j + 1 < Len(RequestBytes(at)) THEN Hears(e, at, (j + 1) * ByteBits, j + 1)
                                               ELSE Utters(e, at, 0, 0)
<1>1. ByteBits \in Nat /\ ByteBits >= 2 /\ Rom \in Seq(Byte) /\ Rom # << >> /\ at \in Int
    BY WireAssumption DEF Reads
<1>2. PICK c : c = [stage |-> d.stage, in |-> << >>, out |-> << >>, queue |-> << >>,
                    cursor |-> d.cursor, started |-> d.started, pulling |-> d.pulling,
                    release |-> d.release]
    OBVIOUS
<1>3. [d EXCEPT !.in = << >>] = c
    BY <1>2 DEF IsPart, Hears
<1>4. IsPart(c) /\ SamePull(d, c)
    BY <1>2 DEF IsPart, SamePull
<1>5. CASE at < 0
    <2>1. j = 0 /\ Len(RequestBytes(at)) = 1 /\ RequestBytes(at)[j + 1] = ReadRom
        BY <1>5 DEF Hears, RequestBytes
    <2>2. c.stage = "command" /\ c.queue = << >>
        BY <1>2, <2>1 DEF Hears
    <2>3. PICK r : r = [c EXCEPT !.queue = @ \o Rom]
        OBVIOUS
    <2>4. r = [stage |-> c.stage, in |-> c.in, out |-> c.out, queue |-> << >> \o Rom,
               cursor |-> c.cursor, started |-> c.started, pulling |-> c.pulling,
               release |-> c.release]
        BY <1>4, <2>2, <2>3 DEF IsPart
    <2>5. IsPart(r) /\ SamePull(c, r) /\ r.queue = Rom
        BY <1>1, <2>4, ConcatEmptySeq DEF IsPart, SamePull
    <2>6. e = LoadNext(r)
        <3>1. e = ByteIn(c, 1)
            BY <1>3, <2>1 DEF ReadRom
        <3>2. e = SendRom(c)
            BY <1>4, <2>2, <3>1, ByteIns
        <3> QED
            BY <2>3, <3>2 DEF SendRom
    <2>7. IsPart(e) /\ SamePull(r, e) /\ e.out = BitsOf(Head(Rom)) /\ e.queue = Tail(Rom)
        BY <1>1, <2>5, <2>6, LoadsQueue
    <2>8. Wanted(at) = Rom /\ Len(Wanted(at)) \in Nat /\ Len(Wanted(at)) >= 1
        BY <1>5, WantedAre, <1>1
    <2>9. e.out = BitsOf(Wanted(at)[0 + 1]) /\ e.queue = SubSeq(Rom, 0 + 2, Len(Rom))
        <3>1. Head(Rom) = Rom[1]
            BY <1>1
        <3>2. Tail(Rom) = SubSeq(Rom, 2, Len(Rom))
            BY <1>1, TailIsSubSeq
        <3> QED
            BY <2>7, <2>8, <3>1, <3>2
    <2>10. 0 = 0 * ByteBits /\ 0 \in 0 .. Len(Wanted(at)) - 1
        BY <1>1, <2>8
    <2>11. Utters(e, at, 0, 0)
        BY <2>9, <2>10, LoadedSays
    <2> QED
        BY <1>4, <2>1, <2>5, <2>7, <2>11 DEF SamePull
<1>6. CASE at >= 0
    <2>1. /\ Len(RequestBytes(at)) = 4 /\ j \in 0 .. 3
          /\ j = 0 => RequestBytes(at)[j + 1] = SkipRom
          /\ j = 1 => RequestBytes(at)[j + 1] = ReadMemory
          /\ j = 2 => RequestBytes(at)[j + 1] = at
          /\ j = 3 => RequestBytes(at)[j + 1] = 0
        <3>1. RequestBytes(at) = << SkipRom, ReadMemory, at, 0 >>
            BY <1>1, <1>6 DEF RequestBytes
        <3> QED
            BY <3>1 DEF Hears
    <2>2. c.stage = IF j \in {0, 1} THEN "command" ELSE IF j = 2 THEN "low" ELSE "high"
        BY <1>2 DEF Hears
    <2>3. c.in = << >> /\ c.out = << >> /\ c.queue = << >> /\ (j = 3 => c.cursor = at)
        BY <1>2 DEF Hears
    <2> DEFINE Hearing(f) == Hears(f, at, (j + 1) * ByteBits, j + 1)
    <2>4. ASSUME NEW f, j < 3, f.in = << >>, f.out = << >>, f.queue = << >>,
                 f.stage = IF j = 0 THEN "command" ELSE IF j = 1 THEN "low" ELSE "high",
                 j = 2 => f.cursor = at
          PROVE  Hearing(f)
        <3>1. j + 1 \in 0 .. 3 /\ j + 1 # 0
            BY <2>1, <2>4
        <3>2. (j + 1) * ByteBits + 0 = (j + 1) * ByteBits
            BY <1>1, <3>1, SMT
        <3>3. << >> \in Seq({0, 1}) /\ Len(<< >>) = 0 /\ 0 < ByteBits
            BY <1>1
        <3>4. f.stage = IF j + 1 \in {0, 1} THEN "command" ELSE IF j + 1 = 2 THEN "low" ELSE "high"
            BY <2>1, <2>4
        <3>5. j + 1 = 3 => f.cursor = at
            BY <2>1, <2>4
        <3> QED
            BY <2>1, <2>4, <3>1, <3>2, <3>3, <3>4, <3>5 DEF Hears
    <2> HIDE DEF Hearing
    <2>5. CASE j = 0
        <3>1. e = c
            <4>1. e = ByteIn(c, 2) /\ c.stage = "command"
                BY <1>3, <2>1, <2>2, <2>5 DEF SkipRom
            <4> QED
                BY <1>4, <4>1, ByteIns
        <3>2. Hearing(e)
            BY <2>2, <2>3, <2>4, <2>5, <3>1
        <3> QED
            BY <1>4, <2>1, <2>5, <3>1, <3>2 DEF Hearing
    <2>6. CASE j = 1
        <3>1. e = [c EXCEPT !.stage = "low"]
            <4>1. e = ByteIn(c, 3) /\ c.stage = "command"
                BY <1>3, <2>1, <2>2, <2>6 DEF ReadMemory
            <4> QED
                BY <1>4, <4>1, ByteIns
        <3>2. IsPart(e) /\ SamePull(c, e) /\ e.in = c.in /\ e.out = c.out /\ e.queue = c.queue
              /\ e.stage = "low"
            BY <1>2, <3>1 DEF IsPart, SamePull
        <3>3. Hearing(e)
            BY <2>3, <2>4, <2>6, <3>2
        <3> QED
            BY <1>4, <2>1, <2>6, <3>2, <3>3 DEF Hearing, SamePull
    <2>7. CASE j = 2
        <3>1. e = [c EXCEPT !.cursor = at, !.stage = "high"]
            <4>1. e = ByteIn(c, at) /\ c.stage = "low"
                BY <1>3, <2>1, <2>2, <2>7
            <4> QED
                BY <1>4, <4>1, ByteIns
        <3>2. IsPart(e) /\ SamePull(c, e) /\ e.in = c.in /\ e.out = c.out /\ e.queue = c.queue
              /\ e.stage = "high" /\ e.cursor = at
            BY <1>2, <3>1 DEF IsPart, SamePull
        <3>3. Hearing(e)
            BY <2>3, <2>4, <2>7, <3>2
        <3> QED
            BY <1>4, <2>1, <2>7, <3>2, <3>3 DEF Hearing, SamePull
    <2>8. CASE j = 3
        <3>1. PICK r : r = [c EXCEPT !.cursor = @ + 0 * Weight[ByteBits], !.stage = "sending"]
            OBVIOUS
        <3>2. e = LoadNext(r)
            <4>1. e = ByteIn(c, 0) /\ c.stage = "high"
                BY <1>3, <2>1, <2>2, <2>8
            <4>2. e = SendMemory(c, 0)
                BY <1>4, <4>1, ByteIns
            <4> QED
                BY <3>1, <4>2 DEF SendMemory
        <3>3. c.cursor + 0 * Weight[ByteBits] = at
            <4>1. PICK w \in Nat : w = Weight[ByteBits]
                BY <1>1, Weights
            <4> QED
                BY <1>1, <2>3, <2>8, <4>1
        <3>4. r = [stage |-> "sending", in |-> c.in, out |-> c.out, queue |-> c.queue,
                   cursor |-> at, started |-> c.started, pulling |-> c.pulling,
                   release |-> c.release]
            BY <1>2, <3>1, <3>3
        <3>5. IsPart(r) /\ SamePull(c, r) /\ r.queue = << >> /\ r.cursor = at
            BY <2>3, <3>4 DEF IsPart, SamePull
        <3>6. at + 1 \in DOMAIN Memory /\ Wanted(at) = << Memory[at + 1] >> /\ Len(Wanted(at)) = 1
            BY <1>6, WantedAre
        <3>7. IsPart(e) /\ SamePull(r, e) /\ e.out = BitsOf(Memory[at + 1])
            BY <3>2, <3>5, <3>6, LoadsMemory
        <3>8. e.out = BitsOf(Wanted(at)[0 + 1]) /\ 0 = 0 * ByteBits /\ 0 \in 0 .. Len(Wanted(at)) - 1
            BY <1>1, <3>6, <3>7
        <3>9. Utters(e, at, 0, 0)
            BY <1>1, <1>6, <3>8, LoadedSays
        <3> QED
            BY <1>4, <2>1, <2>8, <3>5, <3>7, <3>9 DEF SamePull
    <2> QED
        BY <2>1, <2>5, <2>6, <2>7, <2>8
<1> QED
    BY <1>1, <1>5, <1>6

(* A bit of the request moves it on. *)
LEMMA HearsBit ==
    ASSUME NEW at \in Reads, NEW sent, NEW j, NEW d, IsPart(d), d.started, Hears(d, at, sent, j),
           NEW bit, bit = BitsOf(RequestBytes(at)[j + 1])[Len(d.in) + 1],
           NEW e, e = BitIn(d, bit)
    PROVE  /\ IsPart(e) /\ SamePull(d, e)
           /\ sent + 1 = ByteBits * Len(RequestBytes(at)) => Utters(e, at, 0, 0)
           /\ sent + 1 # ByteBits * Len(RequestBytes(at)) => \E k : Hears(e, at, sent + 1, k)
<1>1. ByteBits \in Nat /\ ByteBits >= 2
    BY WireAssumption
<1>2. PICK len \in Nat, m \in Nat : /\ len = Len(RequestBytes(at)) /\ j \in 0 .. len - 1
                                    /\ m = Len(d.in) /\ m < ByteBits /\ d.in \in Seq({0, 1})
    BY RequestBytesAre DEF Hears
<1>3. PICK byte \in Byte : byte = RequestBytes(at)[j + 1]
    BY <1>2, RequestBytesAre
<1>4. bit \in {0, 1} /\ bit = BitsOf(byte)[m + 1] /\ \A i \in 1 .. m : d.in[i] = BitsOf(byte)[i]
    <2>1. byte \in Nat
        BY Weights, <1>1 DEF Byte
    <2>2. BitsOf(byte) \in [1 .. ByteBits -> {0, 1}] /\ m + 1 \in 1 .. ByteBits
        BY <1>1, <1>2, <2>1, BitsAre
    <2>3. bit = BitsOf(byte)[m + 1]
        BY <1>2, <1>3
    <2>4. \A i \in 1 .. m : d.in[i] = BitsOf(byte)[i]
        BY <1>2, <1>3 DEF Hears
    <2> QED
        BY <2>2, <2>3, <2>4
<1>5. PICK in : in = Append(d.in, bit)
    OBVIOUS
<1>6. /\ in \in Seq({0, 1}) /\ Len(in) = m + 1
      /\ \A i \in 1 .. m + 1 : in[i] = BitsOf(byte)[i]
    BY <1>2, <1>4, <1>5
<1>7. /\ j * ByteBits \in Nat /\ ByteBits * len \in Nat
      /\ j * ByteBits + ByteBits <= ByteBits * len
      /\ (j + 1) * ByteBits = j * ByteBits + ByteBits
      /\ j # len - 1 => j * ByteBits + ByteBits < ByteBits * len
    BY <1>2, PlacesWithin
<1>8. PICK a \in Nat, b \in Nat :
         /\ a = j * ByteBits /\ b = ByteBits * len /\ a + ByteBits <= b
         /\ (j + 1) * ByteBits = a + ByteBits
         /\ j # len - 1 => a + ByteBits < b
    BY <1>7
<1>11. PICK s \in Nat : s = sent /\ s = a + m
    <2>1. sent = j * ByteBits + Len(d.in)
        BY DEF Hears
    <2>2. sent = a + m
        BY <1>2, <1>8, <2>1
    <2> QED
        BY <1>2, <1>8, <2>2
<1>12. j \in Nat /\ len \in Nat /\ m \in Nat /\ j + 1 <= len /\ (j # len - 1 <=> j + 1 # len)
    BY <1>2
<1>9. CASE m + 1 < ByteBits
    <2>1. e = [d EXCEPT !.in = in]
        BY <1>2, <1>5, <1>9 DEF BitIn
    <2>2. e = [stage |-> d.stage, in |-> in, out |-> d.out, queue |-> d.queue,
               cursor |-> d.cursor, started |-> d.started, pulling |-> d.pulling,
               release |-> d.release]
        BY <2>1 DEF IsPart
    <2>3. IsPart(e) /\ SamePull(d, e)
        BY <2>2 DEF IsPart, SamePull
    <2>4. /\ e.in = in /\ e.out = d.out /\ e.queue = d.queue /\ e.stage = d.stage
          /\ e.cursor = d.cursor
        BY <2>2
    <2>5. s + 1 = a + (m + 1) /\ s + 1 < b /\ s + 1 # b
        BY <1>1, <1>8, <1>9, <1>11, <1>12
    <2>6. \A i \in 1 .. Len(in) : in[i] = BitsOf(RequestBytes(at)[j + 1])[i]
        BY <1>3, <1>6
    <2>7. Hears(e, at, sent + 1, j)
        <3>1. sent + 1 = j * ByteBits + Len(in)
            BY <1>6, <1>8, <1>11, <2>5
        <3> QED
            BY <1>2, <1>6, <1>9, <2>4, <2>6, <3>1 DEF Hears
    <2> QED
        BY <1>2, <1>8, <1>11, <2>3, <2>5, <2>7
<1>10. CASE m + 1 = ByteBits
    <2>1. in = BitsOf(byte)
        <3>1. in = [i \in 1 .. ByteBits |-> in[i]]
            BY <1>1, <1>6, <1>10
        <3>2. in = [i \in 1 .. ByteBits |-> BitsOf(byte)[i]]
            BY <1>1, <1>6, <1>10, <3>1
        <3> QED
            BY <3>2 DEF BitsOf
    <2>2. Value(in) = byte
        BY <2>1, ValueOfBits
    <2>3. e = ByteIn([d EXCEPT !.in = << >>], RequestBytes(at)[j + 1])
        BY <1>2, <1>3, <1>5, <1>10, <2>2 DEF BitIn
    <2>4. /\ IsPart(e) /\ SamePull(d, e)
          /\ j + 1 < len => Hears(e, at, (j + 1) * ByteBits, j + 1)
          /\ ~(j + 1 < len) => Utters(e, at, 0, 0)
        <3>1. /\ IsPart(e) /\ SamePull(d, e)
              /\ IF j + 1 < Len(RequestBytes(at)) THEN Hears(e, at, (j + 1) * ByteBits, j + 1)
                                                  ELSE Utters(e, at, 0, 0)
            BY <2>3, HearsByte
        <3> QED
            BY <1>2, <3>1
    <2>5. s + 1 = a + ByteBits
        BY <1>1, <1>8, <1>10, <1>11, <1>12
    <2>6. CASE j + 1 < len
        <3>1. s + 1 # b
            BY <1>1, <1>8, <1>12, <2>5, <2>6
        <3> QED
            BY <1>2, <1>8, <1>11, <2>4, <2>5, <2>6, <3>1
    <2>7. CASE j + 1 = len
        <3>1. b = a + ByteBits
            <4>1. len * ByteBits = a + ByteBits
                BY <1>8, <2>7
            <4>2. len * ByteBits = ByteBits * len
                BY <1>1, SMT
            <4> QED
                BY <1>8, <4>1, <4>2
        <3> QED
            BY <1>2, <1>8, <1>11, <1>12, <2>4, <2>5, <2>7, <3>1
    <2> QED
        BY <1>2, <2>6, <2>7
<1> QED
    BY <1>1, <1>2, <1>9, <1>10

LEMMA LoadsKeep ==
    ASSUME NEW d, IsPart(d), NEW e, e = LoadNext(d)
    PROVE  IsPart(e) /\ SamePull(d, e)
<1>1. CASE d.queue # << >>
    BY <1>1, LoadsQueue
<1>2. CASE d.queue = << >>
    <2>1. PICK out : e = [d EXCEPT !.out = out, !.cursor = @ + 1]
        BY <1>2 DEF LoadNext
    <2>2. e = [stage |-> d.stage, in |-> d.in, out |-> out, queue |-> d.queue,
               cursor |-> d.cursor + 1, started |-> d.started, pulling |-> d.pulling,
               release |-> d.release]
        BY <2>1 DEF IsPart
    <2> QED
        BY <2>2 DEF IsPart, SamePull
<1> QED
    BY <1>1, <1>2

(* What is pulled for a bit, and the rest of the part as it was. *)
LEMMA PulledIs ==
    ASSUME NEW d, IsPart(d), NEW t, NEW n, NEW e, e = Pulled(d, t, n)
    PROVE  /\ IsPart(e) /\ e.pulling /\ e.release = (t + n) % Wrap /\ e.started = d.started
           /\ e.in = d.in /\ e.out = d.out /\ e.queue = d.queue /\ e.stage = d.stage
<1>1. e = [d EXCEPT !.pulling = TRUE, !.release = (t + n) % Wrap]
    BY DEF Pulled
<1>2. e = [stage |-> d.stage, in |-> d.in, out |-> d.out, queue |-> d.queue, cursor |-> d.cursor,
           started |-> d.started, pulling |-> TRUE, release |-> (t + n) % Wrap]
    BY <1>1 DEF IsPart
<1> QED
    BY <1>2 DEF IsPart

(* A bit of the answer moves it on. *)
HasSaid(d, at, said, j, t, e) ==
    /\ Head(d.out) \in {0, 1} /\ IsPart(e) /\ e.started = d.started
    /\ Head(d.out) = BitsOf(Wanted(at)[j + 1])[said - j * ByteBits + 1]
    /\ Head(d.out) = 0 => e.pulling /\ e.release = (t + WriteZeroLow) % Wrap
    /\ Head(d.out) # 0 => e.pulling = d.pulling /\ e.release = d.release
    /\ said + 1 # ByteBits * Len(Wanted(at)) => \E k : Utters(e, at, said + 1, k)

LEMMA SaysBit ==
    ASSUME NEW at \in Reads, NEW said \in Nat, NEW j, NEW d, IsPart(d), Utters(d, at, said, j),
           NEW t, NEW e, e = BitOut(d, t)
    PROVE  HasSaid(d, at, said, j, t, e)
<1>1. ByteBits \in Nat /\ ByteBits >= 2 /\ Rom \in Seq(Byte)
    BY WireAssumption
<1>2. PICK len \in Nat, m \in Nat : /\ len = Len(Wanted(at)) /\ j \in 0 .. len - 1
                                    /\ m = Len(d.out) /\ m \in 1 .. ByteBits /\ d.out \in Seq({0, 1})
    BY WantedAre DEF Utters
<1>3. PICK byte \in Byte : byte = Wanted(at)[j + 1]
    BY <1>2, WantedAre
<1>4. /\ j * ByteBits \in Nat /\ ByteBits * len \in Nat
      /\ j * ByteBits + ByteBits <= ByteBits * len
      /\ (j + 1) * ByteBits = j * ByteBits + ByteBits
      /\ j # len - 1 => j * ByteBits + ByteBits < ByteBits * len
    BY <1>2, PlacesWithin
<1>5. PICK a \in Nat, b \in Nat :
         /\ a = j * ByteBits /\ b = ByteBits * len /\ a + ByteBits <= b
         /\ (j + 1) * ByteBits = a + ByteBits
         /\ j # len - 1 => a + ByteBits < b
    BY <1>4
<1>6. j \in Nat /\ j + 1 <= len /\ (j # len - 1 <=> j + 1 # len)
    BY <1>2
<1>7. PICK s \in Nat : s = said /\ s + m = a + ByteBits
    <2>1. said + Len(d.out) = j * ByteBits + ByteBits
        BY DEF Utters
    <2> QED
        BY <1>2, <1>5, <2>1
<1>19. /\ m >= 1 /\ m <= ByteBits /\ 1 \in 1 .. m
       /\ m = 1 => s + 1 = a + ByteBits
       /\ s - a + 1 = ByteBits - m + 1
    <2>1. m >= 1 /\ m <= ByteBits
        BY <1>2
    <2>2. s + m = a + ByteBits
        BY <1>7
    <2> QED
        BY <1>1, <2>1, <2>2
<1>8. \A i \in 1 .. m : d.out[i] = BitsOf(byte)[ByteBits - m + i]
    BY <1>2, <1>3 DEF Utters
<1>9. PICK bit \in {0, 1}, rest \in Seq({0, 1}) :
         /\ bit = Head(d.out) /\ bit = d.out[1] /\ rest = Tail(d.out)
         /\ Len(rest) = m - 1 /\ \A i \in 1 .. m - 1 : rest[i] = d.out[i + 1]
    <2>1. PICK out \in Seq({0, 1}) : out = d.out /\ Len(out) = m
        BY <1>2
    <2>2. out # << >>
        BY <1>19, <2>1
    <2>3. /\ Head(out) \in {0, 1} /\ Head(out) = out[1] /\ Tail(out) \in Seq({0, 1})
          /\ Len(Tail(out)) = Len(out) - 1
          /\ \A i \in 1 .. Len(out) - 1 : Tail(out)[i] = out[i + 1]
        <3>1. Len(out) >= 1
            BY <1>19, <2>1
        <3> QED
            BY <2>2, <3>1, HeadTailProperties
    <2> QED
        BY <2>1, <2>3
<1>20. PICK l \in Nat : l = m - 1 /\ l + 1 = m /\ Len(rest) = l
    <2>1. PICK l \in Nat : l = m - 1 /\ l + 1 = m
        BY <1>19
    <2> QED
        BY <1>9, <2>1
<1>10. bit = BitsOf(byte)[said - j * ByteBits + 1]
    <2>1. d.out[1] = BitsOf(byte)[ByteBits - m + 1]
        BY <1>8, <1>19
    <2> QED
        BY <1>5, <1>7, <1>9, <1>19, <2>1
<1>11. PICK sent : sent = [d EXCEPT !.out = rest]
    OBVIOUS
<1>12. sent = [stage |-> d.stage, in |-> d.in, out |-> rest, queue |-> d.queue,
               cursor |-> d.cursor, started |-> d.started, pulling |-> d.pulling,
               release |-> d.release]
    BY <1>11 DEF IsPart
<1>13. /\ IsPart(sent) /\ sent.out = rest /\ sent.queue = d.queue /\ sent.stage = d.stage
       /\ sent.started = d.started /\ sent.pulling = d.pulling /\ sent.release = d.release
    BY <1>12 DEF IsPart
<1>14. PICK p : p = IF bit = 0 THEN Pulled(sent, t, WriteZeroLow) ELSE sent
    OBVIOUS
<1>15. /\ IsPart(p) /\ p.out = rest /\ p.queue = d.queue /\ p.started = d.started
       /\ bit = 0 => p.pulling /\ p.release = (t + WriteZeroLow) % Wrap
       /\ bit # 0 => p.pulling = d.pulling /\ p.release = d.release
    <2>1. CASE bit = 0
        <3>1. p = Pulled(sent, t, WriteZeroLow)
            BY <1>14, <2>1
        <3>2. /\ IsPart(p) /\ p.pulling /\ p.release = (t + WriteZeroLow) % Wrap
              /\ p.started = sent.started /\ p.out = sent.out /\ p.queue = sent.queue
            BY <1>13, <3>1, PulledIs
        <3> QED
            BY <1>13, <2>1, <3>2
    <2>2. CASE bit # 0
        BY <1>13, <1>14, <2>2
    <2> QED
        BY <2>1, <2>2
<1>16. e = IF rest = << >> /\ (d.stage = "sending" \/ d.queue # << >>) THEN LoadNext(p) ELSE p
    BY <1>9, <1>11, <1>13, <1>14 DEF BitOut
<1>17. IsPart(e) /\ SamePull(p, e)
    <2>1. CASE e = p
        BY <1>15, <2>1 DEF SamePull
    <2>2. CASE e = LoadNext(p)
        BY <1>15, <2>2, LoadsKeep
    <2> QED
        BY <1>16, <2>1, <2>2
<1>18. ASSUME s + 1 # b PROVE \E k : Utters(e, at, said + 1, k)
    <2>1. CASE m = 1
        <3>1. j + 1 # len /\ j + 1 \in 0 .. len - 1
            <4>1. s + 1 = a + ByteBits
                BY <1>19, <2>1
            <4>2. ASSUME j + 1 = len PROVE FALSE
                <5>1. len * ByteBits = a + ByteBits
                    BY <1>5, <4>2
                <5>2. len * ByteBits = ByteBits * len
                    BY <1>1, SMT
                <5> QED
                    BY <1>5, <1>18, <4>1, <5>1, <5>2
            <4> QED
                BY <1>6, <4>2
        <3>10. at \in Int
            BY <1>1, WireAssumption DEF Reads
        <3>2. at < 0 /\ Wanted(at) = Rom
            <4>1. at \in Int /\ (at >= 0 => len = 1) /\ (at < 0 => Wanted(at) = Rom)
                BY <1>2, WantedAre, <3>10
            <4>2. len # 1
                BY <1>6, <3>1
            <4> QED
                BY <4>1, <4>2
        <3>3. /\ d.queue # << >> /\ Head(d.queue) = Rom[j + 2]
              /\ Tail(d.queue) = SubSeq(Rom, (j + 1) + 2, Len(Rom))
            <4>1. d.queue = SubSeq(Rom, j + 2, Len(Rom))
                BY <3>2 DEF Utters
            <4>2. PICK n \in Nat : n = j + 2 /\ n <= Len(Rom) /\ n >= 1
                BY <1>2, <1>6, <3>1, <3>2
            <4>3. PICK q : q = SubSeq(Rom, n, Len(Rom))
                OBVIOUS
            <4>4. q # << >> /\ Head(q) = Rom[n] /\ Tail(q) = SubSeq(Rom, n + 1, Len(Rom))
                <5>1. PICK last \in Nat : last = Len(Rom) /\ n <= last
                    BY <1>1, <4>2
                <5>2. Head(q) = Rom[n] /\ Tail(q) = SubSeq(Rom, n + 1, last)
                    <6>1. n \in 1 .. Len(Rom) /\ last \in n .. Len(Rom)
                        BY <4>2, <5>1
                    <6> QED
                        BY <1>1, <4>3, <5>1, <6>1, HeadTailOfSubSeq
                <5>3. Len(q) = last - n + 1
                    <6>1. \A i \in n .. last : Rom[i] \in Byte
                        BY <1>1, <4>2, <5>1
                    <6>2. Len(q) = IF n <= last THEN last - n + 1 ELSE 0
                        BY <4>2, <4>3, <5>1, <6>1, SubSeqProperties
                    <6> QED
                        BY <5>1, <6>2
                <5>4. q # << >>
                    BY <4>2, <5>1, <5>3
                <5> QED
                    BY <5>1, <5>2, <5>4
            <4>5. n + 1 = (j + 1) + 2
                BY <1>6, <4>2
            <4> QED
                BY <4>1, <4>2, <4>3, <4>4, <4>5
        <3>4. e = LoadNext(p)
            <4>1. rest = << >>
                BY <1>9, <2>1
            <4> QED
                BY <1>16, <3>3, <4>1
        <3>5. e.out = BitsOf(Rom[j + 2]) /\ e.queue = SubSeq(Rom, (j + 1) + 2, Len(Rom))
            <4>1. p.queue # << >> /\ p.queue = d.queue
                BY <1>15, <3>3
            <4>2. e.out = BitsOf(Head(p.queue)) /\ e.queue = Tail(p.queue)
                BY <1>15, <3>4, <4>1, LoadsQueue
            <4> QED
                BY <3>3, <4>1, <4>2
        <3>6. e.out = BitsOf(Wanted(at)[(j + 1) + 1])
            <4>1. (j + 1) + 1 = j + 2
                BY <1>6
            <4> QED
                BY <3>2, <3>5, <4>1
        <3>7. said + 1 = (j + 1) * ByteBits
            BY <1>5, <1>7, <1>19, <2>1
        <3>8. PICK k : k = j + 1
            OBVIOUS
        <3>9. Utters(e, at, said + 1, k)
            BY <1>2, <3>1, <3>5, <3>6, <3>7, <3>8, LoadedSays
        <3> QED
            BY <3>9
    <2>2. CASE m # 1
        <3>1. e = p
            <4>1. rest # << >>
                BY <1>19, <1>20, <2>2
            <4> QED
                BY <1>16, <4>1
        <3>2. Len(rest) \in 1 .. ByteBits /\ (s + 1) + Len(rest) = a + ByteBits
            <4>1. l \in 1 .. ByteBits /\ (s + 1) + l = a + ByteBits
                <5>1. s + m = a + ByteBits
                    BY <1>7
                <5> QED
                    BY <1>1, <1>19, <1>20, <2>2, <5>1
            <4> QED
                BY <1>20, <4>1
        <3>3. \A i \in 1 .. Len(rest) : rest[i] = BitsOf(byte)[ByteBits - Len(rest) + i]
            <4>1. ASSUME NEW i \in 1 .. Len(rest)
                  PROVE  rest[i] = BitsOf(byte)[ByteBits - Len(rest) + i]
                <5>1. i \in 1 .. m - 1 /\ i + 1 \in 1 .. m
                      /\ ByteBits - Len(rest) + i = ByteBits - m + (i + 1)
                    <6>1. i \in 1 .. l
                        BY <1>20
                    <6>2. i \in 1 .. m - 1 /\ i + 1 \in 1 .. m /\ ByteBits - l + i = ByteBits - m + (i + 1)
                        BY <1>1, <1>19, <1>20, <6>1
                    <6> QED
                        BY <1>20, <6>2
                <5> QED
                    BY <1>8, <1>9, <5>1
            <4> QED
                BY <4>1
        <3>4. at < 0 => d.queue = SubSeq(Rom, j + 2, Len(Rom))
            BY DEF Utters
        <3>5. Utters(e, at, said + 1, j)
            <4>1. e.out = rest /\ e.queue = d.queue
                BY <1>15, <3>1
            <4>2. j \in 0 .. Len(Wanted(at)) - 1
                BY <1>2
            <4>3. (said + 1) + Len(e.out) = j * ByteBits + ByteBits
                BY <1>5, <1>7, <3>2, <4>1
            <4>4. \A i \in 1 .. Len(e.out) :
                     e.out[i] = BitsOf(Wanted(at)[j + 1])[ByteBits - Len(e.out) + i]
                BY <1>3, <3>3, <4>1
            <4>5. e.out \in Seq({0, 1}) /\ Len(e.out) \in 1 .. ByteBits
                BY <1>9, <3>2, <4>1
            <4>6. at < 0 => e.queue = SubSeq(Rom, j + 2, Len(Rom))
                BY <3>4, <4>1
            <4> QED
                BY <4>2, <4>3, <4>4, <4>5, <4>6 DEF Utters
        <3> QED
            BY <3>5
    <2> QED
        BY <2>1, <2>2
<1> QED
    <2>1. /\ IsPart(e) /\ e.started = d.started
          /\ bit = 0 => e.pulling /\ e.release = (t + WriteZeroLow) % Wrap
          /\ bit # 0 => e.pulling = d.pulling /\ e.release = d.release
        BY <1>15, <1>17 DEF SamePull
    <2>2. said + 1 # ByteBits * Len(Wanted(at)) => \E k : Utters(e, at, said + 1, k)
        BY <1>2, <1>5, <1>7, <1>18
    <2> QED
        BY <1>3, <1>9, <1>10, <2>1, <2>2 DEF HasSaid

-----------------------------------------------------------------------------
(* The moments of a slot. *)
LEMMA Sums ==
    ASSUME NEW t \in Ticks, NEW a \in 0 .. 12, NEW b \in 0 .. 12
    PROVE  /\ (((t + a) % Wrap) + b) % Wrap = (t + (a + b)) % Wrap
           /\ (t + a) % Wrap \in Ticks
<1>1. Wrap \in Nat /\ 2 * Half <= Wrap /\ Half \in Nat /\ Half >= 24
    BY HalfIsLong
<1>2. PICK n \in Nat, o \in Nat : n = t + a /\ o = t + (a + b) /\ n < 2 * Wrap /\ o < 2 * Wrap
    BY <1>1 DEF Ticks
<1>3. PICK x, y : x = n % Wrap /\ y = o % Wrap
    OBVIOUS
<1>4. /\ x \in Ticks /\ (x = n \/ x = n - Wrap)
      /\ y \in Ticks /\ (y = o \/ y = o - Wrap)
    BY <1>2, <1>3, Wraps
<1>5. PICK p \in Nat : p = x + b /\ p < 2 * Wrap
    BY <1>1, <1>4 DEF Ticks
<1>6. PICK z : z = p % Wrap
    OBVIOUS
<1>7. z \in Ticks /\ (z = p \/ z = p - Wrap)
    BY <1>5, <1>6, Wraps
<1>8. z = y
    <2>1. /\ x \in 0 .. Wrap - 1 /\ y \in 0 .. Wrap - 1 /\ z \in 0 .. Wrap - 1
          /\ (x = n \/ x = n - Wrap) /\ (y = o \/ y = o - Wrap) /\ (z = p \/ z = p - Wrap)
        BY <1>4, <1>7 DEF Ticks
    <2> QED
        BY <1>1, <1>2, <1>5, <2>1 DEF Ticks
<1> QED
    BY <1>2, <1>3, <1>4, <1>5, <1>6, <1>8

LEMMA Apart ==
    ASSUME NEW t \in Ticks, NEW k \in 0 .. 12
    PROVE  After(t, (t + k) % Wrap, k)
<1>1. Wrap \in Nat /\ Half \in Nat /\ Half >= 24
    BY HalfIsLong
<1>2. After(t, t, 0)
    BY <1>1 DEF After, Ticks
<1>3. 0 + k < Half /\ k \in Nat /\ 0 + k = k
    BY <1>1
<1> QED
    BY <1>2, <1>3, Later

(* It is not long since the line was let go, for the slots spent. *)
InTime(d, t, spent) ==
    \E e \in Nat : After(d.release, t, e) /\ e <= LongestSlot * spent + 2

(* One slot later, when nothing has pulled the line meanwhile, it is not   *)
(* long either, and the line was free when it was looked at.               *)
LEMMA StaysInTime ==
    ASSUME NEW d, NEW t, NEW spent \in Nat, spent + 1 <= Slots, InTime(d, t, spent),
           NEW held \in 1 .. LongestZero, NEW wait \in 1 .. 3, held + wait <= LongestZero + 1,
           NEW e, e.release = d.release
    PROVE  LET seen == (((t + held) % Wrap) + wait) % Wrap
           IN  Line(e, seen) /\ InTime(e, (seen + Recovery) % Wrap, spent + 1)
<1>1. PICK long \in Nat, past \in Nat :
         /\ long = LongestSlot /\ past = LongestSlot * spent /\ long = LongestZero + 5
         /\ LongestSlot * (spent + 1) = past + long /\ past + 3 * long <= Half
         /\ Half \in Nat /\ LongestZero \in Nat
    BY HalfIs, SlotsTake
<1>2. PICK f \in Nat : After(e.release, t, f) /\ f <= past + 2
    BY <1>1 DEF InTime
<1>3. f + held + wait + 4 < Half
    BY <1>1, <1>2, HalfIs
<1>4. PICK up : up = (t + held) % Wrap
    OBVIOUS
<1>5. After(e.release, up, f + held) /\ f + held \in Nat
    BY <1>1, <1>2, <1>3, <1>4, Later
<1>6. PICK seen : seen = (up + wait) % Wrap
    OBVIOUS
<1>7. After(e.release, seen, f + held + wait) /\ f + held + wait \in Nat
    BY <1>1, <1>3, <1>5, <1>6, Later
<1>8. Line(e, seen)
    <2>1. f + held + wait < Half
        BY <1>1, <1>3, <1>7
    <2> QED
        BY <1>7, <2>1, FreeAfter
<1>9. After(e.release, (seen + 4) % Wrap, f + held + wait + 4)
    BY <1>1, <1>3, <1>7, Later
<1>10. f + held + wait + 4 <= LongestSlot * (spent + 1) + 2 /\ f + held + wait + 4 \in Nat
    BY <1>1, <1>2
<1>11. InTime(e, (seen + 4) % Wrap, spent + 1)
    BY <1>9, <1>10 DEF InTime
<1> QED
    BY <1>4, <1>6, <1>8, <1>11 DEF Recovery

(* Released, by how long the line was held. *)
LEMMA ReleasedIs ==
    ASSUME NEW d, NEW t
    PROVE  /\ Released(d, 6, t) = PresencePulse(d, t)
           /\ \A held \in 2 .. LongestZero :
                 held \notin ResetLow .. ResetHigh => Released(d, held, t) = BitIn(d, 0)
           /\ d.out = << >> => Released(d, 1, t) = BitIn(d, 1)
           /\ d.out # << >> => Released(d, 1, t) = BitOut(d, t)
<1>1. Released(d, 6, t) = PresencePulse(d, t)
    BY DEF Released, ResetLow, ResetHigh, WriteZeroLow
<1>2. ASSUME NEW held \in 2 .. LongestZero, held \notin ResetLow .. ResetHigh
      PROVE  Released(d, held, t) = BitIn(d, 0)
    <2>1. held >= WriteZeroLow
        BY HalfIs DEF WriteZeroLow
    <2> QED
        BY <1>2, <2>1, Zenon DEF Released
<1>4. ASSUME d.out = << >> PROVE Released(d, 1, t) = BitIn(d, 1)
    BY <1>4 DEF Released, ResetLow, ResetHigh, WriteZeroLow
<1>5. ASSUME d.out # << >> PROVE Released(d, 1, t) = BitOut(d, t)
    BY <1>5 DEF Released, ResetLow, ResetHigh, WriteZeroLow
<1> QED
    BY <1>1, <1>2, <1>4, <1>5

(* A bit more of the answer. *)
LEMMA SaidBits ==
    ASSUME NEW at \in Reads, NEW bits \in Seq({0, 1}), AreBitsOf(bits, Wanted(at)),
           NEW d, NEW j, Utters(d, at, Len(bits), j), NEW bit \in {0, 1},
           bit = BitsOf(Wanted(at)[j + 1])[Len(bits) - j * ByteBits + 1]
    PROVE  AreBitsOf(Append(bits, bit), Wanted(at))
<1>1. ByteBits \in Nat /\ ByteBits >= 2
    BY WireAssumption
<1>2. PICK len \in Nat, s \in Nat, more \in Seq({0, 1}) :
         /\ len = Len(Wanted(at)) /\ s = Len(bits) /\ more = Append(bits, bit) /\ Len(more) = s + 1
         /\ more[s + 1] = bit /\ \A n \in 1 .. s : more[n] = bits[n]
    <2>1. PICK len \in Nat : len = Len(Wanted(at))
        BY WantedAre
    <2>2. PICK more : more = Append(bits, bit)
        OBVIOUS
    <2>3. /\ more \in Seq({0, 1}) /\ Len(more) = Len(bits) + 1
          /\ more[Len(bits) + 1] = bit
          /\ \A n \in 1 .. Len(bits) : more[n] = bits[n]
        BY <2>2
    <2>4. Len(bits) \in Nat
        OBVIOUS
    <2> QED
        BY <2>1, <2>2, <2>3, <2>4
<1>3. j \in 0 .. len - 1 /\ j \in Nat
    BY <1>2, WantedAre DEF Utters
<1>4. PICK a \in Nat : a = j * ByteBits
    BY <1>1, <1>3, SMT
<1>5. PICK x \in 1 .. ByteBits : x = s - a + 1 /\ s + 1 = a + x
    <2>1. PICK m \in 1 .. ByteBits : m = Len(d.out)
        BY DEF Utters
    <2>2. s + Len(d.out) = j * ByteBits + ByteBits
        BY <1>2 DEF Utters
    <2>3. s + m = a + ByteBits
        BY <1>4, <2>1, <2>2
    <2>4. s - a + 1 \in 1 .. ByteBits /\ s + 1 = a + (s - a + 1)
        BY <1>1, <2>1, <2>3
    <2> QED
        BY <2>4
<1>6. ASSUME NEW m \in 0 .. len - 1, NEW i \in 1 .. ByteBits, m * ByteBits + i <= s + 1
      PROVE  more[m * ByteBits + i] = BitsOf(Wanted(at)[m + 1])[i]
    <2>1. PICK c \in Nat : c = m * ByteBits /\ c + i <= s + 1
        BY <1>1, <1>6, SMT
    <2>2. CASE c + i <= s
        <3>1. bits[m * ByteBits + i] = BitsOf(Wanted(at)[m + 1])[i]
            BY <1>2, <2>1, <2>2 DEF AreBitsOf
        <3>2. c + i \in 1 .. s
            BY <2>1, <2>2
        <3> QED
            BY <1>2, <2>1, <3>1, <3>2
    <2>3. CASE c + i = s + 1
        <3>1. m * ByteBits + i = j * ByteBits + x
            BY <1>4, <1>5, <2>1, <2>3
        <3>2. m = j /\ i = x
            BY <1>3, <3>1, BytePlaces, m \in Nat
        <3>3. Len(bits) - j * ByteBits + 1 = i
            BY <1>2, <1>4, <1>5, <3>2
        <3>4. more[c + i] = bit
            BY <1>2, <2>3
        <3> QED
            BY <2>1, <3>2, <3>3, <3>4
    <2> QED
        BY <2>1, <2>2, <2>3
<1> QED
    BY <1>2, <1>6 DEF AreBitsOf

-----------------------------------------------------------------------------
(* The invariant. *)
IsShaped(k) ==
    k = [stage |-> k.stage, at |-> k.at, sent |-> k.sent, got |-> k.got, torn |-> k.torn,
         mistaken |-> k.mistaken]

IsRead(k) ==
    /\ IsShaped(k) /\ ~k.mistaken
    /\ k.at \in Reads /\ k.sent \in Nat /\ k.got \in Seq({0, 1})

(* The part has heard what the kernel has sent of its request, *)
IsAsking(d, t, k) ==
    /\ IsRead(k) /\ IsPart(d) /\ d.started
    /\ k.got = << >> /\ ~k.torn
    /\ \E j : Hears(d, k.at, k.sent, j)
    /\ InTime(d, t, k.sent)

(* the kernel has got what the part has said of its answer, *)
IsReading(d, t, k) ==
    /\ IsRead(k) /\ IsPart(d) /\ d.started
    /\ k.sent = ByteBits * Len(RequestBytes(k.at))
    /\ k.torn \/ AreBitsOf(k.got, Wanted(k.at))
    /\ \E j : Utters(d, k.at, Len(k.got), j)
    /\ InTime(d, t, k.sent + Len(k.got))

(* and in the end it has all of it. *)
IsComplete(k) ==
    /\ IsRead(k)
    /\ k.torn \/ (AreBitsOf(k.got, Wanted(k.at)) /\ Len(k.got) = ByteBits * Len(Wanted(k.at)))

(* Of a read of which the part took a bit for a reset nothing is known. *)
IsMistaken(k) == IsShaped(k) /\ k.mistaken

WireInv ==
    /\ now \in Ticks
    /\ \/ kernel.stage = "none"
       \/ IsMistaken(kernel)
       \/ kernel.stage = "asking" /\ IsAsking(dev, now, kernel)
       \/ kernel.stage = "reading" /\ IsReading(dev, now, kernel)
       \/ kernel.stage = "done" /\ IsComplete(kernel)

(* A read is over within so many slots. *)
LEMMA HearsWithin ==
    ASSUME NEW at \in Reads, NEW d, NEW sent, NEW j, Hears(d, at, sent, j)
    PROVE  sent \in Nat /\ sent + 1 <= Slots /\ sent + 1 <= ByteBits * Len(RequestBytes(at))
<1>1. ByteBits \in Nat /\ Len(Rom) \in Nat
    BY WireAssumption
<1>2. PICK len \in Nat, m \in Nat : /\ len = Len(RequestBytes(at)) /\ j \in 0 .. len - 1 /\ len <= 4
                                    /\ m = Len(d.in) /\ m < ByteBits
    <2>1. PICK len \in Nat : len = Len(RequestBytes(at)) /\ len <= 4
        <3>1. PICK q \in {1, 4} : q = Len(RequestBytes(at))
            BY RequestBytesAre
        <3>2. q \in Nat /\ q <= 4
            OBVIOUS
        <3> QED
            BY <3>1, <3>2
    <2>2. j \in 0 .. Len(RequestBytes(at)) - 1 /\ Len(d.in) \in Nat /\ Len(d.in) < ByteBits
        BY DEF Hears
    <2> QED
        BY <2>1, <2>2
<1>3. PICK a \in Nat, b \in Nat : a = j * ByteBits /\ b = ByteBits * len /\ a + ByteBits <= b
    BY <1>2, PlacesWithin
<1>4. PICK s \in Nat : s = sent /\ s = a + m
    <2>1. sent = j * ByteBits + Len(d.in)
        BY DEF Hears
    <2> QED
        BY <1>2, <1>3, <2>1
<1>5. s + 1 <= b
    <2>1. m < ByteBits
        BY <1>2
    <2> QED
        BY <1>1, <1>3, <1>4, <2>1
<1>6. b <= Slots
    <2>1. PICK n \in Nat : n = Len(Rom) + 4 /\ len <= n
        BY <1>1, <1>2
    <2>2. ByteBits * len <= ByteBits * n
        BY <1>1, <2>1, SMT
    <2> QED
        BY <1>3, <2>1, <2>2 DEF Slots
<1> QED
    BY <1>2, <1>3, <1>4, <1>5, <1>6, HalfIs

LEMMA SaysWithin ==
    ASSUME NEW at \in Reads, NEW d, NEW said \in Nat, NEW j, Utters(d, at, said, j)
    PROVE  /\ said + 1 <= ByteBits * Len(Wanted(at))
           /\ ByteBits * Len(RequestBytes(at)) \in Nat
           /\ ByteBits * Len(RequestBytes(at)) + said + 1 <= Slots
<1>1. ByteBits \in Nat /\ Len(Rom) \in Nat
    BY WireAssumption
<1>2. PICK len \in Nat, m \in Nat : /\ len = Len(Wanted(at)) /\ j \in 0 .. len - 1 /\ len <= Len(Rom)
                                    /\ m = Len(d.out) /\ m >= 1
    BY <1>1, WantedAre DEF Utters
<1>3. PICK a \in Nat, b \in Nat : a = j * ByteBits /\ b = ByteBits * len /\ a + ByteBits <= b
    BY <1>2, PlacesWithin
<1>4. said + m = a + ByteBits
    <2>1. said + Len(d.out) = j * ByteBits + ByteBits
        BY DEF Utters
    <2> QED
        BY <1>2, <1>3, <2>1
<1>5. said + 1 <= b
    <2>1. m >= 1
        BY <1>2
    <2> QED
        BY <1>1, <1>3, <1>4, <2>1
<1>6. PICK r \in Nat : r = ByteBits * Len(RequestBytes(at)) /\ r + b <= Slots
    <2>1. PICK n \in Nat, q \in Nat : n = Len(Rom) /\ len <= n /\ q = Len(RequestBytes(at)) /\ q <= 4
        <3>1. PICK q \in {1, 4} : q = Len(RequestBytes(at))
            BY RequestBytesAre
        <3>2. q \in Nat /\ q <= 4
            OBVIOUS
        <3>3. PICK n \in Nat : n = Len(Rom) /\ len <= n
            BY <1>1, <1>2
        <3> QED
            BY <3>1, <3>2, <3>3
    <2>2. ByteBits * len <= ByteBits * n /\ ByteBits * q <= ByteBits * 4
          /\ ByteBits * (n + 4) = ByteBits * n + ByteBits * 4 /\ ByteBits * q \in Nat
          /\ ByteBits * n \in Nat /\ ByteBits * 4 \in Nat
        BY <1>1, <2>1, SMT
    <2>3. PICK w, x, y, z \in Nat : w = ByteBits * n /\ x = ByteBits * 4 /\ y = ByteBits * q /\ z = Slots
        BY <2>2, HalfIs
    <2>4. z = w + x /\ y <= x /\ b <= w
        BY <1>3, <2>1, <2>2, <2>3 DEF Slots
    <2>5. w \in Nat /\ x \in Nat
        BY <2>2, <2>3
    <2> QED
        BY <2>1, <2>2, <2>3, <2>4, <2>5
<1>7. r + said + 1 <= Slots
    BY <1>5, <1>6, HalfIs
<1> QED
    BY <1>2, <1>3, <1>5, <1>6, <1>7

-----------------------------------------------------------------------------
(* The first read begins with the reset. *)
LEMMA StartStep ==
    ASSUME WireInv, NEW at \in Reads, StartRead(at)
    PROVE  WireInv'
<1>1. now \in Ticks
    BY DEF WireInv
<1>2. ByteBits \in Nat /\ ByteBits >= 2
    BY WireAssumption
<1>3. PICK up : up = (now + 6) % Wrap
    OBVIOUS
<1>4. /\ up \in Ticks /\ dev' = Released(dev, 6, up) /\ now' \in Ticks
      /\ now' = (((up + 1) % Wrap) + 4) % Wrap
      /\ Sampled(1) <=> Line(dev', (up + 1) % Wrap)
    <2>1. Slot(6, 1)
        BY DEF StartRead, PullReset, SampleAfter
    <2>2. 6 \in 1 .. LongestZero /\ 1 \in 1 .. 3
        BY HalfIs
    <2> QED
        BY <1>1, <1>3, <2>1, <2>2, SlotIs DEF Up, Recovery
<1>5. PICK fresh : fresh = [stage |-> "command", in |-> << >>, out |-> << >>, queue |-> << >>,
                            cursor |-> 0, started |-> TRUE, pulling |-> FALSE, release |-> 0]
    OBVIOUS
<1>6. fresh = [Fresh EXCEPT !.started = TRUE]
    <2>1. PICK no, yes : no = FALSE /\ yes = TRUE
        OBVIOUS
    <2>2. PICK f : f = Fresh
        OBVIOUS
    <2>3. f = [stage |-> "command", in |-> << >>, out |-> << >>, queue |-> << >>, cursor |-> 0,
               started |-> no, pulling |-> no, release |-> 0]
        BY <2>1, <2>2 DEF Fresh
    <2>4. fresh = [stage |-> "command", in |-> << >>, out |-> << >>, queue |-> << >>, cursor |-> 0,
                   started |-> yes, pulling |-> no, release |-> 0]
        BY <1>5, <2>1
    <2>5. fresh = [f EXCEPT !.started = yes]
        BY <2>3, <2>4
    <2> QED
        BY <2>1, <2>2, <2>5
<1>7. dev' = Pulled(fresh, up, 3)
    <2>1. dev' = PresencePulse(dev, up)
        BY <1>4, ReleasedIs
    <2> QED
        BY <1>6, <2>1 DEF PresencePulse, PresenceLow
<1>8. /\ IsPart(dev') /\ dev'.pulling /\ dev'.release = (up + 3) % Wrap /\ dev'.started
      /\ dev'.in = << >> /\ dev'.out = << >> /\ dev'.queue = << >> /\ dev'.stage = "command"
    <2>1. IsPart(fresh) /\ fresh.started
        BY <1>5 DEF IsPart
    <2>2. /\ fresh.in = << >> /\ fresh.out = << >> /\ fresh.queue = << >>
          /\ fresh.stage = "command"
        BY <1>5
    <2> QED
        BY <1>7, <2>1, <2>2, PulledIs
<1>9. PICK seen \in Ticks, release \in Ticks :
         /\ seen = (up + 1) % Wrap /\ release = (up + 3) % Wrap
         /\ release = (seen + 2) % Wrap /\ (seen + 4) % Wrap = (release + 2) % Wrap
    <2>1. 1 \in 0 .. 12 /\ 2 \in 0 .. 12 /\ 3 \in 0 .. 12 /\ 1 + 2 = 3 /\ 2 + 2 = 4
        OBVIOUS
    <2>2. (up + 1) % Wrap \in Ticks /\ (up + 3) % Wrap \in Ticks
          /\ (((up + 1) % Wrap) + 2) % Wrap = (up + 3) % Wrap
        BY <1>4, <2>1, Sums
    <2>3. PICK seen \in Ticks, release \in Ticks :
             seen = (up + 1) % Wrap /\ release = (up + 3) % Wrap /\ release = (seen + 2) % Wrap
        BY <2>2
    <2>4. (((seen + 2) % Wrap) + 2) % Wrap = (seen + 4) % Wrap
        BY <2>1, Sums
    <2> QED
        BY <2>3, <2>4
<1>10. ~Sampled(1)
    <2>1. 2 \in 0 .. 12 /\ 2 \in 1 .. 3
        OBVIOUS
    <2>2. After(seen, release, 2)
        BY <1>9, <2>1, Apart
    <2>3. dev'.release = release
        BY <1>8, <1>9
    <2>4. ~Line(dev', seen)
        BY <1>8, <2>1, <2>2, <2>3, LowBefore
    <2> QED
        BY <1>4, <1>9, <2>4
<1>11. kernel' = [stage |-> "asking", at |-> at, sent |-> 0, got |-> << >>, torn |-> FALSE,
                  mistaken |-> FALSE]
    BY <1>10 DEF StartRead, SampleAfter
<1>12. PICK k, d, t : k = kernel' /\ d = dev' /\ t = now'
    OBVIOUS
<1>13. k = [stage |-> "asking", at |-> at, sent |-> 0, got |-> << >>, torn |-> FALSE,
             mistaken |-> FALSE]
    BY <1>11, <1>12
<1>14. k.stage = "asking" /\ k.at = at /\ k.sent = 0 /\ k.got = << >> /\ ~k.torn /\ IsRead(k)
    BY <1>13 DEF IsRead, IsShaped
<1>15. Hears(d, at, 0, 0)
    <2>1. PICK len \in {1, 4} : len = Len(RequestBytes(at))
        BY RequestBytesAre
    <2>2. 0 \in 0 .. len - 1
        BY <2>1
    <2>3. 0 = 0 * ByteBits + 0
        BY <1>2, SMT
    <2>4. d.in \in Seq({0, 1}) /\ Len(d.in) = 0 /\ 0 < ByteBits
        <3>1. d.in = << >>
            BY <1>8, <1>12
        <3> QED
            BY <1>2, <3>1
    <2>5. d.out = << >> /\ d.queue = << >> /\ d.stage = "command"
        BY <1>8, <1>12
    <2> QED
        BY <2>1, <2>2, <2>3, <2>4, <2>5 DEF Hears
<1>16. InTime(d, t, 0)
    <2>1. t = (release + 2) % Wrap /\ d.release = release
        BY <1>4, <1>8, <1>9, <1>12
    <2>2. 2 \in 0 .. 12 /\ 2 \in Nat /\ 2 <= LongestSlot * 0 + 2
        BY HalfIs
    <2>3. After(release, t, 2)
        BY <2>1, <2>2, Apart
    <2> QED
        BY <2>1, <2>2, <2>3 DEF InTime
<1>17. IsAsking(d, t, k)
    BY <1>8, <1>12, <1>14, <1>15, <1>16 DEF IsAsking
<1> QED
    BY <1>4, <1>12, <1>14, <1>17 DEF WireInv

(* A mistaken read stays one, whatever it sends and is told. *)
LEMMA SendMistaken ==
    ASSUME WireInv, NEW held \in 1 .. LongestZero, SendBit(held),
           IsMistaken(kernel) \/ held \in ResetLow .. ResetHigh
    PROVE  WireInv'
<1>1. now' \in Ticks
    <2>1. Slot(held, 1) /\ now \in Ticks /\ 1 \in 1 .. 3
        BY DEF SendBit, SampleAfter, WireInv
    <2> QED
        BY <2>1, SlotIs
<1>2. IsShaped(kernel)
    BY DEF WireInv, SendBit, IsMistaken, IsAsking, IsRead
<1>3. PICK yes : yes = (kernel.mistaken \/ held \in ResetLow .. ResetHigh)
    OBVIOUS
<1>4. yes
    BY <1>3, Zenon DEF IsMistaken
<1>5. PICK sent, stage : kernel' = [kernel EXCEPT !.sent = sent, !.mistaken = yes, !.stage = stage]
    BY <1>3, Zenon DEF SendBit
<1>6. PICK k, l, st, at, se, go, to, mi :
         /\ k = kernel /\ l = kernel'
         /\ k = [stage |-> st, at |-> at, sent |-> se, got |-> go, torn |-> to, mistaken |-> mi]
    BY <1>2, Zenon DEF IsShaped
<1>7. l = [k EXCEPT !.sent = sent, !.mistaken = yes, !.stage = stage]
    BY <1>5, <1>6, Zenon
<1>8. l = [stage |-> stage, at |-> at, sent |-> sent, got |-> go, torn |-> to, mistaken |-> yes]
    <2>1. k = [stage |-> st, at |-> at, sent |-> se, got |-> go, torn |-> to, mistaken |-> mi]
        BY <1>6, Zenon
    <2> QED
        BY <1>7, <2>1
<1>9. l.mistaken = yes /\ IsShaped(l)
    BY <1>8 DEF IsShaped
<1>10. IsMistaken(kernel')
    BY <1>4, <1>6, <1>9, Zenon DEF IsMistaken
<1> QED
    BY <1>1, <1>10 DEF WireInv

(* A bit of the request. *)
LEMMA SendStep ==
    ASSUME WireInv, NEW held \in 1 .. LongestZero, SendBit(held), (held = 1) <=> (Sending = 1),
           ~IsMistaken(kernel), held \notin ResetLow .. ResetHigh
    PROVE  WireInv'
<1>1. now \in Ticks /\ kernel.stage = "asking" /\ IsAsking(dev, now, kernel)
    BY DEF WireInv, SendBit
<1>2. ByteBits \in Nat /\ ByteBits >= 2
    BY WireAssumption
<1>3. PICK at \in Reads, sent \in Nat : at = kernel.at /\ sent = kernel.sent
    BY <1>1 DEF IsAsking, IsRead
<1>4. PICK j : Hears(dev, at, sent, j)
    BY <1>1, <1>3 DEF IsAsking
<1>5. PICK d : d = dev
    OBVIOUS
<1>6. IsPart(d) /\ d.started /\ d.out = << >> /\ Hears(d, at, sent, j) /\ InTime(d, now, sent)
    BY <1>1, <1>3, <1>4, <1>5 DEF IsAsking, Hears
<1>7. PICK len : len = ByteBits * Len(RequestBytes(at))
    OBVIOUS
<1>8. sent + 1 <= Slots /\ sent + 1 <= len
    BY <1>6, <1>7, HearsWithin
<1>9. Len(Request(kernel)) = len
    BY <1>3, <1>7, RequestIs
<1>10. PICK bit \in {0, 1} : bit = Sending /\ bit = BitsOf(RequestBytes(at)[j + 1])[Len(d.in) + 1]
    <2>1. PICK n \in Nat, m \in Nat : /\ n = Len(RequestBytes(at)) /\ j \in 0 .. n - 1
                                      /\ m = Len(d.in) /\ m < ByteBits
        <3>1. PICK n \in Nat : n = Len(RequestBytes(at))
            BY RequestBytesAre
        <3>2. j \in 0 .. Len(RequestBytes(at)) - 1 /\ Len(d.in) \in Nat /\ Len(d.in) < ByteBits
            BY <1>6 DEF Hears
        <3> QED
            BY <3>1, <3>2
    <2>2. PICK i \in 1 .. ByteBits : i = m + 1
        BY <1>2, <2>1
    <2>3. AreBitsOf(Request(kernel), RequestBytes(at))
        BY <1>3, RequestIs
    <2>4. PICK a \in Nat : a = j * ByteBits
        BY <1>2, <2>1, SMT
    <2>5. sent + 1 = a + i
        <3>1. sent = j * ByteBits + Len(d.in)
            BY <1>6 DEF Hears
        <3>2. sent = a + m
            BY <2>1, <2>4, <3>1
        <3> QED
            BY <2>1, <2>2, <3>2
    <2>6. Request(kernel)[sent + 1] = BitsOf(RequestBytes(at)[j + 1])[i]
        <3>1. j * ByteBits + i <= Len(Request(kernel))
            BY <1>8, <1>9, <2>4, <2>5
        <3>2. Request(kernel)[j * ByteBits + i] = BitsOf(RequestBytes(at)[j + 1])[i]
            BY <2>1, <2>3, <3>1 DEF AreBitsOf
        <3> QED
            BY <2>4, <2>5, <3>2
    <2>7. BitsOf(RequestBytes(at)[j + 1])[i] \in {0, 1}
        <3>1. PICK byte \in Byte : byte = RequestBytes(at)[j + 1]
            BY <2>1, RequestBytesAre
        <3>2. byte \in Nat
            BY <1>2, Weights DEF Byte
        <3> QED
            BY <3>1, <3>2, BitsAre
    <2>8. Sending = Request(kernel)[sent + 1]
        BY <1>3 DEF Sending
    <2> QED
        BY <2>1, <2>2, <2>6, <2>7, <2>8
<1>11. PICK up : up = (now + held) % Wrap
    OBVIOUS
<1>12. PICK seen : seen = (up + 1) % Wrap
    OBVIOUS
<1>13. dev' = Released(d, held, up) /\ now' \in Ticks /\ now' = (seen + Recovery) % Wrap
    <2>1. Slot(held, 1)
        BY DEF SendBit, SampleAfter
    <2>2. held \in 1 .. LongestZero /\ 1 \in 1 .. 3
        OBVIOUS
    <2> QED
        BY <1>1, <1>5, <1>11, <1>12, <2>1, <2>2, SlotIs DEF Up
<1>14. dev' = BitIn(d, bit)
    <2>1. CASE held = 1
        <3>1. bit = 1
            BY <1>10, <2>1
        <3> QED
            BY <1>6, <1>13, <2>1, <3>1, ReleasedIs
    <2>2. CASE held # 1
        <3>1. bit = 0
            BY <1>10, <2>2
        <3>2. held \in 2 .. LongestZero
            BY <2>2, HalfIs
        <3> QED
            BY <1>13, <3>1, <3>2, ReleasedIs
    <2> QED
        BY <2>1, <2>2
<1>15. PICK e, t, k : e = dev' /\ t = now' /\ k = kernel'
    OBVIOUS
<1>16. /\ IsPart(e) /\ SamePull(d, e)
       /\ sent + 1 = len => Utters(e, at, 0, 0)
       /\ sent + 1 # len => \E i : Hears(e, at, sent + 1, i)
    BY <1>6, <1>7, <1>10, <1>14, <1>15, HearsBit
<1>17. InTime(e, t, sent + 1)
    <2>1. e.release = d.release /\ 1 \in 1 .. 3 /\ held + 1 <= LongestZero + 1
        BY <1>16, HalfIs DEF SamePull
    <2> QED
        BY <1>6, <1>8, <1>11, <1>12, <1>13, <1>15, <2>1, StaysInTime
<1>18. PICK stage : stage = IF sent + 1 = len THEN "reading" ELSE "asking"
    OBVIOUS
<1>25. PICK no, was : no = (kernel.mistaken \/ held \in ResetLow .. ResetHigh) /\ was = kernel.torn
    OBVIOUS
<1>26. ~no /\ ~was
    BY <1>1, <1>25, Zenon DEF IsAsking, IsRead
<1>19. kernel' = [kernel EXCEPT !.sent = sent + 1, !.mistaken = no, !.stage = stage]
    <2>1. kernel' = [kernel EXCEPT
                        !.sent = kernel.sent + 1,
                        !.mistaken = kernel.mistaken \/ held \in ResetLow .. ResetHigh,
                        !.stage = IF kernel.sent + 1 = Len(Request(kernel)) THEN "reading" ELSE "asking"]
        BY <1>1, Zenon DEF SendBit
    <2> QED
        BY <1>3, <1>9, <1>18, <1>25, <2>1, Zenon
<1>20. k = [stage |-> stage, at |-> at, sent |-> sent + 1, got |-> << >>, torn |-> was,
            mistaken |-> no]
    <2>1. PICK r, st, mi : r = kernel /\ st = kernel.stage /\ mi = kernel.mistaken
        OBVIOUS
    <2>2. r = [stage |-> st, at |-> at, sent |-> sent, got |-> << >>, torn |-> was, mistaken |-> mi]
        <3>1. r = [stage |-> r.stage, at |-> r.at, sent |-> r.sent, got |-> r.got, torn |-> r.torn,
                   mistaken |-> r.mistaken]
            BY <1>1, <2>1, Zenon DEF IsAsking, IsRead, IsShaped
        <3>2. r.got = << >>
            BY <1>1, <2>1, Zenon DEF IsAsking
        <3> QED
            BY <1>3, <1>25, <2>1, <3>1, <3>2, Zenon
    <2>3. k = [r EXCEPT !.sent = sent + 1, !.mistaken = no, !.stage = stage]
        BY <1>15, <1>19, <2>1, Zenon
    <2> QED
        BY <2>2, <2>3
<1>21. /\ k.stage = stage /\ k.at = at /\ k.sent = sent + 1 /\ k.got = << >> /\ ~k.torn /\ IsRead(k)
    <2>1. /\ k.stage = stage /\ k.at = at /\ k.sent = sent + 1 /\ k.got = << >>
          /\ k.torn = was /\ k.mistaken = no /\ IsShaped(k)
        BY <1>20 DEF IsShaped
    <2> QED
        BY <1>26, <2>1 DEF IsRead
<1>22. e.started
    BY <1>6, <1>16 DEF SamePull
<1>23. CASE sent + 1 = len
    <2>1. k.stage = "reading"
        BY <1>18, <1>21, <1>23
    <2>2. AreBitsOf(<< >>, Wanted(at))
        <3>1. ASSUME NEW m \in 0 .. Len(Wanted(at)) - 1, NEW i \in 1 .. ByteBits
              PROVE  ~(m * ByteBits + i <= 0)
            <4>1. m \in Nat
                BY WantedAre
            <4>2. m * ByteBits \in Nat
                BY <1>2, <4>1, SMT
            <4> QED
                BY <4>2
        <3> QED
            BY <3>1 DEF AreBitsOf
    <2>3. Len(k.got) = 0 /\ k.sent + Len(k.got) = sent + 1
        BY <1>21
    <2>4. Utters(e, at, Len(k.got), 0) /\ InTime(e, t, k.sent + Len(k.got))
        BY <1>16, <1>17, <1>23, <2>3
    <2>5. IsReading(e, t, k)
        BY <1>7, <1>16, <1>21, <1>22, <1>23, <2>2, <2>4 DEF IsReading
    <2> QED
        BY <1>13, <1>15, <2>1, <2>5 DEF WireInv
<1>24. CASE sent + 1 # len
    <2>1. k.stage = "asking"
        BY <1>18, <1>21, <1>24
    <2>2. IsAsking(e, t, k)
        BY <1>16, <1>17, <1>21, <1>22, <1>24 DEF IsAsking
    <2> QED
        BY <1>13, <1>15, <2>1, <2>2 DEF WireInv
<1> QED
    BY <1>23, <1>24

(* A bit of the answer. *)
LEMMA ReadStep ==
    ASSUME WireInv, NEW wait \in {1, 3}, ReadBit(wait), ~IsMistaken(kernel)
    PROVE  WireInv'
<1>1. now \in Ticks /\ kernel.stage = "reading" /\ IsReading(dev, now, kernel)
    BY DEF WireInv, ReadBit
<1>2. ByteBits \in Nat /\ ByteBits >= 2
    BY WireAssumption
<1>3. PICK at \in Reads, sent \in Nat, taken \in Seq({0, 1}) :
         at = kernel.at /\ sent = kernel.sent /\ taken = kernel.got
    BY <1>1 DEF IsReading, IsRead
<1>4. PICK said \in Nat : said = Len(taken)
    BY <1>3
<1>5. PICK d : d = dev
    OBVIOUS
<1>6. PICK j : Utters(d, at, said, j)
    BY <1>1, <1>3, <1>4, <1>5 DEF IsReading
<1>7. /\ IsPart(d) /\ d.started /\ InTime(d, now, sent + said)
      /\ sent = ByteBits * Len(RequestBytes(at)) /\ (kernel.torn \/ AreBitsOf(taken, Wanted(at)))
    BY <1>1, <1>3, <1>4, <1>5 DEF IsReading
<1>8. PICK all \in Nat : all = ByteBits * Len(Wanted(at)) /\ said + 1 <= all /\ sent + said + 1 <= Slots
    <2>1. PICK n \in Nat : n = Len(Wanted(at))
        BY WantedAre
    <2>2. ByteBits * n \in Nat
        BY <1>2, <2>1, SMT
    <2>3. said + 1 <= ByteBits * Len(Wanted(at)) /\ sent + said + 1 <= Slots
        BY <1>6, <1>7, SaysWithin
    <2> QED
        BY <2>1, <2>2, <2>3
<1>9. Want(kernel) = Len(Wanted(at))
    <2>1. at \in Int /\ (at < 0 => Wanted(at) = Rom) /\ (at >= 0 => Len(Wanted(at)) = 1)
        <3>1. Memory \in Seq(Byte)
            BY WireAssumption
        <3>2. at \in Int
            BY <3>1 DEF Reads
        <3> QED
            BY <3>2, WantedAre
    <2>2. Want(kernel) = IF at < 0 THEN Len(Rom) ELSE 1
        BY <1>3 DEF Want
    <2>3. CASE at < 0
        BY <2>1, <2>2, <2>3
    <2>4. CASE at >= 0
        <3>1. ~(at < 0)
            BY <2>1, <2>4
        <3> QED
            BY <2>1, <2>2, <2>4, <3>1
    <2> QED
        BY <2>1, <2>3, <2>4
<1>10. PICK up \in Ticks, seen \in Ticks :
          /\ up = (now + 1) % Wrap /\ seen = (up + wait) % Wrap
          /\ dev' = Released(d, 1, up) /\ now' \in Ticks /\ now' = (seen + 4) % Wrap
          /\ (Sampled(wait) <=> Line(dev', seen))
    <2>1. Slot(1, wait)
        BY DEF ReadBit, PullOne
    <2>2. 1 \in 1 .. LongestZero /\ wait \in 1 .. 3 /\ wait \in 0 .. 12
        BY HalfIs
    <2>3. /\ Up(1) \in Ticks /\ dev' = Released(d, 1, Up(1)) /\ now' \in Ticks
          /\ now' = (((Up(1) + wait) % Wrap) + 4) % Wrap
          /\ Sampled(wait) <=> Line(dev', (Up(1) + wait) % Wrap)
        BY <1>1, <1>5, <2>1, <2>2, SlotIs DEF Recovery
    <2>4. PICK up \in Ticks : up = Up(1) /\ up = (now + 1) % Wrap
        BY <2>3 DEF Up
    <2>5. (up + wait) % Wrap \in Ticks
        BY <2>2, Sums, 0 \in 0 .. 12
    <2> QED
        BY <2>3, <2>4, <2>5
<1>11. PICK e, t, k : e = dev' /\ t = now' /\ k = kernel'
    OBVIOUS
<1>12. e = BitOut(d, up)
    <2>1. d.out # << >>
        BY <1>6 DEF Utters
    <2> QED
        BY <1>10, <1>11, <2>1, ReleasedIs
<1>13. PICK bit \in {0, 1} :
          /\ bit = BitsOf(Wanted(at)[j + 1])[said - j * ByteBits + 1]
          /\ IsPart(e) /\ e.started
          /\ bit = 0 => e.pulling /\ e.release = (up + 2) % Wrap
          /\ bit # 0 => e.release = d.release
          /\ said + 1 # all => \E i : Utters(e, at, said + 1, i)
    <2>4. HasSaid(d, at, said, j, up, e)
        BY <1>6, <1>7, <1>12, SaysBit
    <2>1. PICK bit \in {0, 1} : bit = Head(d.out)
        BY <2>4 DEF HasSaid
    <2>2. /\ Head(d.out) \in {0, 1} /\ IsPart(e) /\ e.started = d.started
          /\ Head(d.out) = BitsOf(Wanted(at)[j + 1])[said - j * ByteBits + 1]
          /\ Head(d.out) = 0 => e.pulling /\ e.release = (up + WriteZeroLow) % Wrap
          /\ Head(d.out) # 0 => e.pulling = d.pulling /\ e.release = d.release
          /\ said + 1 # ByteBits * Len(Wanted(at)) => \E i : Utters(e, at, said + 1, i)
        BY <2>4 DEF HasSaid
    <2>3. e.started
        BY <1>7, <2>2
    <2> QED
        BY <1>8, <2>1, <2>2, <2>3 DEF WriteZeroLow
<1>14. InTime(e, t, sent + said + 1) /\ (wait = 1 => (Sampled(1) <=> bit = 1))
    <2>1. CASE bit = 1
        <3>1. /\ e.release = d.release /\ 1 \in 1 .. LongestZero /\ wait \in 1 .. 3
              /\ 1 + wait <= LongestZero + 1
            BY <1>13, <2>1, HalfIs
        <3>2. PICK spent \in Nat : spent = sent + said /\ spent + 1 <= Slots /\ spent + 1 = sent + said + 1
            BY <1>8
        <3>3. InTime(d, now, spent)
            BY <1>7, <3>2
        <3>4. Line(e, seen) /\ InTime(e, t, spent + 1)
            BY <1>10, <1>11, <3>1, <3>2, <3>3, StaysInTime DEF Recovery
        <3> QED
            BY <1>10, <1>11, <2>1, <3>2, <3>4
    <2>2. CASE bit = 0
        <3>1. /\ 1 \in 0 .. 12 /\ 2 \in 0 .. 12 /\ wait \in 0 .. 12 /\ 4 \in 0 .. 12
              /\ wait + 2 \in 0 .. 12 /\ wait + 2 \in Nat /\ 2 + (wait + 2) = wait + 4
            OBVIOUS
        <3>2. PICK release \in Ticks : release = (up + 2) % Wrap /\ e.release = release
            BY <1>13, <2>2, <3>1, Sums
        <3>3. t = (release + (wait + 2)) % Wrap
            <4>1. (((up + wait) % Wrap) + 4) % Wrap = (up + (wait + 4)) % Wrap
                BY <3>1, Sums
            <4>2. (((up + 2) % Wrap) + (wait + 2)) % Wrap = (up + (2 + (wait + 2))) % Wrap
                BY <3>1, Sums
            <4> QED
                BY <1>10, <1>11, <3>1, <3>2, <4>1, <4>2
        <3>4. After(release, t, wait + 2)
            BY <3>1, <3>3, Apart
        <3>5. wait + 2 <= LongestSlot * (sent + said + 1) + 2
            <4>1. PICK spent \in Nat : spent = sent + said /\ spent + 1 <= Slots
                                       /\ sent + said + 1 = spent + 1
                BY <1>8
            <4>2. /\ LongestSlot * spent \in Nat /\ LongestSlot >= 12
                  /\ LongestSlot * (spent + 1) = LongestSlot * spent + LongestSlot
                BY <4>1, SlotsTake, HalfIs
            <4>3. PICK a \in Nat, b \in Nat :
                     /\ b = LongestSlot /\ a = LongestSlot * spent /\ b >= 12
                     /\ LongestSlot * (spent + 1) = a + b
                BY <4>2, HalfIs
            <4>4. wait + 2 <= LongestSlot * (spent + 1) + 2
                BY <4>3
            <4> QED
                BY <4>1, <4>4
        <3>6. InTime(e, t, sent + said + 1)
            BY <3>1, <3>2, <3>4, <3>5 DEF InTime
        <3>7. ASSUME wait = 1 PROVE ~Line(e, seen)
            <4>1. (((up + 1) % Wrap) + 1) % Wrap = (up + (1 + 1)) % Wrap
                BY <3>1, Sums
            <4>2. release = (seen + 1) % Wrap
                BY <1>10, <3>2, <3>7, <4>1
            <4>3. After(seen, release, 1) /\ 1 \in 1 .. 3
                BY <3>1, <4>2, Apart
            <4> QED
                BY <1>13, <2>2, <3>2, <4>3, LowBefore
        <3> QED
            BY <1>10, <1>11, <2>2, <3>6, <3>7
    <2> QED
        BY <2>1, <2>2
<1>15. PICK b \in {0, 1} : b = IF Sampled(wait) THEN 1 ELSE 0
    OBVIOUS
<1>16. PICK more \in Seq({0, 1}) : more = Append(taken, b) /\ Len(more) = said + 1
    <2>1. PICK more : more = Append(taken, b)
        OBVIOUS
    <2>2. more \in Seq({0, 1}) /\ Len(more) = Len(taken) + 1
        BY <2>1
    <2> QED
        BY <1>4, <2>1, <2>2
<1>17. PICK torn : /\ torn = (kernel.torn \/ wait > SampleAfter)
    OBVIOUS
<1>18. PICK stage : stage = IF said + 1 = all THEN "done" ELSE "reading"
    OBVIOUS
<1>19. kernel' = [kernel EXCEPT !.got = more, !.torn = torn, !.stage = stage]
    <2>1. Len(kernel.got) + 1 = said + 1 /\ ByteBits * Want(kernel) = all
        BY <1>3, <1>4, <1>8, <1>9
    <2>2. kernel' = [kernel EXCEPT
                        !.got = Append(taken, b),
                        !.torn = kernel.torn \/ wait > SampleAfter,
                        !.stage = IF said + 1 = all THEN "done" ELSE "reading"]
        BY <1>1, <1>3, <1>15, <2>1, Zenon DEF ReadBit
    <2> QED
        BY <1>16, <1>17, <1>18, <2>2, Zenon
<1>25. PICK no : no = kernel.mistaken
    OBVIOUS
<1>20. k = [stage |-> stage, at |-> at, sent |-> sent, got |-> more, torn |-> torn,
            mistaken |-> no]
    <2>1. PICK r, was, st : r = kernel /\ was = kernel.torn /\ st = kernel.stage
        OBVIOUS
    <2>2. IsRead(r)
        BY <1>1, <2>1 DEF IsReading
    <2>3. r = [stage |-> st, at |-> at, sent |-> sent, got |-> taken, torn |-> was, mistaken |-> no]
        <3>1. r = [stage |-> r.stage, at |-> r.at, sent |-> r.sent, got |-> r.got, torn |-> r.torn,
                   mistaken |-> r.mistaken]
            BY <2>2 DEF IsRead, IsShaped
        <3> QED
            BY <1>3, <1>25, <2>1, <3>1, Zenon
    <2>4. k = [r EXCEPT !.got = more, !.torn = torn, !.stage = stage]
        BY <1>11, <1>19, <2>1
    <2> QED
        BY <2>3, <2>4
<1>21. k.stage = stage /\ k.at = at /\ k.sent = sent /\ k.got = more /\ k.torn = torn /\ IsRead(k)
    <2>1. /\ k.stage = stage /\ k.at = at /\ k.sent = sent /\ k.got = more
          /\ k.torn = torn /\ k.mistaken = no /\ IsShaped(k)
        BY <1>20 DEF IsShaped
    <2>2. ~no
        BY <1>1, <1>25, Zenon DEF IsReading, IsRead
    <2> QED
        BY <2>1, <2>2 DEF IsRead
<1>22. k.torn \/ AreBitsOf(more, Wanted(at))
    <2>1. ASSUME ~torn PROVE AreBitsOf(more, Wanted(at))
        <3>1. ~kernel.torn /\ ~(wait > SampleAfter)
            BY <1>17, <2>1, Zenon
        <3>2. wait = 1
            BY <3>1 DEF SampleAfter
        <3>3. b = bit
            BY <1>13, <1>14, <1>15, <3>2
        <3>4. AreBitsOf(taken, Wanted(at)) /\ Utters(d, at, Len(taken), j)
            BY <1>4, <1>6, <1>7, <3>1
        <3>5. bit = BitsOf(Wanted(at)[j + 1])[Len(taken) - j * ByteBits + 1]
            BY <1>4, <1>13
        <3>6. AreBitsOf(Append(taken, bit), Wanted(at))
            BY <3>4, <3>5, SaidBits
        <3> QED
            BY <1>16, <3>3, <3>6
    <2> QED
        BY <1>21, <2>1
<1>23. CASE said + 1 = all
    <2>1. k.stage = "done"
        BY <1>18, <1>21, <1>23
    <2>2. IsComplete(k)
        BY <1>8, <1>16, <1>21, <1>22, <1>23 DEF IsComplete
    <2> QED
        BY <1>10, <1>11, <2>1, <2>2 DEF WireInv
<1>24. CASE said + 1 # all
    <2>1. k.stage = "reading"
        BY <1>18, <1>21, <1>24
    <2>2. \E i : Utters(e, at, Len(k.got), i)
        BY <1>13, <1>16, <1>21, <1>24
    <2>3. InTime(e, t, k.sent + Len(k.got))
        <3>1. k.sent + Len(k.got) = sent + said + 1
            <4>1. PICK l \in Nat : l = Len(more) /\ l = said + 1
                BY <1>16
            <4>2. sent + l = sent + said + 1
                BY <4>1
            <4> QED
                BY <1>21, <4>1, <4>2
        <3> QED
            BY <1>14, <3>1
    <2>4. IsReading(e, t, k)
        BY <1>7, <1>13, <1>21, <1>22, <2>2, <2>3 DEF IsReading
    <2> QED
        BY <1>10, <1>11, <2>1, <2>4 DEF WireInv
<1> QED
    BY <1>23, <1>24

(* A mistaken read, which ends as one. *)
LEMMA ReadMistaken ==
    ASSUME WireInv, NEW wait \in {1, 3}, ReadBit(wait), IsMistaken(kernel)
    PROVE  WireInv'
<1>1. now' \in Ticks
    <2>1. Slot(1, wait) /\ now \in Ticks /\ 1 \in 1 .. LongestZero /\ wait \in 1 .. 3
        BY HalfIs DEF ReadBit, PullOne, WireInv
    <2> QED
        BY <2>1, SlotIs
<1>2. IsShaped(kernel)
    BY DEF IsMistaken
<1>3. PICK bits, torn, stage : kernel' = [kernel EXCEPT !.got = bits, !.torn = torn, !.stage = stage]
    BY Zenon DEF ReadBit
<1>4. PICK k, l, st, at, se, go, to, mi :
         /\ k = kernel /\ l = kernel'
         /\ k = [stage |-> st, at |-> at, sent |-> se, got |-> go, torn |-> to, mistaken |-> mi]
    BY <1>2, Zenon DEF IsShaped
<1>5. l = [k EXCEPT !.got = bits, !.torn = torn, !.stage = stage]
    BY <1>3, <1>4, Zenon
<1>6. l = [stage |-> stage, at |-> at, sent |-> se, got |-> bits, torn |-> torn, mistaken |-> mi]
    <2>1. k = [stage |-> st, at |-> at, sent |-> se, got |-> go, torn |-> to, mistaken |-> mi]
        BY <1>4, Zenon
    <2> QED
        BY <1>5, <2>1
<1>7. l.mistaken = mi /\ k.mistaken = mi /\ IsShaped(l)
    BY <1>4, <1>6 DEF IsShaped
<1>8. IsMistaken(kernel')
    BY <1>4, <1>7, Zenon DEF IsMistaken
<1> QED
    BY <1>1, <1>8 DEF WireInv

(* The kernel does something else, or starts afresh. *)
LEMMA WaitStep == ASSUME WireInv, Wait PROVE WireInv'
<1>1. PICK w \in Nat, n \in Nat : w = Wrap /\ n = now /\ n < w
    BY HalfIs DEF WireInv, Ticks
<1>2. PICK q \in Nat : q = Quarter /\ q >= 1
    BY HalfIs, <1>1 DEF Quarter
<1>3. PICK m \in Nat : m = (n \div q + 1) * q
    <2>1. n \div q \in Nat
        BY <1>2
    <2>2. PICK o \in Nat : o = n \div q + 1
        BY <2>1
    <2>3. o * q \in Nat
        BY <1>2, <2>2, SMT
    <2> QED
        BY <2>2, <2>3
<1>4. now' = m % Wrap
    BY <1>1, <1>2, <1>3 DEF Wait
<1>5. m % w \in 0 .. w - 1
    BY <1>1
<1>6. now' \in Ticks
    BY <1>1, <1>4, <1>5 DEF Ticks
<1>7. kernel'.stage = "none"
    BY DEF Wait, NoRead
<1> QED
    BY <1>6, <1>7 DEF WireInv

LEMMA WireSteps == WireInv /\ [WireNext]_wireVars => WireInv'
<1> SUFFICES ASSUME WireInv, [WireNext]_wireVars PROVE WireInv'
    OBVIOUS
<1>1. ASSUME NEW at \in {-1} \cup {a - 1 : a \in DOMAIN Memory}, StartRead(at) PROVE WireInv'
    <2>1. at \in Reads
        BY WireAssumption DEF Reads
    <2> QED
        BY <1>1, <2>1, StartStep
<1>2. CASE Ask
    <2>1. PICK held \in 1 .. LongestZero : SendBit(held) /\ held = IF Sending = 1 THEN 1 ELSE 3
        BY <1>2, HalfIs DEF Ask, PullOne, PullZero
    <2>2. ((held = 1) <=> (Sending = 1)) /\ held \notin ResetLow .. ResetHigh
        BY <2>1 DEF ResetLow, ResetHigh
    <2> QED
        BY <2>1, <2>2, SendStep, SendMistaken
<1>3. CASE AskSlowly
    <2>1. PICK held \in Slow : SendBit(held) /\ Sending = 0
        BY <1>3 DEF AskSlowly
    <2>2. held \in 1 .. LongestZero /\ ((held = 1) <=> (Sending = 1))
        BY <2>1, WireAssumption DEF WriteZeroLow
    <2> QED
        BY <2>1, <2>2, SendStep, SendMistaken
<1>4. CASE ReadNext
    BY <1>4, ReadStep, ReadMistaken DEF ReadNext, SampleAfter
<1>5. CASE ReadLate
    BY <1>5, ReadStep, ReadMistaken DEF ReadLate, WriteZeroLow
<1>6. CASE TakeRead
    BY <1>6, WaitStep DEF TakeRead
<1>7. CASE LeaveOff
    BY <1>7, WaitStep DEF LeaveOff
<1>8. CASE UNCHANGED wireVars
    BY <1>8 DEF WireInv, wireVars
<1> QED
    BY <1>1, <1>2, <1>3, <1>4, <1>5, <1>6, <1>7, <1>8 DEF WireNext

(* A read in time, of which no zero was drawn out to the length of a       *)
(* reset, has the bytes of the part, however long its zeros were.          *)
THEOREM SerialRead == WireSpec => []ReadsAreOfThePart
<1>1. WireInit => WireInv
    BY HalfIs DEF WireInit, WireInv, NoRead, Ticks
<1>2. WireInv => ReadsAreOfThePart
    <2> SUFFICES ASSUME WireInv, kernel.stage = "done", ~kernel.torn, ~kernel.mistaken
                 PROVE  Bytes(kernel.got) = IF kernel.at < 0 THEN Rom ELSE << Memory[kernel.at + 1] >>
        BY DEF ReadsAreOfThePart, ReadIsOfThePart
    <2>1. IsComplete(kernel)
        BY DEF WireInv, IsMistaken
    <2>2. Bytes(kernel.got) = Wanted(kernel.at)
        BY <2>1, WantedAre, BytesAre DEF IsComplete, IsRead
    <2> QED
        BY <2>2 DEF Wanted
<1> QED
    BY <1>1, <1>2, WireSteps, PTL DEF WireSpec
=============================================================================
