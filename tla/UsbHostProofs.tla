--------------------------- MODULE UsbHostProofs ---------------------------
(***************************************************************************)
(* Theorems about UsbHost, for any drive, descriptors, commands, requests, *)
(* limit of a service and number of resets.  The queues are whole, whoever *)
(* asks for what and whenever the machine is reset; and, with drivers that *)
(* reset the drive, each is told what it asked and the data is right.      *)
(***************************************************************************)
EXTENDS UsbHost, FiniteSetTheorems, SequenceTheorems, WellFoundedInduction, TLAPS

Live == up \in {"resetting", "up"}

-----------------------------------------------------------------------------
(* The parts of the invariant: the lists. *)

(* Descriptors have their fields. *)
IsTransfer(d) ==
    d = [pid |-> d.pid, what |-> d.what, want |-> d.want, next |-> d.next, done |-> d.done,
         stalled |-> d.stalled, got |-> d.got]
IsEndpoint(d) == d = [head |-> d.head, tail |-> d.tail, halted |-> d.halted]

Formed ==
    /\ td = [t \in Tds |-> td[t]] /\ \A t \in Tds : IsTransfer(td[t])
    /\ ed = [e \in Eds |-> ed[e]] /\ \A e \in Eds : IsEndpoint(ed[e])
    /\ asked = [e \in Eds |-> asked[e]]

(* The first k of what was asked of an endpoint are done, and no others. *)
At(e, k) ==
    /\ k \in 0 .. Len(asked[e])
    /\ \A i \in 1 .. Len(asked[e]) : td[asked[e][i]].done <=> i <= k

Whole(e) ==
    \E k \in 0 .. Len(asked[e]) :
        /\ At(e, k)
        /\ ed[e].head = Path(e)[k + 1]
        /\ \A i \in k + 1 .. Len(asked[e]) : td[asked[e][i]].next = Path(e)[i + 1]

(* No descriptor is in two places. *)
Apart ==
    /\ \A e \in Eds :
        /\ asked[e] \in Seq(Pool(e))
        /\ \A i, j \in 1 .. Len(asked[e]) : asked[e][i] = asked[e][j] => i = j
        /\ ed[e].tail \in Pool(e)
        /\ \A f \in Eds : \A i \in 1 .. Len(asked[f]) : asked[f][i] # ed[e].tail
    /\ ed["in"].tail # ed["out"].tail
    /\ asked["in"] = << >> \/ asked["out"] = << >>

Held(t) == \E e \in Eds : \E i \in 1 .. Len(asked[e]) : asked[e][i] = t

(* Done, and nobody told. *)
Untaken == {t \in Tds : td[t].done /\ t \notin told /\ Held(t)}

(* Nothing but such transfers is on a stack. *)
StackOf(top) ==
    \E S \in SUBSET Untaken :
        /\ top \in S \cup {Null}
        /\ \A t \in S : td[t].next \in S \cup {Null}

Stacks ==
    /\ \A t \in told : t \in Tds /\ td[t].done /\ Held(t)
    /\ StackOf(hccaDone)
    /\ StackOf(doneHead)

Lists == Formed /\ Apart /\ (\A e \in Eds : Whole(e)) /\ Stacks

-----------------------------------------------------------------------------
(* The clients. *)

Life ==
    /\ up \in {"off", "stopped", "resetting", "up"}
    /\ walk \in {<< >>, <<"ctl", "in", "out">>, <<"in", "out">>, <<"out">>}
    /\ ~Serving => doneHead = Null
    /\ up = "stopped" => ~operational /\ ~Serving
    /\ ~Live => asked = NothingAsked /\ told = {} /\ ctl = NoRequest
    /\ up # "up" => cli = "idle"
    /\ up = "resetting" => SendsReset /\ ctl \in {ResetRequest, NoRequest}
    /\ up = "up" => ctl \in RequestSet \cup {NoRequest}
    /\ cli \in {"idle", "cbw", "data", "csw"}
    /\ cli # "idle" => job \in CommandSet
    /\ myTag \in Tags

(* Which endpoints have nothing asked of them. *)
Waits ==
    /\ ctl = NoRequest => asked["ctl"] = << >>
    /\ cli \in {"idle", "cbw"} => asked["in"] = << >>
    /\ cli \in {"idle", "csw"} => asked["out"] = << >>
    /\ cli = "data" => asked[IF job.in THEN "out" ELSE "in"] = << >>

(* The transfers asked of an endpoint are these. *)
Are(e, transfers) ==
    /\ Len(asked[e]) = Len(transfers)
    /\ \A i \in 1 .. Len(transfers) :
           LET d == td[asked[e][i]]
           IN  d.pid = transfers[i].pid /\ d.what = transfers[i].what /\ d.want = transfers[i].want

(* After which transfer a request that is refused has stalled. *)
StallAt(r) == IF r.in THEN 2 ELSE Len(ControlTransfers(r))

(* A request of which k transfers are done. *)
RequestAt(r, k) ==
    /\ k \in 1 .. Len(asked["ctl"]) - 1 =>
           /\ setup = r
           /\ Accepts(r) => dataOut = 0 /\ reply = IF k = 1 THEN Answer(r) ELSE << >>
           /\ ~Accepts(r) => reply = NoReply
    /\ Accepts(r) =>
           /\ ed["ctl"].halted = FALSE
           /\ \A i \in 1 .. k : td[asked["ctl"][i]].got = IF i = 2 /\ r.in THEN Answer(r) ELSE << >>
    /\ ~Accepts(r) => /\ k <= StallAt(r)
                      /\ k = StallAt(r) => ed["ctl"].halted = TRUE
                      /\ k # StallAt(r) => ed["ctl"].halted = FALSE
    /\ up = "resetting" /\ k > 0 => phase = "command"

Requesting ==
    /\ ed["ctl"].halted \in BOOLEAN
    /\ ctl = NoRequest => ed["ctl"].halted = FALSE
    /\ ctl # NoRequest =>
         /\ Are("ctl", ControlTransfers(ctl))
         /\ \A k \in Nat : At("ctl", k) => RequestAt(ctl, k)

-----------------------------------------------------------------------------
(* The drive, when the bulk client's command is with it. *)

Begun ==
    /\ tag = myTag
    /\ expected = job.cells
    /\ moved \in Nat
    /\ status = IF Unable(job) THEN "failed" ELSE "good"

(* How it is after k transfers of the command's data. *)
ReadAt(k) ==
    /\ moved = k
    /\ phase = IF k < job.cells THEN "dataIn" ELSE "status"
    /\ toHost = [i \in 1 .. job.cells - k |-> store[Start(job) + k + i - 1]]
    /\ \A i \in 1 .. Len(asked["in"]) : i <= k => td[asked["in"][i]].got = << store[Start(job) + i - 1] >>

ShortReadAt(k) ==
    /\ k = 0 => toHost = << >>
    /\ phase = IF k = 0 THEN "dataIn" ELSE IF k = 1 THEN "status" ELSE "command"

ReplyAt(k) ==
    /\ k = 0 => moved = 0 /\ phase = "dataIn" /\ toHost = Reply(job)
    /\ k = 1 => /\ moved = Len(Reply(job))
                /\ phase = "status"
                /\ td[asked["in"][1]].got = Reply(job)

WriteAt(k) ==
    /\ moved = k
    /\ phase = IF k < job.cells THEN "dataOut" ELSE "status"
    /\ writeAt = Start(job) + k
    /\ writeLeft = job.cells - k
    /\ \A c \in Start(job) .. Start(job) + k - 1 : store[c] = job.fill

IgnoredAt(k) == IF k = 0 THEN phase = "dataOut" /\ writeLeft = 0 ELSE phase = "status"

DataAt(k) ==
    /\ Begun
    /\ job.cells = 0 => phase = "status" /\ moved = 0
    /\ job.cells > 0 /\ job.in =>
           IF job.op # "read" THEN ReplyAt(k) ELSE IF InRange(job) THEN ReadAt(k) ELSE ShortReadAt(k)
    /\ job.cells > 0 /\ ~job.in =>
           IF job.op = "write" /\ InRange(job) THEN WriteAt(k) ELSE IgnoredAt(k)

WrapperTransfers == << Transfer("out", Wrapper(job, myTag), 0) >>
StatusTransfers == << Transfer("in", Null, 1) >>

Sending ==
    /\ Are("out", WrapperTransfers)
    /\ At("out", 0) => phase = "command"
    /\ At("out", 1) => DataAt(0)
    /\ buf = << >>

Moving ==
    /\ job.cells > 0
    /\ Are(DataEnd, DataTransfers)
    /\ \A k \in Nat : At(DataEnd, k) => DataAt(k)
    /\ buf = << >>

(* What the client has of the data, and the drive of the client's. *)
Kept ==
    InRange(job) =>
        /\ job.op = "read" => buf = Contents(Start(job), Length(job))
        /\ job.op = "write" =>
               \A c \in Start(job) .. Start(job) + Length(job) - 1 : store[c] = job.fill

Ending ==
    /\ Are("in", StatusTransfers)
    /\ Kept
    /\ At("in", 0) =>
           /\ Begun
           /\ phase \in {"status", "command"}
           /\ ~Unable(job) /\ job.op # "write" => moved = Len(buf) /\ moved <= expected
    /\ At("in", 1) =>
           /\ phase = "command"
           /\ \E s \in [tag : {myTag}, residue : 0 .. job.cells, status : {"good", "failed"}] :
                  /\ td[asked["in"][1]].got = << s >>
                  /\ s.status = IF Unable(job) THEN "failed" ELSE "good"
                  /\ ~Unable(job) /\ job.op # "write" => s.residue = job.cells - Len(buf)

Driving ==
    /\ cli = "idle" => buf = << >> /\ (up = "up" => phase = "command")
    /\ cli = "cbw" => Sending
    /\ cli = "data" => Moving
    /\ cli = "csw" => Ending

(* What is left of the lists, when nobody waits for it: a path from each   *)
(* head to its tail, of transfers the drive can be given.                  *)
Givable(what) ==
    \/ what.cbw = TRUE /\ what.command \in CommandSet
    \/ what.cbw = FALSE /\ Len(what.cells) \in Nat

Left(q) ==
    /\ \A e \in Eds :
           /\ q[e] \in Seq(Tds) /\ q[e] # << >>
           /\ ed[e].head = q[e][1] /\ ed[e].tail = q[e][Len(q[e])]
           /\ \A i \in 1 .. Len(q[e]) - 1 :
                  LET d == td[q[e][i]]
                  IN  /\ d.next = q[e][i + 1]
                      /\ d.pid = "out" /\ e # "ctl" => Givable(d.what)
    /\ \A e, f \in Eds : \A i \in 1 .. Len(q[e]), j \in 1 .. Len(q[f]) :
           q[e][i] = q[f][j] => e = f /\ i = j

Writing == writeAt \in Nat /\ writeLeft \in Nat

Drive ==
    /\ Writing
    /\ Live => Driving
    /\ ~Live => Formed /\ buf = << >> /\ \E q : Left(q)

(* What holds whatever the drivers do about the drive, and what holds of   *)
(* those that reset it: together, the inductive invariant.                 *)
Ground == Life /\ Waits /\ (Live => Lists)
Answering == (Live => Requesting) /\ Drive

-----------------------------------------------------------------------------
(* Descriptors for new transfers. *)

LEMMA PoolsAre ==
    /\ Pool("ctl") = ControlTds
    /\ Pool("in") = Tds \ ControlTds
    /\ Pool("out") = Tds \ ControlTds
    /\ \A e \in Eds : Pool(e) \subseteq Tds /\ IsFiniteSet(Pool(e))
    /\ \A t \in Tds : t # Null
<1>1. IsFiniteSet(ControlTds) /\ IsFiniteSet(Tds \ ControlTds)
    BY FS_Subset, DriversAssumption
<1> QED
    BY <1>1, DriversAssumption, OhciAssumption DEF Pool, Eds

LEMMA RowIs ==
    ASSUME NEW S, IsFiniteSet(S), NEW n \in Nat, Cardinality(S) >= n
    PROVE  /\ Row(S, n) \in [1 .. n -> S]
           /\ \A i, j \in 1 .. n : Row(S, n)[i] = Row(S, n)[j] => i = j
<1> DEFINE m == Cardinality(S)
<1>1. m \in Nat /\ ExistsBijection(1 .. m, S)
    BY FS_CardinalityType
<1>2. PICK f : f \in Bijection(1 .. m, S)
    BY <1>1 DEF ExistsBijection
<1>3. f \in [1 .. m -> S] /\ \A i, j \in 1 .. m : f[i] = f[j] => i = j
    BY <1>2 DEF Bijection, Injection, IsInjective
<1> DEFINE row == [i \in 1 .. n |-> f[i]]
<1>4. row \in [1 .. n -> S] /\ \A i, j \in 1 .. n : row[i] = row[j] => i = j
    BY <1>1, <1>3
<1> QED
    BY <1>4 DEF Row

LEMMA SlotsAre ==
    ASSUME NEW e \in Eds, NEW n \in Nat, ed[e].tail \in Pool(e), Cardinality(Free(e)) >= n
    PROVE  /\ Slots(e, n) \in Seq(Pool(e))
           /\ Len(Slots(e, n)) = n + 1
           /\ Slots(e, n)[1] = ed[e].tail
           /\ \A i \in 2 .. n + 1 : Slots(e, n)[i] \in Free(e)
           /\ \A i, j \in 1 .. n + 1 : Slots(e, n)[i] = Slots(e, n)[j] => i = j
<1>1. IsFiniteSet(Free(e)) /\ Free(e) \subseteq Pool(e) /\ ed[e].tail \notin Free(e)
    <2>1. Free(e) \subseteq Pool(e) /\ ed[e].tail \notin Free(e)
        BY DEF Free, InUse
    <2> QED
        BY <2>1, PoolsAre, FS_Subset
<1> DEFINE row == Row(Free(e), n)
<1>2. row \in [1 .. n -> Free(e)] /\ \A i, j \in 1 .. n : row[i] = row[j] => i = j
    BY <1>1, RowIs
<1> HIDE DEF row
<1>3. row \in Seq(Pool(e)) /\ Len(row) = n
    BY <1>1, <1>2
<1>4. /\ Slots(e, n) = << ed[e].tail >> \o row
      /\ Slots(e, n) \in Seq(Pool(e))
      /\ Len(Slots(e, n)) = n + 1
    BY <1>3 DEF Slots, row
<1>5. Slots(e, n)[1] = ed[e].tail
    BY <1>3, <1>4
<1>6. \A i \in 2 .. n + 1 : Slots(e, n)[i] = row[i - 1] /\ i - 1 \in 1 .. n
    BY <1>3, <1>4
<1>7. \A i \in 2 .. n + 1 : Slots(e, n)[i] \in Free(e)
    BY <1>2, <1>6
<1>8. ASSUME NEW i \in 1 .. n + 1, NEW j \in 1 .. n + 1, Slots(e, n)[i] = Slots(e, n)[j]
      PROVE  i = j
    <2>1. CASE i = 1
        BY <2>1, <1>1, <1>5, <1>7, <1>8
    <2>2. CASE j = 1
        BY <2>2, <1>1, <1>5, <1>7, <1>8
    <2>3. CASE i # 1 /\ j # 1
        <3>1. i \in 2 .. n + 1 /\ j \in 2 .. n + 1
            BY <2>3
        <3>2. row[i - 1] = row[j - 1] /\ i - 1 \in 1 .. n /\ j - 1 \in 1 .. n
            BY <3>1, <1>6, <1>8
        <3>3. i - 1 = j - 1
            BY <3>2, <1>2
        <3> QED
            BY <3>1, <3>3
    <2> QED
        BY <2>1, <2>2, <2>3
<1> QED
    BY <1>4, <1>5, <1>7, <1>8

(* What Queue does, field by field. *)
Placed(e, ts) ==
    /\ asked'[e] \in Seq(Pool(e)) /\ Len(asked'[e]) = Len(ts)
    /\ \A i \in 1 .. Len(ts) :
           LET d == td'[asked'[e][i]]
           IN  /\ d.pid = ts[i].pid /\ d.what = ts[i].what /\ d.want = ts[i].want
               /\ d.done = FALSE
               /\ d.next = Path(e)'[i + 1]
    /\ Path(e)'[1] = ed[e].tail
    /\ \A i, j \in 1 .. Len(ts) + 1 : Path(e)'[i] = Path(e)'[j] => i = j
    /\ \A i \in 1 .. Len(ts) + 1 :
           /\ Path(e)'[i] \in Pool(e)
           /\ \A f \in Eds \ {e} : Path(e)'[i] # ed[f].tail
           /\ \A f \in Others(e) : \A j \in 1 .. Len(asked[f]) : Path(e)'[i] # asked[f][j]
    /\ ed'[e].head = ed[e].head /\ ed'[e].halted = ed[e].halted
    /\ \A f \in Eds \ {e} :
           /\ ed'[f] = ed[f]
           /\ asked'[f] = IF f \in Others(e) THEN asked[f] ELSE << >>
    /\ \A f \in Others(e) : \A j \in 1 .. Len(asked[f]) : td'[asked[f][j]] = td[asked[f][j]]
    /\ Formed'

LEMMA QueuePlaces ==
    ASSUME Formed, Apart, NEW e \in Eds, NEW ts, Len(ts) \in Nat,
           \A i \in 1 .. Len(ts) : \E p, w, n : ts[i] = Transfer(p, w, n),
           Queue(e, ts)
    PROVE  Placed(e, ts)
<1> DEFINE n == Len(ts)
           slots == Slots(e, n)
<1>1. /\ Cardinality(Free(e)) >= n
      /\ td' = [t \in Tds |->
                   IF \E i \in 1 .. n : slots[i] = t
                   THEN LET i == CHOOSE j \in 1 .. n : slots[j] = t
                        IN  [ts[i] EXCEPT !.next = slots[i + 1]]
                   ELSE IF t \in InUse(e) \ {slots[n + 1]} THEN td[t] ELSE NoTransfer]
      /\ ed' = [ed EXCEPT ![e].tail = slots[n + 1]]
      /\ asked' = [f \in Eds |-> IF f = e THEN SubSeq(slots, 1, n)
                                ELSE IF f \in Others(e) THEN asked[f] ELSE << >>]
    BY DEF Queue
<1>2. ed[e].tail \in Pool(e)
    BY DEF Apart
<1>3. /\ slots \in Seq(Pool(e))
      /\ Len(slots) = n + 1
      /\ slots[1] = ed[e].tail
      /\ \A i \in 2 .. n + 1 : slots[i] \in Free(e)
      /\ \A i, j \in 1 .. n + 1 : slots[i] = slots[j] => i = j
    BY <1>1, <1>2, SlotsAre
<1> HIDE DEF slots
<1>4. \A i \in 1 .. n + 1 : slots[i] \in Pool(e) /\ slots[i] \in Tds
    BY <1>3, PoolsAre
<1>5. /\ asked'[e] \in Seq(Pool(e))
      /\ Len(asked'[e]) = n
      /\ \A i \in 1 .. n : asked'[e][i] = slots[i]
    BY <1>1, <1>3
<1>6. /\ ed'[e].tail = slots[n + 1] /\ ed'[e].head = ed[e].head /\ ed'[e].halted = ed[e].halted
      /\ \A f \in Eds \ {e} : ed'[f] = ed[f]
      /\ ed' = [f \in Eds |-> ed'[f]]
    BY <1>1 DEF Formed, IsEndpoint
<1>7. \A i \in 1 .. n + 1 : Path(e)'[i] = slots[i]
    BY <1>3, <1>5, <1>6 DEF Path
<1>8. ASSUME NEW i \in 1 .. n
      PROVE  td'[slots[i]] = [ts[i] EXCEPT !.next = slots[i + 1]]
    <2>1. PICK t : t = slots[i] /\ t \in Tds
        BY <1>4
    <2>2. i = CHOOSE j \in 1 .. n : slots[j] = t
        BY <1>3, <2>1
    <2>3. td'[t] = LET k == CHOOSE j \in 1 .. n : slots[j] = t
                   IN  [ts[k] EXCEPT !.next = slots[k + 1]]
        BY <1>1, <2>1
    <2>4. td'[t] = [ts[i] EXCEPT !.next = slots[i + 1]]
        BY <2>2, <2>3
    <2> QED
        BY <2>1, <2>4
<1>9. ASSUME NEW i \in 1 .. n
      PROVE  LET d == td'[asked'[e][i]]
             IN  /\ d.pid = ts[i].pid /\ d.what = ts[i].what /\ d.want = ts[i].want
                 /\ d.done = FALSE
                 /\ d.next = Path(e)'[i + 1]
    <2>1. PICK p, w, m : ts[i] = Transfer(p, w, m)
        OBVIOUS
    <2>2. td'[asked'[e][i]] = [ts[i] EXCEPT !.next = slots[i + 1]]
        BY <1>5, <1>8
    <2> QED
        BY <2>1, <2>2, <1>7 DEF Transfer
<1>10. ASSUME NEW i \in 1 .. n + 1
       PROVE  /\ slots[i] \in Pool(e)
              /\ \A f \in Eds \ {e} : slots[i] # ed[f].tail
              /\ \A f \in Others(e) : \A j \in 1 .. Len(asked[f]) : slots[i] # asked[f][j]
    <2>1. CASE i = 1
        <3>1. slots[i] = ed[e].tail
            BY <2>1, <1>3
        <3>2. ASSUME NEW f \in Eds \ {e} PROVE ed[e].tail # ed[f].tail
            BY PoolsAre DEF Apart, Eds
        <3> QED
            BY <3>1, <3>2, <1>4 DEF Apart, Others
    <2>2. CASE i \in 2 .. n + 1
        <3>1. slots[i] \in Pool(e) /\ slots[i] \notin InUse(e)
            BY <2>2, <1>3 DEF Free
        <3>2. ASSUME NEW f \in Others(e), NEW j \in 1 .. Len(asked[f])
              PROVE  asked[f][j] \in InUse(e)
            <4>1. asked[f][j] \in Range(asked[f])
                BY DEF Range, Others, Apart
            <4> QED
                BY <4>1 DEF InUse
        <3>3. \A f \in Eds : ed[f].tail \in InUse(e)
            BY DEF InUse
        <3> QED
            BY <3>1, <3>2, <3>3, Zenon
    <2> QED
        BY <2>1, <2>2
<1>11. ASSUME NEW f \in Others(e), NEW j \in 1 .. Len(asked[f])
       PROVE  td'[asked[f][j]] = td[asked[f][j]]
    <2>1. asked[f][j] \in Range(asked[f]) /\ asked[f][j] \in Tds
        BY PoolsAre DEF Range, Others, Apart
    <2>2. asked[f][j] \in InUse(e)
        BY <2>1 DEF InUse
    <2>3. \A i \in 1 .. n + 1 : slots[i] # asked[f][j]
        BY <1>10
    <2> QED
        BY <1>1, <2>1, <2>2, <2>3
<1>12. Formed'
    <2>1. ASSUME NEW t \in Tds
          PROVE  IsTransfer(td'[t])
        <3>1. CASE \E i \in 1 .. n : slots[i] = t
            <4>1. PICK i \in 1 .. n : slots[i] = t
                BY <3>1
            <4>2. PICK p, w, m : ts[i] = Transfer(p, w, m)
                OBVIOUS
            <4> QED
                BY <4>1, <4>2, <1>8 DEF Transfer, IsTransfer
        <3>2. CASE ~\E i \in 1 .. n : slots[i] = t
            <4>1. td'[t] = td[t] \/ td'[t] = NoTransfer
                BY <3>2, <1>1
            <4>2. CASE td'[t] = td[t]
                BY <4>2 DEF Formed
            <4>3. CASE td'[t] = NoTransfer
                BY <4>3 DEF NoTransfer, Transfer, IsTransfer
            <4> QED
                BY <4>1, <4>2, <4>3
        <3> QED
            BY <3>1, <3>2
    <2>2. DOMAIN td' = Tds /\ td' = [t \in Tds |-> td'[t]]
        BY <1>1
    <2>3. asked' = [f \in Eds |-> asked'[f]]
        BY <1>1
    <2>4. \A f \in Eds : IsEndpoint(ed'[f])
        BY <1>1 DEF Formed, IsEndpoint
    <2> QED
        BY <2>1, <2>2, <2>3, <2>4, <1>6 DEF Formed
<1>13. \A f \in Eds \ {e} : asked'[f] = IF f \in Others(e) THEN asked[f] ELSE << >>
    BY <1>1
<1> QED
    <2>1. \A i, j \in 1 .. n + 1 : Path(e)'[i] = Path(e)'[j] => i = j
        BY <1>3, <1>7
    <2>2. Path(e)'[1] = ed[e].tail
        <3>1. 1 \in 1 .. n + 1
            OBVIOUS
        <3> QED
            BY <3>1, <1>3, <1>7
    <2>3. \A i \in 1 .. n + 1 :
              /\ Path(e)'[i] \in Pool(e)
              /\ \A f \in Eds \ {e} : Path(e)'[i] # ed[f].tail
              /\ \A f \in Others(e) : \A j \in 1 .. Len(asked[f]) : Path(e)'[i] # asked[f][j]
        BY <1>7, <1>10
    <2> HIDE DEF n
    <2>4. \A i \in 1 .. n :
              LET d == td'[asked'[e][i]]
              IN  /\ d.pid = ts[i].pid /\ d.what = ts[i].what /\ d.want = ts[i].want
                  /\ d.done = FALSE
                  /\ d.next = Path(e)'[i + 1]
        BY <1>9
    <2>5. /\ asked'[e] \in Seq(Pool(e)) /\ Len(asked'[e]) = n
          /\ ed'[e].head = ed[e].head /\ ed'[e].halted = ed[e].halted
          /\ \A f \in Eds \ {e} :
                 /\ ed'[f] = ed[f]
                 /\ asked'[f] = IF f \in Others(e) THEN asked[f] ELSE << >>
        BY <1>5, <1>6, <1>13
    <2>6. \A f \in Others(e) : \A j \in 1 .. Len(asked[f]) : td'[asked[f][j]] = td[asked[f][j]]
        BY <1>11
    <2> USE DEF n
    <2> QED
        BY <2>1, <2>2, <2>3, <2>4, <2>5, <2>6, <1>12 DEF Placed

-----------------------------------------------------------------------------
(* The lists, step by step. *)

LEMMA AskedAre ==
    ASSUME Apart, NEW e \in Eds
    PROVE  /\ Len(asked[e]) \in Nat
           /\ asked[e] \in Seq(Tds)
           /\ \A i \in 1 .. Len(asked[e]) : /\ asked[e][i] \in Pool(e)
                                            /\ asked[e][i] \in Tds
                                            /\ Path(e)[i] = asked[e][i]
                                            /\ Path(e)[i] # ed[e].tail
           /\ Path(e)[Len(asked[e]) + 1] = ed[e].tail
           /\ Range(asked[e]) = {asked[e][i] : i \in 1 .. Len(asked[e])}
<1>1. asked[e] \in Seq(Pool(e)) /\ Pool(e) \subseteq Tds
    BY PoolsAre DEF Apart
<1>2. \A i \in 1 .. Len(asked[e]) : asked[e][i] # ed[e].tail
    BY DEF Apart
<1>3. Range(asked[e]) = {asked[e][i] : i \in 1 .. Len(asked[e])}
    BY <1>1 DEF Range
<1> QED
    BY <1>1, <1>2, <1>3 DEF Path

LEMMA AtIsOnce ==
    ASSUME NEW e \in Eds, Len(asked[e]) \in Nat, NEW j, NEW k, At(e, j), At(e, k)
    PROVE  j = k
<1>1. j \in 0 .. Len(asked[e]) /\ k \in 0 .. Len(asked[e])
    BY DEF At
<1>2. \A i \in 1 .. Len(asked[e]) : i <= j <=> i <= k
    BY DEF At
<1>3. ~(j < k)
    BY <1>1, <1>2
<1>4. ~(k < j)
    BY <1>1, <1>2
<1> QED
    BY <1>1, <1>3, <1>4

(* Once all it was asked for is done, a queue is empty. *)
LEMMA AllDone ==
    ASSUME Apart, NEW e \in Eds, Whole(e),
           \A i \in 1 .. Len(asked[e]) : td[asked[e][i]].done
    PROVE  ed[e].head = ed[e].tail /\ At(e, Len(asked[e]))
<1>1. PICK k \in 0 .. Len(asked[e]) :
          At(e, k) /\ ed[e].head = Path(e)[k + 1]
    BY DEF Whole
<1>2. Len(asked[e]) \in Nat
    BY AskedAre
<1>3. k = Len(asked[e])
    BY <1>1, <1>2 DEF At
<1> QED
    BY <1>1, <1>3, AskedAre

LEMMA AllTold ==
    ASSUME Lists, NEW e \in Eds, Range(asked[e]) \subseteq told
    PROVE  ed[e].head = ed[e].tail /\ At(e, Len(asked[e]))
<1>1. \A i \in 1 .. Len(asked[e]) : asked[e][i] \in told
    BY AskedAre DEF Lists
<1> QED
    BY <1>1, AllDone DEF Lists, Stacks

(* What is on the stacks stays there, if only what is not is touched. *)
LEMMA StacksStay ==
    ASSUME StackOf(hccaDone), StackOf(doneHead), hccaDone' = hccaDone, doneHead' = doneHead,
           \A t \in Untaken : td'[t].next = td[t].next /\ t \in Untaken'
    PROVE  StackOf(hccaDone)' /\ StackOf(doneHead)'
<1>1. PICK S \in SUBSET Untaken :
          hccaDone \in S \cup {Null} /\ \A t \in S : td[t].next \in S \cup {Null}
    BY DEF StackOf
<1>2. PICK T \in SUBSET Untaken :
          doneHead \in T \cup {Null} /\ \A t \in T : td[t].next \in T \cup {Null}
    BY DEF StackOf
<1> QED
    BY <1>1, <1>2 DEF StackOf

(* A client that has been told of all it asked for, of one endpoint, asks  *)
(* again, of that or its other.                                            *)
LEMMA QueueKeeps ==
    ASSUME Lists, NEW e \in Eds, NEW ts, Len(ts) \in Nat,
           \A i \in 1 .. Len(ts) : \E p, w, n : ts[i] = Transfer(p, w, n),
           Queue(e, ts),
           NEW g \in Eds, g \notin Others(e),
           Range(asked[g]) \subseteq told, told' = told \ Range(asked[g]),
           \A f \in Eds \ {g} : f \notin Others(e) => asked[f] = << >>
    PROVE  /\ Lists' /\ Placed(e, ts)
           /\ At(e, 0)'
           /\ \A f \in Others(e) : \A k : At(f, k)' <=> At(f, k)
           /\ ed'[e].halted = ed[e].halted
<1>1. Formed /\ Apart /\ (\A f \in Eds : Whole(f)) /\ Stacks
    BY DEF Lists
<1>2. Placed(e, ts)
    BY <1>1, QueuePlaces
<1>3. hccaDone' = hccaDone /\ doneHead' = doneHead
    BY DEF Queue
<1>4. /\ Len(asked'[e]) = Len(ts)
      /\ \A i \in 1 .. Len(ts) : asked'[e][i] = Path(e)'[i]
      /\ Path(e)'[Len(ts) + 1] = ed'[e].tail
    BY <1>2 DEF Placed, Path
<1>5. \A f \in Eds : f \notin Others(e) => ed[f].head = ed[f].tail
    <2> SUFFICES ASSUME NEW f \in Eds, f \notin Others(e) PROVE ed[f].head = ed[f].tail
        OBVIOUS
    <2>1. CASE f = g
        BY <2>1, AllTold
    <2>2. CASE f # g
        BY <2>2, <1>1, AllDone
    <2> QED
        BY <2>1, <2>2
<1>6. At(e, 0)'
    BY <1>2 DEF At, Placed
<1>7. ASSUME NEW f \in Others(e)
      PROVE  /\ f \in Eds \ {e} /\ asked'[f] = asked[f] /\ ed'[f] = ed[f]
             /\ \A k : At(f, k)' <=> At(f, k)
    <2>1. f \in Eds \ {e} /\ asked'[f] = asked[f] /\ ed'[f] = ed[f]
        BY <1>2 DEF Placed, Others
    <2>2. \A j \in 1 .. Len(asked[f]) : td'[asked[f][j]] = td[asked[f][j]]
        BY <1>2 DEF Placed
    <2> QED
        BY <2>1, <2>2 DEF At
<1>8. Apart'
    <2>1. ASSUME NEW f \in Eds PROVE asked'[f] \in Seq(Pool(f))
        <3>1. CASE f = e
            BY <3>1, <1>2 DEF Placed
        <3>2. CASE f \in Others(e)
            <4>1. asked[f] \in Seq(Pool(f))
                BY <1>1 DEF Apart
            <4> QED
                BY <3>2, <4>1, <1>7
        <3>3. CASE f # e /\ f \notin Others(e)
            <4>1. asked'[f] = << >>
                BY <3>3, <1>2 DEF Placed
            <4> QED
                BY <4>1
        <3> QED
            BY <3>1, <3>2, <3>3
    <2>2. ASSUME NEW f \in Eds, NEW i \in 1 .. Len(asked'[f]), NEW j \in 1 .. Len(asked'[f]),
                 asked'[f][i] = asked'[f][j]
          PROVE  i = j
        <3>1. CASE f = e
            BY <3>1, <2>2, <1>2, <1>4 DEF Placed
        <3>2. CASE f # e
            BY <3>2, <2>2, <1>1, <1>2 DEF Placed, Apart
        <3> QED
            BY <3>1, <3>2
    <2>3. ed'[e].tail \in Pool(e) /\ \A f \in Eds \ {e} : ed'[e].tail # ed[f].tail
        BY <1>2, <1>4 DEF Placed
    <2>4. \A f \in Eds : ed'[f].tail \in Pool(f)
        BY <2>3, <1>1, <1>2 DEF Placed, Apart
    <2>5. ASSUME NEW f \in Eds, NEW h \in Eds, NEW i \in 1 .. Len(asked'[h])
          PROVE  asked'[h][i] # ed'[f].tail
        <3>1. CASE h = e /\ f = e
            <4>1. i \in 1 .. Len(ts) + 1 /\ Len(ts) + 1 \in 1 .. Len(ts) + 1 /\ i # Len(ts) + 1
                BY <3>1, <1>4
            <4> QED
                BY <3>1, <4>1, <1>2, <1>4 DEF Placed
        <3>2. CASE h = e /\ f # e
            <4>1. i \in 1 .. Len(ts) + 1
                BY <3>2, <1>4
            <4> QED
                BY <3>2, <4>1, <1>2, <1>4 DEF Placed
        <3>3. CASE h # e
            <4>1. h \in Others(e) /\ asked'[h] = asked[h]
                BY <3>3, <1>2 DEF Placed
            <4>2. CASE f = e
                BY <4>1, <4>2, <1>2, <1>4 DEF Placed
            <4>3. CASE f # e
                BY <4>1, <4>3, <1>1, <1>2 DEF Placed, Apart
            <4> QED
                BY <4>2, <4>3
        <3> QED
            BY <3>1, <3>2, <3>3, Zenon
    <2>6. ed'["in"].tail # ed'["out"].tail
        BY <2>3, <1>1, <1>2 DEF Placed, Apart, Eds
    <2>7. asked'["in"] = << >> \/ asked'["out"] = << >>
        <3>1. asked["in"] = << >> \/ asked["out"] = << >>
            BY <1>1 DEF Apart
        <3>2. \A f \in Eds \ {e} : asked'[f] = asked[f] \/ asked'[f] = << >>
            BY <1>2 DEF Placed
        <3>3. CASE e = "ctl"
            <4>1. "in" \in Eds \ {e} /\ "out" \in Eds \ {e}
                BY <3>3 DEF Eds
            <4> QED
                BY <3>1, <3>2, <4>1, <1>2 DEF Placed, Others
        <3>4. CASE e = "in"
            <4>1. "out" \in Eds \ {e} /\ "out" \notin Others(e)
                BY <3>4, PoolsAre DEF Eds, Others
            <4>2. asked'["out"] = << >>
                BY <1>2, <4>1 DEF Placed
            <4> QED
                BY <4>2
        <3>5. CASE e = "out"
            <4>1. "in" \in Eds \ {e} /\ "in" \notin Others(e)
                BY <3>5, PoolsAre DEF Eds, Others
            <4>2. asked'["in"] = << >>
                BY <1>2, <4>1 DEF Placed
            <4> QED
                BY <4>2
        <3> QED
            BY <3>3, <3>4, <3>5 DEF Eds
    <2> QED
        BY <2>1, <2>2, <2>4, <2>5, <2>6, <2>7 DEF Apart
<1>9. ASSUME NEW f \in Eds PROVE Whole(f)'
    <2>1. CASE f = e
        <3>1. ed[e].head = ed[e].tail
            BY <1>5 DEF Others
        <3> QED
            BY <2>1, <3>1, <1>2, <1>4, <1>6 DEF Whole, Placed
    <2>2. CASE f \in Others(e)
        <3>1. asked'[f] = asked[f] /\ ed'[f] = ed[f] /\ Path(f)' = Path(f)
            BY <2>2, <1>7 DEF Path
        <3>2. PICK k \in 0 .. Len(asked[f]) :
                  /\ At(f, k)
                  /\ ed[f].head = Path(f)[k + 1]
                  /\ \A i \in k + 1 .. Len(asked[f]) : td[asked[f][i]].next = Path(f)[i + 1]
            BY <1>1 DEF Whole
        <3>3. \A i \in k + 1 .. Len(asked[f]) : td'[asked[f][i]] = td[asked[f][i]]
            <4>1. \A i \in k + 1 .. Len(asked[f]) : i \in 1 .. Len(asked[f])
                BY <3>2, <1>1, AskedAre
            <4> QED
                BY <4>1, <2>2, <1>2 DEF Placed
        <3>4. At(f, k)'
            BY <2>2, <3>2, <1>7
        <3>5. ed'[f].head = Path(f)'[k + 1]
            BY <3>1, <3>2
        <3>6. ASSUME NEW i \in k + 1 .. Len(asked'[f])
              PROVE  td'[asked'[f][i]].next = Path(f)'[i + 1]
            <4>1. i \in k + 1 .. Len(asked[f]) /\ asked'[f][i] = asked[f][i]
                BY <3>1
            <4>2. td[asked[f][i]].next = Path(f)[i + 1] /\ td'[asked[f][i]] = td[asked[f][i]]
                BY <4>1, <3>2, <3>3
            <4> QED
                BY <4>1, <4>2, <3>1
        <3>7. k \in 0 .. Len(asked'[f])
            BY <3>1
        <3> QED
            BY <3>4, <3>5, <3>6, <3>7 DEF Whole
    <2>3. CASE f # e /\ f \notin Others(e)
        <3>1. asked'[f] = << >> /\ ed'[f] = ed[f]
            BY <2>3, <1>2 DEF Placed
        <3>2. ed[f].head = ed[f].tail
            BY <2>3, <1>5
        <3> QED
            BY <3>1, <3>2 DEF Whole, At, Path
    <2> QED
        BY <2>1, <2>2, <2>3
<1>10. ASSUME NEW t \in Tds, t \notin Range(asked[g]), Held(t)
       PROVE  Held(t)' /\ td'[t] = td[t]
    <2>1. PICK f \in Eds : \E i \in 1 .. Len(asked[f]) : asked[f][i] = t
        BY <1>10 DEF Held
    <2>2. f # g
        <3>1. Range(asked[g]) = {asked[g][i] : i \in 1 .. Len(asked[g])}
            BY <1>1, AskedAre
        <3> QED
            BY <1>10, <2>1, <3>1
    <2>3. asked[f] # << >>
        BY <2>1
    <2>4. f \in Others(e) /\ f # e
        BY <2>2, <2>3 DEF Others
    <2> QED
        BY <2>1, <2>2, <2>4, <1>2 DEF Held, Placed
<1>11. \A t \in Untaken : td'[t].next = td[t].next /\ t \in Untaken'
    BY <1>10 DEF Untaken
<1>12. \A t \in told' : t \in Tds /\ td'[t].done /\ Held(t)'
    BY <1>1, <1>10 DEF Stacks
<1>13. Stacks'
    BY <1>1, <1>3, <1>11, <1>12, StacksStay DEF Stacks
<1> QED
    BY <1>2, <1>6, <1>7, <1>8, <1>9, <1>13 DEF Lists, Placed

(* What Retire does, field by field. *)
LEMMA RetireDoes ==
    ASSUME Formed, NEW e \in Eds, NEW t \in Tds, NEW stalled, Retire(e, t, stalled)
    PROVE  /\ td'[t].next = doneHead /\ td'[t].done = TRUE
           /\ td'[t].got = Received(e, td[t])
           /\ td'[t].pid = td[t].pid /\ td'[t].what = td[t].what /\ td'[t].want = td[t].want
           /\ \A u \in Tds \ {t} : td'[u] = td[u]
           /\ ed'[e].head = td[t].next /\ ed'[e].tail = ed[e].tail /\ ed'[e].halted = stalled
           /\ \A f \in Eds \ {e} : ed'[f] = ed[f]
           /\ doneHead' = t
           /\ td' = [u \in Tds |-> td'[u]] /\ \A u \in Tds : IsTransfer(td'[u])
           /\ ed' = [f \in Eds |-> ed'[f]] /\ \A f \in Eds : IsEndpoint(ed'[f])
<1> DEFINE received == Received(e, td[t])
<1>1. /\ td' = [td EXCEPT ![t].next = doneHead, ![t].done = TRUE, ![t].stalled = stalled,
                          ![t].got = received]
      /\ ed' = [ed EXCEPT ![e].head = td[t].next, ![e].halted = stalled]
      /\ doneHead' = t
    BY DEF Retire
<1> HIDE DEF received
<1>2. /\ td = [u \in Tds |-> td[u]] /\ \A u \in Tds : IsTransfer(td[u])
      /\ ed = [f \in Eds |-> ed[f]] /\ \A f \in Eds : IsEndpoint(ed[f])
    BY DEF Formed
<1>3. PICK d, yes : d = td[t] /\ yes = TRUE
    OBVIOUS
<1>4. d = [pid |-> d.pid, what |-> d.what, want |-> d.want, next |-> d.next,
           done |-> d.done, stalled |-> d.stalled, got |-> d.got]
    BY <1>2, <1>3 DEF IsTransfer
<1>5. PICK new : new = [pid |-> d.pid, what |-> d.what, want |-> d.want, next |-> doneHead,
                        done |-> yes, stalled |-> stalled, got |-> received]
    OBVIOUS
<1>6. new = [[[[d EXCEPT !.next = doneHead] EXCEPT !.done = yes]
                 EXCEPT !.stalled = stalled] EXCEPT !.got = received]
    <2>1. PICK d1 : d1 = [pid |-> d.pid, what |-> d.what, want |-> d.want, next |-> doneHead,
                          done |-> d.done, stalled |-> d.stalled, got |-> d.got]
        OBVIOUS
    <2>2. PICK d2 : d2 = [pid |-> d.pid, what |-> d.what, want |-> d.want, next |-> doneHead,
                          done |-> yes, stalled |-> d.stalled, got |-> d.got]
        OBVIOUS
    <2>3. PICK d3 : d3 = [pid |-> d.pid, what |-> d.what, want |-> d.want, next |-> doneHead,
                          done |-> yes, stalled |-> stalled, got |-> d.got]
        OBVIOUS
    <2>4. d1 = [d EXCEPT !.next = doneHead]
        BY <1>4, <2>1
    <2>5. d2 = [d1 EXCEPT !.done = yes]
        BY <2>1, <2>2
    <2>6. d3 = [d2 EXCEPT !.stalled = stalled]
        BY <2>2, <2>3
    <2>7. new = [d3 EXCEPT !.got = received]
        BY <2>3, <1>5
    <2> QED
        BY <2>4, <2>5, <2>6, <2>7
<1>7. td' = [td EXCEPT ![t] = new]
    BY <1>1, <1>2, <1>3, <1>6
<1>8. td'[t] = new /\ td' = [u \in Tds |-> td'[u]] /\ \A u \in Tds \ {t} : td'[u] = td[u]
    BY <1>2, <1>7
<1>9. IsTransfer(new)
    BY <1>5 DEF IsTransfer
<1>10. PICK c : c = ed[e]
    OBVIOUS
<1>11. c = [head |-> c.head, tail |-> c.tail, halted |-> c.halted]
    BY <1>2, <1>10 DEF IsEndpoint
<1>12. PICK n : n = [head |-> td[t].next, tail |-> c.tail, halted |-> stalled]
    OBVIOUS
<1>13. n = [[c EXCEPT !.head = td[t].next] EXCEPT !.halted = stalled]
    <2>1. PICK c1 : c1 = [head |-> td[t].next, tail |-> c.tail, halted |-> c.halted]
        OBVIOUS
    <2>2. c1 = [c EXCEPT !.head = td[t].next]
        BY <1>11, <2>1
    <2>3. n = [c1 EXCEPT !.halted = stalled]
        BY <2>1, <1>12
    <2> QED
        BY <2>2, <2>3
<1>14. ed' = [ed EXCEPT ![e] = n]
    BY <1>1, <1>2, <1>10, <1>13
<1>15. ed'[e] = n /\ ed' = [f \in Eds |-> ed'[f]] /\ \A f \in Eds \ {e} : ed'[f] = ed[f]
    BY <1>2, <1>14
<1>16. IsEndpoint(n)
    BY <1>12 DEF IsEndpoint
<1>17. /\ \A u \in Tds : IsTransfer(td'[u])
       /\ \A f \in Eds : IsEndpoint(ed'[f])
    BY <1>2, <1>8, <1>9, <1>15, <1>16
<1> QED
    <2>1. /\ td'[t].next = doneHead /\ td'[t].done = TRUE
          /\ td'[t].got = Received(e, td[t])
          /\ td'[t].pid = td[t].pid /\ td'[t].what = td[t].what /\ td'[t].want = td[t].want
        BY <1>3, <1>5, <1>8 DEF received
    <2>2. ed'[e].head = td[t].next /\ ed'[e].tail = ed[e].tail /\ ed'[e].halted = stalled
        BY <1>10, <1>12, <1>15
    <2>3. td' = [u \in Tds |-> td'[u]]
        BY <1>8
    <2>4. ed' = [f \in Eds |-> ed'[f]]
        BY <1>15
    <2> QED
        BY <2>1, <2>2, <2>3, <2>4, <1>1, <1>8, <1>15, <1>17, Zenon

(* A transfer that runs is the first of those not done, and is done. *)
Ran(e, k) ==
    LET t == asked[e][k + 1]
    IN  /\ k \in 0 .. Len(asked[e]) - 1
        /\ At(e, k)
        /\ t = ed[e].head /\ t \in Tds
        /\ At(e, k + 1)'
        /\ td'[t].pid = td[t].pid /\ td'[t].what = td[t].what /\ td'[t].want = td[t].want
        /\ td'[t].got = Received(e, td[t])
        /\ \A u \in Tds \ {t} : td'[u] = td[u]
        /\ \A f \in Eds \ {e} : ed'[f] = ed[f] /\ \A j : At(f, j)' <=> At(f, j)
        /\ \A i \in 1 .. Len(asked[e]) : i # k + 1 => asked[e][i] # t
        /\ \A f \in Eds \ {e} : \A i \in 1 .. Len(asked[f]) : asked[f][i] # t

LEMMA RetireKeeps ==
    ASSUME Lists, NEW e \in Eds, Runnable(e), NEW stalled,
           Retire(e, ed[e].head, stalled), asked' = asked, told' = told, hccaDone' = hccaDone
    PROVE  Lists' /\ ed'[e].halted = stalled /\ \E k : Ran(e, k)
<1> DEFINE t == ed[e].head
<1>1. Formed /\ Apart /\ (\A f \in Eds : Whole(f)) /\ Stacks
    BY DEF Lists
<1>2. PICK k \in 0 .. Len(asked[e]) :
          /\ At(e, k)
          /\ t = Path(e)[k + 1]
          /\ \A i \in k + 1 .. Len(asked[e]) : td[asked[e][i]].next = Path(e)[i + 1]
    BY <1>1 DEF Whole
<1>3. k # Len(asked[e])
    BY <1>1, <1>2, AskedAre DEF Runnable
<1>4. Len(asked[e]) \in Nat /\ k \in 0 .. Len(asked[e]) - 1 /\ k + 1 \in 1 .. Len(asked[e])
    BY <1>1, <1>2, <1>3, AskedAre
<1>5. t = asked[e][k + 1] /\ t \in Tds
    BY <1>1, <1>2, <1>4, AskedAre
<1> HIDE DEF t
<1>6. Retire(e, t, stalled)
    BY DEF t
<1>7. /\ td'[t].next = doneHead /\ td'[t].done = TRUE
      /\ td'[t].got = Received(e, td[t])
      /\ td'[t].pid = td[t].pid /\ td'[t].what = td[t].what /\ td'[t].want = td[t].want
      /\ \A u \in Tds \ {t} : td'[u] = td[u]
      /\ ed'[e].head = td[t].next /\ ed'[e].tail = ed[e].tail /\ ed'[e].halted = stalled
      /\ \A f \in Eds \ {e} : ed'[f] = ed[f]
      /\ doneHead' = t
      /\ Formed'
    <2>1. asked' = [f \in Eds |-> asked'[f]]
        BY <1>1 DEF Formed
    <2>2. Formed'
        BY <1>1, <1>5, <1>6, <2>1, RetireDoes DEF Formed
    <2>3. /\ td'[t].next = doneHead /\ td'[t].done = TRUE
          /\ td'[t].got = Received(e, td[t])
          /\ td'[t].pid = td[t].pid /\ td'[t].what = td[t].what /\ td'[t].want = td[t].want
          /\ \A u \in Tds \ {t} : td'[u] = td[u]
          /\ ed'[e].head = td[t].next /\ ed'[e].tail = ed[e].tail /\ ed'[e].halted = stalled
          /\ \A f \in Eds \ {e} : ed'[f] = ed[f]
          /\ doneHead' = t
        <3>1. Formed /\ t \in Tds
            BY <1>1, <1>5
        <3> QED
            BY <1>6, <3>1, RetireDoes, Zenon
    <2> QED
        BY <2>2, <2>3, Zenon
<1>8. \A i \in 1 .. Len(asked[e]) : i # k + 1 => asked[e][i] # t
    BY <1>1, <1>4, <1>5 DEF Apart
<1>9. ASSUME NEW f \in Eds \ {e}, NEW i \in 1 .. Len(asked[f]) PROVE asked[f][i] # t
    <2>1. asked[f][i] \in Pool(f) /\ t \in Pool(e) /\ asked[f] # << >> /\ asked[e] # << >>
        BY <1>1, <1>4, <1>5, AskedAre
    <2>2. ~({e, f} = {"in", "out"})
        BY <1>1, <2>1 DEF Apart
    <2>3. e = "ctl" \/ f = "ctl"
        BY <2>2 DEF Eds
    <2> QED
        BY <2>1, <2>3, PoolsAre DEF Eds
<1>10. ~td[t].done
    <2>1. td[asked[e][k + 1]].done <=> k + 1 <= k
        BY <1>2, <1>4 DEF At
    <2> QED
        BY <2>1, <1>4, <1>5
<1>11. At(e, k + 1)'
    <2>1. ASSUME NEW i \in 1 .. Len(asked[e]) PROVE td'[asked[e][i]].done <=> i <= k + 1
        <3>1. CASE i = k + 1
            BY <3>1, <1>4, <1>5, <1>7
        <3>2. CASE i # k + 1
            <4>1. td'[asked[e][i]] = td[asked[e][i]]
                BY <3>2, <1>1, <1>7, <1>8, AskedAre
            <4>2. td[asked[e][i]].done <=> i <= k
                BY <1>2 DEF At
            <4> QED
                BY <3>2, <4>1, <4>2, <1>4
        <3> QED
            BY <3>1, <3>2
    <2> QED
        BY <2>1, <1>4 DEF At
<1>12. ASSUME NEW f \in Eds \ {e}
       PROVE  /\ \A i \in 1 .. Len(asked[f]) : td'[asked[f][i]] = td[asked[f][i]]
              /\ ed'[f] = ed[f] /\ \A j : At(f, j)' <=> At(f, j)
    <2>1. \A i \in 1 .. Len(asked[f]) : td'[asked[f][i]] = td[asked[f][i]]
        BY <1>1, <1>7, <1>9, AskedAre
    <2> QED
        BY <2>1, <1>7 DEF At
<1>13. Ran(e, k)
    <2>1. /\ t = asked[e][k + 1] /\ k \in 0 .. Len(asked[e]) - 1
          /\ At(e, k) /\ t = ed[e].head /\ t \in Tds /\ At(e, k + 1)'
        BY <1>2, <1>4, <1>5, <1>11 DEF t
    <2>2. \A f \in Eds \ {e} : ed'[f] = ed[f] /\ \A j : At(f, j)' <=> At(f, j)
        BY <1>12
    <2>3. /\ td'[t].pid = td[t].pid /\ td'[t].what = td[t].what /\ td'[t].want = td[t].want
          /\ td'[t].got = Received(e, td[t])
          /\ \A u \in Tds \ {t} : td'[u] = td[u]
        BY <1>7
    <2>4. \A f \in Eds \ {e} : \A i \in 1 .. Len(asked[f]) : asked[f][i] # t
        BY <1>9
    <2> QED
        BY <2>1, <2>2, <2>3, <2>4, <1>8, Zenon DEF Ran
<1>14. Apart'
    <2>1. \A f \in Eds : ed'[f].tail = ed[f].tail
        BY <1>7
    <2>2. "in" \in Eds /\ "out" \in Eds
        BY DEF Eds
    <2> QED
        BY <2>1, <2>2, <1>1 DEF Apart
<1>15. Whole(e)'
    <2>1. ed'[e].head = Path(e)'[k + 2]
        <3>1. Path(e)' = Path(e)
            BY <1>7 DEF Path
        <3>2. k + 1 \in k + 1 .. Len(asked[e]) /\ (k + 1) + 1 = k + 2
            BY <1>4
        <3>3. td[t].next = Path(e)[k + 2]
            BY <1>2, <1>5, <3>2
        <3> QED
            BY <1>7, <3>1, <3>3
    <2>2. ASSUME NEW i \in k + 2 .. Len(asked'[e])
          PROVE  td'[asked'[e][i]].next = Path(e)'[i + 1]
        <3>1. i \in k + 1 .. Len(asked[e]) /\ i \in 1 .. Len(asked[e]) /\ i # k + 1
            BY <1>4
        <3>2. td'[asked[e][i]] = td[asked[e][i]]
            BY <3>1, <1>1, <1>7, <1>8, AskedAre
        <3> QED
            BY <3>1, <3>2, <1>2, <1>7 DEF Path
    <2>3. k + 1 \in 0 .. Len(asked'[e]) /\ (k + 1) + 1 = k + 2
        BY <1>4
    <2> QED
        BY <2>1, <2>2, <2>3, <1>11 DEF Whole
<1>16. ASSUME NEW f \in Eds \ {e} PROVE Whole(f)'
    <2>1. PICK j \in 0 .. Len(asked[f]) :
              /\ At(f, j)
              /\ ed[f].head = Path(f)[j + 1]
              /\ \A i \in j + 1 .. Len(asked[f]) : td[asked[f][i]].next = Path(f)[i + 1]
        BY <1>1 DEF Whole
    <2>2. Path(f)' = Path(f) /\ ed'[f] = ed[f] /\ At(f, j)'
        BY <2>1, <1>12 DEF Path
    <2>3. \A i \in j + 1 .. Len(asked[f]) : td'[asked[f][i]] = td[asked[f][i]]
        <3>1. \A i \in j + 1 .. Len(asked[f]) : i \in 1 .. Len(asked[f])
            BY <2>1, <1>1, AskedAre
        <3> QED
            BY <3>1, <1>12
    <2> QED
        BY <2>1, <2>2, <2>3 DEF Whole
<1>17. Untaken \cup {t} \subseteq Untaken' /\ t \notin Untaken
    <2>1. t \notin told /\ Held(t)
        BY <1>1, <1>4, <1>5, <1>10 DEF Stacks, Held
    <2>2. \A u : Held(u)' <=> Held(u)
        BY DEF Held
    <2> QED
        BY <2>1, <2>2, <1>5, <1>7, <1>10 DEF Untaken
<1>18. StackOf(hccaDone)'
    <2>1. PICK S \in SUBSET Untaken :
              hccaDone \in S \cup {Null} /\ \A u \in S : td[u].next \in S \cup {Null}
        BY <1>1 DEF Stacks, StackOf
    <2>2. \A u \in S : u \in Tds /\ u # t
        BY <1>17 DEF Untaken
    <2> QED
        BY <2>1, <2>2, <1>7, <1>17 DEF StackOf
<1>19. StackOf(doneHead)'
    <2>1. PICK S \in SUBSET Untaken :
              doneHead \in S \cup {Null} /\ \A u \in S : td[u].next \in S \cup {Null}
        BY <1>1 DEF Stacks, StackOf
    <2>2. \A u \in S : u \in Tds /\ u # t
        BY <1>17 DEF Untaken
    <2>3. PICK T : T = S \cup {t}
        OBVIOUS
    <2>4. /\ T \in SUBSET Untaken'
          /\ doneHead' \in T \cup {Null}
          /\ \A u \in T : td'[u].next \in T \cup {Null}
        BY <2>1, <2>2, <2>3, <1>7, <1>17
    <2> QED
        BY <2>4 DEF StackOf
<1>20. \A u \in told' : u \in Tds /\ td'[u].done /\ Held(u)'
    <2>1. \A u : Held(u)' <=> Held(u)
        BY DEF Held
    <2> QED
        BY <2>1, <1>1, <1>7, <1>10 DEF Stacks
<1>21. \A f \in Eds : Whole(f)'
    BY <1>15, <1>16
<1> QED
    BY <1>7, <1>13, <1>14, <1>18, <1>19, <1>20, <1>21 DEF Lists, Stacks

-----------------------------------------------------------------------------
(* Recursive functions. *)

LEMMA UpTo ==
    ASSUME NEW m \in Nat, NEW B, 0 \in B, \A n \in 1 .. m : n - 1 \in B => n \in B
    PROVE  \A n \in 0 .. m : n \in B
<1> SUFFICES ASSUME NEW x \in 0 .. m, x \notin B PROVE FALSE
    OBVIOUS
<1>1. PICK bad : bad = {n \in 0 .. m : n \notin B}
    OBVIOUS
<1>2. bad \subseteq Nat /\ bad # {}
    BY <1>1
<1>3. PICK n \in bad : \A j \in bad : <<j, n>> \notin OpToRel(<, Nat)
    BY <1>2, NatLessThanWellFounded, WFMin
<1>4. n \in 0 .. m /\ n \notin B
    BY <1>1
<1>5. n \in 1 .. m /\ n - 1 \in Nat /\ n - 1 \in 0 .. m
    BY <1>4
<1>6. n - 1 \in bad
    BY <1>1, <1>4, <1>5
<1>7. <<n - 1, n>> \in OpToRel(<, Nat)
    BY <1>5 DEF OpToRel
<1> QED
    BY <1>3, <1>6, <1>7

(* From a start, a step at a time, without leaving a set. *)
Recurs(f, m, init, step) ==
    \A n \in 0 .. m : f[n] = IF n = 0 THEN init ELSE step[<< f[n - 1], n >>]
StaysIn(D, m, step) == \A x \in D : \A n \in 1 .. m : step[<< x, n >>] \in D

LEMMA RecursionExists ==
    ASSUME NEW m \in Nat, NEW D, NEW init \in D, NEW step, StaysIn(D, m, step)
    PROVE  \E f \in [0 .. m -> D] : Recurs(f, m, init, step)
<1> DEFINE B == {k \in 0 .. m : \E f \in [0 .. k -> D] :
                    \A n \in 0 .. k : f[n] = IF n = 0 THEN init ELSE step[<< f[n - 1], n >>]}
<1>1. 0 \in B
    <2> DEFINE f == [n \in 0 .. 0 |-> init]
    <2>1. f \in [0 .. 0 -> D]
        OBVIOUS
    <2>2. \A n \in 0 .. 0 : f[n] = IF n = 0 THEN init ELSE step[<< f[n - 1], n >>]
        OBVIOUS
    <2>3. 0 \in 0 .. m
        OBVIOUS
    <2> HIDE DEF f
    <2> QED
        BY <2>1, <2>2, <2>3
<1>2. ASSUME NEW k \in 1 .. m, k - 1 \in B PROVE k \in B
    <2>1. PICK f \in [0 .. k - 1 -> D] :
              \A n \in 0 .. k - 1 : f[n] = IF n = 0 THEN init ELSE step[<< f[n - 1], n >>]
        BY <1>2
    <2>2. k - 1 \in 0 .. k - 1 /\ f[k - 1] \in D
        BY <2>1
    <2>3. step[<< f[k - 1], k >>] \in D
        BY <2>2 DEF StaysIn
    <2> DEFINE g == [n \in 0 .. k |-> IF n = k THEN step[<< f[k - 1], k >>] ELSE f[n]]
    <2>4. ASSUME NEW n \in 0 .. k PROVE n # k => n \in 0 .. k - 1
        BY <2>4
    <2>5. g \in [0 .. k -> D]
        BY <2>1, <2>3, <2>4
    <2>6. ASSUME NEW n \in 0 .. k
          PROVE  g[n] = IF n = 0 THEN init ELSE step[<< g[n - 1], n >>]
        <3>1. CASE n = k
            <4>1. k # 0 /\ k - 1 \in 0 .. k /\ k - 1 # k /\ k \in 0 .. k
                OBVIOUS
            <4>2. g[k - 1] = f[k - 1] /\ g[k] = step[<< f[k - 1], k >>]
                BY <4>1
            <4> QED
                BY <3>1, <4>1, <4>2
        <3>2. CASE n # k
            <4>1. n \in 0 .. k - 1
                BY <3>2
            <4>2. CASE n = 0
                BY <4>1, <4>2, <3>2, <2>1
            <4>3. CASE n # 0
                <5>1. n - 1 \in 0 .. k /\ n - 1 # k
                    BY <4>1, <4>3
                <5> QED
                    BY <5>1, <4>1, <4>3, <3>2, <2>1
            <4> QED
                BY <4>2, <4>3
        <3> QED
            BY <3>1, <3>2
    <2> HIDE DEF g
    <2>7. k \in 0 .. m
        OBVIOUS
    <2> QED
        BY <2>5, <2>6, <2>7
<1> HIDE DEF B
<1>3. m \in B
    BY <1>1, <1>2, UpTo
<1> QED
    BY <1>3 DEF B, Recurs

(* What is linked from somewhere is where the links lead. *)
LEMMA LinkedWithin ==
    ASSUME NEW S, S \subseteq Tds, \A t \in S : td[t].next \in S \cup {Null},
           NEW from, from \in S \cup {Null}
    PROVE  Linked(from) \subseteq S
<1> DEFINE next(t) == IF t \in Tds THEN td[t].next ELSE t
           m == Cardinality(Tds)
           D == SUBSET (S \cup {Null})
           step == [x \in D \X (1 .. m) |-> x[1] \cup {next(t) : t \in x[1]}]
           f == CHOOSE g : g = [n \in 0 .. m |->
                    IF n = 0 THEN {from} ELSE g[n - 1] \cup {next(t) : t \in g[n - 1]}]
<1>1. m \in Nat
    BY DriversAssumption, FS_CardinalityType
<1>2. \A t \in S \cup {Null} : next(t) \in S \cup {Null}
    BY PoolsAre, OhciAssumption
<1> HIDE DEF next, m
<1>3. \A x \in D : x \cup {next(t) : t \in x} \in D
    BY <1>2
<1>4. StaysIn(D, m, step)
    BY <1>3 DEF StaysIn
<1>5. PICK g \in [0 .. m -> D] : Recurs(g, m, {from}, step)
    <2>1. {from} \in D
        OBVIOUS
    <2>2. PICK c, init, s, d : c = m /\ init = {from} /\ s = step /\ d = D
        OBVIOUS
    <2> HIDE DEF D, step
    <2>3. c \in Nat /\ init \in d /\ StaysIn(d, c, s)
        BY <2>1, <2>2, <1>1, <1>4
    <2>4. \E h \in [0 .. c -> d] : Recurs(h, c, init, s)
        BY <2>3, RecursionExists
    <2> QED
        BY <2>2, <2>4
<1>6. ASSUME NEW n \in 1 .. m
      PROVE  step[<< g[n - 1], n >>] = g[n - 1] \cup {next(t) : t \in g[n - 1]}
    <2>1. n - 1 \in 0 .. m /\ g[n - 1] \in D
        BY <1>1, <1>5
    <2> QED
        BY <2>1
<1>7. g = [n \in 0 .. m |-> IF n = 0 THEN {from} ELSE g[n - 1] \cup {next(t) : t \in g[n - 1]}]
    <2>1. \A n \in 0 .. m :
              g[n] = IF n = 0 THEN {from} ELSE g[n - 1] \cup {next(t) : t \in g[n - 1]}
        <3> SUFFICES ASSUME NEW n \in 0 .. m
                     PROVE  g[n] = IF n = 0 THEN {from}
                                   ELSE g[n - 1] \cup {next(t) : t \in g[n - 1]}
            OBVIOUS
        <3>1. g[n] = IF n = 0 THEN {from} ELSE step[<< g[n - 1], n >>]
            BY <1>5 DEF Recurs
        <3>2. n # 0 => n \in 1 .. m
            BY <1>1
        <3> HIDE DEF step
        <3> QED
            BY <3>1, <3>2, <1>6
    <2> HIDE DEF D
    <2> QED
        BY <2>1, <1>5
<1>8. f = [n \in 0 .. m |-> IF n = 0 THEN {from} ELSE f[n - 1] \cup {next(t) : t \in f[n - 1]}]
    BY <1>7
<1> HIDE DEF f
<1> DEFINE B == {n \in 0 .. m : f[n] \subseteq S \cup {Null}}
<1>9. 0 \in B
    BY <1>1, <1>8
<1>10. ASSUME NEW n \in 1 .. m, n - 1 \in B PROVE n \in B
    <2>1. f[n] = f[n - 1] \cup {next(t) : t \in f[n - 1]} /\ f[n - 1] \subseteq S \cup {Null}
        BY <1>1, <1>8, <1>10
    <2> QED
        BY <2>1, <1>2, <1>10
<1> HIDE DEF B
<1>11. m \in B
    BY <1>1, <1>9, <1>10, UpTo
<1>12. Linked(from) = f[m] \ {Null}
    BY DEF Linked, f, m, next
<1> QED
    BY <1>11, <1>12 DEF B

-----------------------------------------------------------------------------
(* Who asks, and the lists: whatever the drivers do about the drive. *)

ListVars == <<ed, td, asked, told, hccaDone, doneHead>>

LEMMA ListsSame ==
    ASSUME Lists, UNCHANGED ListVars
    PROVE  Lists'
<1>1. Formed' /\ Apart'
    BY DEF Lists, ListVars, Formed, Apart
<1>2. \A e \in Eds : Whole(e)'
    BY DEF Lists, ListVars, Whole, At, Path
<1>3. Untaken' = Untaken /\ \A t : Held(t)' <=> Held(t)
    BY DEF ListVars, Untaken, Held
<1>4. Stacks'
    BY <1>3, StacksStay DEF Lists, ListVars, Stacks
<1> QED
    BY <1>1, <1>2, <1>4 DEF Lists

LEMMA JoinThree ==
    ASSUME NEW a, NEW b, NEW c
    PROVE  LET s == << a >> \o << b >> \o << c >>
           IN  Len(s) = 3 /\ s[1] = a /\ s[2] = b /\ s[3] = c
OBVIOUS

(* The transfers of a request, and of a command. *)
LEMMA ControlTransfersAre ==
    ASSUME NEW r \in Requests, r.in => r.cells > 0
    PROVE  LET ts == ControlTransfers(r)
           IN  /\ Len(ts) = IF r.cells = 0 THEN 2 ELSE 3
               /\ ts[1] = Transfer("setup", r, 0)
               /\ r.cells = 0 => ts[2] = Transfer("in", Null, 0)
               /\ r.cells # 0 /\ r.in =>
                      /\ ts[2] = Transfer("in", Null, 1)
                      /\ ts[3] = Transfer("out", Packet(<< >>), 0)
               /\ r.cells # 0 /\ ~r.in =>
                      /\ ts[2] = Transfer("out", Packet(<< Reg >>), 0)
                      /\ ts[3] = Transfer("in", Null, 0)
               /\ \A i \in 1 .. Len(ts) : \E p, w, n : ts[i] = Transfer(p, w, n)
<1>1. r.cells \in 0 .. 1 /\ r.in \in BOOLEAN
    BY DEF Requests
<1> DEFINE S == Transfer("setup", r, 0)
           last == IF r.in THEN Transfer("out", Packet(<< >>), 0) ELSE Transfer("in", Null, 0)
           data == IF r.in THEN Transfer("in", Null, r.cells)
                   ELSE Transfer("out", Packet(<< Reg >>), 0)
<1>2. CASE r.cells = 0
    <2>1. ~r.in /\ ControlTransfers(r) = << S >> \o << >> \o << last >>
        BY <1>2 DEF ControlTransfers
    <2>2. last = Transfer("in", Null, 0)
        BY <2>1
    <2> HIDE DEF S, last
    <2>3. /\ Len(ControlTransfers(r)) = 2
          /\ ControlTransfers(r)[1] = S
          /\ ControlTransfers(r)[2] = last
          /\ \A i \in 1 .. 2 : i = 1 \/ i = 2
        BY <2>1
    <2>4. \A i \in 1 .. 2 : \E p, w, n : ControlTransfers(r)[i] = Transfer(p, w, n)
        BY <2>2, <2>3 DEF S
    <2> QED
        BY <1>2, <2>2, <2>3, <2>4 DEF S
<1>3. CASE r.cells = 1
    <2>1. ControlTransfers(r) = << S >> \o << data >> \o << last >>
        BY <1>3 DEF ControlTransfers
    <2>2. /\ r.in => data = Transfer("in", Null, 1) /\ last = Transfer("out", Packet(<< >>), 0)
          /\ ~r.in => /\ data = Transfer("out", Packet(<< Reg >>), 0)
                      /\ last = Transfer("in", Null, 0)
        BY <1>3
    <2> HIDE DEF S, last, data
    <2>3. /\ Len(ControlTransfers(r)) = 3
          /\ ControlTransfers(r)[1] = S
          /\ ControlTransfers(r)[2] = data
          /\ ControlTransfers(r)[3] = last
          /\ \A i \in 1 .. 3 : i = 1 \/ i = 2 \/ i = 3
        <3>1. PICK a, b, c : a = S /\ b = data /\ c = last
            OBVIOUS
        <3>2. ControlTransfers(r) = << a >> \o << b >> \o << c >>
            BY <2>1, <3>1
        <3>3. /\ Len(<< a >> \o << b >> \o << c >>) = 3
              /\ (<< a >> \o << b >> \o << c >>)[1] = a
              /\ (<< a >> \o << b >> \o << c >>)[2] = b
              /\ (<< a >> \o << b >> \o << c >>)[3] = c
            BY JoinThree
        <3>4. \A i \in 1 .. 3 : i = 1 \/ i = 2 \/ i = 3
            OBVIOUS
        <3> QED
            BY <3>1, <3>2, <3>3, <3>4, Zenon
    <2>4. /\ \E p, w, n : data = Transfer(p, w, n)
          /\ \E p, w, n : last = Transfer(p, w, n)
          /\ \E p, w, n : S = Transfer(p, w, n)
        BY <1>1, <2>2 DEF S
    <2>5. \A i \in 1 .. 3 : \E p, w, n : ControlTransfers(r)[i] = Transfer(p, w, n)
        BY <2>3, <2>4
    <2> QED
        BY <1>1, <1>3, <2>2, <2>3, <2>5 DEF S
<1> QED
    BY <1>1, <1>2, <1>3

LEMMA DataTransfersAre ==
    ASSUME job \in CommandSet, job.cells > 0
    PROVE  /\ ~job.in => /\ Len(DataTransfers) = job.cells
                         /\ \A i \in 1 .. job.cells :
                                DataTransfers[i] = Transfer("out", Packet(<< job.fill >>), 0)
           /\ job.in /\ job.op = "read" =>
                  /\ Len(DataTransfers) = job.cells
                  /\ \A i \in 1 .. job.cells : DataTransfers[i] = Transfer("in", Null, 1)
           /\ job.in /\ job.op # "read" =>
                  Len(DataTransfers) = 1 /\ DataTransfers[1] = Transfer("in", Null, job.cells)
           /\ Len(DataTransfers) \in Nat \ {0}
           /\ \A i \in 1 .. Len(DataTransfers) : \E p, w, n : DataTransfers[i] = Transfer(p, w, n)
<1>1. job.cells \in Nat /\ job.in \in BOOLEAN
    BY CommandsAssumption
<1> DEFINE OutCell == Transfer("out", Packet(<< job.fill >>), 0)
           InCell == Transfer("in", Null, 1)
           InAll == Transfer("in", Null, job.cells)
<1>2. CASE ~job.in
    <2>1. DataTransfers = [i \in 1 .. job.cells |-> OutCell]
        BY <1>2 DEF DataTransfers
    <2> HIDE DEF OutCell
    <2>2. Len(DataTransfers) = job.cells /\ \A i \in 1 .. job.cells : DataTransfers[i] = OutCell
        BY <1>1, <2>1
    <2> USE DEF OutCell
    <2> QED
        BY <1>1, <1>2, <2>2
<1>3. CASE job.in /\ job.op = "read"
    <2>1. DataTransfers = [i \in 1 .. job.cells |-> InCell]
        BY <1>3 DEF DataTransfers
    <2> HIDE DEF InCell
    <2>2. Len(DataTransfers) = job.cells /\ \A i \in 1 .. job.cells : DataTransfers[i] = InCell
        BY <1>1, <2>1
    <2> USE DEF InCell
    <2> QED
        BY <1>1, <1>3, <2>2
<1>4. CASE job.in /\ job.op # "read"
    <2>1. DataTransfers = << InAll >>
        BY <1>4 DEF DataTransfers
    <2> HIDE DEF InAll
    <2>2. /\ Len(DataTransfers) = 1 /\ DataTransfers[1] = InAll
          /\ \A i \in 1 .. 1 : i = 1
        BY <2>1
    <2> USE DEF InAll
    <2> QED
        BY <1>4, <2>2
<1> QED
    BY <1>1, <1>2, <1>3, <1>4

LEMMA OthersAre ==
    Others("ctl") = {"in", "out"} /\ Others("in") = {"ctl"} /\ Others("out") = {"ctl"}
<1>1. ControlTds # {}
    BY FS_EmptySet, DriversAssumption
<1>2. ControlTds # Tds \ ControlTds
    BY <1>1, DriversAssumption
<1> QED
    BY <1>2, PoolsAre DEF Others, Eds

LEMMA Walks ==
    /\ ControlList \o BulkList = <<"ctl", "in", "out">>
    /\ Tail(<<"ctl", "in", "out">>) = <<"in", "out">>
    /\ Tail(<<"in", "out">>) = <<"out">>
<1>1. PICK a, b, c : a = "ctl" /\ b = "in" /\ c = "out" /\ {a, b, c} = Eds
    BY DEF Eds
<1>2. <<a>> \o <<b, c>> = <<a, b, c>>
    <2>1. /\ <<a>> \o <<b, c>> \in Seq(Eds) /\ <<a, b, c>> \in Seq(Eds)
          /\ Len(<<a>> \o <<b, c>>) = 3 /\ Len(<<a, b, c>>) = 3
          /\ \A i \in 1 .. 3 : (<<a>> \o <<b, c>>)[i] = <<a, b, c>>[i]
        BY <1>1
    <2> QED
        BY <2>1, SeqEqual
<1>3. Tail(<<a, b, c>>) = <<b, c>>
    <2>1. /\ Tail(<<a, b, c>>) \in Seq(Eds) /\ <<b, c>> \in Seq(Eds)
          /\ Len(Tail(<<a, b, c>>)) = 2 /\ Len(<<b, c>>) = 2
          /\ \A i \in 1 .. 2 : Tail(<<a, b, c>>)[i] = <<b, c>>[i]
        BY <1>1
    <2> QED
        BY <2>1, SeqEqual
<1>4. Tail(<<b, c>>) = <<c>>
    <2>1. /\ Tail(<<b, c>>) \in Seq(Eds) /\ <<c>> \in Seq(Eds)
          /\ Len(Tail(<<b, c>>)) = 1 /\ Len(<<c>>) = 1
          /\ \A i \in 1 .. 1 : Tail(<<b, c>>)[i] = <<c>>[i]
        BY <1>1
    <2> QED
        BY <2>1, SeqEqual
<1> QED
    BY <1>1, <1>2, <1>3, <1>4 DEF ControlList, BulkList

LEMMA GroundInit == Init => Ground
<1> SUFFICES ASSUME Init PROVE Ground
    OBVIOUS
<1>1. Life
    BY DEF Init, Life, Live, Serving, Tags
<1>2. Waits
    BY DEF Init, Waits, NothingAsked, Eds
<1> QED
    BY <1>1, <1>2 DEF Ground, Init, Live

LEMMA ServeGround ==
    ASSUME Ground, Serve
    PROVE  Ground' /\ (Live /\ RunTd => Runnable(Head(walk)) /\ Head(walk) \in Eds)
<1>1. UNCHANGED guestVars
    BY DEF Serve
<1>2. UNCHANGED <<up, cli, job, myTag, ctl, asked, told>>
    BY <1>1 DEF guestVars, client, waits
<1>3. Waits'
    BY <1>2 DEF Ground, Waits
<1>4. CASE StartService
    <2>1. walk' = <<"ctl", "in", "out">> /\ UNCHANGED <<operational, doneHead, ed, td, hccaDone>>
        BY <1>4, Walks DEF StartService, registers, memory
    <2>2. Life'
        BY <1>2, <1>4, <2>1 DEF Ground, Life, Live, Serving, StartService
    <2>3. Live' => Lists'
        BY <1>2, <2>1, ListsSame DEF Ground, Live, ListVars
    <2> QED
        BY <1>3, <1>4, <2>2, <2>3 DEF Ground, StartService, RunTd
<1>5. CASE RunTd
    <2>1. /\ Serving /\ Runnable(Head(walk))
          /\ Retire(Head(walk), ed[Head(walk)].head, Stalls(Head(walk), td[ed[Head(walk)].head]))
          /\ UNCHANGED <<registers, hccaDone, walk>>
        BY <1>5 DEF RunTd
    <2>2. Head(walk) \in Eds
        BY <2>1 DEF Ground, Life, Serving, Eds
    <2>3. Life'
        BY <1>2, <2>1 DEF Ground, Life, Live, Serving, registers
    <2>4. ASSUME Live' PROVE Lists'
        <3>1. PICK e, s : e = Head(walk) /\ s = Stalls(e, td[ed[e].head])
            OBVIOUS
        <3>2. Lists
            BY <1>2, <2>4 DEF Ground, Live
        <3> QED
            BY <1>2, <2>1, <2>2, <3>1, <3>2, RetireKeeps
    <2> QED
        BY <1>3, <2>1, <2>2, <2>3, <2>4 DEF Ground
<1>6. CASE NextEd
    <2>1. /\ walk' = Tail(walk) /\ Len(walk) > 1 /\ Serving
          /\ UNCHANGED <<operational, doneHead, ed, td, hccaDone>>
        BY <1>6 DEF NextEd, registers, memory
    <2>2. Life'
        <3>1. walk' \in {<<"in", "out">>, <<"out">>} /\ Serving'
            <4>1. Len(<<"out">>) = 1
                OBVIOUS
            <4>2. walk = <<"ctl", "in", "out">> \/ walk = <<"in", "out">>
                BY <2>1, <4>1 DEF Ground, Life, Serving
            <4>3. walk' \in {<<"in", "out">>, <<"out">>}
                BY <2>1, <4>2, Walks
            <4>4. <<"in", "out">> # << >> /\ <<"out">> # << >>
                OBVIOUS
            <4> QED
                BY <4>3, <4>4 DEF Serving
        <3> QED
            BY <1>2, <2>1, <3>1 DEF Ground, Life, Live, Serving
    <2>3. Live' => Lists'
        BY <1>2, <2>1, ListsSame DEF Ground, Live, ListVars
    <2> QED
        BY <1>3, <1>6, <2>2, <2>3 DEF Ground, NextEd, RunTd
<1>7. CASE HandOver
    <2>1. /\ hccaDone' = doneHead /\ doneHead' = Null /\ walk' = << >> /\ Serving
          /\ UNCHANGED <<operational, ed, td>>
        BY <1>7 DEF HandOver
    <2>2. Life'
        BY <1>2, <2>1 DEF Ground, Life, Live, Serving
    <2>3. ASSUME Live' PROVE Lists'
        <3>1. Formed /\ Apart /\ (\A e \in Eds : Whole(e)) /\ Stacks
            BY <1>2, <2>3 DEF Ground, Live, Lists
        <3>2. Formed' /\ Apart'
            BY <1>2, <2>1, <3>1 DEF Formed, Apart
        <3>3. \A e \in Eds : Whole(e)'
            BY <1>2, <2>1, <3>1 DEF Whole, At, Path
        <3>4. Untaken' = Untaken /\ \A t : Held(t)' <=> Held(t)
            BY <1>2, <2>1 DEF Untaken, Held
        <3>5. StackOf(hccaDone)'
            BY <2>1, <3>1, <3>4 DEF Stacks, StackOf
        <3>6. StackOf(doneHead)'
            <4>1. doneHead' \in {} \cup {Null} /\ {} \in SUBSET Untaken'
                BY <2>1
            <4> QED
                BY <4>1 DEF StackOf
        <3>7. \A t \in told' : t \in Tds /\ td'[t].done /\ Held(t)'
            BY <1>2, <2>1, <3>1, <3>4 DEF Stacks
        <3> QED
            BY <3>2, <3>3, <3>5, <3>6, <3>7 DEF Lists, Stacks
    <2>4. ~RunTd
        <3>1. Len(walk') = 0
            BY <2>1
        <3>2. walk # walk'
            BY <2>1 DEF Serving
        <3> QED
            BY <3>2 DEF RunTd
    <2> QED
        BY <1>3, <2>2, <2>3, <2>4 DEF Ground
<1> QED
    BY <1>4, <1>5, <1>6, <1>7 DEF Serve, Service

GroundVars == <<ListVars, up, cli, job, myTag, ctl, walk, operational>>

LEMMA GroundSame ==
    ASSUME Ground, UNCHANGED GroundVars
    PROVE  Ground'
<1>1. UNCHANGED <<up, cli, job, myTag, ctl, walk, operational, asked, told, doneHead>>
    BY DEF GroundVars, ListVars
<1>2. Life'
    BY <1>1 DEF Ground, Life, Live, Serving
<1>3. Waits'
    BY <1>1 DEF Ground, Waits
<1>4. Live' => Lists'
    BY <1>1, ListsSame DEF Ground, GroundVars, Live
<1> QED
    BY <1>2, <1>3, <1>4 DEF Ground

LEMMA TakeDoneGround ==
    ASSUME Ground, TakeDone
    PROVE  Ground'
<1>1. /\ ~Serving /\ up \in {"resetting", "up"}
      /\ told' = told \cup Linked(hccaDone) /\ hccaDone' = Null
      /\ UNCHANGED <<operational, doneHead, ed, td, walk, up, cli, job, myTag, ctl, asked>>
    BY DEF TakeDone, registers, service, client
<1>2. Live /\ Lists /\ doneHead = Null
    BY <1>1 DEF Ground, Live, Life
<1>3. Life'
    BY <1>1, <1>2 DEF Ground, Life, Live, Serving
<1>4. Waits'
    BY <1>1 DEF Ground, Waits
<1>5. Formed' /\ Apart'
    BY <1>1, <1>2 DEF Lists, Formed, Apart
<1>6. \A e \in Eds : Whole(e)'
    BY <1>1, <1>2 DEF Lists, Whole, At, Path
<1>7. \A t \in told' : t \in Tds /\ td'[t].done /\ Held(t)'
    <2>1. PICK S \in SUBSET Untaken :
              hccaDone \in S \cup {Null} /\ \A t \in S : td[t].next \in S \cup {Null}
        BY <1>2 DEF Lists, Stacks, StackOf
    <2>2. S \subseteq Tds
        BY DEF Untaken
    <2>3. PICK from : from = hccaDone
        OBVIOUS
    <2>4. Linked(hccaDone) \subseteq S
        BY <2>1, <2>2, <2>3, LinkedWithin
    <2>5. \A t : Held(t)' <=> Held(t)
        BY <1>1 DEF Held
    <2> QED
        BY <2>4, <2>5, <1>1, <1>2 DEF Lists, Stacks, Untaken
<1>8. StackOf(hccaDone)' /\ StackOf(doneHead)'
    <2>1. hccaDone' = Null /\ doneHead' = Null /\ {} \in SUBSET Untaken'
        BY <1>1, <1>2
    <2> QED
        BY <2>1 DEF StackOf
<1> QED
    BY <1>3, <1>4, <1>5, <1>6, <1>7, <1>8 DEF Ground, Lists, Stacks

LEMMA StopGround ==
    ASSUME Ground, StopController
    PROVE  Ground'
<1>1. /\ up = "off" /\ up' = "stopped" /\ ~Serving
      /\ operational' = FALSE /\ doneHead' = Null
      /\ UNCHANGED <<walk, cli, job, myTag, ctl, asked, told>>
    BY DEF StopController, HcReset, GuestRuns, service, client, waits
<1>2. Life' /\ ~Live'
    BY <1>1 DEF Ground, Life, Live, Serving
<1>3. Waits'
    BY <1>1 DEF Ground, Waits
<1> QED
    BY <1>2, <1>3 DEF Ground

LEMMA FirstTdsAre ==
    /\ \A e \in Eds : FirstTd[e] \in Pool(e)
    /\ FirstTd["in"] # FirstTd["out"]
<1>1. IsFiniteSet(Tds \ ControlTds) /\ Cardinality(Tds \ ControlTds) >= 2
    BY PoolsAre, DriversAssumption DEF Eds
<1>2. PICK two : two = Row(Tds \ ControlTds, 2)
    OBVIOUS
<1>3. two \in [1 .. 2 -> Tds \ ControlTds] /\ \A i, j \in 1 .. 2 : two[i] = two[j] => i = j
    BY <1>1, <1>2, RowIs
<1>4. Row(ControlTds, 1) \in [1 .. 1 -> ControlTds]
    <2>1. IsFiniteSet(ControlTds) /\ Cardinality(ControlTds) >= 1
        BY PoolsAre, DriversAssumption DEF Eds
    <2> QED
        BY <2>1, RowIs
<1>5. FirstTd["ctl"] = Row(ControlTds, 1)[1] /\ FirstTd["in"] = two[1] /\ FirstTd["out"] = two[2]
    BY <1>2, PoolsAre DEF FirstTd, Eds
<1> QED
    BY <1>3, <1>4, <1>5, PoolsAre DEF Eds

LEMMA StartGround ==
    ASSUME Ground, StartController
    PROVE  Ground'
<1>1. /\ up = "stopped" /\ up' = (IF SendsReset THEN "resetting" ELSE "up") /\ ~Serving
      /\ ed' = EmptyQueues /\ td' = [t \in Tds |-> NoTransfer] /\ hccaDone' = Null
      /\ UNCHANGED <<walk, cli, job, myTag, ctl, asked, told, doneHead>>
    BY DEF StartController, GuestRuns, service, client, waits
<1>2. /\ asked' = NothingAsked /\ told' = {} /\ ctl' = NoRequest /\ cli' = "idle"
      /\ doneHead' = Null
    BY <1>1 DEF Ground, Life, Live
<1>3. Life'
    BY <1>1, <1>2 DEF Ground, Life, Live, Serving
<1>4. Waits'
    BY <1>1 DEF Ground, Waits
<1>5. \A e \in Eds : /\ asked'[e] = << >>
                     /\ ed'[e] = EmptyEd(FirstTd[e])
                     /\ ed'[e].head = FirstTd[e] /\ ed'[e].tail = FirstTd[e]
                     /\ IsEndpoint(ed'[e])
    <2>1. \A e \in Eds : asked'[e] = << >> /\ ed'[e] = EmptyEd(FirstTd[e])
        BY <1>1, <1>2 DEF NothingAsked, EmptyQueues
    <2> QED
        BY <2>1 DEF EmptyEd, IsEndpoint
<1>6. Formed'
    <2>1. IsTransfer(NoTransfer)
        BY DEF IsTransfer, NoTransfer, Transfer
    <2>2. td' = [t \in Tds |-> td'[t]] /\ \A t \in Tds : td'[t] = NoTransfer
        BY <1>1
    <2>3. ed' = [e \in Eds |-> ed'[e]]
        BY <1>1 DEF EmptyQueues
    <2>4. asked' = [e \in Eds |-> asked'[e]]
        BY <1>2 DEF NothingAsked
    <2> QED
        BY <2>1, <2>2, <2>3, <2>4, <1>5 DEF Formed
<1>7. Apart'
    <2>1. \A e \in Eds : ed'[e].tail \in Pool(e) /\ asked'[e] = << >>
        BY <1>5, FirstTdsAre
    <2>2. ed'["in"].tail # ed'["out"].tail
        BY <1>5, FirstTdsAre DEF Eds
    <2>3. ASSUME NEW e \in Eds PROVE Len(asked'[e]) = 0 /\ asked'[e] \in Seq(Pool(e))
        <3>1. asked'[e] = << >>
            BY <2>1
        <3> QED
            BY <3>1, EmptySeq
    <2>4. asked'["in"] = << >>
        BY <2>1 DEF Eds
    <2> QED
        BY <2>1, <2>2, <2>3, <2>4 DEF Apart
<1>8. \A e \in Eds : Whole(e)'
    BY <1>5 DEF Whole, At, Path
<1>9. Stacks'
    <2>1. {} \in SUBSET Untaken'
        OBVIOUS
    <2> QED
        BY <2>1, <1>1, <1>2 DEF Stacks, StackOf
<1> QED
    BY <1>3, <1>4, <1>6, <1>7, <1>8, <1>9 DEF Ground, Lists

(* What follows when a client asks. *)
Asks(e, ts) ==
    /\ Lists /\ Lists' /\ Placed(e, ts)
    /\ At(e, 0)'
    /\ \A f \in Others(e) : \A k : At(f, k)' <=> At(f, k)
    /\ UNCHANGED <<registers, doneHead, hccaDone, ctlVars, service, diskVars>>

LEMMA OneTransfer ==
    ASSUME NEW p, NEW w, NEW n
    PROVE  LET ts == << Transfer(p, w, n) >>
           IN  /\ Len(ts) = 1 /\ ts[1] = Transfer(p, w, n)
               /\ \A i \in 1 .. Len(ts) : \E p2, w2, n2 : ts[i] = Transfer(p2, w2, n2)
<1>1. PICK x : x = Transfer(p, w, n)
    OBVIOUS
<1>2. /\ Len(<< x >>) = 1 /\ << x >>[1] = x
      /\ \A i \in 1 .. Len(<< x >>) : << x >>[i] = x
    OBVIOUS
<1> QED
    BY <1>1, <1>2

(* The bulk client asks, having been told of all it asked of g. *)
LEMMA BulkAsks ==
    ASSUME Lists, NEW e \in {"in", "out"}, NEW g \in {"in", "out"}, NEW ts, Len(ts) \in Nat,
           \A i \in 1 .. Len(ts) : \E p, w, n : ts[i] = Transfer(p, w, n),
           Queue(e, ts), Range(asked[g]) \subseteq told, told' = told \ Range(asked[g]),
           \A f \in {"in", "out"} : f # g => asked[f] = << >>
    PROVE  /\ Asks(e, ts)
           /\ asked'["ctl"] = asked["ctl"] /\ ed'["ctl"] = ed["ctl"]
           /\ \A f \in {"in", "out"} : f # e => asked'[f] = << >>
<1>1. e \in Eds /\ g \in Eds /\ Others(e) = {"ctl"} /\ Eds = {"ctl", "in", "out"}
    BY OthersAre DEF Eds
<1>2. g \notin Others(e) /\ \A f \in Eds \ {g} : f \notin Others(e) => asked[f] = << >>
    BY <1>1
<1>3. /\ Lists' /\ Placed(e, ts) /\ At(e, 0)'
      /\ \A f \in Others(e) : \A k : At(f, k)' <=> At(f, k)
    BY <1>1, <1>2, QueueKeeps
<1>4. /\ asked'["ctl"] = asked["ctl"] /\ ed'["ctl"] = ed["ctl"]
      /\ \A f \in {"in", "out"} : f # e => asked'[f] = << >>
    <2>1. \A f \in Eds \ {e} : ed'[f] = ed[f]
                               /\ asked'[f] = IF f \in Others(e) THEN asked[f] ELSE << >>
        BY <1>3 DEF Placed
    <2> QED
        BY <2>1, <1>1
<1> QED
    BY <1>3, <1>4 DEF Asks, Queue

LEMMA SendCommandGround ==
    ASSUME Ground, NEW c \in CommandSet, SendCommand(c)
    PROVE  /\ Ground'
           /\ Asks("out", << Transfer("out", Wrapper(c, myTag'), 0) >>)
           /\ asked'["ctl"] = asked["ctl"] /\ ed'["ctl"] = ed["ctl"]
<1>1. /\ up = "up" /\ cli = "idle" /\ cli' = "cbw" /\ job' = c /\ myTag' = 1 - myTag
      /\ ~Serving
      /\ Queue("out", << Transfer("out", Wrapper(c, myTag'), 0) >>)
      /\ UNCHANGED <<up, buf, ctl, told>>
    BY DEF SendCommand, GuestRuns
<1>2. UNCHANGED <<walk, doneHead, operational>>
    BY <1>1 DEF Queue, service, registers
<1>3. Lists /\ asked["in"] = << >> /\ asked["out"] = << >> /\ Range(asked["out"]) = {}
    <2>1. Lists /\ asked["in"] = << >> /\ asked["out"] = << >>
        BY <1>1 DEF Ground, Live, Waits
    <2>2. \A i \in 1 .. Len(<< >>) : FALSE
        OBVIOUS
    <2>3. Range(asked["out"]) = {asked["out"][i] : i \in 1 .. Len(asked["out"])}
        BY <2>1, AskedAre DEF Lists, Eds
    <2> QED
        BY <2>1, <2>2, <2>3
<1>4. PICK t : t = myTag'
    OBVIOUS
<1>5. /\ Asks("out", << Transfer("out", Wrapper(c, t), 0) >>)
      /\ asked'["ctl"] = asked["ctl"] /\ ed'["ctl"] = ed["ctl"]
      /\ asked'["in"] = << >>
    <2>1. PICK ts : ts = << Transfer("out", Wrapper(c, t), 0) >>
        OBVIOUS
    <2>2. Len(ts) \in Nat /\ \A i \in 1 .. Len(ts) : \E p, w, n : ts[i] = Transfer(p, w, n)
        BY <2>1, OneTransfer
    <2>3. Queue("out", ts) /\ told' = told \ Range(asked["out"])
        BY <1>1, <1>3, <1>4, <2>1
    <2>4. /\ Asks("out", ts)
          /\ asked'["ctl"] = asked["ctl"] /\ ed'["ctl"] = ed["ctl"]
          /\ \A f \in {"in", "out"} : f # "out" => asked'[f] = << >>
        BY <1>3, <2>2, <2>3, BulkAsks
    <2> QED
        BY <2>1, <2>4
<1>6. Life'
    BY <1>1, <1>2 DEF Ground, Life, Live, Serving, Tags
<1>7. Waits'
    BY <1>1, <1>5 DEF Ground, Waits
<1> QED
    BY <1>4, <1>5, <1>6, <1>7 DEF Ground, Asks

(* What the client that has been told of its command goes on to. *)
LEMMA AfterCommandGround ==
    ASSUME Ground, AfterCommand
    PROVE  /\ Ground' /\ Live /\ cli = "cbw"
           /\ asked'["ctl"] = asked["ctl"] /\ ed'["ctl"] = ed["ctl"]
           /\ At("out", Len(asked["out"]))
           /\ \/ job.cells > 0 /\ cli' = "data" /\ Asks(DataEnd, DataTransfers)
              \/ job.cells = 0 /\ cli' = "csw" /\ Asks("in", StatusTransfers)
           /\ UNCHANGED <<up, job, myTag, buf, ctl>>
<1>1. /\ cli = "cbw" /\ ~Serving /\ Told("out") /\ told' = told \ Range(asked["out"])
      /\ UNCHANGED <<up, job, myTag, buf, ctl>>
    BY DEF AfterCommand, GuestRuns, Forget
<1>2. Live /\ Lists /\ asked["in"] = << >> /\ job \in CommandSet
    BY <1>1 DEF Ground, Live, Waits, Life
<1>3. Range(asked["out"]) \subseteq told /\ \A f \in {"in", "out"} : f # "out" => asked[f] = << >>
    BY <1>1, <1>2 DEF Told
<1>4. At("out", Len(asked["out"]))
    BY <1>2, <1>3, AllTold DEF Eds
<1>5. CASE job.cells > 0 /\ cli' = "data" /\ Queue(DataEnd, DataTransfers)
    <2>1. PICK e, ts : e = DataEnd /\ ts = DataTransfers
        OBVIOUS
    <2>2. e \in {"in", "out"} /\ (job.in => e = "in") /\ (~job.in => e = "out")
        BY <2>1 DEF DataEnd
    <2>3. Len(ts) \in Nat /\ \A i \in 1 .. Len(ts) : \E p, w, n : ts[i] = Transfer(p, w, n)
        BY <1>2, <1>5, <2>1, DataTransfersAre
    <2>4. Queue(e, ts)
        BY <1>5, <2>1
    <2>5. /\ Asks(e, ts)
          /\ asked'["ctl"] = asked["ctl"] /\ ed'["ctl"] = ed["ctl"]
          /\ \A f \in {"in", "out"} : f # e => asked'[f] = << >>
        BY <1>1, <1>2, <1>3, <2>2, <2>3, <2>4, BulkAsks
    <2>6. UNCHANGED <<walk, doneHead, operational>>
        BY <2>4 DEF Queue, service, registers
    <2>7. Life'
        BY <1>1, <1>2, <1>5, <2>5, <2>6 DEF Ground, Life, Live, Serving
    <2>8. Waits'
        BY <1>1, <1>5, <2>2, <2>5 DEF Ground, Waits
    <2> QED
        <3>1. Asks(DataEnd, DataTransfers)
            BY <2>1, <2>5
        <3>2. Ground'
            BY <2>5, <2>7, <2>8 DEF Ground, Asks
        <3> QED
            BY <1>1, <1>2, <1>4, <1>5, <2>5, <3>1, <3>2
<1>6. CASE job.cells = 0 /\ cli' = "csw" /\ AskForStatus
    <2>1. PICK ts : ts = StatusTransfers
        OBVIOUS
    <2>2. Len(ts) \in Nat /\ \A i \in 1 .. Len(ts) : \E p, w, n : ts[i] = Transfer(p, w, n)
        BY <2>1, OneTransfer DEF StatusTransfers
    <2>3. Queue("in", ts)
        BY <1>6, <2>1 DEF AskForStatus, StatusTransfers
    <2>4. /\ Asks("in", ts)
          /\ asked'["ctl"] = asked["ctl"] /\ ed'["ctl"] = ed["ctl"]
          /\ \A f \in {"in", "out"} : f # "in" => asked'[f] = << >>
        BY <1>1, <1>2, <1>3, <2>2, <2>3, BulkAsks
    <2>5. UNCHANGED <<walk, doneHead, operational>>
        BY <2>3 DEF Queue, service, registers
    <2>6. Life'
        BY <1>1, <1>2, <1>6, <2>4, <2>5 DEF Ground, Life, Live, Serving
    <2>7. Waits'
        BY <1>1, <1>6, <2>4 DEF Ground, Waits
    <2> QED
        BY <1>1, <1>2, <1>4, <1>6, <2>1, <2>4, <2>6, <2>7 DEF Ground, Asks
<1> QED
    BY <1>5, <1>6 DEF AfterCommand

LEMMA AfterDataGround ==
    ASSUME Ground, AfterData
    PROVE  /\ Ground' /\ Live /\ cli = "data" /\ cli' = "csw"
           /\ asked'["ctl"] = asked["ctl"] /\ ed'["ctl"] = ed["ctl"]
           /\ At(DataEnd, Len(asked[DataEnd]))
           /\ Asks("in", StatusTransfers)
           /\ buf' = Gathered(DataEnd)
           /\ UNCHANGED <<up, job, myTag, ctl>>
<1>1. /\ cli = "data" /\ cli' = "csw" /\ ~Serving
      /\ Told(DataEnd) /\ told' = told \ Range(asked[DataEnd])
      /\ buf' = Gathered(DataEnd)
      /\ UNCHANGED <<up, job, myTag, ctl>>
    BY DEF AfterData, GuestRuns, Forget
<1>2. PICK g : g = DataEnd
    OBVIOUS
<1>3. Live /\ Lists /\ asked[IF job.in THEN "out" ELSE "in"] = << >>
    BY <1>1 DEF Ground, Live, Waits, Life
<1>4. /\ g \in {"in", "out"} /\ g \in Eds
      /\ Range(asked[g]) \subseteq told /\ \A f \in {"in", "out"} : f # g => asked[f] = << >>
    BY <1>1, <1>2, <1>3 DEF Told, DataEnd, Eds
<1>5. At(g, Len(asked[g]))
    BY <1>3, <1>4, AllTold
<1>6. PICK ts : ts = StatusTransfers
    OBVIOUS
<1>7. Len(ts) \in Nat /\ \A i \in 1 .. Len(ts) : \E p, w, n : ts[i] = Transfer(p, w, n)
    BY <1>6, OneTransfer DEF StatusTransfers
<1>8. Queue("in", ts) /\ told' = told \ Range(asked[g])
    BY <1>1, <1>2, <1>6 DEF AfterData, AskForStatus, StatusTransfers
<1>9. /\ Asks("in", ts)
      /\ asked'["ctl"] = asked["ctl"] /\ ed'["ctl"] = ed["ctl"]
      /\ \A f \in {"in", "out"} : f # "in" => asked'[f] = << >>
    BY <1>3, <1>4, <1>7, <1>8, BulkAsks
<1>10. UNCHANGED <<walk, doneHead, operational>>
    BY <1>8 DEF Queue, service, registers
<1>11. Life'
    BY <1>1, <1>3, <1>9, <1>10 DEF Ground, Life, Live, Serving
<1>12. Waits'
    BY <1>1, <1>9 DEF Ground, Waits
<1> QED
    BY <1>1, <1>2, <1>3, <1>5, <1>6, <1>9, <1>11, <1>12 DEF Ground, Asks

(* A client that has been told of all it asked of an endpoint, or that its *)
(* first transfers are done and no other will be, drops what it asked.     *)
LEMMA DropKeeps ==
    ASSUME Lists, NEW e \in Eds, asked' = [asked EXCEPT ![e] = << >>],
           told' = told \ Range(asked[e]),
           \A t \in Range(asked[e]) : t \in told \/ ~td[t].done,
           UNCHANGED <<td, doneHead, hccaDone>>,
           ed'[e].head = ed'[e].tail /\ ed'[e].tail = ed[e].tail /\ IsEndpoint(ed'[e]),
           ed' = [f \in Eds |-> ed'[f]], \A f \in Eds \ {e} : ed'[f] = ed[f]
    PROVE  /\ Lists'
           /\ asked'[e] = << >> /\ \A f \in Eds \ {e} : asked'[f] = asked[f]
           /\ \A f \in Eds \ {e} : \A k : At(f, k)' <=> At(f, k)
<1>1. Formed /\ Apart /\ (\A f \in Eds : Whole(f)) /\ Stacks
    BY DEF Lists
<1>2. /\ asked'[e] = << >> /\ \A f \in Eds \ {e} : asked'[f] = asked[f]
      /\ asked' = [f \in Eds |-> asked'[f]]
    BY <1>1 DEF Formed
<1>3. \A f \in Eds \ {e} : \A k : At(f, k)' <=> At(f, k)
    BY <1>2 DEF At
<1>4. Formed'
    <2>1. \A f \in Eds : IsEndpoint(ed'[f])
        BY <1>1 DEF Formed
    <2> QED
        BY <2>1, <1>1, <1>2 DEF Formed
<1>5. \A f \in Eds : ed'[f].tail = ed[f].tail
    OBVIOUS
<1>6. Apart'
    <2>1. ASSUME NEW f \in Eds
          PROVE  /\ asked'[f] \in Seq(Pool(f))
                 /\ \A i, j \in 1 .. Len(asked'[f]) : asked'[f][i] = asked'[f][j] => i = j
                 /\ \A g \in Eds : \A i \in 1 .. Len(asked'[f]) : asked'[f][i] # ed'[g].tail
        <3>1. CASE f = e
            <4>1. asked'[f] = << >>
                BY <3>1, <1>2
            <4>2. \A i \in 1 .. Len(asked'[f]) : FALSE
                BY <4>1
            <4>3. asked'[f] \in Seq(Pool(f))
                BY <4>1, EmptySeq
            <4> QED
                BY <4>2, <4>3
        <3>2. CASE f # e
            BY <3>2, <1>1, <1>2, <1>5 DEF Apart
        <3> QED
            BY <3>1, <3>2
    <2>2. asked'["in"] = << >> \/ asked'["out"] = << >>
        BY <1>1, <1>2 DEF Apart, Eds
    <2>3. ed'["in"].tail # ed'["out"].tail
        BY <1>1, <1>5 DEF Apart, Eds
    <2>4. \A f \in Eds : ed'[f].tail \in Pool(f)
        BY <1>1, <1>5 DEF Apart
    <2> QED
        BY <2>1, <2>2, <2>3, <2>4 DEF Apart
<1>7. ASSUME NEW f \in Eds PROVE Whole(f)'
    <2>1. CASE f = e
        <3>1. asked'[e] = << >> /\ ed'[e].head = ed'[e].tail /\ Len(asked'[e]) = 0
            BY <1>2
        <3>2. At(e, 0)'
            BY <3>1 DEF At
        <3>3. Path(e)'[1] = ed'[e].tail
            BY <3>1 DEF Path
        <3> QED
            BY <2>1, <3>1, <3>2, <3>3 DEF Whole
    <2>2. CASE f # e
        <3>1. asked'[f] = asked[f] /\ ed'[f] = ed[f] /\ td' = td /\ Path(f)' = Path(f)
            BY <2>2, <1>2 DEF Path
        <3>2. PICK k \in 0 .. Len(asked[f]) :
                  /\ At(f, k)
                  /\ ed[f].head = Path(f)[k + 1]
                  /\ \A i \in k + 1 .. Len(asked[f]) : td[asked[f][i]].next = Path(f)[i + 1]
            BY <1>1 DEF Whole
        <3>3. At(f, k)'
            BY <2>2, <3>2, <1>3
        <3> QED
            BY <3>1, <3>2, <3>3 DEF Whole
    <2> QED
        BY <2>1, <2>2
<1>8. ASSUME NEW t, Held(t), t \notin Range(asked[e]) PROVE Held(t)'
    <2>1. PICK f \in Eds : \E i \in 1 .. Len(asked[f]) : asked[f][i] = t
        BY <1>8 DEF Held
    <2>2. Range(asked[e]) = {asked[e][i] : i \in 1 .. Len(asked[e])}
        BY <1>1, AskedAre
    <2>3. f # e
        BY <2>1, <2>2, <1>8
    <2> QED
        BY <2>1, <2>3, <1>2 DEF Held
<1>9. \A t \in Untaken : td'[t].next = td[t].next /\ t \in Untaken'
    BY <1>8 DEF Untaken
<1>10. \A t \in told' : t \in Tds /\ td'[t].done /\ Held(t)'
    BY <1>1, <1>8 DEF Stacks
<1>11. Stacks'
    BY <1>1, <1>9, <1>10, StacksStay DEF Stacks
<1> QED
    BY <1>2, <1>3, <1>4, <1>6, <1>7, <1>11 DEF Lists

LEMMA AfterStatusGround ==
    ASSUME Ground, AfterStatus
    PROVE  /\ Ground' /\ Live /\ Lists /\ Lists' /\ cli = "csw"
           /\ cli' = "idle" /\ buf' = << >>
           /\ asked'["ctl"] = asked["ctl"] /\ (\A k : At("ctl", k)' <=> At("ctl", k))
           /\ At("in", Len(asked["in"]))
           /\ UNCHANGED <<up, ctl, ed, td, ctlVars, diskVars, walk>>
<1>1. /\ cli = "csw" /\ Told("in") /\ told' = told \ Range(asked["in"]) /\ ~Serving
      /\ asked' = [asked EXCEPT !["in"] = << >>]
      /\ cli' = "idle" /\ buf' = << >>
      /\ UNCHANGED <<up, myTag, ctl, ohciVars, diskVars>>
    BY DEF AfterStatus, StatusIsHere, GuestRuns, Forget
<1>2. UNCHANGED <<ed, td, hccaDone, doneHead, walk, operational, ctlVars, diskVars>>
    BY <1>1 DEF ohciVars, memory, service, registers
<1>3. Live /\ Lists /\ asked["out"] = << >>
    BY <1>1 DEF Ground, Live, Waits, Life
<1>4. "in" \in Eds /\ "ctl" \in Eds /\ "out" \in Eds /\ Range(asked["in"]) \subseteq told
    BY <1>1 DEF Told, Eds
<1>5. ed["in"].head = ed["in"].tail /\ At("in", Len(asked["in"]))
    BY <1>3, <1>4, AllTold
<1>6. IsEndpoint(ed'["in"]) /\ ed' = [f \in Eds |-> ed'[f]]
    BY <1>2, <1>3, <1>4 DEF Lists, Formed
<1>7. /\ Lists'
      /\ asked'["in"] = << >> /\ \A f \in Eds \ {"in"} : asked'[f] = asked[f]
      /\ \A f \in Eds \ {"in"} : \A k : At(f, k)' <=> At(f, k)
    BY <1>1, <1>2, <1>3, <1>4, <1>5, <1>6, DropKeeps
<1>8. Life'
    BY <1>1, <1>2, <1>3 DEF Ground, Life, Live, Serving
<1>9. Waits'
    BY <1>1, <1>3, <1>4, <1>7 DEF Ground, Waits
<1> QED
    BY <1>1, <1>2, <1>3, <1>4, <1>5, <1>7, <1>8, <1>9 DEF Ground

LEMMA EndRequestGround ==
    ASSUME Ground, EndRequest
    PROVE  /\ Ground' /\ Live /\ Lists /\ Lists' /\ ctl # NoRequest /\ ctl' = NoRequest
           /\ RequestIsOver
           /\ ed'["ctl"].halted = FALSE
           /\ up' = (IF up = "resetting" THEN "up" ELSE up)
           /\ \A f \in {"in", "out"} : asked'[f] = asked[f] /\ \A k : At(f, k)' <=> At(f, k)
           /\ UNCHANGED <<td, ctlVars, diskVars, client, walk>>
<1>1. /\ ctl # NoRequest /\ RequestIsOver /\ told' = told \ Range(asked["ctl"]) /\ ~Serving
      /\ ctl' = NoRequest
      /\ asked' = [asked EXCEPT !["ctl"] = << >>]
      /\ ed' = [ed EXCEPT !["ctl"] = EmptyEd(ed["ctl"].tail)]
      /\ up' = IF up = "resetting" THEN "up" ELSE up
      /\ UNCHANGED <<operational, doneHead, hccaDone, td, ctlVars, walk, diskVars, client>>
    BY DEF EndRequest, GuestRuns, Forget, registers, service, RequestIsOver
<1>2. UNCHANGED <<cli, job, myTag, buf>>
    BY <1>1 DEF client
<1>3. Live /\ Lists
    BY <1>1 DEF Ground, Life
<1>4. "in" \in Eds /\ "ctl" \in Eds /\ "out" \in Eds
    BY DEF Eds
<1>5. \A t \in Range(asked["ctl"]) : t \in told \/ ~td[t].done
    BY <1>1 DEF RequestIsOver
<1>6. /\ ed'["ctl"].head = ed'["ctl"].tail /\ ed'["ctl"].tail = ed["ctl"].tail
      /\ ed'["ctl"].halted = FALSE
      /\ IsEndpoint(ed'["ctl"])
      /\ ed' = [f \in Eds |-> ed'[f]] /\ \A f \in Eds \ {"ctl"} : ed'[f] = ed[f]
    <2>1. ed = [f \in Eds |-> ed[f]]
        BY <1>3 DEF Lists, Formed
    <2>2. ed'["ctl"] = EmptyEd(ed["ctl"].tail)
        BY <2>1, <1>1, <1>4
    <2>3. ed' = [f \in Eds |-> ed'[f]] /\ \A f \in Eds \ {"ctl"} : ed'[f] = ed[f]
        BY <2>1, <1>1
    <2> QED
        BY <2>2, <2>3 DEF EmptyEd, IsEndpoint
<1>7. /\ Lists'
      /\ asked'["ctl"] = << >> /\ \A f \in Eds \ {"ctl"} : asked'[f] = asked[f]
      /\ \A f \in Eds \ {"ctl"} : \A k : At(f, k)' <=> At(f, k)
    BY <1>1, <1>3, <1>4, <1>5, <1>6, DropKeeps
<1>8. Life'
    BY <1>1, <1>2, <1>3 DEF Ground, Life, Live, Serving
<1>9. Waits'
    BY <1>1, <1>2, <1>4, <1>7 DEF Ground, Waits
<1>10. Ground'
    BY <1>7, <1>8, <1>9 DEF Ground
<1> QED
    BY <1>1, <1>3, <1>4, <1>6, <1>7, <1>10

LEMMA AskableAre ==
    ASSUME NEW r \in RequestSet \cup {ResetRequest}
    PROVE  /\ r \in Requests
           /\ r.in => r.cells > 0
           /\ Accepts(r) => Asked(r)
           /\ r # NoRequest
<1>1. CASE r \in RequestSet
    BY <1>1, RequestsAssumption DEF Requests, NoRequest
<1>2. CASE r = ResetRequest
    <2>1. r.name = "reset" /\ r.in = FALSE /\ r.cells = 0
        BY <1>2 DEF ResetRequest
    <2>2. r \in Requests
        BY <1>2 DEF ResetRequest, Requests
    <2> QED
        BY <2>1, <2>2 DEF Asked, NoRequest
<1> QED
    BY <1>1, <1>2

LEMMA RequestGround ==
    ASSUME Ground, NEW r \in RequestSet \cup {ResetRequest}, Request(r),
           r = ResetRequest => up = "resetting"
    PROVE  /\ Ground' /\ Live /\ ctl = NoRequest /\ ctl' = r
           /\ Asks("ctl", ControlTransfers(r))
           /\ \A f \in {"in", "out"} : asked'[f] = asked[f]
           /\ UNCHANGED <<up, client>>
<1>1. /\ ctl = NoRequest /\ ctl' = r /\ ~Serving
      /\ (up = "up" /\ r \in RequestSet) \/ (up = "resetting" /\ r = ResetRequest)
      /\ Queue("ctl", ControlTransfers(r))
      /\ UNCHANGED <<up, client, told>>
    BY DEF Request, GuestRuns
<1>2. UNCHANGED <<cli, job, myTag, buf, walk, doneHead, operational>>
    BY <1>1 DEF client, Queue, service, registers
<1>3. Live /\ Lists /\ asked["ctl"] = << >> /\ "ctl" \in Eds
    BY <1>1 DEF Ground, Live, Waits, Eds
<1>4. r \in Requests /\ (r.in => r.cells > 0) /\ r # NoRequest
    BY AskableAre
<1>5. PICK ts : ts = ControlTransfers(r)
    OBVIOUS
<1>6. Len(ts) \in Nat /\ \A i \in 1 .. Len(ts) : \E p, w, n : ts[i] = Transfer(p, w, n)
    BY <1>4, <1>5, ControlTransfersAre
<1>7. Range(asked["ctl"]) = {}
    <2>1. \A i \in 1 .. Len(<< >>) : FALSE
        OBVIOUS
    <2>2. Range(asked["ctl"]) = {asked["ctl"][i] : i \in 1 .. Len(asked["ctl"])}
        BY <1>3, AskedAre DEF Lists
    <2> QED
        BY <2>1, <2>2, <1>3
<1>8. /\ Lists' /\ Placed("ctl", ts) /\ At("ctl", 0)'
      /\ \A f \in Others("ctl") : \A k : At(f, k)' <=> At(f, k)
    <2>1. "ctl" \notin Others("ctl") /\ \A f \in Eds \ {"ctl"} : f \in Others("ctl")
        BY OthersAre DEF Eds
    <2>2. Queue("ctl", ts) /\ told' = told \ Range(asked["ctl"]) /\ Range(asked["ctl"]) \subseteq told
        BY <1>1, <1>5, <1>7
    <2> QED
        BY <1>3, <1>6, <2>1, <2>2, QueueKeeps
<1>9. Asks("ctl", ts)
    BY <1>1, <1>3, <1>5, <1>8 DEF Asks, Queue
<1>10. \A f \in {"in", "out"} : asked'[f] = asked[f]
    BY <1>8, OthersAre DEF Placed, Eds
<1>11. Life'
    BY <1>1, <1>2, <1>3 DEF Ground, Life, Live, Serving
<1>12. Waits'
    BY <1>1, <1>2, <1>4, <1>10 DEF Ground, Waits
<1>13. Ground'
    BY <1>8, <1>11, <1>12 DEF Ground
<1> QED
    BY <1>1, <1>3, <1>5, <1>9, <1>10, <1>13

LEMMA MachineResetGround ==
    ASSUME Ground, MachineReset
    PROVE  Ground'
<1>1. /\ ~Serving /\ up' = "off" /\ cli' = "idle" /\ myTag' = 0
      /\ ctl' = NoRequest /\ asked' = NothingAsked /\ told' = {}
      /\ UNCHANGED <<walk, doneHead, operational>>
    BY DEF MachineReset, ohciVars, service, registers
<1>2. Life'
    BY <1>1 DEF Ground, Life, Live, Serving, Tags
<1>3. Waits'
    BY <1>1 DEF Waits, NothingAsked, Eds
<1> QED
    BY <1>1, <1>2, <1>3 DEF Ground, Live

LEMMA AcknowledgeGround ==
    ASSUME Ground, AcknowledgeDone
    PROVE  Ground' /\ UNCHANGED GroundVars
<1>1. UNCHANGED GroundVars
    BY DEF AcknowledgeDone, ClearDone, GroundVars, ListVars, memory, service, client, waits
<1> QED
    BY <1>1, GroundSame

LEMMA GroundNext ==
    ASSUME Ground, [Next]_vars
    PROVE  Ground'
<1>1. CASE Serve
    BY <1>1, ServeGround
<1>2. CASE Handler
    BY <1>2, TakeDoneGround, AcknowledgeGround DEF Handler
<1>3. CASE Proceed
    <2>1. CASE up = "resetting" /\ Request(ResetRequest)
        BY <2>1, RequestGround
    <2> QED
        BY <1>3, <2>1, StopGround, StartGround, AfterCommandGround, AfterDataGround,
           AfterStatusGround, EndRequestGround DEF Proceed
<1>4. CASE \E c \in CommandSet : SendCommand(c)
    BY <1>4, SendCommandGround
<1>5. CASE \E r \in RequestSet : Request(r)
    <2>1. PICK r \in RequestSet : Request(r)
        BY <1>5
    <2>2. r # ResetRequest
        BY RequestsAssumption DEF ResetRequest
    <2> QED
        BY <2>1, <2>2, RequestGround
<1>6. CASE MachineReset
    BY <1>6, MachineResetGround
<1>7. CASE UNCHANGED vars
    <2>1. UNCHANGED GroundVars
        BY <1>7 DEF vars, ohciVars, guestVars, GroundVars, ListVars, memory, service, registers,
                    client, waits
    <2> QED
        BY <2>1, GroundSame
<1> QED
    BY <1>1, <1>2, <1>3, <1>4, <1>5, <1>6, <1>7 DEF Next

(* The queue of each endpoint is, in the order they were asked for, the    *)
(* transfers that are not done: none runs twice or is skipped, although a  *)
(* done one's link is reused for the done stack (usb.rs retire), whatever  *)
(* the drivers queue between services and whenever the machine is reset.   *)
THEOREM QueuesWhole == Spec => []QueuesAreWhole
<1>1. Init => Ground
    BY GroundInit
<1>2. Ground /\ [Next]_vars => Ground'
    BY GroundNext
<1>3. Ground => QueuesAreWhole
    BY DEF Ground, Live, Lists, Whole, At, QueuesAreWhole
<1> QED
    BY <1>1, <1>2, <1>3, PTL DEF Spec

-----------------------------------------------------------------------------
(* Control requests. *)

LEMMA MinOfTwo ==
    ASSUME NEW a \in Nat, NEW b \in Nat
    PROVE  Min({a, b}) = IF a <= b THEN a ELSE b
<1> DEFINE m == IF a <= b THEN a ELSE b
<1>1. m \in {a, b} /\ \A y \in {a, b} : m <= y
    OBVIOUS
<1>2. \A x \in {a, b} : (\A y \in {a, b} : x <= y) => x = m
    OBVIOUS
<1> HIDE DEF m
<1>3. Min({a, b}) = m
    BY <1>1, <1>2 DEF Min
<1> QED
    BY <1>3 DEF m

LEMMA AnswersAre ==
    ASSUME NEW r \in Requests
    PROVE  /\ Answer(r) \in Seq({Reg}) /\ Len(Answer(r)) <= r.cells /\ Len(Answer(r)) \in Nat
           /\ Answer(r) # NoReply /\ << >> # NoReply
<1>1. Answer(r) \in Seq({Reg}) /\ Len(Answer(r)) <= r.cells
    <2>1. r.cells \in 0 .. 1
        BY DEF Requests
    <2>2. CASE r.name = "describe"
        <3>1. SubSeq(<< Reg >>, 1, r.cells) \in Seq({Reg}) /\ Len(SubSeq(<< Reg >>, 1, r.cells)) = r.cells
            BY <2>1
        <3> QED
            BY <2>1, <2>2, <3>1 DEF Answer
    <2>3. CASE r.name # "describe"
        BY <2>1, <2>3, EmptySeq DEF Answer
    <2> QED
        BY <2>2, <2>3
<1>2. NoReply \notin Seq({Reg})
    BY OhciAssumption
<1>3. << >> \in Seq({Reg})
    BY EmptySeq
<1> HIDE DEF Answer
<1>4. Len(Answer(r)) \in Nat
    BY <1>1
<1> QED
    BY <1>1, <1>2, <1>3, <1>4, Zenon

(* Taking all of a sequence, and none of it. *)
LEMMA WholeOf ==
    ASSUME NEW S, NEW s \in Seq(S)
    PROVE  /\ SubSeq(s, 1, Len(s)) = s
           /\ SubSeq(s, Len(s) + 1, Len(s)) = << >>
           /\ SubSeq(s, 1, 0) = << >>
<1>1. Len(s) \in Nat
    OBVIOUS
<1>2. \A i \in 1 .. Len(s) : s[i] \in S
    OBVIOUS
<1>3. /\ SubSeq(s, 1, Len(s)) \in Seq(S) /\ Len(SubSeq(s, 1, Len(s))) = Len(s)
      /\ \A i \in 1 .. Len(s) : SubSeq(s, 1, Len(s))[i] = s[i]
    BY <1>1, <1>2
<1>4. SubSeq(s, 1, Len(s)) = s
    BY <1>3, SeqEqual
<1> QED
    BY <1>1, <1>4, SubSeqEmpty

LEMMA RequestingSame ==
    ASSUME Apart, Requesting, Apart',
           asked'["ctl"] = asked["ctl"], ed'["ctl"] = ed["ctl"], ctl' = ctl, ctlVars' = ctlVars,
           \A i \in 1 .. Len(asked["ctl"]) : td'[asked["ctl"][i]] = td[asked["ctl"][i]],
           up' = "resetting" => up = "resetting" /\ phase' = phase
    PROVE  Requesting'
<1>1. UNCHANGED <<setup, reply, dataOut>>
    BY DEF ctlVars
<1>2. CASE ctl = NoRequest
    BY <1>2 DEF Requesting
<1>3. CASE ctl # NoRequest
    <2>1. Are("ctl", ControlTransfers(ctl))'
        BY <1>3 DEF Requesting, Are, ControlTransfers
    <2>2. ASSUME NEW k \in Nat, At("ctl", k)' PROVE RequestAt(ctl, k)'
        <3>1. At("ctl", k)
            BY <2>2 DEF At
        <3>2. RequestAt(ctl, k)
            BY <1>3, <3>1 DEF Requesting
        <3>3. \A i \in 1 .. k : i \in 1 .. Len(asked["ctl"])
            BY <3>1, AskedAre DEF At, Eds
        <3> QED
            BY <1>1, <3>2, <3>3 DEF RequestAt, StallAt, ControlTransfers
    <2> QED
        BY <1>3, <2>1, <2>2 DEF Requesting
<1> QED
    BY <1>2, <1>3

LEMMA CountIsOnce ==
    ASSUME NEW n \in Nat, NEW j \in 0 .. n, NEW k \in 0 .. n,
           \A i \in 1 .. n : i <= j <=> i <= k
    PROVE  j = k
<1>1. ~(j < k)
    OBVIOUS
<1>2. ~(k < j)
    OBVIOUS
<1> QED
    BY <1>1, <1>2

(* What has run of a queue is one transfer more. *)
LEMMA RanIsNext ==
    ASSUME Apart, NEW e \in Eds, NEW k, Ran(e, k), asked' = asked, NEW j, At(e, j)'
    PROVE  j = k + 1
<1>1. PICK n : n = Len(asked[e])
    OBVIOUS
<1>2. n \in Nat
    BY <1>1, AskedAre
<1>3. k + 1 \in 0 .. n /\ j \in 0 .. n
    BY <1>1, <1>2 DEF Ran, At
<1>4. \A i \in 1 .. n : i <= j <=> i <= k + 1
    BY <1>1 DEF Ran, At
<1> QED
    BY <1>2, <1>3, <1>4, CountIsOnce

LEMMA RanAre ==
    ASSUME Apart, NEW e \in Eds, NEW k, Ran(e, k), asked' = asked, NEW ts, Are(e, ts)
    PROVE  /\ Are(e, ts)'
           /\ k + 1 \in 1 .. Len(ts)
           /\ LET d == td[asked[e][k + 1]]
              IN  d.pid = ts[k + 1].pid /\ d.what = ts[k + 1].what /\ d.want = ts[k + 1].want
           /\ td'[asked[e][k + 1]].got = Received(e, td[asked[e][k + 1]])
           /\ \A i \in 1 .. Len(ts) : i # k + 1 => td'[asked[e][i]] = td[asked[e][i]]
<1>1. Len(asked[e]) \in Nat /\ Len(asked[e]) = Len(ts) /\ \A i \in 1 .. Len(ts) : asked[e][i] \in Tds
    BY AskedAre DEF Are
<1>2. k + 1 \in 1 .. Len(ts)
    BY <1>1 DEF Ran
<1>3. \A i \in 1 .. Len(ts) : i # k + 1 => td'[asked[e][i]] = td[asked[e][i]]
    BY <1>1 DEF Ran
<1>4. ASSUME NEW i \in 1 .. Len(ts)
      PROVE  LET d == td'[asked[e][i]]
             IN  d.pid = ts[i].pid /\ d.what = ts[i].what /\ d.want = ts[i].want
    <2>1. LET d == td[asked[e][i]]
          IN  d.pid = ts[i].pid /\ d.what = ts[i].what /\ d.want = ts[i].want
        BY DEF Are
    <2>2. CASE i = k + 1
        BY <2>1, <2>2 DEF Ran
    <2>3. CASE i # k + 1
        BY <2>1, <2>3, <1>3
    <2> QED
        BY <2>2, <2>3
<1>5. Are(e, ts)'
    BY <1>1, <1>4 DEF Are
<1> QED
    BY <1>2, <1>3, <1>5 DEF Are, Ran

(* The status stage changes nothing in the drive: one request that sends   *)
(* it data is not among those it accepts, and the others have none to send.*)
LEMMA FinishControlSame ==
    ASSUME FinishControl, NEW r \in Requests, setup = r, ~Accepts(r) \/ dataOut = 0
    PROVE  UNCHANGED diskVars
<1>1. CASE setup = NoSetup
    BY <1>1 DEF FinishControl
<1>2. CASE setup # NoSetup /\ dataOut = 0
    BY <1>2 DEF FinishControl
<1>3. CASE setup # NoSetup /\ ~Accepts(r)
    BY <1>3 DEF FinishControl, Accepts, Control
<1> QED
    BY <1>1, <1>2, <1>3

LEMMA ReplyCellsAre ==
    ASSUME NEW a \in Seq({Reg}), reply = a, a # NoReply, Len(a) <= 1
    PROVE  /\ ReplyCells(1) = a /\ SubSeq(a, 1, Min({1, Len(a)})) = a
           /\ ReplyCells(0) = << >> /\ SubSeq(<< >>, 1, Min({0, Len(<< >>)})) = << >>
<1>1. Len(a) \in Nat
    OBVIOUS
<1>2. Min({1, Len(a)}) = Len(a) /\ Min({0, Len(a)}) = 0
    BY <1>1, MinOfTwo
<1>3. SubSeq(a, 1, Len(a)) = a /\ SubSeq(a, 1, 0) = << >>
    BY WholeOf
<1>4. Len(<< >>) = 0 /\ Min({0, 0}) = 0 /\ SubSeq(<< >>, 1, 0) = << >>
    BY MinOfTwo, SubSeqEmpty
<1> QED
    BY <1>2, <1>3, <1>4 DEF ReplyCells

LEMMA ControlRuns ==
    ASSUME Apart, Requesting, NEW r \in RequestSet \cup {ResetRequest}, ctl = r,
           NEW k, Ran("ctl", k), Runnable("ctl"), Run("ctl", td[asked["ctl"][k + 1]]),
           ed'["ctl"].halted = Stalls("ctl", td[asked["ctl"][k + 1]]),
           up = "resetting" => r = ResetRequest,
           UNCHANGED <<asked, ctl, up>>
    PROVE  /\ Requesting'
           /\ r # ResetRequest \/ k > 0 => UNCHANGED diskVars
           /\ r = ResetRequest /\ k = 0 => phase' = "command" /\ writeAt' = writeAt /\ writeLeft' = 0
<1> DEFINE ts == ControlTransfers(r)
           d == td[asked["ctl"][k + 1]]
           n == Len(asked["ctl"])
<1>1. /\ r \in Requests /\ (r.in => r.cells > 0) /\ (Accepts(r) => Asked(r)) /\ r # NoRequest
      /\ r.cells \in 0 .. 1 /\ r.in \in BOOLEAN
      /\ r # ResetRequest => r.name # "reset"
    <2>1. r.cells \in 0 .. 1 /\ r.in \in BOOLEAN
        BY AskableAre DEF Requests
    <2>2. r # ResetRequest => r.name # "reset"
        BY RequestsAssumption
    <2> QED
        BY <2>1, <2>2, AskableAre
<1>2. /\ Len(ts) = IF r.cells = 0 THEN 2 ELSE 3
      /\ ts[1] = Transfer("setup", r, 0)
      /\ r.cells = 0 => ts[2] = Transfer("in", Null, 0)
      /\ r.cells # 0 /\ r.in => /\ ts[2] = Transfer("in", Null, 1)
                                /\ ts[3] = Transfer("out", Packet(<< >>), 0)
      /\ r.cells # 0 /\ ~r.in => /\ ts[2] = Transfer("out", Packet(<< Reg >>), 0)
                                 /\ ts[3] = Transfer("in", Null, 0)
    BY <1>1, ControlTransfersAre
<1>3. Are("ctl", ts) /\ \A j \in Nat : At("ctl", j) => RequestAt(r, j)
    BY <1>1 DEF Requesting
<1> HIDE DEF ts
<1>4. "ctl" \in Eds
    BY DEF Eds
<1>5. /\ Are("ctl", ts)' /\ k + 1 \in 1 .. Len(ts)
      /\ d.pid = ts[k + 1].pid /\ d.what = ts[k + 1].what /\ d.want = ts[k + 1].want
      /\ td'[asked["ctl"][k + 1]].got = Received("ctl", d)
      /\ \A i \in 1 .. Len(ts) : i # k + 1 => td'[asked["ctl"][i]] = td[asked["ctl"][i]]
    BY <1>3, <1>4, RanAre
<1>6. k \in 0 .. n - 1 /\ At("ctl", k) /\ n = Len(ts) /\ k \in Nat
    <2>1. n \in Nat
        BY <1>4, AskedAre
    <2> QED
        BY <2>1, <1>3 DEF Ran, Are
<1>7. RequestAt(r, k)
    BY <1>3, <1>6
<1>8. ed["ctl"].halted = FALSE
    BY DEF Runnable, Requesting
<1>9. Run("ctl", d) /\ ed'["ctl"].halted = Stalls("ctl", d)
    OBVIOUS
<1>10. n = IF r.cells = 0 THEN 2 ELSE 3
    BY <1>2, <1>6
<1>11. StallAt(r) = (IF r.in THEN 2 ELSE n) /\ StallAt(r) \in {2, 3} /\ StallAt(r)' = StallAt(r)
    BY <1>6, <1>10 DEF StallAt, ts, ControlTransfers
<1>12. /\ Answer(r) \in Seq({Reg}) /\ Len(Answer(r)) <= r.cells
       /\ Answer(r) # NoReply /\ << >> # NoReply
    BY <1>1, AnswersAre
<1> HIDE DEF d, n
<1>13. SUFFICES
           /\ RequestAt(r, k + 1)'
           /\ ed'["ctl"].halted \in BOOLEAN
           /\ r # ResetRequest \/ k > 0 => UNCHANGED diskVars
           /\ r = ResetRequest /\ k = 0 => phase' = "command" /\ writeAt' = writeAt /\ writeLeft' = 0
    <2>1. \A j \in Nat : At("ctl", j)' => j = k + 1
        BY <1>4, RanIsNext
    <2>2. Are("ctl", ControlTransfers(ctl))'
        BY <1>5 DEF ts, Are, ControlTransfers
    <2> QED
        BY <2>1, <2>2, <1>1, <1>13 DEF Requesting
<1>14. CASE k = 0
    <2>1. d.pid = "setup" /\ d.what = r
        BY <1>2, <1>5, <1>14 DEF Transfer
    <2>2. /\ setup' = r /\ dataOut' = 0
          /\ reply' = IF Asked(r) /\ Accepts(r) THEN Answer(r) ELSE NoReply
          /\ IF Asked(r) THEN Control(r) ELSE UNCHANGED diskVars
        BY <1>9, <2>1 DEF Run, RunSetup
    <2>3. ed'["ctl"].halted = FALSE
        BY <1>9, <2>1 DEF Stalls
    <2>4. td'[asked["ctl"][1]].got = << >>
        BY <1>5, <1>14, <2>1 DEF Received
    <2>5. /\ r # ResetRequest => UNCHANGED diskVars
          /\ r = ResetRequest => phase' = "command" /\ writeAt' = writeAt /\ writeLeft' = 0
        BY <1>1, <2>2 DEF Control, ResetRequest, Asked
    <2>6. RequestAt(r, 1)'
        <3>1. StallAt(r)' = StallAt(r) /\ 1 <= StallAt(r) /\ 1 # StallAt(r)
            BY <1>11
        <3>2. Accepts(r) => reply' = Answer(r)
            BY <1>1, <2>2
        <3>3. ~Accepts(r) => reply' = NoReply
            BY <2>2
        <3>4. \A i \in 1 .. 1 : td'[asked'["ctl"][i]].got = << >> /\ ~(i = 2 /\ r.in)
            BY <2>4
        <3>5. up' = "resetting" => phase' = "command"
            BY <2>5
        <3>6. ~Accepts(r) => /\ 1 <= StallAt(r)' /\ 1 # StallAt(r)'
                             /\ ed'["ctl"].halted = FALSE
            BY <2>3, <3>1
        <3>7. Accepts(r) =>
               /\ ed'["ctl"].halted = FALSE
               /\ \A i \in 1 .. 1 : td'[asked'["ctl"][i]].got = IF i = 2 /\ r.in THEN Answer(r) ELSE << >>
            BY <2>3, <3>4
        <3>8. 1 \in 1 .. Len(asked'["ctl"]) - 1 =>
           /\ setup' = r
           /\ Accepts(r) => dataOut' = 0 /\ reply' = IF 1 = 1 THEN Answer(r) ELSE << >>
           /\ ~Accepts(r) => reply' = NoReply
            BY <2>2, <3>2, <3>3
        <3> QED
            BY <3>5, <3>6, <3>7, <3>8 DEF RequestAt
    <2>7. 0 + 1 = 1 /\ ~(k > 0)
        BY <1>14
    <2>8. RequestAt(r, k + 1)'
        BY <1>14, <2>6, <2>7
    <2> QED
        BY <1>14, <2>3, <2>5, <2>7, <2>8
<1>15. CASE k = 1
    <2>1. /\ setup = r
          /\ Accepts(r) => dataOut = 0 /\ reply = Answer(r)
          /\ ~Accepts(r) => reply = NoReply
          /\ up = "resetting" => phase = "command"
          /\ Accepts(r) => td[asked["ctl"][1]].got = << >>
        <3>1. 1 \in 1 .. n - 1
            BY <1>10
        <3> QED
            BY <1>7, <1>15, <3>1 DEF RequestAt, n
    <2>2. td'[asked["ctl"][1]] = td[asked["ctl"][1]]
        BY <1>2, <1>5, <1>15
    <2>3. /\ k + 1 = 2 /\ k > 0 /\ k # 0 /\ (\A i \in 1 .. 2 : i = 1 \/ i = 2)
          /\ n - 1 \in {1, 2} /\ (n - 1 = 2 => r.cells # 0) /\ 2 \in Nat
        BY <1>1, <1>10, <1>15
    <2>4. SUFFICES
              /\ ed'["ctl"].halted \in BOOLEAN /\ UNCHANGED diskVars
              /\ 2 \in 1 .. n - 1 =>
                     /\ setup' = r
                     /\ Accepts(r) => dataOut' = 0 /\ reply' = << >>
                     /\ ~Accepts(r) => reply' = NoReply
              /\ Accepts(r) =>
                     /\ ed'["ctl"].halted = FALSE
                     /\ td'[asked["ctl"][2]].got = IF r.in THEN Answer(r) ELSE << >>
              /\ ~Accepts(r) => /\ 2 = StallAt(r) => ed'["ctl"].halted = TRUE
                                /\ 2 # StallAt(r) => ed'["ctl"].halted = FALSE
        <3>1. Accepts(r) => \A i \in 1 .. 2 :
                  td'[asked["ctl"][i]].got = IF i = 2 /\ r.in THEN Answer(r) ELSE << >>
            BY <2>1, <2>2, <2>3, <2>4
        <3>2. up' = "resetting" => phase' = "command"
            BY <2>1, <2>4 DEF diskVars, transport
        <3>3. ~Accepts(r) => /\ 2 <= StallAt(r)'
                             /\ 2 = StallAt(r)' => ed'["ctl"].halted = TRUE
                             /\ 2 # StallAt(r)' => ed'["ctl"].halted = FALSE
            BY <2>4, <1>11
        <3>4. 2 \in 1 .. Len(asked'["ctl"]) - 1 =>
                 /\ setup' = r
                 /\ Accepts(r) => dataOut' = 0 /\ reply' = << >>
                 /\ ~Accepts(r) => reply' = NoReply
            BY <2>4 DEF n
        <3>5. Accepts(r) => ed'["ctl"].halted = FALSE
            BY <2>4
        <3>6. RequestAt(r, 2)'
            BY <3>1, <3>2, <3>3, <3>4, <3>5 DEF RequestAt
        <3>7. RequestAt(r, k + 1)'
            BY <2>3, <3>6
        <3> QED
            BY <2>3, <2>4, <3>7
    <2>5. CASE r.cells = 0
        <3>1. d.pid = "in" /\ d.want = 0 /\ ~r.in /\ n = 2
            BY <1>1, <1>2, <1>5, <1>10, <1>15, <2>5 DEF Transfer
        <3>2. FinishControl
            BY <1>9, <3>1 DEF Run, RunControlIn
        <3>3. UNCHANGED diskVars
            BY <3>2, <1>1, <2>1, FinishControlSame
        <3>4. /\ reply = NoReply => ed'["ctl"].halted = TRUE
              /\ reply # NoReply => ed'["ctl"].halted = FALSE
            BY <1>9, <3>1 DEF Stalls
        <3>5. Accepts(r) => td'[asked["ctl"][2]].got = << >>
            <4>1. SUFFICES ASSUME Accepts(r) PROVE Received("ctl", d) = << >>
                BY <1>5, <2>3
            <4>2. PICK a : a = Answer(r)
                OBVIOUS
            <4>3. reply = a /\ a # NoReply /\ Len(a) <= 1 /\ a \in Seq({Reg})
                BY <4>1, <4>2, <1>1, <1>12, <2>1
            <4>4. ReplyCells(0) = << >> /\ SubSeq(<< >>, 1, Min({0, Len(<< >>)})) = << >>
                BY <4>3, ReplyCellsAre
            <4> QED
                BY <4>4, <3>1 DEF Received
        <3>6. ~(2 \in 1 .. n - 1)
            BY <3>1
        <3> QED
            BY <1>11, <1>12, <2>1, <3>1, <3>3, <3>4, <3>5, <3>6
    <2>6. CASE r.cells # 0 /\ r.in
        <3>1. d.pid = "in" /\ d.want = 1 /\ n = 3
            BY <1>1, <1>2, <1>5, <1>10, <1>15, <2>6 DEF Transfer
        <3>2. /\ reply' = IF reply = NoReply THEN NoReply
                          ELSE SubSeq(reply, Len(ReplyCells(1)) + 1, Len(reply))
              /\ UNCHANGED <<setup, dataOut, diskVars>>
            BY <1>9, <3>1 DEF Run, RunControlIn
        <3>3. /\ reply = NoReply => ed'["ctl"].halted = TRUE
              /\ reply # NoReply => ed'["ctl"].halted = FALSE
            BY <1>9, <3>1 DEF Stalls
        <3>4. ASSUME Accepts(r)
              PROVE  td'[asked["ctl"][2]].got = Answer(r) /\ reply' = << >>
            <4>1. PICK a : a = Answer(r)
                OBVIOUS
            <4>2. Len(a) <= 1 /\ a \in Seq({Reg}) /\ a # NoReply /\ reply = a
                BY <3>4, <4>1, <1>1, <1>12, <2>1
            <4>3. ReplyCells(1) = a /\ SubSeq(a, 1, Min({1, Len(a)})) = a
                BY <4>2, ReplyCellsAre
            <4>4. Received("ctl", d) = a
                BY <4>3, <3>1 DEF Received
            <4>5. SubSeq(a, Len(a) + 1, Len(a)) = << >>
                BY <4>2, WholeOf
            <4> QED
                BY <4>1, <4>2, <4>3, <4>4, <4>5, <3>2, <1>5, <2>3
        <3> QED
            BY <1>11, <1>12, <2>1, <2>6, <3>2, <3>3, <3>4
    <2>7. CASE r.cells # 0 /\ ~r.in
        <3>1. /\ d.pid = "out" /\ d.what.cells = << Reg >> /\ n = 3 /\ ~Accepts(r)
              /\ << Reg >> # << >>
            <4>1. d.pid = "out" /\ d.what = Packet(<< Reg >>) /\ n = 3
                BY <1>1, <1>2, <1>5, <1>10, <1>15, <2>7 DEF Transfer
            <4> QED
                BY <4>1, <1>1, <2>7 DEF Packet, Asked
        <3>2. dataOut' = dataOut + Len(d.what.cells) /\ UNCHANGED <<setup, reply, diskVars>>
            BY <1>9, <3>1 DEF Run, RunControlOut
        <3>3. ed'["ctl"].halted = FALSE
            BY <1>9, <3>1 DEF Stalls
        <3>4. 2 # StallAt(r) /\ UNCHANGED diskVars /\ setup' = r /\ reply' = NoReply
            BY <1>11, <2>1, <2>7, <3>1, <3>2
        <3> QED
            BY <3>1, <3>3, <3>4
    <2> QED
        BY <2>5, <2>6, <2>7
<1>16. CASE k = 2
    <2>1. /\ r.cells # 0 /\ n = 3 /\ k + 1 = 3 /\ k > 0 /\ k # 0
          /\ \A i \in 1 .. 3 : i = 1 \/ i = 2 \/ i = 3
        BY <1>6, <1>10, <1>16
    <2>2. /\ setup = r
          /\ Accepts(r) => dataOut = 0
          /\ ~Accepts(r) => reply = NoReply
          /\ up = "resetting" => phase = "command"
          /\ Accepts(r) => \A i \in 1 .. 2 :
                 td[asked["ctl"][i]].got = IF i = 2 /\ r.in THEN Answer(r) ELSE << >>
          /\ ~Accepts(r) => StallAt(r) = 3
        <3>1. 2 \in 1 .. n - 1
            BY <2>1
        <3>2. RequestAt(r, 2)
            BY <1>7, <1>16
        <3>3. /\ setup = r
              /\ Accepts(r) => dataOut = 0
              /\ ~Accepts(r) => reply = NoReply
            BY <3>1, <3>2 DEF RequestAt, n
        <3>4. up = "resetting" => phase = "command"
            BY <3>2 DEF RequestAt
        <3>5. Accepts(r) => \A i \in 1 .. 2 :
                 td[asked["ctl"][i]].got = IF i = 2 /\ r.in THEN Answer(r) ELSE << >>
            BY <3>2 DEF RequestAt
        <3>6. ~Accepts(r) => StallAt(r) = 3
            BY <3>2, <1>8, <1>11 DEF RequestAt
        <3> QED
            BY <3>3, <3>4, <3>5, <3>6
    <2>3. td'[asked["ctl"][1]] = td[asked["ctl"][1]] /\ td'[asked["ctl"][2]] = td[asked["ctl"][2]]
        BY <1>5, <1>6, <1>16, <2>1
    <2>4. SUFFICES
              /\ ed'["ctl"].halted \in BOOLEAN /\ UNCHANGED diskVars
              /\ Accepts(r) => ed'["ctl"].halted = FALSE /\ td'[asked["ctl"][3]].got = << >>
              /\ ~Accepts(r) => ed'["ctl"].halted = TRUE
        <3>1. Accepts(r) => \A i \in 1 .. 3 :
                  td'[asked["ctl"][i]].got = IF i = 2 /\ r.in THEN Answer(r) ELSE << >>
            <4>1. 1 \in 1 .. 2 /\ 2 \in 1 .. 2
                OBVIOUS
            <4> QED
                BY <2>1, <2>2, <2>3, <2>4, <4>1
        <3>2. up' = "resetting" => phase' = "command"
            BY <2>2, <2>4 DEF diskVars, transport
        <3>3. ~(3 \in 1 .. n - 1)
            BY <2>1
        <3>4. ~Accepts(r) => 3 <= StallAt(r)' /\ 3 = StallAt(r)'
            BY <1>11, <2>2
        <3>5. RequestAt(r, 3)'
            BY <2>4, <3>1, <3>2, <3>3, <3>4 DEF RequestAt, n
        <3>6. RequestAt(r, k + 1)'
            BY <2>1, <3>5
        <3> QED
            BY <2>1, <2>4, <3>6
    <2>5. CASE r.in
        <3>1. d.pid = "out" /\ d.what.cells = << >> /\ Accepts(r)
            <4>1. d.pid = "out" /\ d.what = Packet(<< >>)
                BY <1>2, <1>5, <1>16, <2>1, <2>5 DEF Transfer
            <4> QED
                BY <4>1, <1>11, <2>2, <2>5 DEF Packet
        <3>2. FinishControl
            BY <1>9, <3>1 DEF Run, RunControlOut
        <3>3. UNCHANGED diskVars
            BY <3>2, <1>1, <2>2, FinishControlSame
        <3>4. ed'["ctl"].halted = FALSE
            BY <1>9, <3>1 DEF Stalls
        <3>5. td'[asked["ctl"][3]].got = << >>
            BY <1>5, <2>1, <3>1 DEF Received
        <3> QED
            BY <3>1, <3>3, <3>4, <3>5
    <2>6. CASE ~r.in
        <3>1. d.pid = "in" /\ d.want = 0 /\ ~Accepts(r)
            <4>1. d.pid = "in" /\ d.want = 0
                BY <1>2, <1>5, <1>16, <2>1, <2>6 DEF Transfer
            <4> QED
                BY <4>1, <1>1, <2>1, <2>6 DEF Asked
        <3>2. FinishControl
            BY <1>9, <3>1 DEF Run, RunControlIn
        <3>3. UNCHANGED diskVars
            BY <3>1, <3>2, <1>1, <2>2, FinishControlSame
        <3>4. ed'["ctl"].halted = TRUE
            BY <1>9, <3>1, <2>2 DEF Stalls
        <3> QED
            BY <3>1, <3>3, <3>4
    <2> QED
        BY <1>1, <2>5, <2>6
<1> QED
    BY <1>6, <1>10, <1>14, <1>15, <1>16

(* What has just been asked is where a queue is. *)
LEMMA AskedIsNext ==
    ASSUME NEW e \in Eds, NEW ts, Asks(e, ts)
    PROVE  /\ Are(e, ts)' /\ Len(asked'[e]) \in Nat
           /\ \A j : At(e, j)' => j = 0
<1>1. PICK n : n = Len(asked'[e])
    OBVIOUS
<1>2. asked'[e] \in Seq(Pool(e)) /\ n \in Nat /\ n = Len(ts)
    <2>1. asked'[e] \in Seq(Pool(e)) /\ Len(asked'[e]) = Len(ts)
        BY DEF Asks, Placed
    <2> QED
        BY <1>1, <2>1
<1>3. Are(e, ts)'
    BY <1>1, <1>2 DEF Asks, Placed, Are
<1>4. ASSUME NEW j, At(e, j)' PROVE j = 0
    <2>1. j \in 0 .. n /\ 0 \in 0 .. n /\ \A i \in 1 .. n : i <= j <=> i <= 0
        BY <1>1, <1>4, <1>2 DEF At, Asks
    <2> QED
        BY <1>2, <2>1, CountIsOnce
<1> QED
    BY <1>1, <1>2, <1>3, <1>4

LEMMA RequestRequesting ==
    ASSUME Ground, Requesting, NEW r \in RequestSet \cup {ResetRequest}, Request(r),
           r = ResetRequest => up = "resetting"
    PROVE  Requesting'
<1>1. ctl = NoRequest /\ ctl' = r /\ Asks("ctl", ControlTransfers(r)) /\ "ctl" \in Eds
    BY RequestGround DEF Eds
<1>2. r # NoRequest /\ StallAt(r)' = StallAt(r) /\ StallAt(r) \in Nat \ {0}
    <2>1. /\ r # NoRequest
          /\ Len(ControlTransfers(r)) = IF r.cells = 0 THEN 2 ELSE 3
        BY AskableAre, ControlTransfersAre
    <2>2. StallAt(r)' = StallAt(r)
        BY DEF StallAt, ControlTransfers
    <2> QED
        BY <2>1, <2>2 DEF StallAt
<1>3. ed'["ctl"].halted = FALSE
    <2>1. ed["ctl"].halted = FALSE
        BY <1>1 DEF Requesting
    <2> QED
        BY <1>1, <2>1 DEF Asks, Placed
<1>4. Are("ctl", ControlTransfers(r))' /\ \A j : At("ctl", j)' => j = 0
    BY <1>1, AskedIsNext
<1>5. Are("ctl", ControlTransfers(ctl))'
    BY <1>1, <1>4 DEF Are, ControlTransfers
<1>6. RequestAt(r, 0)'
    <2>1. ~(0 \in 1 .. Len(asked'["ctl"]) - 1) /\ ~(0 > 0) /\ \A i \in 1 .. 0 : FALSE
        OBVIOUS
    <2>2. 0 <= StallAt(r)' /\ 0 # StallAt(r)'
        BY <1>2
    <2> QED
        BY <2>1, <2>2, <1>3 DEF RequestAt
<1> QED
    BY <1>1, <1>3, <1>4, <1>5, <1>6 DEF Requesting

-----------------------------------------------------------------------------
(* The drive. *)

LEMMA Products == \A a, b \in Nat : a * b \in Nat
OBVIOUS

LEMMA JobIs ==
    ASSUME NEW c \in CommandSet
    PROVE  /\ c.cells \in Nat /\ Start(c) \in Nat /\ Length(c) \in Nat
           /\ c.in \in BOOLEAN /\ c.op \in Commands
           /\ c.op \in {"read", "write"} => c.cells = Length(c)
           /\ c.op \in {"ready", "sense", "inquiry"} /\ c.cells > 0 => c.in
           /\ c.op = "read" => c.in
           /\ c.op = "write" => ~c.in
           /\ InRange(c) => \A a \in Start(c) .. Start(c) + Length(c) - 1 : a \in StoreCells
<1>1. c.lba \in Nat /\ c.count \in Nat /\ c.cells \in Nat
    BY CommandsAssumption
<1>2. /\ c.in \in BOOLEAN /\ c.op \in Commands
      /\ c.op \in {"read", "write"} => c.cells = Length(c)
      /\ c.op \in {"ready", "sense", "inquiry"} /\ c.cells > 0 => c.in
      /\ c.op = "read" => c.in
      /\ c.op = "write" => ~c.in
    BY CommandsAssumption
<1>3. /\ Start(c) \in Nat /\ Length(c) \in Nat /\ NumSectors * SectorCells \in Nat
    BY <1>1, Products, DriveAssumption DEF Start, Length
<1>4. InRange(c) => \A a \in Start(c) .. Start(c) + Length(c) - 1 : a \in StoreCells
    BY <1>3 DEF InRange, StoreCells
<1> QED
    BY <1>1, <1>2, <1>3, <1>4

LEMMA ReplyIs ==
    ASSUME NEW c \in CommandSet, c.op # "read"
    PROVE  Reply(c) \in Seq({Reg}) /\ Len(Reply(c)) <= 1
<1>1. CASE c.op \in {"sense", "inquiry"}
    <2>1. Reply(c) = << Reg >>
        BY <1>1 DEF Reply
    <2> QED
        BY <2>1
<1>2. CASE c.op \notin {"sense", "inquiry"}
    <2>1. Reply(c) = << >>
        BY <1>2 DEF Reply
    <2> QED
        BY <2>1, EmptySeq
<1> QED
    BY <1>1, <1>2

(* A wrapper that the drive takes as a command begins it. *)
LEMMA CommandBegins ==
    ASSUME job \in CommandSet, phase = "command", BulkOut(Wrapper(job, myTag)),
           UNCHANGED <<job, myTag>>
    PROVE  DataAt(0)' /\ store' = store
<1>1. Command(Wrapper(job, myTag))
    BY DEF BulkOut, Wrapper
<1>2. /\ tag' = myTag /\ expected' = job.cells /\ moved' = 0 /\ Scsi(job)
      /\ phase' = (IF job.cells = 0 THEN "status" ELSE IF job.in THEN "dataIn" ELSE "dataOut")
      /\ store' = store
    BY <1>1 DEF Command, Wrapper
<1>3. /\ toHost' = Reply(job)
      /\ writeAt' = IF job.op = "write" /\ InRange(job) THEN Start(job) ELSE writeAt
      /\ writeLeft' = IF job.op = "write" /\ InRange(job) THEN Length(job) ELSE 0
    BY <1>2 DEF Scsi
<1>4. job' = job /\ myTag' = myTag
    OBVIOUS
<1>5. /\ job.cells \in Nat /\ Start(job) \in Nat /\ Length(job) \in Nat
      /\ job.in \in BOOLEAN /\ job.op \in Commands
      /\ job.op \in {"read", "write"} => job.cells = Length(job)
    BY JobIs
<1>6. Begun'
    <2>1. status' = IF Unable(job) THEN "failed" ELSE "good"
        BY <1>2, <1>5 DEF Scsi, Unable, Fails, Commands
    <2> QED
        BY <2>1, <1>2, <1>4 DEF Begun, Unable, InRange, Start, Length
<1>7. ASSUME job.cells > 0, job.in, job.op # "read" PROVE ReplyAt(0)'
    <2>1. Reply(job)' = Reply(job)
        BY <1>7 DEF Reply
    <2> QED
        BY <1>2, <1>3, <1>7, <2>1 DEF ReplyAt
<1>8. ASSUME job.cells > 0, job.op = "read", InRange(job) PROVE ReadAt(0)'
    <2>1. toHost' = Contents(Start(job), job.cells)
        BY <1>3, <1>5, <1>8 DEF Reply
    <2>2. PICK s, m : s = Start(job) /\ m = job.cells
        OBVIOUS
    <2>3. s \in Nat /\ m \in Nat /\ m - 0 = m
        BY <1>5, <2>2
    <2>7. \A i \in 1 .. m : s + 0 + i - 1 = s + i - 1
        BY <2>3
    <2>8. toHost' = [i \in 1 .. m |-> store[s + i - 1]]
        BY <2>1, <2>2 DEF Contents
    <2>9. toHost' = [i \in 1 .. m |-> store[s + 0 + i - 1]]
        BY <2>7, <2>8
    <2>10. toHost' = [i \in 1 .. job.cells - 0 |-> store[Start(job) + 0 + i - 1]]
        BY <2>2, <2>3, <2>9
    <2>4. Start(job)' = Start(job)
        BY DEF Start
    <2>5. toHost' = [i \in 1 .. job.cells - 0 |-> store[Start(job) + 0 + i - 1]]'
        BY <2>10, <2>4, <1>2, <1>4
    <2>6. 0 < job.cells /\ job.in /\ \A i \in 1 .. Len(asked'["in"]) : ~(i <= 0)
        BY <1>5, <1>8, JobIs
    <2> QED
        BY <1>2, <1>4, <2>5, <2>6 DEF ReadAt
<1>9. ASSUME job.cells > 0, job.op = "read", ~InRange(job) PROVE ShortReadAt(0)'
    <2>1. toHost' = << >> /\ phase' = "dataIn"
        BY <1>2, <1>3, <1>5, <1>9, JobIs DEF Reply
    <2> QED
        BY <2>1 DEF ShortReadAt
<1>10. ASSUME job.cells > 0, ~job.in, job.op = "write", InRange(job) PROVE WriteAt(0)'
    <2>1. /\ phase' = "dataOut" /\ writeAt' = Start(job) + 0 /\ writeLeft' = job.cells - 0
          /\ 0 < job.cells /\ moved' = 0
          /\ \A c \in Start(job) .. Start(job) + 0 - 1 : FALSE
        BY <1>2, <1>3, <1>5, <1>10
    <2>2. Start(job)' = Start(job)
        BY DEF Start
    <2> QED
        BY <2>1, <2>2, <1>4 DEF WriteAt
<1>11. ASSUME job.cells > 0, ~job.in, ~(job.op = "write" /\ InRange(job)) PROVE IgnoredAt(0)'
    BY <1>2, <1>3, <1>5, <1>11 DEF IgnoredAt
<1>12. InRange(job)' <=> InRange(job)
    BY DEF InRange, Start, Length
<1>13. job.cells = 0 => phase' = "status" /\ moved' = 0
    BY <1>2
<1> QED
    BY <1>2, <1>4, <1>6, <1>7, <1>8, <1>9, <1>10, <1>11, <1>12, <1>13 DEF DataAt

LEMMA TakeOne ==
    ASSUME NEW S, NEW h \in Seq(S), Len(h) >= 1
    PROVE  /\ Min({1, Len(h)}) = 1
           /\ SubSeq(h, 1, 1) = << h[1] >>
           /\ Min({1, Len(<< h[1] >>)}) = 1
           /\ SubSeq(<< h[1] >>, 1, 1) = << h[1] >>
           /\ SubSeq(h, 2, Len(h)) = [i \in 1 .. Len(h) - 1 |-> h[i + 1]]
           /\ SubSeq(h, 2, Len(h)) = << >> <=> Len(h) = 1
<1>1. Len(h) \in Nat /\ \A i \in 1 .. Len(h) : h[i] \in S
    OBVIOUS
<1>2. Min({1, Len(h)}) = 1 /\ Min({1, 1}) = 1
    BY <1>1, MinOfTwo
<1>3. PICK a : a = h[1]
    OBVIOUS
<1>4. a \in S /\ << a >> \in Seq(S) /\ Len(<< a >>) = 1 /\ << a >>[1] = a
    BY <1>1, <1>3
<1>5. SubSeq(h, 1, 1) = << a >>
    <2>1. /\ SubSeq(h, 1, 1) \in Seq(S) /\ Len(SubSeq(h, 1, 1)) = 1
          /\ \A i \in 1 .. 1 : SubSeq(h, 1, 1)[i] = << a >>[i]
        BY <1>1, <1>3, <1>4
    <2> QED
        BY <2>1, <1>4, SeqEqual
<1>6. SubSeq(<< a >>, 1, 1) = << a >>
    BY <1>4, WholeOf
<1>7. PICK n : n = Len(h)
    OBVIOUS
<1>8. /\ SubSeq(h, 2, n) \in Seq(S) /\ Len(SubSeq(h, 2, n)) = n - 1 /\ n \in Nat /\ n >= 1
      /\ \A i \in 1 .. n - 1 : SubSeq(h, 2, n)[i] = h[i + 1] /\ h[i + 1] \in S
    BY <1>1, <1>7
<1>9. SubSeq(h, 2, n) = [i \in 1 .. n - 1 |-> h[i + 1]]
    <2> DEFINE g == [i \in 1 .. n - 1 |-> h[i + 1]]
    <2>1. g \in [1 .. n - 1 -> S] /\ n - 1 \in Nat /\ \A i \in 1 .. n - 1 : g[i] = h[i + 1]
        BY <1>8
    <2> HIDE DEF g
    <2>2. g \in Seq(S) /\ Len(g) = n - 1
        BY <2>1
    <2>3. \A i \in 1 .. n - 1 : SubSeq(h, 2, n)[i] = g[i]
        BY <2>1, <1>8
    <2>4. SubSeq(h, 2, n) = g
        BY <2>2, <2>3, <1>8, SeqEqual
    <2> QED
        BY <2>4 DEF g
<1>10. SubSeq(h, 2, n) = << >> <=> n = 1
    BY <1>8
<1> QED
    BY <1>2, <1>3, <1>4, <1>5, <1>6, <1>7, <1>9, <1>10

(* A transfer of data to the host. *)
LEMMA CellMoves ==
    ASSUME job \in CommandSet, job.op = "read", InRange(job), NEW k \in 0 .. job.cells - 1,
           ReadAt(k), BulkIn(1), UNCHANGED <<job, myTag, asked>>,
           Len(asked["in"]) = job.cells,
           \A i \in 1 .. job.cells : i # k + 1 => td'[asked["in"][i]] = td[asked["in"][i]],
           LET cells == Given(1)
           IN  td'[asked["in"][k + 1]].got = SubSeq(cells, 1, Min({1, Len(cells)}))
    PROVE  ReadAt(k + 1)' /\ store' = store /\ UNCHANGED <<tag, expected, status>>
<1> DEFINE S == {store[a] : a \in Nat}
<1>1. PICK s, m, h : s = Start(job) /\ m = job.cells /\ h = toHost
    OBVIOUS
<1>2. s \in Nat /\ m \in Nat /\ k \in Nat /\ k + 1 <= m /\ m - k \in Nat /\ m - k >= 1
    <2>1. s \in Nat /\ m \in Nat
        BY <1>1, JobIs
    <2> QED
        BY <1>1, <2>1
<1>3. h = [i \in 1 .. m - k |-> store[s + k + i - 1]]
    BY <1>1 DEF ReadAt
<1>4. \A i \in 1 .. m - k : store[s + k + i - 1] \in S
    <2>1. \A i \in 1 .. m - k : s + k + i - 1 \in Nat
        BY <1>2
    <2> QED
        BY <2>1
<1> HIDE DEF S
<1>5. h \in Seq(S) /\ Len(h) = m - k
    BY <1>2, <1>3, <1>4
<1>6. h[1] = store[s + k]
    <2>1. 1 \in 1 .. m - k /\ s + k + 1 - 1 = s + k
        BY <1>2
    <2> QED
        BY <2>1, <1>3
<1>7. /\ Min({1, Len(h)}) = 1
      /\ SubSeq(h, 1, 1) = << h[1] >>
      /\ Min({1, Len(<< h[1] >>)}) = 1
      /\ SubSeq(<< h[1] >>, 1, 1) = << h[1] >>
      /\ SubSeq(h, 2, Len(h)) = [i \in 1 .. Len(h) - 1 |-> h[i + 1]]
      /\ SubSeq(h, 2, Len(h)) = << >> <=> Len(h) = 1
    BY <1>2, <1>5, TakeOne
<1>8. /\ phase = "dataIn" /\ moved = k
      /\ \A i \in 1 .. m : i <= k => td[asked["in"][i]].got = << store[s + i - 1] >>
    BY <1>1, <1>2 DEF ReadAt
<1>9. /\ toHost' = SubSeq(h, 2, Len(h)) /\ moved' = k + 1
      /\ phase' = IF toHost' = << >> THEN "status" ELSE phase
      /\ UNCHANGED <<tag, expected, status, store>>
    <2>1. PICK n : n = Min({1, Len(toHost)})
        OBVIOUS
    <2>2. n = 1 /\ n + 1 = 2
        BY <2>1, <1>1, <1>7
    <2>3. /\ toHost' = SubSeq(toHost, n + 1, Len(toHost)) /\ moved' = moved + n
          /\ phase' = IF toHost' = << >> THEN "status" ELSE phase
          /\ UNCHANGED <<tag, expected, status, store>>
        BY <2>1, <1>8 DEF BulkIn
    <2> QED
        BY <2>2, <2>3, <1>1, <1>8
<1>10. phase' = IF k + 1 < m THEN "dataIn" ELSE "status"
    BY <1>2, <1>5, <1>7, <1>8, <1>9
<1>11. toHost' = [i \in 1 .. m - (k + 1) |-> store[s + (k + 1) + i - 1]]
    <2>1. toHost' = [i \in 1 .. (m - k) - 1 |-> h[i + 1]] /\ (m - k) - 1 = m - (k + 1)
        BY <1>2, <1>5, <1>7, <1>9
    <2>2. \A i \in 1 .. m - (k + 1) :
              i + 1 \in 1 .. m - k /\ s + k + (i + 1) - 1 = s + (k + 1) + i - 1
        BY <1>2
    <2>3. \A i \in 1 .. m - (k + 1) : h[i + 1] = store[s + (k + 1) + i - 1]
        BY <2>2, <1>3
    <2> QED
        BY <2>1, <2>3
<1>12. td'[asked["in"][k + 1]].got = << store[s + k] >>
    <2>1. Given(1) = << h[1] >>
        BY <1>1, <1>7, <1>8 DEF Given
    <2> QED
        BY <2>1, <1>6, <1>7
<1>13. \A i \in 1 .. m : i <= k + 1 => td'[asked["in"][i]].got = << store[s + i - 1] >>
    <2> SUFFICES ASSUME NEW i \in 1 .. m, i <= k + 1
                 PROVE  td'[asked["in"][i]].got = << store[s + i - 1] >>
        OBVIOUS
    <2>1. CASE i = k + 1
        <3>1. s + i - 1 = s + k
            BY <2>1, <1>2
        <3> QED
            BY <2>1, <3>1, <1>12
    <2>2. CASE i # k + 1
        <3>1. i <= k /\ td'[asked["in"][i]] = td[asked["in"][i]]
            BY <2>2, <1>1, <1>2
        <3> QED
            BY <3>1, <1>8
    <2> QED
        BY <2>1, <2>2
<1>14. Start(job)' = Start(job)
    BY DEF Start
<1>15. asked' = asked /\ job' = job
    OBVIOUS
<1>16. ReadAt(k + 1)'
    BY <1>1, <1>9, <1>10, <1>11, <1>13, <1>14, <1>15 DEF ReadAt
<1> QED
    BY <1>9, <1>16

(* A transfer of all there is, and of nothing. *)
LEMMA AllMoves ==
    ASSUME job \in CommandSet, job.cells > 0, job.in, job.op # "read",
           ReplyAt(0), BulkIn(job.cells), UNCHANGED <<job, myTag, asked>>,
           LET cells == Given(job.cells)
           IN  td'[asked["in"][1]].got = SubSeq(cells, 1, Min({job.cells, Len(cells)}))
    PROVE  ReplyAt(1)' /\ store' = store /\ UNCHANGED <<tag, expected, status>>
<1>1. PICK h, m, n : h = Reply(job) /\ m = job.cells /\ n = Min({m, Len(h)})
    OBVIOUS
<1>2. h \in Seq({Reg}) /\ Len(h) <= 1 /\ m \in Nat /\ m >= 1 /\ Len(h) \in Nat
    BY <1>1, ReplyIs, JobIs
<1>3. n = Len(h) /\ SubSeq(h, 1, n) = h /\ SubSeq(h, n + 1, Len(h)) = << >>
    <2>1. n = Len(h)
        BY <1>1, <1>2, MinOfTwo
    <2>2. SubSeq(h, 1, Len(h)) = h /\ SubSeq(h, Len(h) + 1, Len(h)) = << >>
        BY <1>2, WholeOf
    <2> QED
        BY <2>1, <2>2
<1>4. toHost = h /\ phase = "dataIn" /\ moved = 0
    BY <1>1 DEF ReplyAt
<1>5. /\ toHost' = SubSeq(h, n + 1, Len(h)) /\ moved' = 0 + n
      /\ phase' = IF toHost' = << >> THEN "status" ELSE phase
      /\ UNCHANGED <<tag, expected, status, store>>
    BY <1>1, <1>4 DEF BulkIn
<1>6. td'[asked["in"][1]].got = h
    <2>1. Given(job.cells) = h
        BY <1>1, <1>3, <1>4 DEF Given
    <2> QED
        BY <2>1, <1>1, <1>3
<1>7. Reply(job)' = h
    BY <1>1, <1>5 DEF Reply, Contents, Start, Length, InRange
<1>8. phase' = "status" /\ moved' = Len(h)
    BY <1>2, <1>3, <1>5
<1> QED
    BY <1>5, <1>6, <1>7, <1>8 DEF ReplyAt

LEMMA NothingMoves ==
    ASSUME NEW k \in Nat, ShortReadAt(k), BulkIn(1), moved \in Nat
    PROVE  /\ ShortReadAt(k + 1)' /\ store' = store /\ UNCHANGED <<tag, expected, status>>
           /\ moved' \in Nat
<1>1. CASE k = 0
    <2>1. PICK n : n = Min({1, Len(toHost)})
        OBVIOUS
    <2>2. toHost = << >> /\ phase = "dataIn"
        BY <1>1 DEF ShortReadAt
    <2>3. n = 0
        BY <2>1, <2>2, MinOfTwo
    <2>4. /\ toHost' = SubSeq(toHost, n + 1, Len(toHost)) /\ moved' = moved + n
          /\ phase' = IF toHost' = << >> THEN "status" ELSE phase
          /\ UNCHANGED <<tag, expected, status, store>>
        BY <2>1, <2>2 DEF BulkIn
    <2>5. SubSeq(<< >>, 0 + 1, Len(<< >>)) = << >>
        BY SubSeqEmpty
    <2>6. phase' = "status"
        BY <2>2, <2>3, <2>4, <2>5
    <2> QED
        BY <1>1, <2>3, <2>4, <2>6 DEF ShortReadAt
<1>2. CASE k # 0
    <2>1. phase \in {"status", "command"}
        BY <1>2 DEF ShortReadAt
    <2>2. phase' = "command" /\ UNCHANGED <<tag, expected, moved, status, store>>
        BY <2>1 DEF BulkIn
    <2>3. k + 1 # 0 /\ k + 1 # 1
        BY <1>2
    <2> QED
        BY <2>2, <2>3 DEF ShortReadAt
<1> QED
    BY <1>1, <1>2

(* A packet of data from the host goes where the command writes. *)
LEMMA CellWritten ==
    ASSUME job \in CommandSet, job.op = "write", InRange(job), NEW k \in 0 .. job.cells - 1,
           WriteAt(k), expected = job.cells, BulkOut(Packet(<< job.fill >>)),
           UNCHANGED <<job, myTag>>
    PROVE  /\ WriteAt(k + 1)' /\ UNCHANGED <<tag, expected, status>>
           /\ \A c \in StoreCells : store'[c] # store[c] =>
                  c \in Start(job) .. Start(job) + Length(job) - 1
<1>1. PICK s, m, v : s = Start(job) /\ m = job.cells /\ v = job.fill
    OBVIOUS
<1>2. /\ s \in Nat /\ m \in Nat /\ k \in Nat /\ k + 1 <= m /\ m = Length(job)
      /\ \A a \in s .. s + m - 1 : a \in StoreCells
    <2>1. s \in Nat /\ m \in Nat /\ m = Length(job)
        BY <1>1, JobIs
    <2>2. \A a \in Start(job) .. Start(job) + Length(job) - 1 : a \in StoreCells
        BY JobIs
    <2> QED
        BY <1>1, <2>1, <2>2
<1>3. /\ phase = "dataOut" /\ moved = k /\ writeAt = s + k /\ writeLeft = m - k
      /\ \A c \in s .. s + k - 1 : store[c] = v
    BY <1>1, <1>2 DEF WriteAt
<1>4. TakeData(<< v >>)
    <2>1. CellsOf(Packet(<< v >>)) = << v >>
        BY DEF CellsOf, Packet
    <2> QED
        BY <1>1, <1>3, <2>1 DEF BulkOut
<1>5. Len(<< v >>) = 1 /\ << v >>[1] = v
    OBVIOUS
<1>6. PICK n : n = Min({Len(<< v >>), writeLeft})
    OBVIOUS
<1>7. n = 1
    <2>1. m - k \in Nat /\ 1 <= m - k
        BY <1>2
    <2> QED
        BY <2>1, <1>3, <1>5, <1>6, MinOfTwo
<1>8. /\ store' = [c \in StoreCells |->
                      IF c \in writeAt .. writeAt + n - 1 THEN << v >>[c - writeAt + 1] ELSE store[c]]
      /\ writeAt' = writeAt + n /\ writeLeft' = writeLeft - n /\ moved' = moved + Len(<< v >>)
      /\ phase' = IF writeLeft' = 0 \/ moved' >= expected THEN "status" ELSE phase
      /\ UNCHANGED <<tag, expected, status>>
    BY <1>4, <1>6 DEF TakeData
<1>9. \A c \in StoreCells : store'[c] = IF c = s + k THEN v ELSE store[c]
    <2> SUFFICES ASSUME NEW c \in StoreCells
                 PROVE  store'[c] = IF c = s + k THEN v ELSE store[c]
        OBVIOUS
    <2>1. store'[c] = IF c \in writeAt .. writeAt + n - 1 THEN << v >>[c - writeAt + 1] ELSE store[c]
        BY <1>8
    <2>2. c \in writeAt .. writeAt + n - 1 <=> c = s + k
        <3>1. NumSectors * SectorCells \in Nat
            BY Products, DriveAssumption
        <3>2. c \in Int
            BY <3>1 DEF StoreCells
        <3> QED
            BY <3>2, <1>2, <1>3, <1>7
    <2>3. c = s + k => c - writeAt + 1 = 1
        BY <1>2, <1>3
    <2> QED
        BY <2>1, <2>2, <2>3, <1>5
<1>10. \A c \in s .. s + (k + 1) - 1 : store'[c] = v
    <2> SUFFICES ASSUME NEW c \in s .. s + (k + 1) - 1 PROVE store'[c] = v
        OBVIOUS
    <2>1. c \in StoreCells /\ (c = s + k \/ c \in s .. s + k - 1)
        BY <1>2
    <2> QED
        BY <2>1, <1>3, <1>9
<1>11. \A c \in StoreCells : store'[c] # store[c] =>
           c \in Start(job) .. Start(job) + Length(job) - 1
    <2>1. s + k \in s .. s + m - 1
        BY <1>2
    <2> QED
        BY <2>1, <1>1, <1>2, <1>9
<1>12. /\ moved' = k + 1 /\ writeAt' = s + (k + 1) /\ writeLeft' = m - (k + 1)
       /\ phase' = IF k + 1 < m THEN "dataOut" ELSE "status"
    <2>1. moved' = k + 1 /\ writeAt' = s + k + 1 /\ writeLeft' = m - k - 1
        BY <1>3, <1>5, <1>7, <1>8
    <2>2. (writeLeft' = 0 \/ moved' >= expected) <=> ~(k + 1 < m)
        BY <2>1, <1>1, <1>2
    <2> QED
        BY <2>1, <2>2, <1>2, <1>3, <1>8
<1>13. Start(job)' = s /\ job' = job
    BY <1>1 DEF Start
<1>14. WriteAt(k + 1)'
    BY <1>1, <1>10, <1>12, <1>13 DEF WriteAt
<1> QED
    BY <1>8, <1>11, <1>14

LEMMA NothingWritten ==
    ASSUME NEW k \in Nat, IgnoredAt(k), BulkOut(Packet(<< job.fill >>)), writeAt \in Nat,
           moved \in Nat
    PROVE  /\ IgnoredAt(k + 1)' /\ UNCHANGED <<tag, expected, status>> /\ moved' \in Nat
           /\ \A c \in StoreCells : store'[c] = store[c]
<1>1. k + 1 # 0
    OBVIOUS
<1>2. CASE k = 0
    <2>1. PICK v : v = job.fill
        OBVIOUS
    <2>2. phase = "dataOut" /\ writeLeft = 0
        BY <1>2 DEF IgnoredAt
    <2>3. TakeData(<< v >>)
        <3>1. CellsOf(Packet(<< v >>)) = << v >>
            BY DEF CellsOf, Packet
        <3> QED
            BY <2>1, <2>2, <3>1 DEF BulkOut
    <2>4. PICK n : n = Min({Len(<< v >>), writeLeft})
        OBVIOUS
    <2>5. n = 0
        <3>1. Len(<< v >>) = 1
            OBVIOUS
        <3> QED
            BY <3>1, <2>2, <2>4, MinOfTwo
    <2>6. /\ store' = [c \in StoreCells |->
                          IF c \in writeAt .. writeAt + n - 1 THEN << v >>[c - writeAt + 1] ELSE store[c]]
          /\ writeLeft' = writeLeft - n /\ moved' = moved + Len(<< v >>)
          /\ phase' = IF writeLeft' = 0 \/ moved' >= expected THEN "status" ELSE phase
          /\ UNCHANGED <<tag, expected, status>>
        BY <2>3, <2>4 DEF TakeData
    <2>7. writeLeft' = 0 /\ phase' = "status" /\ moved' \in Nat
        BY <2>2, <2>5, <2>6
    <2>8. ASSUME NEW c \in StoreCells PROVE store'[c] = store[c]
        <3>1. NumSectors * SectorCells \in Nat
            BY Products, DriveAssumption
        <3>2. ~(c \in writeAt .. writeAt + n - 1)
            BY <2>5, <3>1 DEF StoreCells
        <3> QED
            BY <2>6, <3>2
    <2> QED
        BY <1>1, <2>6, <2>7, <2>8 DEF IgnoredAt
<1>3. CASE k # 0
    <2>1. phase = "status"
        BY <1>3 DEF IgnoredAt
    <2>2. UNCHANGED <<phase, tag, expected, moved, status, store>>
        BY <2>1 DEF BulkOut, diskVars, transport
    <2> QED
        BY <1>1, <2>1, <2>2 DEF IgnoredAt
<1> QED
    BY <1>2, <1>3

(* The status wrapper says how the command ended. *)
LEMMA StatusComes ==
    ASSUME job \in CommandSet, Begun, phase \in {"status", "command"},
           ~Unable(job) /\ job.op # "write" => moved = Len(buf) /\ moved <= expected,
           BulkIn(1)
    PROVE  /\ phase' = "command" /\ store' = store
           /\ \E s \in [tag : {myTag}, residue : 0 .. job.cells, status : {"good", "failed"}] :
                  /\ SubSeq(Given(1), 1, Min({1, Len(Given(1))})) = << s >>
                  /\ s.status = IF Unable(job) THEN "failed" ELSE "good"
                  /\ ~Unable(job) /\ job.op # "write" => s.residue = job.cells - Len(buf)
<1>1. phase' = "command" /\ store' = store
    BY DEF BulkIn
<1>2. PICK s : s = StatusWrapper
    OBVIOUS
<1>3. /\ s.tag = myTag /\ s.status = IF Unable(job) THEN "failed" ELSE "good"
      /\ s.residue = IF job.cells > moved THEN job.cells - moved ELSE 0
      /\ s = [tag |-> s.tag, residue |-> s.residue, status |-> s.status]
    BY <1>2 DEF StatusWrapper, Begun
<1>4. job.cells \in Nat /\ moved \in Nat
    BY JobIs DEF Begun
<1>5. s.residue \in 0 .. job.cells
    BY <1>3, <1>4
<1>6. s \in [tag : {myTag}, residue : 0 .. job.cells, status : {"good", "failed"}]
    BY <1>3, <1>5
<1>7. ~Unable(job) /\ job.op # "write" => s.residue = job.cells - Len(buf)
    BY <1>3, <1>4 DEF Begun
<1>8. Given(1) = << s >>
    BY <1>2 DEF Given
<1>9. SubSeq(<< s >>, 1, Min({1, Len(<< s >>)})) = << s >>
    <2>1. << s >> \in Seq({s}) /\ Len(<< s >>) = 1 /\ Min({1, 1}) = 1
        BY MinOfTwo
    <2> QED
        BY <2>1, WholeOf
<1> QED
    BY <1>1, <1>3, <1>6, <1>7, <1>8, <1>9

(* A transfer of the bulk client runs. *)
BulkStep(e, k) ==
    /\ Ran(e, k) /\ Runnable(e)
    /\ Run(e, td[asked[e][k + 1]])
    /\ UNCHANGED <<asked, cli, job, myTag, buf, up>>

LEMMA SendingRuns ==
    ASSUME Apart, Sending, job \in CommandSet, NEW k, BulkStep("out", k)
    PROVE  Sending' /\ UNCHANGED ctlVars /\ store' = store
<1>1. PICK ts : ts = WrapperTransfers
    OBVIOUS
<1>2. Len(ts) = 1 /\ ts[1] = Transfer("out", Wrapper(job, myTag), 0)
    BY <1>1, OneTransfer DEF WrapperTransfers
<1>3. /\ Are("out", ts)' /\ k + 1 \in 1 .. Len(ts)
      /\ LET d == td[asked["out"][k + 1]]
         IN  d.pid = ts[k + 1].pid /\ d.what = ts[k + 1].what /\ d.want = ts[k + 1].want
    BY <1>1, RanAre DEF Sending, BulkStep, Eds
<1>4. k = 0 /\ At("out", 0)
    <2>1. k \in 0 .. Len(asked["out"]) - 1 /\ At("out", k) /\ Len(asked["out"]) = 1
        BY <1>1, <1>2 DEF BulkStep, Ran, Sending, Are
    <2> QED
        BY <2>1
<1>5. phase = "command"
    BY <1>4 DEF Sending
<1>6. BulkOut(Wrapper(job, myTag)) /\ UNCHANGED ctlVars
    <2>1. td[asked["out"][1]].pid = "out" /\ td[asked["out"][1]].what = Wrapper(job, myTag)
        BY <1>2, <1>3, <1>4 DEF Transfer
    <2> QED
        BY <2>1, <1>4 DEF BulkStep, Run
<1>7. DataAt(0)' /\ store' = store
    BY <1>5, <1>6, CommandBegins DEF BulkStep
<1>8. ~At("out", 0)'
    <2>1. \A j : At("out", j)' => j = 1
        BY <1>4, RanIsNext DEF BulkStep, Eds
    <2> QED
        BY <2>1
<1>9. Are("out", WrapperTransfers)'
    BY <1>1, <1>3 DEF Are, WrapperTransfers, BulkStep
<1> QED
    BY <1>6, <1>7, <1>8, <1>9 DEF Sending, BulkStep

LEMMA EndingRuns ==
    ASSUME Apart, Ending, job \in CommandSet, NEW k, BulkStep("in", k)
    PROVE  Ending' /\ UNCHANGED ctlVars /\ store' = store
<1>1. PICK ts : ts = StatusTransfers
    OBVIOUS
<1>2. Len(ts) = 1 /\ ts[1] = Transfer("in", Null, 1)
    BY <1>1, OneTransfer DEF StatusTransfers
<1>3. /\ Are("in", ts)' /\ k + 1 \in 1 .. Len(ts)
      /\ LET d == td[asked["in"][k + 1]]
         IN  d.pid = ts[k + 1].pid /\ d.what = ts[k + 1].what /\ d.want = ts[k + 1].want
      /\ td'[asked["in"][k + 1]].got = Received("in", td[asked["in"][k + 1]])
    BY <1>1, RanAre DEF Ending, BulkStep, Eds
<1>4. k = 0 /\ At("in", 0)
    <2>1. k \in 0 .. Len(asked["in"]) - 1 /\ At("in", k) /\ Len(asked["in"]) = 1
        BY <1>1, <1>2 DEF BulkStep, Ran, Ending, Are
    <2> QED
        BY <2>1
<1>5. /\ Begun
      /\ phase \in {"status", "command"}
      /\ ~Unable(job) /\ job.op # "write" => moved = Len(buf) /\ moved <= expected
    BY <1>4 DEF Ending
<1>6. td[asked["in"][1]].pid = "in" /\ td[asked["in"][1]].want = 1
    BY <1>2, <1>3, <1>4 DEF Transfer
<1>7. BulkIn(1) /\ UNCHANGED ctlVars
    BY <1>4, <1>6 DEF BulkStep, Run
<1>8. td'[asked["in"][1]].got = SubSeq(Given(1), 1, Min({1, Len(Given(1))}))
    <2>1. PICK d : d = td[asked["in"][k + 1]]
        OBVIOUS
    <2>2. d.pid = "in" /\ d.want = 1 /\ td'[asked["in"][1]].got = Received("in", d)
        BY <2>1, <1>3, <1>4, <1>6
    <2>3. Received("in", d) = SubSeq(Given(d.want), 1, Min({d.want, Len(Given(d.want))}))
        BY <2>2 DEF Received
    <2> QED
        BY <2>2, <2>3
<1>9. /\ phase' = "command" /\ store' = store
      /\ \E s \in [tag : {myTag}, residue : 0 .. job.cells, status : {"good", "failed"}] :
             /\ SubSeq(Given(1), 1, Min({1, Len(Given(1))})) = << s >>
             /\ s.status = IF Unable(job) THEN "failed" ELSE "good"
             /\ ~Unable(job) /\ job.op # "write" => s.residue = job.cells - Len(buf)
    BY <1>5, <1>7, StatusComes
<1>10. ~At("in", 0)'
    <2>1. \A j : At("in", j)' => j = 1
        BY <1>4, RanIsNext DEF BulkStep, Eds
    <2> QED
        BY <2>1
<1>11. Are("in", StatusTransfers)'
    BY <1>1, <1>3 DEF Are, StatusTransfers, BulkStep
<1>12. UNCHANGED <<asked, job, myTag, buf>>
    BY DEF BulkStep
<1>13. Kept'
    BY <1>9, <1>12 DEF Ending, Kept, InRange, Start, Length, Contents
<1>14. (Unable(job) <=> Unable(job)') /\ asked'["in"] = asked["in"]
    BY <1>12 DEF Unable, InRange, Start, Length
<1>15. At("in", 1)' =>
           /\ phase' = "command"
           /\ \E s \in [tag : {myTag'}, residue : 0 .. job'.cells, status : {"good", "failed"}] :
                  /\ td'[asked'["in"][1]].got = << s >>
                  /\ s.status = IF Unable(job)' THEN "failed" ELSE "good"
                  /\ ~Unable(job)' /\ job'.op # "write" => s.residue = job'.cells - Len(buf')
    <2>1. PICK s \in [tag : {myTag}, residue : 0 .. job.cells, status : {"good", "failed"}] :
             /\ SubSeq(Given(1), 1, Min({1, Len(Given(1))})) = << s >>
             /\ s.status = IF Unable(job) THEN "failed" ELSE "good"
             /\ ~Unable(job) /\ job.op # "write" => s.residue = job.cells - Len(buf)
        BY <1>9
    <2>2. s \in [tag : {myTag'}, residue : 0 .. job'.cells, status : {"good", "failed"}]
        BY <1>12
    <2>3. td'[asked'["in"][1]].got = << s >>
        BY <2>1, <1>8, <1>14
    <2>4. /\ s.status = IF Unable(job)' THEN "failed" ELSE "good"
          /\ ~Unable(job)' /\ job'.op # "write" => s.residue = job'.cells - Len(buf')
        BY <2>1, <1>12, <1>14
    <2> QED
        BY <2>2, <2>3, <2>4, <1>9
<1> QED
    BY <1>7, <1>9, <1>10, <1>11, <1>13, <1>15 DEF Ending

LEMMA BegunStays ==
    ASSUME Begun, UNCHANGED <<tag, expected, status, job, myTag>>, moved' \in Nat
    PROVE  Begun' /\ (InRange(job)' <=> InRange(job))
<1>1. InRange(job)' <=> InRange(job)
    BY DEF InRange, Start, Length
<1> QED
    BY <1>1 DEF Begun, Unable

LEMMA MovingRuns ==
    ASSUME Apart, Moving, job \in CommandSet, writeAt \in Nat, NEW k, BulkStep(DataEnd, k)
    PROVE  /\ Moving' /\ UNCHANGED ctlVars
           /\ \A c \in StoreCells : store'[c] # store[c] =>
                  job.op = "write" /\ c \in Start(job) .. Start(job) + Length(job) - 1
<1>1. PICK ts, e, d : ts = DataTransfers /\ e = DataEnd /\ d = td[asked[e][k + 1]]
    OBVIOUS
<1>2. /\ e \in Eds /\ (job.in => e = "in") /\ (~job.in => e = "out")
      /\ BulkStep(e, k) /\ UNCHANGED <<asked, cli, job, myTag, buf, up>>
    BY <1>1 DEF DataEnd, Eds, BulkStep
<1>3. job.cells > 0 /\ job.cells \in Nat /\ job.in \in BOOLEAN /\ job.op \in Commands
    BY JobIs DEF Moving
<1>4. /\ ~job.in => /\ Len(ts) = job.cells
                    /\ \A i \in 1 .. job.cells : ts[i] = Transfer("out", Packet(<< job.fill >>), 0)
      /\ job.in /\ job.op = "read" =>
             /\ Len(ts) = job.cells
             /\ \A i \in 1 .. job.cells : ts[i] = Transfer("in", Null, 1)
      /\ job.in /\ job.op # "read" => Len(ts) = 1 /\ ts[1] = Transfer("in", Null, job.cells)
    BY <1>1, <1>3, DataTransfersAre
<1>5. Are(e, ts) /\ \A j \in Nat : At(e, j) => DataAt(j)
    BY <1>1 DEF Moving
<1>6. /\ Are(e, ts)' /\ k + 1 \in 1 .. Len(ts)
      /\ d.pid = ts[k + 1].pid /\ d.what = ts[k + 1].what /\ d.want = ts[k + 1].want
      /\ td'[asked[e][k + 1]].got = Received(e, d)
      /\ \A i \in 1 .. Len(ts) : i # k + 1 => td'[asked[e][i]] = td[asked[e][i]]
    BY <1>1, <1>2, <1>5, RanAre DEF BulkStep
<1>7. k \in Nat /\ At(e, k) /\ k \in 0 .. Len(ts) - 1 /\ Len(asked[e]) = Len(ts)
    BY <1>2, <1>5 DEF BulkStep, Ran, Are
<1>8. DataAt(k) /\ Begun
    BY <1>5, <1>7 DEF DataAt
<1>9. Run(e, d)
    BY <1>1, <1>2 DEF BulkStep
<1>10. SUFFICES
           /\ DataAt(k + 1)' /\ UNCHANGED ctlVars
           /\ \A c \in StoreCells : store'[c] # store[c] =>
                  job.op = "write" /\ c \in Start(job) .. Start(job) + Length(job) - 1
    <2>1. \A j : At(e, j)' => j = k + 1
        BY <1>2, RanIsNext DEF BulkStep
    <2>2. DataEnd' = e /\ DataTransfers' = ts
        BY <1>1, <1>2 DEF DataEnd, DataTransfers
    <2>3. \A j \in Nat : At(DataEnd, j)' => DataAt(j)'
        BY <2>1, <2>2, <1>10 DEF At
    <2>4. Are(DataEnd, DataTransfers)'
        BY <2>2, <1>6 DEF Are
    <2> QED
        BY <2>3, <2>4, <1>2, <1>10 DEF Moving
<1>11. ASSUME job.in, NEW w, d.want = w, d.pid = "in"
       PROVE  /\ BulkIn(w) /\ UNCHANGED ctlVars
              /\ td'[asked["in"][k + 1]].got = SubSeq(Given(w), 1, Min({w, Len(Given(w))}))
    <2>1. Received("in", d) = SubSeq(Given(d.want), 1, Min({d.want, Len(Given(d.want))}))
        BY <1>11 DEF Received
    <2>2. Run("in", d)
        BY <1>2, <1>9, <1>11
    <2>3. BulkIn(d.want) /\ UNCHANGED ctlVars
        BY <2>2, <1>11 DEF Run
    <2> QED
        BY <2>1, <2>3, <1>2, <1>6, <1>11
<1>12. CASE job.in /\ job.op = "read" /\ InRange(job)
    <2>1. d.pid = "in" /\ d.want = 1 /\ k \in 0 .. job.cells - 1 /\ Len(asked["in"]) = job.cells
        BY <1>2, <1>4, <1>6, <1>7, <1>12 DEF Transfer
    <2>2. /\ BulkIn(1) /\ UNCHANGED ctlVars
          /\ td'[asked["in"][k + 1]].got = SubSeq(Given(1), 1, Min({1, Len(Given(1))}))
        BY <2>1, <1>11, <1>12
    <2>3. ReadAt(k)
        BY <1>3, <1>8, <1>12 DEF DataAt
    <2>4. ReadAt(k + 1)' /\ store' = store /\ UNCHANGED <<tag, expected, status>>
        BY <2>1, <2>2, <2>3, <1>2, <1>4, <1>6, <1>12, CellMoves
    <2>5. moved' \in Nat
        BY <2>4, <1>7 DEF ReadAt
    <2>6. Begun' /\ InRange(job)'
        BY <2>4, <2>5, <1>2, <1>8, <1>12, BegunStays
    <2>7. DataAt(k + 1)'
        BY <2>4, <2>6, <1>2, <1>3, <1>12 DEF DataAt
    <2> QED
        BY <2>2, <2>4, <2>7
<1>13. CASE job.in /\ job.op = "read" /\ ~InRange(job)
    <2>1. d.pid = "in" /\ d.want = 1
        BY <1>2, <1>4, <1>6, <1>7, <1>13 DEF Transfer
    <2>2. BulkIn(1) /\ UNCHANGED ctlVars
        BY <2>1, <1>11, <1>13
    <2>3. ShortReadAt(k)
        BY <1>3, <1>8, <1>13 DEF DataAt
    <2>4. ShortReadAt(k + 1)' /\ store' = store /\ UNCHANGED <<tag, expected, status>> /\ moved' \in Nat
        BY <2>2, <2>3, <1>7, <1>8, NothingMoves DEF Begun
    <2>5. Begun' /\ ~InRange(job)'
        BY <2>4, <1>2, <1>8, <1>13, BegunStays
    <2>6. DataAt(k + 1)'
        BY <2>4, <2>5, <1>2, <1>3, <1>13 DEF DataAt
    <2> QED
        BY <2>2, <2>4, <2>6
<1>14. CASE job.in /\ job.op # "read"
    <2>1. k = 0 /\ d.pid = "in" /\ d.want = job.cells /\ k + 1 = 1
        BY <1>2, <1>4, <1>6, <1>7, <1>14 DEF Transfer
    <2>2. PICK w : w = job.cells
        OBVIOUS
    <2>3. /\ BulkIn(w) /\ UNCHANGED ctlVars
          /\ td'[asked["in"][k + 1]].got = SubSeq(Given(w), 1, Min({w, Len(Given(w))}))
        BY <2>1, <2>2, <1>11, <1>14
    <2>4. ReplyAt(0)
        BY <2>1, <1>3, <1>8, <1>14 DEF DataAt
    <2>5. ReplyAt(1)' /\ store' = store /\ UNCHANGED <<tag, expected, status>>
        BY <2>1, <2>2, <2>3, <2>4, <1>2, <1>3, <1>14, AllMoves
    <2>6. moved' \in Nat
        <3>1. PICK h : h = Reply(job)
            OBVIOUS
        <3>2. h \in Seq({Reg})
            BY <3>1, <1>14, ReplyIs
        <3>3. Reply(job)' = h
            BY <3>1, <1>2, <2>5 DEF Reply, Contents, Start, Length, InRange
        <3> QED
            BY <3>2, <3>3, <2>5 DEF ReplyAt
    <2>7. Begun'
        BY <2>5, <2>6, <1>2, <1>8, BegunStays
    <2>8. DataAt(k + 1)'
        BY <2>1, <2>5, <2>7, <1>2, <1>3, <1>14 DEF DataAt
    <2> QED
        BY <2>3, <2>5, <2>8
<1>15. ASSUME ~job.in
       PROVE  BulkOut(Packet(<< job.fill >>)) /\ UNCHANGED ctlVars /\ k \in 0 .. job.cells - 1
    <2>1. d.pid = "out" /\ d.what = Packet(<< job.fill >>) /\ k \in 0 .. job.cells - 1
        BY <1>2, <1>4, <1>6, <1>7, <1>15 DEF Transfer
    <2>2. Run("out", d)
        BY <1>2, <1>9, <1>15
    <2>3. BulkOut(d.what) /\ UNCHANGED ctlVars
        BY <2>1, <2>2 DEF Run
    <2> QED
        BY <2>1, <2>3
<1>16. CASE ~job.in /\ job.op = "write" /\ InRange(job)
    <2>1. WriteAt(k) /\ expected = job.cells
        BY <1>3, <1>8, <1>16 DEF DataAt, Begun
    <2>2. /\ WriteAt(k + 1)' /\ UNCHANGED <<tag, expected, status>>
          /\ \A c \in StoreCells : store'[c] # store[c] =>
                  c \in Start(job) .. Start(job) + Length(job) - 1
        BY <2>1, <1>2, <1>15, <1>16, CellWritten
    <2>3. moved' \in Nat
        BY <2>2, <1>7 DEF WriteAt
    <2>4. Begun' /\ InRange(job)'
        BY <2>2, <2>3, <1>2, <1>8, <1>16, BegunStays
    <2>5. DataAt(k + 1)'
        BY <2>2, <2>4, <1>2, <1>3, <1>16 DEF DataAt
    <2> QED
        BY <2>2, <2>5, <1>15, <1>16
<1>17. CASE ~job.in /\ ~(job.op = "write" /\ InRange(job))
    <2>1. IgnoredAt(k)
        BY <1>3, <1>8, <1>17 DEF DataAt
    <2>2. /\ IgnoredAt(k + 1)' /\ UNCHANGED <<tag, expected, status>> /\ moved' \in Nat
          /\ \A c \in StoreCells : store'[c] = store[c]
        BY <2>1, <1>7, <1>8, <1>15, <1>17, NothingWritten DEF Begun
    <2>3. Begun' /\ (InRange(job)' <=> InRange(job))
        BY <2>2, <1>2, <1>8, BegunStays
    <2>4. DataAt(k + 1)'
        BY <2>2, <2>3, <1>2, <1>3, <1>17 DEF DataAt
    <2> QED
        BY <2>2, <2>4, <1>15, <1>17
<1> QED
    BY <1>3, <1>12, <1>13, <1>14, <1>16, <1>17

(* The bulk client's transfers are as they were, and so is the drive. *)
BulkSame ==
    /\ UNCHANGED <<cli, job, myTag, buf, diskVars>>
    /\ \A f \in {"in", "out"} :
           /\ asked'[f] = asked[f]
           /\ \A i \in 1 .. Len(asked[f]) : td'[asked[f][i]] = td[asked[f][i]]

LEMMA DataSame ==
    ASSUME UNCHANGED <<job, myTag, diskVars>>, NEW k \in Nat, DataAt(k),
           k > 0 => /\ asked'["in"] = asked["in"] /\ Len(asked["in"]) \in Nat
                    /\ \A i \in 1 .. Len(asked["in"]) : td'[asked["in"][i]] = td[asked["in"][i]]
                    /\ job.in => Len(asked["in"]) >= 1
    PROVE  DataAt(k)'
<1>1. UNCHANGED <<job, myTag, phase, tag, expected, moved, status, toHost, writeAt,
                  writeLeft, store>>
    BY DEF diskVars, transport
<1>2. /\ Start(job)' = Start(job) /\ Reply(job)' = Reply(job)
      /\ (InRange(job)' <=> InRange(job)) /\ (Unable(job)' <=> Unable(job))
    BY <1>1 DEF Start, Reply, Contents, Length, InRange, Unable
<1>3. Begun'
    BY <1>1, <1>2 DEF DataAt, Begun
<1>4. job.cells > 0 /\ job.in /\ job.op = "read" /\ InRange(job) => ReadAt(k)'
    <2> SUFFICES ASSUME ReadAt(k) PROVE ReadAt(k)'
        BY DEF DataAt
    <2>1. PICK s, m : s = Start(job) /\ m = job.cells
        OBVIOUS
    <2>2. Start(job)' = s /\ job'.cells = m
        BY <2>1, <1>1, <1>2
    <2>3. moved' = k /\ phase' = IF k < m THEN "dataIn" ELSE "status"
        BY <2>1, <1>1 DEF ReadAt
    <2>4. toHost' = [i \in 1 .. m - k |-> store'[s + k + i - 1]]
        BY <2>1, <1>1 DEF ReadAt
    <2>5. \A i \in 1 .. Len(asked["in"]) : i <= k => td[asked["in"][i]].got = << store[s + i - 1] >>
        BY <2>1 DEF ReadAt
    <2>6. \A i \in 1 .. Len(asked'["in"]) : i <= k => td'[asked'["in"][i]].got = << store'[s + i - 1] >>
        <3>1. CASE k = 0
            BY <3>1
        <3>2. CASE k # 0
            <4>1. k > 0
                BY <3>2
            <4> QED
                BY <4>1, <2>5, <1>1
        <3> QED
            BY <3>1, <3>2
    <2> QED
        BY <2>2, <2>3, <2>4, <2>6 DEF ReadAt
<1>5. job.cells > 0 /\ job.in /\ job.op = "read" /\ ~InRange(job) => ShortReadAt(k)'
    BY <1>1 DEF DataAt, ShortReadAt
<1>6. job.cells > 0 /\ job.in /\ job.op # "read" => ReplyAt(k)'
    <2> SUFFICES ASSUME job.cells > 0, job.in, job.op # "read" PROVE ReplyAt(k)'
        OBVIOUS
    <2>1. ReplyAt(k)
        BY DEF DataAt
    <2>2. k = 1 => 1 \in 1 .. Len(asked["in"])
        OBVIOUS
    <2>3. k = 0 => moved' = 0 /\ phase' = "dataIn" /\ toHost' = Reply(job)'
        BY <2>1, <1>1, <1>2 DEF ReplyAt
    <2>4. k = 1 => /\ moved' = Len(Reply(job)') /\ phase' = "status"
                   /\ td'[asked'["in"][1]].got = Reply(job)'
        BY <2>1, <2>2, <1>1, <1>2 DEF ReplyAt
    <2> QED
        BY <2>3, <2>4 DEF ReplyAt
<1>7. job.cells > 0 /\ ~job.in /\ job.op = "write" /\ InRange(job) => WriteAt(k)'
    BY <1>1, <1>2 DEF DataAt, WriteAt
<1>8. job.cells > 0 /\ ~job.in /\ ~(job.op = "write" /\ InRange(job)) => IgnoredAt(k)'
    BY <1>1 DEF DataAt, IgnoredAt
<1>9. job.cells = 0 => phase' = "status" /\ moved' = 0
    BY <1>1 DEF DataAt
<1> QED
    BY <1>1, <1>2, <1>3, <1>4, <1>5, <1>6, <1>7, <1>8, <1>9 DEF DataAt

LEMMA DrivingSame ==
    ASSUME Apart, Driving, BulkSame, up' = "up" => up = "up" \/ phase = "command"
    PROVE  Driving'
<1>1. /\ UNCHANGED <<cli, job, myTag, buf, phase, tag, expected, moved, status, store>>
      /\ \A f \in {"in", "out"} :
             /\ asked'[f] = asked[f]
             /\ \A i \in 1 .. Len(asked[f]) : td'[asked[f][i]] = td[asked[f][i]]
    BY DEF BulkSame, diskVars, transport
<1>2. \A f \in {"in", "out"} : Len(asked[f]) \in Nat
    BY AskedAre DEF Eds
<1>3. \A f \in {"in", "out"} : \A j : At(f, j)' <=> At(f, j)
    BY <1>1 DEF At
<1>4. \A f \in {"in", "out"} : \A ts : Are(f, ts) => Are(f, ts)'
    <2> SUFFICES ASSUME NEW f \in {"in", "out"}, NEW ts, Are(f, ts) PROVE Are(f, ts)'
        OBVIOUS
    <2>1. Len(asked[f]) = Len(ts) /\ \A i \in 1 .. Len(ts) : td'[asked'[f][i]] = td[asked[f][i]]
        BY <1>1 DEF Are
    <2> QED
        BY <2>1, <1>1 DEF Are
<1>5. CASE cli = "idle"
    BY <1>1, <1>5 DEF Driving
<1>6. CASE cli = "cbw"
    <2>1. Sending
        BY <1>6 DEF Driving
    <2>2. Are("out", WrapperTransfers)'
        <3>1. PICK ts : ts = WrapperTransfers
            OBVIOUS
        <3>2. WrapperTransfers' = ts
            BY <3>1, <1>1 DEF WrapperTransfers
        <3>3. Are("out", ts)'
            BY <3>1, <2>1, <1>4 DEF Sending
        <3> QED
            BY <3>2, <3>3 DEF Are
    <2>3. At("out", 1)' => DataAt(0)'
        BY <2>1, <1>1, <1>3, DataSame DEF Sending, BulkSame
    <2>4. At("out", 0)' => phase' = "command"
        BY <2>1, <1>1, <1>3 DEF Sending
    <2>5. Sending'
        BY <2>1, <2>2, <2>3, <2>4, <1>1 DEF Sending
    <2> QED
        BY <2>5, <1>1, <1>6 DEF Driving
<1>7. CASE cli = "data"
    <2>1. Moving
        BY <1>7 DEF Driving
    <2>2. PICK e, ts : e = DataEnd /\ ts = DataTransfers
        OBVIOUS
    <2>3. DataEnd' = e /\ DataTransfers' = ts /\ e \in {"in", "out"} /\ (job.in => e = "in")
        BY <2>2, <1>1 DEF DataEnd, DataTransfers
    <2>4. Are(e, ts)'
        BY <2>1, <2>2, <2>3, <1>4 DEF Moving
    <2>5. Are(DataEnd, DataTransfers)'
        BY <2>3, <2>4 DEF Are
    <2>6. ASSUME NEW j \in Nat, At(e, j)' PROVE DataAt(j)'
        <3>1. At(e, j)
            BY <2>3, <2>6, <1>3
        <3>2. DataAt(j)
            BY <3>1, <2>1, <2>2 DEF Moving
        <3>3. job.in /\ j > 0 => Len(asked["in"]) >= 1
            BY <3>1, <2>3, <1>2 DEF At
        <3> QED
            BY <3>2, <3>3, <1>1, <1>2, DataSame DEF BulkSame
    <2>7. \A j \in Nat : At(DataEnd, j)' => DataAt(j)'
        BY <2>3, <2>6 DEF At
    <2>8. Moving'
        BY <2>1, <2>5, <2>7, <1>1 DEF Moving
    <2> QED
        BY <2>8, <1>1, <1>7 DEF Driving
<1>8. CASE cli = "csw"
    <2>1. Ending
        BY <1>8 DEF Driving
    <2>2. Are("in", StatusTransfers)'
        <3>1. PICK ts : ts = StatusTransfers
            OBVIOUS
        <3>2. StatusTransfers' = ts
            BY <3>1 DEF StatusTransfers
        <3>3. Are("in", ts)'
            BY <3>1, <2>1, <1>4 DEF Ending
        <3> QED
            BY <3>2, <3>3 DEF Are
    <2>3. Kept'
        BY <2>1, <1>1 DEF Ending, Kept, InRange, Start, Length, Contents
    <2>4. (Unable(job)' <=> Unable(job))
        BY <1>1 DEF Unable, InRange, Start, Length
    <2>5. At("in", 0)' =>
              /\ Begun'
              /\ phase' \in {"status", "command"}
              /\ ~Unable(job)' /\ job'.op # "write" => moved' = Len(buf') /\ moved' <= expected'
        BY <2>1, <2>4, <1>1, <1>3 DEF Ending, Begun
    <2>6. ASSUME At("in", 1)'
          PROVE  /\ phase' = "command"
                 /\ \E s \in [tag : {myTag'}, residue : 0 .. job'.cells, status : {"good", "failed"}] :
                        /\ td'[asked'["in"][1]].got = << s >>
                        /\ s.status = IF Unable(job)' THEN "failed" ELSE "good"
                        /\ ~Unable(job)' /\ job'.op # "write" => s.residue = job'.cells - Len(buf')
        <3>1. At("in", 1)
            BY <2>6, <1>3
        <3>2. td'[asked'["in"][1]] = td[asked["in"][1]]
            BY <3>1, <1>1, <1>2 DEF At
        <3> QED
            BY <3>1, <3>2, <2>1, <2>4, <1>1 DEF Ending
    <2>7. Ending'
        BY <2>2, <2>3, <2>5, <2>6 DEF Ending
    <2> QED
        BY <2>7, <1>1, <1>8 DEF Driving
<1>9. CASE cli \notin {"idle", "cbw", "data", "csw"}
    BY <1>1, <1>9 DEF Driving
<1> QED
    BY <1>5, <1>6, <1>7, <1>8, <1>9

(* The drive and its client, when one of the client's transfers runs. *)
LEMMA BulkRuns ==
    ASSUME Life, Waits, Apart, Live, Driving, Writing, NEW e \in {"in", "out"}, NEW k, BulkStep(e, k)
    PROVE  /\ Driving' /\ UNCHANGED ctlVars /\ up = "up"
           /\ \A c \in StoreCells : store'[c] # store[c] =>
                  /\ cli = "data" /\ job.op = "write"
                  /\ c \in Start(job) .. Start(job) + Length(job) - 1
<1>1. UNCHANGED <<asked, cli, job, myTag, buf, up>>
    BY DEF BulkStep
<1>2. asked[e] # << >>
    BY DEF BulkStep, Ran
<1>3. cli # "idle" /\ up = "up" /\ job \in CommandSet
    BY <1>2 DEF Waits, Life
<1>4. CASE cli = "cbw"
    <2>1. e = "out" /\ Sending
        BY <1>2, <1>4 DEF Waits, Driving
    <2>2. Sending' /\ UNCHANGED ctlVars /\ store' = store
        BY <2>1, <1>3, SendingRuns
    <2> QED
        BY <2>2, <1>1, <1>3, <1>4 DEF Driving
<1>5. CASE cli = "data"
    <2>1. e = DataEnd /\ Moving
        BY <1>2, <1>5 DEF Waits, Driving, DataEnd
    <2>2. BulkStep(DataEnd, k)
        BY <2>1
    <2>3. /\ Moving' /\ UNCHANGED ctlVars
          /\ \A c \in StoreCells : store'[c] # store[c] =>
                 job.op = "write" /\ c \in Start(job) .. Start(job) + Length(job) - 1
        BY <2>1, <2>2, <1>3, MovingRuns DEF Writing
    <2> QED
        BY <2>3, <1>1, <1>3, <1>5 DEF Driving
<1>6. CASE cli = "csw"
    <2>1. e = "in" /\ Ending
        BY <1>2, <1>6 DEF Waits, Driving
    <2>2. Ending' /\ UNCHANGED ctlVars /\ store' = store
        BY <2>1, <1>3, EndingRuns
    <2> QED
        BY <2>2, <1>1, <1>3, <1>6 DEF Driving
<1> QED
    BY <1>3, <1>4, <1>5, <1>6 DEF Life

-----------------------------------------------------------------------------
(* The lists nobody waits for. *)

(* What the bulk client has asked for, the drive can be given. *)
LEMMA GivableAre ==
    ASSUME Life, Waits, Apart, Driving, NEW e \in {"in", "out"},
           NEW i \in 1 .. Len(asked[e]), td[asked[e][i]].pid = "out"
    PROVE  Givable(td[asked[e][i]].what)
<1>1. asked[e] # << >> /\ Len(asked[e]) \in Nat
    <2>1. Len(asked[e]) \in Nat /\ e \in Eds
        BY AskedAre DEF Eds
    <2> QED
        BY <2>1
<1>2. cli # "idle" /\ job \in CommandSet
    BY <1>1 DEF Waits, Life
<1>3. CASE cli = "cbw"
    <2>1. PICK ts : ts = WrapperTransfers
        OBVIOUS
    <2>2. Len(ts) = 1 /\ ts[1] = Transfer("out", Wrapper(job, myTag), 0)
        BY <2>1, OneTransfer DEF WrapperTransfers
    <2>3. e = "out" /\ Are("out", ts)
        BY <1>1, <1>3, <2>1 DEF Waits, Driving, Sending
    <2>4. i = 1 /\ td[asked[e][i]].what = Wrapper(job, myTag)
        BY <2>2, <2>3 DEF Are, Transfer
    <2> QED
        BY <2>4, <1>2 DEF Givable, Wrapper
<1>4. CASE cli = "data"
    <2>1. PICK ts : ts = DataTransfers
        OBVIOUS
    <2>2. e = DataEnd /\ Are(e, ts) /\ job.cells > 0
        BY <1>1, <1>4, <2>1 DEF Waits, Driving, Moving, DataEnd
    <2>3. i \in 1 .. Len(ts) /\ td[asked[e][i]].pid = ts[i].pid /\ td[asked[e][i]].what = ts[i].what
        BY <2>2 DEF Are
    <2>4. /\ ~job.in => Len(ts) = job.cells /\ \A j \in 1 .. job.cells :
                            ts[j] = Transfer("out", Packet(<< job.fill >>), 0)
          /\ job.in => \A j \in 1 .. Len(ts) : ts[j].pid = "in"
        <3>1. /\ ~job.in => Len(ts) = job.cells /\ \A j \in 1 .. job.cells :
                                ts[j] = Transfer("out", Packet(<< job.fill >>), 0)
              /\ job.in /\ job.op = "read" => Len(ts) = job.cells /\ \A j \in 1 .. job.cells :
                                                  ts[j] = Transfer("in", Null, 1)
              /\ job.in /\ job.op # "read" => Len(ts) = 1 /\ ts[1] = Transfer("in", Null, job.cells)
            BY <1>2, <2>1, <2>2, DataTransfersAre
        <3>2. Transfer("in", Null, 1).pid = "in" /\ Transfer("in", Null, job.cells).pid = "in"
            BY DEF Transfer
        <3>3. ASSUME job.in, NEW j \in 1 .. Len(ts) PROVE ts[j].pid = "in"
            <4>1. CASE job.op = "read"
                BY <3>1, <3>2, <3>3, <4>1
            <4>2. CASE job.op # "read"
                <5>1. Len(ts) = 1 /\ ts[1] = Transfer("in", Null, job.cells)
                    BY <3>1, <3>3, <4>2
                <5>2. j = 1
                    BY <5>1
                <5> QED
                    BY <5>1, <5>2, <3>2
            <4> QED
                BY <4>1, <4>2
        <3> QED
            BY <3>1, <3>3
    <2>5. td[asked[e][i]].what = Packet(<< job.fill >>)
        BY <2>3, <2>4 DEF Transfer
    <2>6. Len(<< job.fill >>) \in Nat
        OBVIOUS
    <2> QED
        BY <2>5, <2>6 DEF Givable, Packet
<1>5. CASE cli = "csw"
    <2>1. PICK ts : ts = StatusTransfers
        OBVIOUS
    <2>2. Len(ts) = 1 /\ ts[1] = Transfer("in", Null, 1)
        BY <2>1, OneTransfer DEF StatusTransfers
    <2>3. Are("in", ts) /\ e = "in"
        BY <1>1, <1>5, <2>1 DEF Waits, Driving, Ending
    <2> QED
        BY <2>2, <2>3 DEF Are, Transfer
<1> QED
    BY <1>2, <1>3, <1>4, <1>5 DEF Life

(* Where the drive is to write stays a place. *)
LEMMA RunWriting ==
    ASSUME Writing, NEW e, NEW d, Run(e, d), d.pid = "out" /\ e # "ctl" => Givable(d.what)
    PROVE  Writing'
<1>1. ASSUME NEW r, Control(r) PROVE Writing'
    <2>1. writeAt' = writeAt /\ writeLeft' \in {0, writeLeft}
        BY <1>1 DEF Control, diskVars, transport
    <2> QED
        BY <2>1 DEF Writing
<1>2. ASSUME UNCHANGED diskVars PROVE Writing'
    BY <1>2 DEF Writing, diskVars, transport
<1>3. CASE d.pid = "setup" /\ RunSetup(d)
    BY <1>1, <1>2, <1>3 DEF RunSetup
<1>4. ASSUME FinishControl PROVE Writing'
    <2>1. UNCHANGED diskVars \/ Control(setup)
        BY <1>4 DEF FinishControl
    <2> QED
        BY <2>1, <1>1, <1>2
<1>5. CASE RunControlIn(d) \/ RunControlOut(d)
    BY <1>2, <1>4, <1>5 DEF RunControlIn, RunControlOut
<1>6. CASE BulkIn(d.want)
    <2>1. UNCHANGED <<writeAt, writeLeft>>
        BY <1>6 DEF BulkIn, diskVars, transport
    <2> QED
        BY <2>1 DEF Writing
<1>7. CASE d.pid = "out" /\ e # "ctl" /\ BulkOut(d.what)
    <2>1. PICK p : p = d.what
        OBVIOUS
    <2>2. Givable(p) /\ BulkOut(p)
        BY <1>7, <2>1
    <2>3. ASSUME p.cbw = TRUE, Command(p) PROVE Writing'
        <3>1. PICK c : c = p.command
            OBVIOUS
        <3>2. c \in CommandSet /\ Start(c) \in Nat /\ Length(c) \in Nat
            BY <2>2, <2>3, <3>1, JobIs DEF Givable
        <3>3. Scsi(c)
            BY <2>3, <3>1 DEF Command
        <3>4. writeAt' \in {Start(c), writeAt} /\ writeLeft' \in {Length(c), 0}
            BY <3>3 DEF Scsi
        <3> QED
            BY <3>2, <3>4 DEF Writing
    <2>4. ASSUME TakeData(CellsOf(p)) PROVE Writing'
        <3>1. PICK cells, n : cells = CellsOf(p) /\ n = Min({Len(cells), writeLeft})
            OBVIOUS
        <3>2. Len(cells) \in Nat
            BY <2>2, <3>1 DEF Givable, CellsOf
        <3>3. writeAt \in Nat /\ writeLeft \in Nat
            BY DEF Writing
        <3>4. n \in Nat /\ n <= writeLeft
            BY <3>1, <3>2, <3>3, MinOfTwo
        <3>5. writeAt' = writeAt + n /\ writeLeft' = writeLeft - n
            BY <2>4, <3>1 DEF TakeData
        <3> QED
            BY <3>3, <3>4, <3>5 DEF Writing
    <2>5. NotACommand => Writing'
        BY DEF NotACommand, Writing
    <2> QED
        BY <2>2, <2>3, <2>4, <2>5, <1>2 DEF BulkOut, Givable
<1> QED
    BY <1>3, <1>5, <1>6, <1>7 DEF Run

LEMMA LeftSame ==
    ASSUME NEW q, Left(q), UNCHANGED <<ed, td>>
    PROVE  Left(q)'
BY DEF Left

(* A transfer that runs is the first of what is left of its queue. *)
LEMMA LeftRuns ==
    ASSUME Formed, NEW q, Left(q), NEW e \in Eds, Runnable(e), NEW stalled,
           Retire(e, ed[e].head, stalled), asked' = asked
    PROVE  /\ Formed'
           /\ td[ed[e].head].pid = "out" /\ e # "ctl" => Givable(td[ed[e].head].what)
           /\ \E r : Left(r)'
<1>1. PICK s, t, n, w : s = q[e] /\ t = ed[e].head /\ n = Len(s) /\ w = Tail(s)
    OBVIOUS
<1>2. /\ s \in Seq(Tds) /\ s # << >> /\ t = s[1] /\ ed[e].tail = s[n]
      /\ \A i \in 1 .. n - 1 : /\ td[s[i]].next = s[i + 1]
                               /\ td[s[i]].pid = "out" /\ e # "ctl" => Givable(td[s[i]].what)
    BY <1>1 DEF Left
<1>3. n \in Nat /\ n >= 2 /\ t \in Tds
    <2>1. n \in Nat /\ n >= 1 /\ 1 \in 1 .. Len(s)
        BY <1>1, <1>2
    <2>2. n # 1
        BY <1>1, <1>2 DEF Runnable
    <2>3. t \in Tds
        <3>1. \A i \in 1 .. Len(s) : s[i] \in Tds
            BY <1>2
        <3> QED
            BY <2>1, <3>1, <1>2
    <2> QED
        BY <2>1, <2>2, <2>3
<1>4. /\ w \in Seq(Tds) /\ Len(w) = n - 1 /\ w # << >>
      /\ \A i \in 1 .. n - 1 : w[i] = s[i + 1]
    <2>1. w \in Seq(Tds) /\ Len(w) = n - 1 /\ \A i \in 1 .. n - 1 : w[i] = s[i + 1]
        BY <1>1, <1>2
    <2>2. Len(<< >>) = 0
        OBVIOUS
    <2> QED
        BY <2>1, <2>2, <1>3
<1>5. /\ td[t].next = s[2]
      /\ td[t].pid = "out" /\ e # "ctl" => Givable(td[t].what)
    <2>1. 1 \in 1 .. n - 1 /\ 1 + 1 = 2
        BY <1>3
    <2> QED
        BY <2>1, <1>2
<1>6. /\ \A u \in Tds \ {t} : td'[u] = td[u]
      /\ ed'[e].head = td[t].next /\ ed'[e].tail = ed[e].tail
      /\ \A f \in Eds \ {e} : ed'[f] = ed[f]
      /\ td' = [u \in Tds |-> td'[u]] /\ \A u \in Tds : IsTransfer(td'[u])
      /\ ed' = [f \in Eds |-> ed'[f]] /\ \A f \in Eds : IsEndpoint(ed'[f])
    <2>1. Retire(e, t, stalled)
        BY <1>1
    <2> QED
        BY <2>1, <1>3, RetireDoes
<1>7. Formed'
    <2>1. asked' = [f \in Eds |-> asked'[f]]
        BY DEF Formed
    <2> QED
        BY <2>1, <1>6 DEF Formed
<1>8. \A f, g \in Eds : \A i \in 1 .. Len(q[f]), j \in 1 .. Len(q[g]) :
          q[f][i] = q[g][j] => f = g /\ i = j
    BY DEF Left
<1>9. PICK r : r = [f \in Eds |-> IF f = e THEN w ELSE q[f]]
    OBVIOUS
<1>10. r[e] = w /\ \A f \in Eds \ {e} : r[f] = q[f]
    BY <1>9
<1>11. ASSUME NEW f \in Eds
       PROVE  /\ r[f] \in Seq(Tds) /\ r[f] # << >>
              /\ ed'[f].head = r[f][1] /\ ed'[f].tail = r[f][Len(r[f])]
              /\ \A i \in 1 .. Len(r[f]) - 1 :
                     LET d == td'[r[f][i]]
                     IN  /\ d.next = r[f][i + 1]
                         /\ d.pid = "out" /\ f # "ctl" => Givable(d.what)
    <2>1. CASE f = e
        <3>1. r[f] = w /\ Len(w) = n - 1
            BY <2>1, <1>10, <1>4
        <3>2. ed'[f].head = w[1] /\ ed'[f].tail = w[n - 1]
            <4>1. 1 \in 1 .. n - 1 /\ n - 1 \in 1 .. n - 1
                BY <1>3
            <4>2. w[1] = s[2] /\ w[n - 1] = s[n]
                BY <4>1, <1>3, <1>4
            <4> QED
                BY <4>2, <2>1, <1>2, <1>5, <1>6
        <3>3. ASSUME NEW i \in 1 .. n - 1 - 1
              PROVE  /\ td'[w[i]].next = w[i + 1]
                     /\ td'[w[i]].pid = "out" /\ f # "ctl" => Givable(td'[w[i]].what)
            <4>1. i + 1 \in 1 .. n - 1 /\ i \in 1 .. n - 1 /\ i + 1 \in 1 .. n /\ 1 \in 1 .. n /\ i + 1 # 1
                BY <1>3
            <4>2. s[i + 1] # t
                BY <4>1, <1>1, <1>2, <1>8
            <4>3. td'[s[i + 1]] = td[s[i + 1]]
                BY <4>1, <4>2, <1>1, <1>2, <1>6
            <4> QED
                BY <4>1, <4>3, <2>1, <1>2, <1>4
        <3> QED
            BY <3>1, <3>2, <3>3, <1>4
    <2>2. CASE f # e
        <3>1. r[f] = q[f] /\ ed'[f] = ed[f]
            BY <2>2, <1>6, <1>10
        <3>2. /\ q[f] \in Seq(Tds) /\ q[f] # << >>
              /\ ed[f].head = q[f][1] /\ ed[f].tail = q[f][Len(q[f])]
              /\ \A i \in 1 .. Len(q[f]) - 1 :
                     /\ td[q[f][i]].next = q[f][i + 1]
                     /\ td[q[f][i]].pid = "out" /\ f # "ctl" => Givable(td[q[f][i]].what)
            BY DEF Left
        <3>3. ASSUME NEW i \in 1 .. Len(q[f]) - 1 PROVE td'[q[f][i]] = td[q[f][i]]
            <4>1. i \in 1 .. Len(q[f]) /\ 1 \in 1 .. n
                BY <3>2, <1>3
            <4>2. q[f][i] # t
                BY <4>1, <2>2, <1>1, <1>2, <1>8
            <4> QED
                BY <4>1, <4>2, <3>2, <1>6
        <3> QED
            BY <3>1, <3>2, <3>3
    <2> QED
        BY <2>1, <2>2
<1>12. ASSUME NEW f \in Eds, NEW g \in Eds, NEW i \in 1 .. Len(r[f]), NEW j \in 1 .. Len(r[g]),
              r[f][i] = r[g][j]
       PROVE  f = g /\ i = j
    <2>1. \A h \in Eds \ {e} : Len(r[h]) = Len(q[h]) /\ r[h] = q[h]
        BY <1>10
    <2>2. Len(r[e]) = n - 1 /\ \A a \in 1 .. n - 1 : r[e][a] = q[e][a + 1] /\ a + 1 \in 1 .. Len(q[e])
        BY <1>1, <1>3, <1>4, <1>10
    <2>3. CASE f = e /\ g = e
        <3>1. i \in 1 .. n - 1 /\ j \in 1 .. n - 1 /\ r[e][i] = r[e][j]
            BY <1>12, <2>2, <2>3
        <3>2. q[e][i + 1] = q[e][j + 1] /\ i + 1 \in 1 .. Len(q[e]) /\ j + 1 \in 1 .. Len(q[e])
            BY <2>2, <3>1
        <3>3. i + 1 = j + 1
            BY <1>8, <3>2, Zenon
        <3>4. i = j
            BY <3>1, <3>3
        <3> QED
            BY <2>3, <3>4
    <2>4. CASE f = e /\ g # e
        BY <2>1, <2>2, <2>4, <1>8, <1>12
    <2>5. CASE f # e /\ g = e
        BY <2>1, <2>2, <2>5, <1>8, <1>12
    <2>6. CASE f # e /\ g # e
        BY <2>1, <2>6, <1>8, <1>12
    <2> QED
        BY <2>3, <2>4, <2>5, <2>6
<1>13. Left(r)'
    BY <1>11, <1>12 DEF Left
<1> QED
    BY <1>1, <1>5, <1>7, <1>13

-----------------------------------------------------------------------------
(* A service. *)

(* In a service, the drive changes only where the command in hand writes. *)
WrittenByCommand ==
    \A c \in StoreCells : store'[c] # store[c] =>
        /\ cli = "data" /\ job.op = "write"
        /\ c \in Start(job) .. Start(job) + Length(job) - 1

(* What a service does to the guest's own state. *)
ServedVars == <<asked, told, ctl, up, cli, job, myTag, buf>>

(* A transfer runs for drivers that wait for it. *)
LEMMA LiveRuns ==
    ASSUME Ground, Live, Answering, SendsReset, Ground', UNCHANGED ServedVars,
           NEW e \in Eds, Runnable(e), Run(e, td[ed[e].head]),
           Retire(e, ed[e].head, Stalls(e, td[ed[e].head])), hccaDone' = hccaDone
    PROVE  Answering' /\ (up = "up" => WrittenByCommand)
<1>1. UNCHANGED <<asked, told, ctl, up, cli, job, myTag, buf>> /\ Live'
    BY DEF ServedVars, Live
<1>2. Life /\ Waits /\ Lists /\ Apart /\ Requesting /\ Driving /\ Writing /\ Apart'
    BY <1>1 DEF Ground, Lists, Answering, Drive
<1>3. PICK s : s = Stalls(e, td[ed[e].head])
    OBVIOUS
<1>4. ed'[e].halted = s /\ \E k : Ran(e, k)
    BY <1>1, <1>2, <1>3, RetireKeeps
<1>5. PICK k : Ran(e, k)
    BY <1>4
<1>6. /\ k \in 0 .. Len(asked[e]) - 1 /\ Len(asked[e]) \in Nat /\ k + 1 \in 1 .. Len(asked[e])
      /\ asked[e][k + 1] = ed[e].head
    BY <1>2, <1>5, AskedAre DEF Ran
<1>7. asked[e] # << >>
    <2>1. Len(<< >>) = 0
        OBVIOUS
    <2> QED
        BY <2>1, <1>6
<1>8. \A f \in Eds \ {e} : \A i \in 1 .. Len(asked[f]) : td'[asked[f][i]] = td[asked[f][i]]
    BY <1>2, <1>5, AskedAre DEF Ran
<1>9. CASE e = "ctl"
    <2>1. PICK r : r = ctl
        OBVIOUS
    <2>2. /\ r \in RequestSet \cup {ResetRequest}
          /\ up = "resetting" => r = ResetRequest
          /\ up = "up" => r # ResetRequest
        <3>1. r # NoRequest
            BY <1>2, <1>7, <1>9, <2>1 DEF Waits
        <3>2. ResetRequest \notin RequestSet
            BY RequestsAssumption DEF ResetRequest
        <3> QED
            BY <1>2, <2>1, <3>1, <3>2 DEF Life, Live
    <2>3. /\ Run("ctl", td[asked["ctl"][k + 1]])
          /\ ed'["ctl"].halted = Stalls("ctl", td[asked["ctl"][k + 1]])
        BY <1>3, <1>4, <1>6, <1>9
    <2>4. Requesting' /\ (r # ResetRequest \/ k > 0 => UNCHANGED diskVars)
        BY <1>1, <1>2, <1>5, <1>9, <2>1, <2>2, <2>3, ControlRuns
    <2>5. Writing'
        BY <1>2, <1>9, <2>3, RunWriting
    <2>6. CASE up = "up"
        <3>1. UNCHANGED diskVars
            BY <2>2, <2>4, <2>6
        <3>2. BulkSame
            BY <1>1, <1>8, <1>9, <3>1 DEF BulkSame, Eds
        <3>3. Driving'
            BY <1>2, <2>6, <3>2, DrivingSame
        <3>4. WrittenByCommand
            BY <3>1 DEF WrittenByCommand, diskVars
        <3> QED
            BY <1>1, <2>4, <2>5, <3>3, <3>4 DEF Answering, Drive
    <2>7. CASE up = "resetting"
        <3>1. Driving'
            BY <1>1, <1>2, <2>7 DEF Driving, Life
        <3> QED
            BY <1>1, <2>4, <2>5, <2>7, <3>1 DEF Answering, Drive
    <2> QED
        BY <2>6, <2>7 DEF Live
<1>10. CASE e # "ctl"
    <2>1. e \in {"in", "out"}
        BY <1>10 DEF Eds
    <2>2. Run(e, td[asked[e][k + 1]])
        BY <1>6
    <2>3. BulkStep(e, k)
        BY <1>1, <1>5, <2>2 DEF BulkStep
    <2>4. /\ Driving' /\ UNCHANGED ctlVars /\ up = "up"
          /\ \A c \in StoreCells : store'[c] # store[c] =>
                 /\ cli = "data" /\ job.op = "write"
                 /\ c \in Start(job) .. Start(job) + Length(job) - 1
        BY <1>2, <2>1, <2>3, BulkRuns
    <2>5. WrittenByCommand
        BY <2>4 DEF WrittenByCommand
    <2>6. Requesting'
        <3>1. "ctl" \in Eds \ {e}
            BY <1>10 DEF Eds
        <3>2. ed'["ctl"] = ed["ctl"] /\ asked'["ctl"] = asked["ctl"]
            BY <1>1, <1>5, <3>1 DEF Ran
        <3>3. \A i \in 1 .. Len(asked["ctl"]) : td'[asked["ctl"][i]] = td[asked["ctl"][i]]
            BY <1>8, <3>1
        <3>4. up' = "up" /\ ctl' = ctl /\ ctlVars' = ctlVars
            BY <1>1, <2>4
        <3> QED
            BY <1>2, <3>2, <3>3, <3>4, RequestingSame
    <2>7. Writing'
        <3>1. td[asked[e][k + 1]].pid = "out" => Givable(td[asked[e][k + 1]].what)
            BY <1>2, <1>6, <2>1, GivableAre
        <3> QED
            BY <1>2, <2>2, <3>1, RunWriting
    <2> QED
        BY <1>1, <2>4, <2>5, <2>6, <2>7 DEF Answering, Drive
<1> QED
    BY <1>9, <1>10

(* Nothing the invariant is about changes but the drivers' own state. *)
AnswerVars == <<ed, td, asked, ctl, up, ctlVars, cli, job, myTag, buf, diskVars>>

LEMMA AnsweringSame ==
    ASSUME Ground, Answering, Ground', UNCHANGED AnswerVars
    PROVE  Answering'
<1>1. UNCHANGED <<ed, td, asked, ctl, up, ctlVars, cli, job, myTag, buf, diskVars>>
    BY DEF AnswerVars
<1>2. Writing'
    BY <1>1 DEF Answering, Drive, Writing, diskVars, transport
<1>3. CASE Live
    <2>1. Live' /\ Apart /\ Apart' /\ Requesting /\ Driving
        BY <1>1, <1>3 DEF Ground, Lists, Answering, Drive, Live
    <2>2. phase' = phase
        BY <1>1 DEF diskVars, transport
    <2>3. Requesting'
        BY <1>1, <2>1, <2>2, RequestingSame
    <2>4. Driving'
        <3>1. BulkSame
            BY <1>1 DEF BulkSame
        <3> QED
            BY <1>1, <2>1, <3>1, DrivingSame
    <2> QED
        BY <1>2, <2>1, <2>3, <2>4 DEF Answering, Drive
<1>4. CASE ~Live
    <2>1. ~Live' /\ Formed /\ buf = << >>
        BY <1>1, <1>4 DEF Live, Answering, Drive
    <2>2. PICK q : Left(q)
        BY <1>4 DEF Answering, Drive
    <2>3. Left(q)' /\ Formed'
        BY <1>1, <2>1, <2>2, LeftSame DEF Formed
    <2> QED
        BY <1>1, <1>2, <2>1, <2>3 DEF Answering, Drive
<1> QED
    BY <1>3, <1>4

LEMMA ServeAnswering ==
    ASSUME Ground, Answering, SendsReset, Serve
    PROVE  Answering' /\ (up = "up" => WrittenByCommand)
<1>1. Ground' /\ UNCHANGED <<asked, told, ctl, up, cli, job, myTag, buf>>
    BY ServeGround DEF Serve, guestVars, client, waits
<1>2. CASE StartService \/ NextEd \/ HandOver
    <2>1. UNCHANGED <<ed, td, ctlVars, diskVars>>
        BY <1>2 DEF StartService, NextEd, HandOver, memory
    <2>2. UNCHANGED AnswerVars
        BY <1>1, <2>1 DEF AnswerVars
    <2>3. WrittenByCommand
        BY <2>1 DEF WrittenByCommand, diskVars
    <2> QED
        BY <1>1, <2>2, <2>3, AnsweringSame
<1>3. CASE RunTd
    <2>1. PICK e : e = Head(walk)
        OBVIOUS
    <2>2. /\ Serving /\ Runnable(e) /\ Run(e, td[ed[e].head])
          /\ Retire(e, ed[e].head, Stalls(e, td[ed[e].head]))
          /\ hccaDone' = hccaDone
        BY <1>3, <2>1 DEF RunTd
    <2>3. e \in Eds
        BY <2>1, <2>2 DEF Ground, Life, Serving, Eds
    <2>4. CASE Live
        BY <1>1, <2>2, <2>3, <2>4, LiveRuns DEF ServedVars
    <2>5. CASE ~Live
        <3>1. /\ ~Live' /\ Formed /\ buf' = << >> /\ Writing /\ up # "up"
            BY <1>1, <2>5 DEF Live, Answering, Drive
        <3>2. PICK q : Left(q)
            BY <2>5 DEF Answering, Drive
        <3>3. PICK s : s = Stalls(e, td[ed[e].head])
            OBVIOUS
        <3>4. /\ Formed' /\ \E r : Left(r)'
              /\ td[ed[e].head].pid = "out" /\ e # "ctl" => Givable(td[ed[e].head].what)
            BY <1>1, <2>2, <2>3, <3>1, <3>2, <3>3, LeftRuns
        <3>5. Writing'
            BY <2>2, <3>1, <3>4, RunWriting
        <3> QED
            BY <3>1, <3>4, <3>5 DEF Answering, Drive
    <2> QED
        BY <2>4, <2>5
<1> QED
    BY <1>2, <1>3 DEF Serve, Service

-----------------------------------------------------------------------------
(* The drivers. *)

(* What the bulk client asks is nothing to the control client. *)
LEMMA AskedRequesting ==
    ASSUME Requesting, NEW e \in {"in", "out"}, NEW ts, Asks(e, ts),
           asked'["ctl"] = asked["ctl"], ed'["ctl"] = ed["ctl"], UNCHANGED <<up, ctl>>
    PROVE  Requesting'
<1>1. Others(e) = {"ctl"} /\ Apart /\ Apart' /\ UNCHANGED <<ctlVars, diskVars>>
    BY OthersAre DEF Asks, Lists
<1>2. \A i \in 1 .. Len(asked["ctl"]) : td'[asked["ctl"][i]] = td[asked["ctl"][i]]
    BY <1>1 DEF Asks, Placed
<1>3. phase' = phase
    BY <1>1 DEF diskVars, transport
<1> QED
    BY <1>1, <1>2, <1>3, RequestingSame

LEMMA WritingSame ==
    ASSUME Writing, UNCHANGED diskVars
    PROVE  Writing'
BY DEF Writing, diskVars, transport

LEMMA SendCommandAnswering ==
    ASSUME Ground, Answering, NEW c \in CommandSet, SendCommand(c)
    PROVE  Answering' /\ UNCHANGED store
<1>1. /\ up = "up" /\ cli = "idle" /\ cli' = "cbw" /\ job' = c
      /\ UNCHANGED <<up, buf, ctl>>
    BY DEF SendCommand
<1>2. PICK ts : ts = << Transfer("out", Wrapper(c, myTag'), 0) >>
    OBVIOUS
<1>3. Asks("out", ts) /\ asked'["ctl"] = asked["ctl"] /\ ed'["ctl"] = ed["ctl"]
    BY <1>2, SendCommandGround
<1>4. Live /\ Live' /\ Requesting /\ Writing /\ buf = << >> /\ phase = "command"
    BY <1>1 DEF Live, Answering, Drive, Driving
<1>5. Requesting'
    BY <1>1, <1>3, <1>4, AskedRequesting
<1>6. UNCHANGED diskVars /\ phase' = phase /\ store' = store
    BY <1>3 DEF Asks, diskVars, transport
<1>7. WrapperTransfers' = ts
    BY <1>1, <1>2 DEF WrapperTransfers
<1>8. Are("out", ts)' /\ \A j : At("out", j)' => j = 0
    BY <1>3, AskedIsNext DEF Eds
<1>9. Sending'
    <2>1. Are("out", WrapperTransfers)'
        BY <1>7, <1>8 DEF Are
    <2>2. ~At("out", 1)'
        BY <1>8
    <2> QED
        BY <2>1, <2>2, <1>1, <1>4, <1>6 DEF Sending
<1>10. Driving'
    BY <1>1, <1>9 DEF Driving
<1>11. Writing'
    BY <1>4, <1>6, WritingSame
<1> QED
    BY <1>4, <1>5, <1>6, <1>10, <1>11 DEF Answering, Drive

(* With no data to move, the client goes on to the status. *)
LEMMA NothingKept ==
    ASSUME job \in CommandSet, job.cells = 0, buf = << >>
    PROVE  Kept
<1>1. /\ Start(job) \in Nat /\ (job.op \in {"read", "write"} => Length(job) = 0)
    BY JobIs
<1>2. ASSUME job.op = "read" PROVE buf = Contents(Start(job), Length(job))
    <2>1. PICK s, st : s = Start(job) /\ st = store
        OBVIOUS
    <2>2. Contents(Start(job), Length(job)) = [i \in 1 .. 0 |-> st[s + i - 1]]
        BY <1>1, <1>2, <2>1 DEF Contents
    <2>3. PICK f : f = [i \in 1 .. 0 |-> st[s + i - 1]]
        OBVIOUS
    <2>4. f \in Seq({}) /\ Len(f) = 0
        <3>1. f \in [1 .. 0 -> {}]
            BY <2>3
        <3> QED
            BY <3>1
    <2>5. f = << >>
        BY <2>4
    <2> QED
        BY <2>2, <2>3, <2>5
<1>3. job.op = "write" => \A c \in Start(job) .. Start(job) + Length(job) - 1 : FALSE
    BY <1>1
<1> QED
    BY <1>2, <1>3 DEF Kept

(* The client has asked for the status, and the drive has it for it. *)
LEMMA EndingBegins ==
    ASSUME Asks("in", StatusTransfers), cli' = "csw", UNCHANGED <<job, myTag>>,
           Begun, phase \in {"status", "command"}, Kept',
           ~Unable(job) /\ job.op # "write" => moved = Len(buf') /\ moved <= expected
    PROVE  Ending'
<1>1. UNCHANGED diskVars
    BY DEF Asks
<1>2. UNCHANGED <<tag, expected, moved, status, phase, job, myTag>>
    BY <1>1 DEF diskVars, transport
<1>3. Unable(job)' <=> Unable(job)
    BY <1>2 DEF Unable, InRange, Start, Length
<1>4. PICK ts : ts = StatusTransfers
    OBVIOUS
<1>5. Are("in", ts)' /\ \A j : At("in", j)' => j = 0
    BY <1>4, AskedIsNext DEF Eds
<1>6. Are("in", StatusTransfers)'
    BY <1>4, <1>5 DEF Are, StatusTransfers
<1>7. ~At("in", 1)'
    BY <1>5
<1>8. Begun'
    BY <1>2, <1>3 DEF Begun
<1>9. phase' \in {"status", "command"}
    BY <1>2
<1>10. ~Unable(job)' /\ job'.op # "write" => moved' = Len(buf') /\ moved' <= expected'
    BY <1>2, <1>3
<1> QED
    BY <1>6, <1>7, <1>8, <1>9, <1>10 DEF Ending

LEMMA AfterCommandAnswering ==
    ASSUME Ground, Answering, AfterCommand
    PROVE  Answering' /\ UNCHANGED store
<1>1. /\ Live /\ Live' /\ cli = "cbw" /\ UNCHANGED <<up, job, myTag, buf, ctl>>
      /\ asked'["ctl"] = asked["ctl"] /\ ed'["ctl"] = ed["ctl"]
      /\ At("out", Len(asked["out"]))
      /\ \/ job.cells > 0 /\ cli' = "data" /\ Asks(DataEnd, DataTransfers)
         \/ job.cells = 0 /\ cli' = "csw" /\ Asks("in", StatusTransfers)
    BY AfterCommandGround DEF Live
<1>2. Requesting /\ Writing /\ Sending /\ buf = << >> /\ job \in CommandSet
    BY <1>1 DEF Answering, Drive, Driving, Sending, Ground, Life
<1>3. DataAt(0)
    <2>1. PICK ts : ts = WrapperTransfers
        OBVIOUS
    <2>2. Len(ts) = 1
        BY <2>1, OneTransfer DEF WrapperTransfers
    <2>3. Are("out", ts)
        BY <2>1, <1>2 DEF Sending
    <2>4. Len(asked["out"]) = 1
        BY <2>2, <2>3 DEF Are
    <2> QED
        BY <2>4, <1>1, <1>2 DEF Sending
<1>4. CASE job.cells > 0 /\ cli' = "data" /\ Asks(DataEnd, DataTransfers)
    <2>1. PICK e, ts : e = DataEnd /\ ts = DataTransfers
        OBVIOUS
    <2>2. e \in {"in", "out"} /\ e \in Eds /\ Asks(e, ts) /\ DataEnd' = e /\ DataTransfers' = ts
        BY <1>1, <1>4, <2>1 DEF DataEnd, DataTransfers, Eds
    <2>3. Requesting' /\ UNCHANGED diskVars /\ store' = store
        BY <1>1, <1>2, <2>2, AskedRequesting DEF Asks, diskVars
    <2>4. Are(e, ts)' /\ \A j : At(e, j)' => j = 0
        BY <2>2, AskedIsNext
    <2>5. DataAt(0)'
        BY <1>1, <1>3, <2>3, DataSame
    <2>6. Are(DataEnd, DataTransfers)'
        BY <2>2, <2>4 DEF Are
    <2>7. \A k \in Nat : At(DataEnd, k)' => DataAt(k)'
        <3>1. ASSUME NEW k \in Nat, At(DataEnd, k)' PROVE DataAt(k)'
            <4>1. At(e, k)'
                BY <2>2, <3>1 DEF At
            <4>2. k = 0
                BY <4>1, <2>4
            <4> QED
                BY <4>2, <2>5
        <3> QED
            BY <3>1
    <2>8. Moving'
        BY <1>1, <1>2, <1>4, <2>6, <2>7 DEF Moving
    <2>9. Driving' /\ Writing'
        BY <1>2, <1>4, <2>3, <2>8, WritingSame DEF Driving
    <2> QED
        BY <1>1, <2>3, <2>9 DEF Answering, Drive
<1>5. CASE job.cells = 0 /\ cli' = "csw" /\ Asks("in", StatusTransfers)
    <2>1. PICK ts : ts = StatusTransfers
        OBVIOUS
    <2>2. Asks("in", ts) /\ UNCHANGED diskVars /\ store' = store
        BY <1>5, <2>1 DEF Asks, diskVars
    <2>3. Requesting'
        BY <1>1, <1>2, <2>2, AskedRequesting
    <2>4. Begun /\ phase = "status" /\ moved = 0 /\ expected = 0
        BY <1>3, <1>5 DEF DataAt, Begun
    <2>5. Kept'
        <3>1. job' \in CommandSet /\ job'.cells = 0 /\ buf' = << >>
            BY <1>1, <1>2, <1>5
        <3>2. Kept
            BY <1>2, <1>5, NothingKept
        <3>3. UNCHANGED <<job, buf, store>>
            BY <1>1, <2>2
        <3> QED
            BY <3>2, <3>3 DEF Kept, InRange, Start, Length, Contents
    <2>6. Len(buf') = 0
        BY <1>1, <1>2
    <2>7. Ending'
        BY <1>1, <1>5, <2>4, <2>5, <2>6, EndingBegins
    <2>8. Driving' /\ Writing'
        BY <1>2, <1>5, <2>2, <2>7, WritingSame DEF Driving
    <2> QED
        BY <1>1, <2>2, <2>3, <2>8 DEF Answering, Drive
<1> QED
    BY <1>1, <1>4, <1>5

-----------------------------------------------------------------------------
(* What a client gathers. *)

LEMMA GatheredUp ==
    ASSUME NEW e, NEW S, Len(asked[e]) \in Nat,
           \A i \in 1 .. Len(asked[e]) : td[asked[e][i]].got \in Seq(S)
    PROVE  \E f : /\ f[0] = << >>
                  /\ \A n \in 1 .. Len(asked[e]) : f[n] = f[n - 1] \o td[asked[e][n]].got
                  /\ Gathered(e) = f[Len(asked[e])]
<1> DEFINE m == Len(asked[e])
           got(n) == td[asked[e][n]].got
           D == Seq(S)
           step == [x \in D \X (1 .. m) |-> x[1] \o got(x[2])]
           f == CHOOSE g : g = [n \in 0 .. m |-> IF n = 0 THEN << >> ELSE g[n - 1] \o got(n)]
<1>1. m \in Nat /\ \A n \in 1 .. m : got(n) \in D
    OBVIOUS
<1> HIDE DEF got, m
<1>2. \A x \in D : \A n \in 1 .. m : x \o got(n) \in D
    <2> SUFFICES ASSUME NEW x \in D, NEW n \in 1 .. m PROVE x \o got(n) \in D
        OBVIOUS
    <2>1. PICK g : g = got(n)
        OBVIOUS
    <2>2. g \in Seq(S)
        BY <1>1, <2>1
    <2>3. x \o g \in Seq(S)
        BY <2>2
    <2> QED
        BY <2>1, <2>3
<1>3. << >> \in D
    BY EmptySeq
<1> HIDE DEF D
<1>4. StaysIn(D, m, step)
    BY <1>2 DEF StaysIn
<1>5. PICK g \in [0 .. m -> D] : Recurs(g, m, << >>, step)
    <2>1. PICK c, init, s, d : c = m /\ init = << >> /\ s = step /\ d = D
        OBVIOUS
    <2> HIDE DEF step
    <2>2. c \in Nat /\ init \in d /\ StaysIn(d, c, s)
        BY <2>1, <1>1, <1>3, <1>4
    <2>3. \E h \in [0 .. c -> d] : Recurs(h, c, init, s)
        BY <2>2, RecursionExists
    <2> QED
        BY <2>1, <2>3
<1>6. ASSUME NEW n \in 1 .. m
      PROVE  step[<< g[n - 1], n >>] = g[n - 1] \o got(n)
    <2>1. n - 1 \in 0 .. m /\ g[n - 1] \in D
        BY <1>1, <1>5
    <2> QED
        BY <2>1
<1>7. \A n \in 0 .. m : g[n] = IF n = 0 THEN << >> ELSE g[n - 1] \o got(n)
    <2> SUFFICES ASSUME NEW n \in 0 .. m
                 PROVE  g[n] = IF n = 0 THEN << >> ELSE g[n - 1] \o got(n)
        OBVIOUS
    <2>1. g[n] = IF n = 0 THEN << >> ELSE step[<< g[n - 1], n >>]
        BY <1>5 DEF Recurs
    <2>2. n # 0 => n \in 1 .. m
        BY <1>1
    <2> HIDE DEF step
    <2> QED
        BY <2>1, <2>2, <1>6
<1>8. g = [n \in 0 .. m |-> IF n = 0 THEN << >> ELSE g[n - 1] \o got(n)]
    BY <1>5, <1>7
<1>9. f = [n \in 0 .. m |-> IF n = 0 THEN << >> ELSE f[n - 1] \o got(n)]
    BY <1>8
<1> HIDE DEF f
<1>10. f[0] = << >> /\ \A n \in 1 .. m : f[n] = f[n - 1] \o got(n)
    <2>1. 0 \in 0 .. m /\ \A n \in 1 .. m : n \in 0 .. m /\ n # 0
        BY <1>1
    <2> QED
        BY <2>1, <1>9
<1>11. Gathered(e) = f[m]
    BY DEF Gathered, f, m, got
<1> QED
    BY <1>10, <1>11 DEF m, got

(* A sequence that comes a cell at a time. *)
LEMMA GatheredCells ==
    ASSUME NEW e, NEW S, NEW s \in Seq(S), Len(asked[e]) = Len(s),
           \A i \in 1 .. Len(s) : td[asked[e][i]].got = << s[i] >>
    PROVE  Gathered(e) = s
<1>1. PICK m : m = Len(s)
    OBVIOUS
<1>2. m \in Nat /\ m = Len(asked[e]) /\ \A i \in 1 .. m : s[i] \in S
    BY <1>1
<1>3. \A i \in 1 .. m : td[asked[e][i]].got \in Seq(S)
    <2>1. \A x \in S : << x >> \in Seq(S)
        OBVIOUS
    <2> QED
        BY <2>1, <1>1, <1>2
<1>4. PICK f : /\ f[0] = << >>
               /\ \A n \in 1 .. m : f[n] = f[n - 1] \o td[asked[e][n]].got
               /\ Gathered(e) = f[m]
    BY <1>2, <1>3, GatheredUp
<1> DEFINE B == {n \in 0 .. m : f[n] = SubSeq(s, 1, n)}
<1>5. 0 \in B
    <2>1. SubSeq(s, 1, 0) = << >>
        BY WholeOf
    <2>2. 0 \in 0 .. m
        BY <1>2
    <2>3. f[0] = SubSeq(s, 1, 0)
        BY <2>1, <1>4, Zenon
    <2> QED
        BY <2>2, <2>3, Zenon
<1>6. ASSUME NEW n \in 1 .. m, n - 1 \in B PROVE n \in B
    <2>1. f[n] = SubSeq(s, 1, n - 1) \o << s[n] >>
        BY <1>1, <1>2, <1>4, <1>6
    <2>2. PICK a, b, c : a = SubSeq(s, 1, n - 1) /\ b = SubSeq(s, 1, n) /\ c = s[n]
        OBVIOUS
    <2>3. /\ a \in Seq(S) /\ Len(a) = n - 1 /\ \A i \in 1 .. n - 1 : a[i] = s[i]
          /\ b \in Seq(S) /\ Len(b) = n /\ \A i \in 1 .. n : b[i] = s[i]
          /\ c \in S
        BY <2>2, <1>1, <1>2
    <2>4. a \o << c >> = b
        <3>1. << c >> \in Seq(S) /\ Len(<< c >>) = 1 /\ << c >>[1] = c
            BY <2>3
        <3>2. PICK d : d = << c >>
            OBVIOUS
        <3>3. a \o d \in Seq(S) /\ Len(a \o d) = n
            BY <2>3, <3>1, <3>2
        <3>4. \A i \in 1 .. n : (a \o d)[i] = b[i]
            BY <2>2, <2>3, <3>1, <3>2
        <3>5. a \o d = b
            BY <2>3, <3>3, <3>4, SeqEqual
        <3> QED
            BY <3>2, <3>5
    <2> QED
        BY <2>1, <2>2, <2>4
<1> HIDE DEF B
<1>7. m \in B
    <2>1. \A n \in 0 .. m : n \in B
        BY <1>2, <1>5, <1>6, UpTo
    <2> QED
        BY <2>1, <1>2
<1>8. SubSeq(s, 1, m) = s
    BY <1>1, WholeOf
<1> QED
    BY <1>4, <1>7, <1>8 DEF B

(* A sequence that comes all at once, the others of the transfers having   *)
(* nothing.                                                                *)
LEMMA GatheredAtOnce ==
    ASSUME NEW e, NEW S, NEW s \in Seq(S), Len(asked[e]) \in Nat, NEW j \in 1 .. Len(asked[e]),
           \A i \in 1 .. Len(asked[e]) : td[asked[e][i]].got = IF i = j THEN s ELSE << >>
    PROVE  Gathered(e) = s
<1>1. PICK m : m = Len(asked[e])
    OBVIOUS
<1>2. << >> \in Seq(S) /\ s \o << >> = s /\ << >> \o s = s /\ << >> \o << >> = << >>
    <2>1. PICK x : x = << >>
        OBVIOUS
    <2>2. x \in Seq(S) /\ Len(x) = 0
        BY <2>1, EmptySeq
    <2>3. s \o x = s /\ x \o s = s /\ x \o x = x
        BY <2>1, <2>2, ConcatEmptySeq
    <2> QED
        BY <2>1, <2>2, <2>3
<1>3. \A i \in 1 .. m : td[asked[e][i]].got \in Seq(S)
    BY <1>1, <1>2
<1>4. PICK f : /\ f[0] = << >>
               /\ \A n \in 1 .. m : f[n] = f[n - 1] \o td[asked[e][n]].got
               /\ Gathered(e) = f[m]
    BY <1>1, <1>3, GatheredUp
<1> DEFINE B == {n \in 0 .. m : f[n] = IF n >= j THEN s ELSE << >>}
<1>5. 0 \in B
    BY <1>1, <1>4
<1>6. ASSUME NEW n \in 1 .. m, n - 1 \in B PROVE n \in B
    <2>1. /\ f[n] = f[n - 1] \o (IF n = j THEN s ELSE << >>)
          /\ f[n - 1] = IF n - 1 >= j THEN s ELSE << >>
        BY <1>1, <1>4, <1>6
    <2>2. CASE n < j
        <3>1. ~(n - 1 >= j) /\ n # j /\ ~(n >= j) /\ n \in 0 .. m
            BY <2>2, <1>1
        <3>2. f[n - 1] = << >> /\ f[n] = f[n - 1] \o << >>
            BY <2>1, <3>1
        <3>3. f[n] = << >>
            BY <3>2, <1>2
        <3> QED
            BY <3>1, <3>3
    <2>3. CASE n = j
        <3>1. ~(n - 1 >= j) /\ n >= j
            BY <2>3, <1>1
        <3> QED
            BY <2>1, <2>3, <3>1, <1>2
    <2>4. CASE n > j
        <3>1. n - 1 >= j /\ n # j /\ n >= j
            BY <2>4, <1>1
        <3> QED
            BY <2>1, <3>1, <1>2
    <2> QED
        BY <2>2, <2>3, <2>4, <1>1
<1> HIDE DEF B
<1>7. m \in B
    <2>1. \A n \in 0 .. m : n \in B
        BY <1>1, <1>5, <1>6, UpTo
    <2> QED
        BY <2>1, <1>1
<1>8. m >= j
    BY <1>1
<1> QED
    BY <1>4, <1>7, <1>8 DEF B

-----------------------------------------------------------------------------
(* What the client has of a read, once all its transfers are done. *)
LEMMA ReadIsGathered ==
    ASSUME Apart, job \in CommandSet, job.op = "read", InRange(job),
           Len(asked["in"]) = job.cells, ReadAt(job.cells)
    PROVE  /\ Gathered("in") = Contents(Start(job), Length(job))
           /\ Len(Gathered("in")) = job.cells
<1>1. PICK m, from, st : m = job.cells /\ from = Start(job) /\ st = store
    OBVIOUS
<1>2. m \in Nat /\ Length(job) = m /\ Start(job) = from
    BY <1>1, JobIs
<1>3. PICK s : s = [i \in 1 .. m |-> st[from + i - 1]]
    OBVIOUS
<1>4. s = Contents(Start(job), Length(job))
    BY <1>1, <1>2, <1>3 DEF Contents
<1>5. PICK S : S = {st[from + i - 1] : i \in 1 .. m}
    OBVIOUS
<1>6. s \in Seq(S) /\ Len(s) = m /\ \A i \in 1 .. m : s[i] = st[from + i - 1]
    <2>1. s \in [1 .. m -> S]
        BY <1>3, <1>5
    <2> QED
        BY <2>1, <1>2, <1>3
<1>7. \A i \in 1 .. m : td[asked["in"][i]].got = << s[i] >>
    BY <1>1, <1>2, <1>6 DEF ReadAt
<1>8. Gathered("in") = s
    BY <1>1, <1>6, <1>7, GatheredCells
<1> QED
    BY <1>1, <1>4, <1>6, <1>8

(* All the data of a command is moved: what the drive and the client have. *)
LEMMA MovedAll ==
    ASSUME Apart, job \in CommandSet, Moving, At(DataEnd, Len(asked[DataEnd]))
    PROVE  /\ Begun /\ phase \in {"status", "command"}
           /\ InRange(job) =>
                 /\ job.op = "read" => Gathered(DataEnd) = Contents(Start(job), Length(job))
                 /\ job.op = "write" =>
                        \A c \in Start(job) .. Start(job) + Length(job) - 1 : store[c] = job.fill
           /\ ~Unable(job) /\ job.op # "write" =>
                  moved = Len(Gathered(DataEnd)) /\ moved <= expected
<1>1. PICK e, ts, n : e = DataEnd /\ ts = DataTransfers /\ n = Len(asked[e])
    OBVIOUS
<1>2. e \in Eds /\ (job.in => e = "in") /\ (~job.in => e = "out") /\ n \in Nat
    BY <1>1, AskedAre DEF DataEnd, Eds
<1>3. /\ job.cells \in Nat /\ job.cells > 0 /\ job.in \in BOOLEAN /\ job.op \in Commands
      /\ job.op \in {"read", "write"} => job.cells = Length(job)
      /\ job.op = "read" => job.in
      /\ job.op = "write" => ~job.in
      /\ job.op \in {"ready", "sense", "inquiry"} => job.in
    BY JobIs DEF Moving
<1>4. /\ ~job.in => Len(ts) = job.cells
      /\ job.in /\ job.op = "read" => Len(ts) = job.cells
      /\ job.in /\ job.op # "read" => Len(ts) = 1
    BY <1>1, <1>3, DataTransfersAre
<1>5. Len(ts) = n /\ DataAt(n) /\ Begun /\ expected = job.cells /\ n >= 1
    <2>1. Len(ts) = n /\ DataAt(n)
        BY <1>1, <1>2 DEF Moving, Are
    <2> QED
        BY <2>1, <1>3, <1>4 DEF DataAt, Begun
<1>6. CASE job.op = "read" /\ InRange(job)
    <2>1. e = "in" /\ n = job.cells /\ ReadAt(job.cells)
        BY <1>2, <1>3, <1>4, <1>5, <1>6 DEF DataAt
    <2>2. /\ Gathered("in") = Contents(Start(job), Length(job))
          /\ Len(Gathered("in")) = job.cells
        BY <2>1, <1>1, <1>6, ReadIsGathered
    <2>3. moved = job.cells /\ phase = "status"
        BY <2>1, <1>3 DEF ReadAt
    <2>4. /\ Gathered(DataEnd) = Contents(Start(job), Length(job))
          /\ Len(Gathered(DataEnd)) = job.cells
        BY <2>1, <2>2, <1>1
    <2>5. moved = Len(Gathered(DataEnd)) /\ moved <= expected
        BY <2>3, <2>4, <1>3, <1>5
    <2>6. job.op # "write"
        BY <1>6
    <2> QED
        BY <2>3, <2>4, <2>5, <2>6, <1>5
<1>7. CASE job.op = "read" /\ ~InRange(job)
    <2>1. ShortReadAt(n)
        BY <1>3, <1>5, <1>7 DEF DataAt
    <2>2. phase \in {"status", "command"}
        BY <2>1, <1>5 DEF ShortReadAt
    <2> QED
        BY <2>2, <1>5, <1>7 DEF Unable
<1>8. CASE job.in /\ job.op # "read"
    <2>1. n = 1 /\ ReplyAt(1) /\ e = "in" /\ job.op # "write"
        BY <1>2, <1>3, <1>4, <1>5, <1>8 DEF DataAt
    <2>2. PICK s : s = Reply(job)
        OBVIOUS
    <2>3. s \in Seq({Reg}) /\ Len(s) <= 1 /\ Len(s) \in Nat
        BY <2>2, <1>8, ReplyIs
    <2>4. td[asked["in"][1]].got = s /\ moved = Len(s) /\ phase = "status"
        BY <2>1, <2>2 DEF ReplyAt
    <2>5. Gathered("in") = s
        <3>1. Len(asked["in"]) = 1 /\ 1 \in 1 .. 1
            BY <2>1, <1>1
        <3>2. \A i \in 1 .. Len(asked["in"]) : td[asked["in"][i]].got = IF i = 1 THEN s ELSE << >>
            BY <3>1, <2>4
        <3> QED
            BY <3>1, <3>2, <2>3, GatheredAtOnce
    <2> QED
        BY <2>1, <2>3, <2>4, <2>5, <1>1, <1>3, <1>5, <1>8
<1>9. CASE job.op = "write" /\ InRange(job)
    <2>1. n = job.cells /\ WriteAt(n)
        BY <1>3, <1>4, <1>5, <1>9 DEF DataAt
    <2>2. /\ phase = "status"
          /\ \A c \in Start(job) .. Start(job) + n - 1 : store[c] = job.fill
        BY <2>1, <1>3 DEF WriteAt
    <2> QED
        BY <2>1, <2>2, <1>3, <1>5, <1>9
<1>10. CASE ~job.in /\ ~(job.op = "write" /\ InRange(job))
    <2>1. IgnoredAt(n)
        BY <1>3, <1>5, <1>10 DEF DataAt
    <2>2. phase = "status"
        BY <2>1, <1>5 DEF IgnoredAt
    <2>3. job.op = "unknown" \/ (job.op = "write" /\ ~InRange(job))
        BY <1>3, <1>10 DEF Commands
    <2> QED
        BY <2>2, <2>3, <1>5, <1>10 DEF Unable
<1> QED
    BY <1>3, <1>6, <1>7, <1>8, <1>9, <1>10

LEMMA AfterDataAnswering ==
    ASSUME Ground, Answering, AfterData
    PROVE  Answering' /\ UNCHANGED store
<1>1. /\ Ground' /\ Live /\ Live' /\ cli = "data" /\ cli' = "csw"
      /\ asked'["ctl"] = asked["ctl"] /\ ed'["ctl"] = ed["ctl"]
      /\ At(DataEnd, Len(asked[DataEnd]))
      /\ Asks("in", StatusTransfers)
      /\ buf' = Gathered(DataEnd)
      /\ UNCHANGED <<up, job, myTag, ctl>>
    BY AfterDataGround DEF Live
<1>2. Requesting /\ Writing /\ Moving /\ job \in CommandSet /\ Apart
    BY <1>1 DEF Answering, Drive, Driving, Ground, Life, Lists
<1>3. /\ Begun /\ phase \in {"status", "command"}
      /\ InRange(job) =>
            /\ job.op = "read" => buf' = Contents(Start(job), Length(job))
            /\ job.op = "write" =>
                   \A c \in Start(job) .. Start(job) + Length(job) - 1 : store[c] = job.fill
      /\ ~Unable(job) /\ job.op # "write" => moved = Len(buf') /\ moved <= expected
    BY <1>1, <1>2, MovedAll
<1>4. PICK ts : ts = StatusTransfers
    OBVIOUS
<1>5. Asks("in", ts) /\ UNCHANGED diskVars /\ store' = store
    BY <1>1, <1>4 DEF Asks, diskVars
<1>6. Requesting'
    BY <1>1, <1>2, <1>5, AskedRequesting
<1>7. Kept'
    BY <1>1, <1>3, <1>5 DEF Kept, InRange, Start, Length, Contents
<1>8. Ending'
    BY <1>1, <1>3, <1>7, EndingBegins
<1>9. Driving' /\ Writing'
    BY <1>1, <1>2, <1>5, <1>8, WritingSame DEF Driving
<1> QED
    BY <1>1, <1>5, <1>6, <1>9 DEF Answering, Drive

LEMMA AfterStatusAnswering ==
    ASSUME Ground, Answering, AfterStatus
    PROVE  Answering' /\ UNCHANGED store
<1>1. /\ Live /\ Live' /\ Lists /\ Lists' /\ cli = "csw" /\ cli' = "idle" /\ buf' = << >>
      /\ asked'["ctl"] = asked["ctl"]
      /\ At("in", Len(asked["in"]))
      /\ UNCHANGED <<up, ctl, ed, td, ctlVars, diskVars, walk>>
    BY AfterStatusGround DEF Live
<1>2. Requesting /\ Writing /\ Ending /\ Apart /\ Apart'
    BY <1>1 DEF Answering, Drive, Driving, Lists
<1>3. UNCHANGED <<phase, store>>
    BY <1>1 DEF diskVars, transport
<1>4. Requesting'
    BY <1>1, <1>2, <1>3, RequestingSame
<1>5. phase = "command"
    <2>1. PICK ts : ts = StatusTransfers
        OBVIOUS
    <2>2. Len(ts) = 1
        BY <2>1, OneTransfer DEF StatusTransfers
    <2>3. Are("in", ts)
        BY <2>1, <1>2 DEF Ending
    <2>4. Len(asked["in"]) = 1
        BY <2>2, <2>3 DEF Are
    <2> QED
        BY <2>4, <1>1, <1>2 DEF Ending
<1>6. Driving' /\ Writing'
    BY <1>1, <1>2, <1>3, <1>5, WritingSame DEF Driving
<1> QED
    BY <1>1, <1>3, <1>4, <1>6 DEF Answering, Drive

-----------------------------------------------------------------------------
(* The end of a request. *)

(* A request is over: the drive's own reply to it, or its refusal. *)
LEMMA RequestEnds ==
    ASSUME Ground, Live, Requesting, RequestIsOver
    PROVE  /\ Accepts(ctl) => /\ ed["ctl"].halted = FALSE
                              /\ Gathered("ctl") = Answer(ctl)
           /\ ~Accepts(ctl) => ed["ctl"].halted = TRUE
           /\ up = "resetting" => phase = "command"
<1>1. PICK r, ts, n : r = ctl /\ ts = ControlTransfers(r) /\ n = Len(asked["ctl"])
    OBVIOUS
<1>2. /\ r # NoRequest /\ r \in RequestSet \cup {ResetRequest}
      /\ up = "resetting" => r = ResetRequest
      /\ Lists /\ Apart /\ "ctl" \in Eds
    BY <1>1 DEF RequestIsOver, Ground, Life, Live, Lists, Eds
<1>3. /\ r \in Requests /\ (r.in => r.cells > 0) /\ r.cells \in 0 .. 1 /\ r.in \in BOOLEAN
      /\ Len(ts) = IF r.cells = 0 THEN 2 ELSE 3
    <2>1. r \in Requests /\ (r.in => r.cells > 0)
        BY <1>2, AskableAre
    <2>2. r.cells \in 0 .. 1 /\ r.in \in BOOLEAN
        BY <2>1 DEF Requests
    <2>3. Len(ts) = IF r.cells = 0 THEN 2 ELSE 3
        BY <2>1, <1>1, ControlTransfersAre
    <2> QED
        BY <2>1, <2>2, <2>3
<1>4. Are("ctl", ts) /\ \A k \in Nat : At("ctl", k) => RequestAt(r, k)
    BY <1>1, <1>2 DEF Requesting
<1>5. n = Len(ts) /\ n \in {2, 3}
    BY <1>1, <1>3, <1>4 DEF Are
<1>6. PICK k \in 0 .. n : At("ctl", k)
    BY <1>1, <1>2 DEF Lists, Whole
<1>7. k \in Nat /\ RequestAt(r, k)
    BY <1>4, <1>5, <1>6
(* If it is not halted, it is all told, so done. *)
<1>8. ASSUME ed["ctl"].halted = FALSE PROVE k = n
    <2>1. Range(asked["ctl"]) \subseteq told
        BY <1>8 DEF RequestIsOver
    <2>2. At("ctl", n)
        BY <2>1, <1>1, <1>2, AllTold
    <2> QED
        BY <2>2, <1>1, <1>2, <1>5, <1>6, AskedAre, AtIsOnce
<1>9. ASSUME Accepts(r)
      PROVE  ed["ctl"].halted = FALSE /\ k = n /\ Gathered("ctl") = Answer(r)
    <2>1. ed["ctl"].halted = FALSE /\ k = n
        BY <1>7, <1>8, <1>9 DEF RequestAt
    <2>2. PICK a : a = IF r.in THEN Answer(r) ELSE << >>
        OBVIOUS
    <2>3. a \in Seq({Reg}) /\ a = Answer(r)
        <3>1. Answer(r) \in Seq({Reg}) /\ Len(Answer(r)) <= r.cells
            BY <1>3, AnswersAre
        <3>2. CASE r.in
            BY <2>2, <3>1, <3>2
        <3>3. CASE ~r.in
            <4>1. r.cells = 0
                BY <1>2, <1>3, <1>9, <3>3, AskableAre DEF Asked
            <4>2. PICK b : b = Answer(r)
                OBVIOUS
            <4>3. b = << >>
                BY <3>1, <4>1, <4>2
            <4> QED
                BY <2>2, <3>1, <3>3, <4>2, <4>3
        <3> QED
            BY <3>2, <3>3, <1>3
    <2>4. \A i \in 1 .. n : td[asked["ctl"][i]].got = IF i = 2 THEN a ELSE << >>
        BY <2>1, <2>2, <1>7, <1>9 DEF RequestAt
    <2>5. Gathered("ctl") = a
        <3>1. 2 \in 1 .. Len(asked["ctl"]) /\ Len(asked["ctl"]) \in Nat
            BY <1>1, <1>5
        <3> QED
            BY <3>1, <2>3, <2>4, <1>1, GatheredAtOnce
    <2> QED
        BY <2>1, <2>3, <2>5
<1>10. ASSUME ~Accepts(r) PROVE ed["ctl"].halted = TRUE
    <2>1. k <= StallAt(r) /\ (k = StallAt(r) => ed["ctl"].halted = TRUE)
          /\ (k # StallAt(r) => ed["ctl"].halted = FALSE)
        BY <1>7, <1>10 DEF RequestAt
    <2>2. k = n => k = StallAt(r)
        <3>1. StallAt(r) = IF r.in THEN 2 ELSE n
            BY <1>1, <1>5 DEF StallAt
        <3>2. r.in => n = 3
            BY <1>3, <1>5
        <3> QED
            BY <2>1, <3>1, <3>2, <1>3
    <2> QED
        BY <2>1, <2>2, <1>8
<1>11. ASSUME up = "resetting" PROVE phase = "command"
    <2>1. Accepts(r)
        BY <1>2, <1>11 DEF Accepts, ResetRequest
    <2>2. k > 0
        BY <2>1, <1>5, <1>9
    <2> QED
        BY <2>2, <1>7, <1>11 DEF RequestAt
<1> QED
    BY <1>1, <1>9, <1>10, <1>11

LEMMA EndRequestAnswering ==
    ASSUME Ground, Answering, EndRequest
    PROVE  Answering' /\ UNCHANGED store
<1>1. /\ Ground' /\ Live /\ Live' /\ Lists /\ Lists' /\ ctl' = NoRequest
      /\ RequestIsOver
      /\ ed'["ctl"].halted = FALSE
      /\ up' = (IF up = "resetting" THEN "up" ELSE up)
      /\ \A f \in {"in", "out"} : asked'[f] = asked[f]
      /\ UNCHANGED <<td, ctlVars, diskVars, client, walk>>
    BY EndRequestGround DEF Live
<1>2. Requesting /\ Driving /\ Writing /\ Apart /\ UNCHANGED <<cli, job, myTag, buf, store>>
    BY <1>1 DEF Answering, Drive, Lists, client, diskVars
<1>3. Requesting'
    BY <1>1 DEF Requesting
<1>4. up' = "up" => up = "up" \/ phase = "command"
    BY <1>1, <1>2, RequestEnds DEF Live
<1>5. BulkSame
    BY <1>1, <1>2 DEF BulkSame
<1>6. Driving' /\ Writing'
    BY <1>1, <1>2, <1>4, <1>5, DrivingSame, WritingSame
<1> QED
    BY <1>1, <1>2, <1>3, <1>6 DEF Answering, Drive

LEMMA RequestAnswering ==
    ASSUME Ground, Answering, NEW r \in RequestSet \cup {ResetRequest}, Request(r),
           r = ResetRequest => up = "resetting"
    PROVE  Answering' /\ UNCHANGED store
<1>1. /\ Live /\ Live' /\ Asks("ctl", ControlTransfers(r))
      /\ \A f \in {"in", "out"} : asked'[f] = asked[f]
      /\ UNCHANGED <<up, client>>
    BY RequestGround DEF Live
<1>2. PICK ts : ts = ControlTransfers(r)
    OBVIOUS
<1>3. Asks("ctl", ts) /\ UNCHANGED diskVars /\ UNCHANGED <<cli, job, myTag, buf, store, up>>
    BY <1>1, <1>2 DEF Asks, client, diskVars
<1>4. Requesting /\ Driving /\ Writing /\ Apart
    BY <1>1, <1>3 DEF Answering, Drive, Asks, Lists
<1>5. Requesting'
    BY <1>4, RequestRequesting
<1>6. \A f \in {"in", "out"} : \A i \in 1 .. Len(asked[f]) : td'[asked[f][i]] = td[asked[f][i]]
    BY <1>3, OthersAre DEF Asks, Placed
<1>7. BulkSame
    BY <1>1, <1>3, <1>6 DEF BulkSame
<1>8. Driving' /\ Writing'
    BY <1>3, <1>4, <1>7, DrivingSame, WritingSame
<1> QED
    BY <1>1, <1>3, <1>5, <1>8 DEF Answering, Drive

-----------------------------------------------------------------------------
(* Bring-up, and the reset of the machine. *)

(* Queues with nothing in them, at the first start or in bring-up. *)
LEMMA EmptyQueuesAre ==
    ASSUME ed = EmptyQueues, td = [t \in Tds |-> NoTransfer], asked = NothingAsked
    PROVE  /\ Formed
           /\ ed["ctl"].halted = FALSE
           /\ \E q : Left(q)
<1>1. \A t \in Tds : td[t] = NoTransfer
    OBVIOUS
<1>2. \A e \in Eds : /\ ed[e] = EmptyEd(FirstTd[e])
                     /\ ed[e].head = FirstTd[e] /\ ed[e].tail = FirstTd[e]
                     /\ ed[e].halted = FALSE
                     /\ IsEndpoint(ed[e])
    <2>1. \A e \in Eds : ed[e] = EmptyEd(FirstTd[e])
        BY DEF EmptyQueues
    <2> QED
        BY <2>1 DEF EmptyEd, IsEndpoint
<1>3. Formed
    <2>1. IsTransfer(NoTransfer)
        BY DEF IsTransfer, NoTransfer, Transfer
    <2>2. td = [t \in Tds |-> td[t]]
        BY <1>1
    <2>3. ed = [e \in Eds |-> ed[e]]
        BY DEF EmptyQueues
    <2>4. asked = [e \in Eds |-> asked[e]]
        BY DEF NothingAsked
    <2> QED
        BY <2>1, <2>2, <2>3, <2>4, <1>1, <1>2 DEF Formed
<1>4. PICK q : q = [e \in Eds |-> << FirstTd[e] >>]
    OBVIOUS
<1>5. \A e \in Eds : /\ q[e] \in Seq(Tds) /\ q[e] # << >> /\ Len(q[e]) = 1
                     /\ q[e][1] = FirstTd[e]
    <2>1. \A e \in Eds : FirstTd[e] \in Tds
        BY FirstTdsAre, PoolsAre
    <2>2. \A x \in Tds : << x >> \in Seq(Tds) /\ << x >> # << >> /\ Len(<< x >>) = 1 /\ << x >>[1] = x
        OBVIOUS
    <2> QED
        BY <2>1, <2>2, <1>4
<1>6. \A e, f \in Eds : FirstTd[e] = FirstTd[f] => e = f
    BY FirstTdsAre, PoolsAre DEF Eds, Pool
<1>7. Left(q)
    <2>1. \A n : n = 1 => (\A i \in 1 .. n - 1 : FALSE) /\ (\A i \in 1 .. n : i = 1)
        OBVIOUS
    <2>2. \A e \in Eds : /\ \A i \in 1 .. Len(q[e]) - 1 : FALSE
                         /\ \A i \in 1 .. Len(q[e]) : i = 1
        BY <2>1, <1>5
    <2>3. \A e \in Eds : ed[e].head = q[e][1] /\ ed[e].tail = q[e][Len(q[e])]
        BY <1>2, <1>5
    <2>4. \A e, f \in Eds : \A i \in 1 .. Len(q[e]), j \in 1 .. Len(q[f]) :
              q[e][i] = q[f][j] => e = f /\ i = j
        <3>1. ASSUME NEW e \in Eds, NEW f \in Eds, NEW i \in 1 .. Len(q[e]), NEW j \in 1 .. Len(q[f]),
                     q[e][i] = q[f][j]
              PROVE  e = f /\ i = j
            <4>1. i = 1 /\ j = 1
                BY <2>2
            <4>2. FirstTd[e] = FirstTd[f]
                BY <4>1, <3>1, <1>5
            <4> QED
                BY <4>1, <4>2, <1>6
        <3> QED
            BY <3>1
    <2> QED
        BY <2>2, <2>3, <2>4, <1>5 DEF Left
<1>8. ed["ctl"].halted = FALSE
    BY <1>2 DEF Eds
<1> QED
    BY <1>3, <1>7, <1>8

LEMMA InitAnswering == Init => Answering
<1> SUFFICES ASSUME Init PROVE Answering
    OBVIOUS
<1>1. up = "off" /\ ed = EmptyQueues /\ td = [t \in Tds |-> NoTransfer] /\ asked = NothingAsked
      /\ buf = << >> /\ writeAt = 0 /\ writeLeft = 0
    BY DEF Init, DiskInit
<1>2. Formed /\ \E q : Left(q)
    BY <1>1, EmptyQueuesAre
<1> QED
    BY <1>1, <1>2 DEF Answering, Drive, Writing, Live

LEMMA StartAnswering ==
    ASSUME Ground, Answering, SendsReset, StartController
    PROVE  Answering' /\ UNCHANGED store
<1>1. /\ up = "stopped" /\ up' = "resetting"
      /\ ed' = EmptyQueues /\ td' = [t \in Tds |-> NoTransfer]
      /\ UNCHANGED <<cli, buf, ctl, asked, diskVars>>
    BY DEF StartController, client, waits
<1>2. /\ cli = "idle" /\ ctl = NoRequest /\ asked = NothingAsked /\ buf = << >> /\ Writing
    BY <1>1 DEF Ground, Life, Live, Answering, Drive
<1>3. ed'["ctl"].halted = FALSE
    <2>1. ed'["ctl"] = EmptyEd(FirstTd["ctl"])
        BY <1>1 DEF EmptyQueues, Eds
    <2> QED
        BY <2>1 DEF EmptyEd
<1>4. Requesting'
    BY <1>1, <1>2, <1>3 DEF Requesting
<1>5. Driving' /\ Writing' /\ store' = store
    BY <1>1, <1>2, WritingSame DEF Driving, diskVars
<1> QED
    BY <1>1, <1>4, <1>5 DEF Answering, Drive, Live

LEMMA StopAnswering ==
    ASSUME Ground, Answering, StopController
    PROVE  Answering' /\ UNCHANGED store
<1>1. /\ up = "off" /\ up' = "stopped"
      /\ UNCHANGED <<ed, td, asked, buf, diskVars>>
    BY DEF StopController, client, waits, memory
<1>2. ~Live /\ ~Live' /\ Formed /\ buf = << >> /\ Writing
    BY <1>1 DEF Live, Answering, Drive
<1>3. PICK q : Left(q)
    BY <1>2 DEF Answering, Drive
<1>4. Left(q)' /\ Formed'
    BY <1>1, <1>2, <1>3, LeftSame DEF Formed
<1>5. Writing' /\ store' = store
    BY <1>1, <1>2, WritingSame DEF diskVars
<1> QED
    BY <1>1, <1>2, <1>4, <1>5 DEF Answering, Drive

(* What is left when nobody waits any more is what has not run yet. *)
LEMMA ListsLeft ==
    ASSUME Ground, Live, Driving
    PROVE  \E q : Left(q)
<1>1. Life /\ Waits /\ Lists /\ Apart /\ \A e \in Eds : Whole(e)
    BY DEF Ground, Lists
<1> DEFINE IsAt(e, k) == /\ k \in 0 .. Len(asked[e])
                         /\ ed[e].head = Path(e)[k + 1]
                         /\ \A i \in k + 1 .. Len(asked[e]) : td[asked[e][i]].next = Path(e)[i + 1]
<1>2. PICK at : at = [e \in Eds |-> CHOOSE k : IsAt(e, k)]
    OBVIOUS
<1>3. \A e \in Eds : IsAt(e, at[e])
    <2>1. \A e \in Eds : \E k : IsAt(e, k)
        BY <1>1 DEF Whole
    <2> HIDE DEF IsAt
    <2> QED
        BY <1>2, <2>1
<1>4. PICK q : q = [e \in Eds |-> SubSeq(Path(e), at[e] + 1, Len(asked[e]) + 1)]
    OBVIOUS
<1>5. ASSUME NEW e \in Eds
      PROVE  /\ Path(e) \in Seq(Tds) /\ Len(Path(e)) = Len(asked[e]) + 1 /\ Len(asked[e]) \in Nat
             /\ at[e] \in 0 .. Len(asked[e])
             /\ q[e] \in Seq(Tds) /\ Len(q[e]) = Len(asked[e]) + 1 - at[e]
             /\ \A i \in 1 .. Len(asked[e]) + 1 - at[e] : q[e][i] = Path(e)[at[e] + i]
    <2>1. asked[e] \in Seq(Tds) /\ ed[e].tail \in Tds /\ Len(asked[e]) \in Nat
        BY <1>1, AskedAre, PoolsAre DEF Apart
    <2>2. PICK p, n, k : p = Path(e) /\ n = Len(asked[e]) /\ k = at[e]
        OBVIOUS
    <2>3. p \in Seq(Tds) /\ Len(p) = n + 1
        BY <2>1, <2>2 DEF Path
    <2>4. n \in Nat /\ k \in 0 .. n
        BY <2>1, <2>2, <1>3
    <2>5. q[e] = SubSeq(p, k + 1, n + 1)
        BY <2>2, <1>4
    <2>6. PICK s : s = SubSeq(p, k + 1, n + 1)
        OBVIOUS
    <2>7. s \in Seq(Tds) /\ Len(s) = n + 1 - k /\ \A i \in 1 .. n + 1 - k : s[i] = p[k + i]
        <3>1. Len(s) = n + 1 - k /\ \A i \in 1 .. Len(s) : s[i] = p[(k + 1) + i - 1]
            BY <2>3, <2>4, <2>6
        <3>2. s \in Seq(Tds)
            BY <2>3, <2>4, <2>6
        <3> QED
            BY <3>1, <3>2, <2>4
    <2> QED
        BY <2>2, <2>3, <2>4, <2>5, <2>6, <2>7
<1>6. ASSUME NEW e \in Eds
      PROVE  /\ q[e] # << >>
             /\ ed[e].head = q[e][1] /\ ed[e].tail = q[e][Len(q[e])]
             /\ \A i \in 1 .. Len(q[e]) - 1 :
                    LET d == td[q[e][i]]
                    IN  /\ d.next = q[e][i + 1]
                        /\ d.pid = "out" /\ e # "ctl" => Givable(d.what)
    <2>1. PICK p, n, k, s : p = Path(e) /\ n = Len(asked[e]) /\ k = at[e] /\ s = q[e]
        OBVIOUS
    <2>2. /\ n \in Nat /\ k \in 0 .. n /\ s \in Seq(Tds) /\ Len(s) = n + 1 - k
          /\ \A i \in 1 .. n + 1 - k : s[i] = p[k + i]
        BY <2>1, <1>5
    <2>3. /\ ed[e].head = p[k + 1]
          /\ \A i \in k + 1 .. n : td[asked[e][i]].next = p[i + 1]
        BY <2>1, <1>3
    <2>4. p[n + 1] = ed[e].tail /\ \A i \in 1 .. n : p[i] = asked[e][i]
        BY <2>1, <1>1, AskedAre
    <2>5. Len(s) >= 1 /\ 1 \in 1 .. n + 1 - k /\ n + 1 - k \in 1 .. n + 1 - k /\ k + (n + 1 - k) = n + 1
        BY <2>2
    <2>6. s # << >>
        <3>1. Len(<< >>) = 0
            OBVIOUS
        <3> QED
            BY <3>1, <2>5
    <2>7. ed[e].head = s[1] /\ ed[e].tail = s[Len(s)]
        BY <2>2, <2>3, <2>4, <2>5
    <2>8. ASSUME NEW i \in 1 .. Len(s) - 1
          PROVE  /\ td[s[i]].next = s[i + 1]
                 /\ td[s[i]].pid = "out" /\ e # "ctl" => Givable(td[s[i]].what)
        <3>1. /\ i \in 1 .. n + 1 - k /\ i + 1 \in 1 .. n + 1 - k
              /\ k + i \in k + 1 .. n /\ k + i \in 1 .. n /\ k + (i + 1) = (k + i) + 1
            BY <2>2
        <3>2. s[i] = asked[e][k + i] /\ s[i + 1] = p[(k + i) + 1]
            BY <2>2, <2>4, <3>1
        <3>3. td[s[i]].next = s[i + 1]
            BY <2>3, <3>1, <3>2
        <3>4. e # "ctl" => e \in {"in", "out"}
            BY DEF Eds
        <3> QED
            BY <2>1, <3>1, <3>2, <3>3, <3>4, <1>1, GivableAre
    <2> QED
        BY <2>1, <2>6, <2>7, <2>8
<1>7. ASSUME NEW e \in Eds, NEW f \in Eds, NEW i \in 1 .. Len(q[e]), NEW j \in 1 .. Len(q[f]),
             q[e][i] = q[f][j]
      PROVE  e = f /\ i = j
    <2>1. PICK a, b : a = at[e] + i /\ b = at[f] + j
        OBVIOUS
    <2>2. /\ a \in 1 .. Len(asked[e]) + 1 /\ b \in 1 .. Len(asked[f]) + 1
          /\ Path(e)[a] = Path(f)[b]
          /\ e = f /\ a = b => i = j
        <3>1. /\ i \in 1 .. Len(asked[e]) + 1 - at[e] /\ q[e][i] = Path(e)[a]
              /\ Len(asked[e]) \in Nat /\ at[e] \in 0 .. Len(asked[e])
            BY <2>1, <1>5
        <3>2. /\ j \in 1 .. Len(asked[f]) + 1 - at[f] /\ q[f][j] = Path(f)[b]
              /\ Len(asked[f]) \in Nat /\ at[f] \in 0 .. Len(asked[f])
            BY <2>1, <1>5
        <3>3. a \in 1 .. Len(asked[e]) + 1 /\ b \in 1 .. Len(asked[f]) + 1
            <4>1. \A n \in Nat : \A c \in 0 .. n : \A x \in 1 .. n + 1 - c : c + x \in 1 .. n + 1
                OBVIOUS
            <4> QED
                BY <2>1, <3>1, <3>2, <4>1
        <3>4. e = f /\ a = b => i = j
            BY <2>1, <3>1, <3>2
        <3> QED
            BY <3>1, <3>2, <3>3, <3>4, <1>7
    <2>3. \A g \in Eds : \A c \in 1 .. Len(asked[g]) + 1 :
              /\ c # Len(asked[g]) + 1 => c \in 1 .. Len(asked[g]) /\ Path(g)[c] = asked[g][c]
              /\ c = Len(asked[g]) + 1 => Path(g)[c] = ed[g].tail
              /\ Path(g)[c] \in Pool(g)
        BY <1>1, AskedAre DEF Apart
    <2>4. e = f
        <3>1. Pool(e) = Pool(f) \/ Pool(e) \cap Pool(f) = {}
            BY DEF Pool
        <3>2. Pool(e) = Pool(f)
            BY <2>2, <2>3, <3>1
        <3>3. e \notin Others(f)
            BY <3>2 DEF Others
        <3>4. e = f \/ (e = "in" /\ f = "out") \/ (e = "out" /\ f = "in")
            BY <3>3, OthersAre DEF Eds
        <3>5. /\ asked["in"] = << >> \/ asked["out"] = << >>
              /\ ed["in"].tail # ed["out"].tail
              /\ \A g, h \in Eds : \A c \in 1 .. Len(asked[h]) : asked[h][c] # ed[g].tail
            BY <1>1 DEF Apart
        <3>6. \A g \in Eds : asked[g] = << >> => \A c : c \notin 1 .. Len(asked[g])
            OBVIOUS
        <3> QED
            BY <2>2, <2>3, <3>4, <3>5, <3>6
    <2>5. a = b
        <3>1. /\ \A c, d \in 1 .. Len(asked[e]) : asked[e][c] = asked[e][d] => c = d
              /\ \A c \in 1 .. Len(asked[e]) : asked[e][c] # ed[e].tail
            BY <1>1 DEF Apart
        <3> QED
            BY <2>2, <2>3, <2>4, <3>1
    <2> QED
        BY <2>2, <2>4, <2>5
<1>8. Left(q)
    BY <1>5, <1>6, <1>7 DEF Left
<1> QED
    BY <1>8

LEMMA MachineResetAnswering ==
    ASSUME Ground, Answering, MachineReset
    PROVE  Answering' /\ UNCHANGED store
<1>1. /\ up' = "off" /\ buf' = << >> /\ asked' = NothingAsked
      /\ UNCHANGED <<ed, td, diskVars>>
    BY DEF MachineReset, ohciVars, memory
<1>2. Formed /\ \E q : Left(q)
    BY ListsLeft DEF Ground, Lists, Answering, Drive
<1>3. PICK q : Left(q)
    BY <1>2
<1>4. Left(q)'
    BY <1>1, <1>3, LeftSame
<1>5. Formed'
    BY <1>1, <1>2 DEF Formed, NothingAsked
<1>6. Writing' /\ store' = store
    BY <1>1, WritingSame DEF Answering, Drive, diskVars
<1> QED
    BY <1>1, <1>4, <1>5, <1>6 DEF Answering, Drive, Live

LEMMA HandlerAnswering ==
    ASSUME Ground, Answering, Handler
    PROVE  Answering' /\ UNCHANGED store
<1>1. Ground'
    BY TakeDoneGround, AcknowledgeGround DEF Handler
<1>2. UNCHANGED AnswerVars
    BY DEF Handler, TakeDone, AcknowledgeDone, AnswerVars, memory, waits, client
<1>3. store' = store
    BY <1>2 DEF AnswerVars, diskVars
<1> QED
    BY <1>1, <1>2, <1>3, AnsweringSame

(* The whole invariant, of drivers that reset the drive. *)
LEMMA AnsweringNext ==
    ASSUME Ground, Answering, SendsReset, [Next]_vars
    PROVE  Answering' /\ (up = "up" => WrittenByCommand)
<1>1. CASE Serve
    BY <1>1, ServeAnswering
<1>2. ASSUME UNCHANGED store PROVE WrittenByCommand
    BY <1>2 DEF WrittenByCommand
<1>3. CASE Handler
    BY <1>2, <1>3, HandlerAnswering
<1>4. CASE Proceed
    <2>1. CASE up = "resetting" /\ Request(ResetRequest)
        BY <1>2, <2>1, RequestAnswering
    <2> QED
        BY <1>2, <1>4, <2>1, StopAnswering, StartAnswering, AfterCommandAnswering,
           AfterDataAnswering, AfterStatusAnswering, EndRequestAnswering DEF Proceed
<1>5. CASE \E c \in CommandSet : SendCommand(c)
    BY <1>2, <1>5, SendCommandAnswering
<1>6. CASE \E r \in RequestSet : Request(r)
    <2>1. PICK r \in RequestSet : Request(r)
        BY <1>6
    <2>2. r # ResetRequest
        BY RequestsAssumption DEF ResetRequest
    <2> QED
        BY <1>2, <2>1, <2>2, RequestAnswering
<1>7. CASE MachineReset
    BY <1>2, <1>7, MachineResetAnswering
<1>8. CASE UNCHANGED vars
    <2>1. UNCHANGED AnswerVars /\ store' = store
        BY <1>8 DEF vars, ohciVars, guestVars, AnswerVars, memory, client, waits, diskVars
    <2>2. Ground'
        BY GroundNext
    <2> QED
        BY <1>2, <2>1, <2>2, AnsweringSame
<1> QED
    BY <1>1, <1>3, <1>4, <1>5, <1>6, <1>7, <1>8 DEF Next

LEMMA AnswersThen ==
    ASSUME Ground, Answering
    PROVE  RequestsAreAnswered
<1>1. ASSUME StatusIsHere
      PROVE  \E s \in [tag : {myTag}, residue : 0 .. job.cells, status : {"good", "failed"}] :
                 /\ Gathered("in") = << s >>
                 /\ s.status = IF Unable(job) THEN "failed" ELSE "good"
                 /\ ~Unable(job) /\ job.op # "write" => s.residue = job.cells - Len(buf)
    <2>1. cli = "csw" /\ Range(asked["in"]) \subseteq told /\ Live /\ Lists /\ Ending
        BY <1>1 DEF StatusIsHere, Told, Ground, Life, Live, Answering, Drive, Driving
    <2>2. At("in", Len(asked["in"]))
        BY <2>1, AllTold DEF Eds
    <2>3. Len(asked["in"]) = 1
        <3>1. PICK ts : ts = StatusTransfers
            OBVIOUS
        <3>2. Len(ts) = 1
            BY <3>1, OneTransfer DEF StatusTransfers
        <3>3. Are("in", ts)
            BY <2>1, <3>1 DEF Ending
        <3> QED
            BY <3>2, <3>3 DEF Are
    <2>4. PICK s \in [tag : {myTag}, residue : 0 .. job.cells, status : {"good", "failed"}] :
              /\ td[asked["in"][1]].got = << s >>
              /\ s.status = IF Unable(job) THEN "failed" ELSE "good"
              /\ ~Unable(job) /\ job.op # "write" => s.residue = job.cells - Len(buf)
        BY <2>1, <2>2, <2>3 DEF Ending
    <2>5. Gathered("in") = << s >>
        <3>1. PICK x : x = << s >>
            OBVIOUS
        <3>2. x \in Seq({s})
            BY <3>1
        <3>3. \A i \in 1 .. Len(asked["in"]) : td[asked["in"][i]].got = IF i = 1 THEN x ELSE << >>
            BY <2>3, <2>4, <3>1
        <3>4. 1 \in 1 .. Len(asked["in"]) /\ Len(asked["in"]) \in Nat
            BY <2>3
        <3>5. Gathered("in") = x
            BY <3>2, <3>3, <3>4, GatheredAtOnce
        <3> QED
            BY <3>1, <3>5
    <2> QED
        BY <2>4, <2>5
<1>2. ASSUME RequestIsOver
      PROVE  /\ ed["ctl"].halted = ~Accepts(ctl)
             /\ Accepts(ctl) => Gathered("ctl") = Answer(ctl)
    <2>1. Live
        BY <1>2 DEF RequestIsOver, Ground, Life
    <2>2. /\ Accepts(ctl) => ed["ctl"].halted = FALSE /\ Gathered("ctl") = Answer(ctl)
          /\ ~Accepts(ctl) => ed["ctl"].halted = TRUE
        BY <1>2, <2>1, RequestEnds DEF Answering
    <2>3. CASE Accepts(ctl)
        <3>1. ~Accepts(ctl) = FALSE
            BY <2>3 DEF Accepts
        <3> QED
            BY <2>2, <2>3, <3>1
    <2>4. CASE ~Accepts(ctl)
        <3>1. ~Accepts(ctl) = TRUE
            BY <2>4 DEF Accepts
        <3> QED
            BY <2>2, <2>4, <3>1
    <2> QED
        BY <2>3, <2>4
<1> QED
    BY <1>1, <1>2 DEF RequestsAreAnswered

(* With drivers that reset the drive in bring-up, what each client is told *)
(* is the answer to what it asked: a command its own tag, how it ended and *)
(* how much did not come (usbdisk.rs), a control request its own reply, or *)
(* a stall exactly when the drive refuses it, whatever was stalled or      *)
(* abandoned before and whenever the machine is reset.                     *)
THEOREM AnswersArrive ==
    ASSUME SendsReset
    PROVE  Spec => []RequestsAreAnswered
<1>1. Init => Ground /\ Answering
    BY GroundInit, InitAnswering
<1>2. Ground /\ Answering /\ [Next]_vars => Ground' /\ Answering'
    BY GroundNext, AnsweringNext
<1>3. Ground /\ Answering => RequestsAreAnswered
    BY AnswersThen
<1> QED
    BY <1>1, <1>2, <1>3, PTL DEF Spec

(* With drivers that reset the drive in bring-up, a read that ended well   *)
(* has brought what the drive holds and a write has put its data there;    *)
(* and while the drivers are up the drive changes only where the command   *)
(* in hand writes, and only while that command's data is on its way        *)
(* (usbdisk.rs bulk_out).                                                  *)
THEOREM DataRight ==
    ASSUME SendsReset
    PROVE  Spec => DataIsRight
<1>1. Init => Ground /\ Answering
    BY GroundInit, InitAnswering
<1>2. Ground /\ Answering /\ [Next]_vars => Ground' /\ Answering'
    BY GroundNext, AnsweringNext
<1>3. Ground /\ Answering /\ [Next]_vars =>
          /\ StatusIsHere /\ InRange(job) =>
                 /\ job.op = "read" => buf = Contents(Start(job), Length(job))
                 /\ job.op = "write" =>
                        \A c \in Start(job) .. Start(job) + Length(job) - 1 : store[c] = job.fill
          /\ up = "up" => \A c \in StoreCells : store'[c] # store[c] =>
                 /\ cli = "data"
                 /\ job.op = "write"
                 /\ c \in Start(job) .. Start(job) + Length(job) - 1
    <2> SUFFICES ASSUME Ground, Answering, [Next]_vars
                 PROVE  /\ StatusIsHere /\ InRange(job) =>
                               /\ job.op = "read" => buf = Contents(Start(job), Length(job))
                               /\ job.op = "write" =>
                                      \A c \in Start(job) .. Start(job) + Length(job) - 1 :
                                          store[c] = job.fill
                        /\ up = "up" => WrittenByCommand
        BY DEF WrittenByCommand
    <2>1. StatusIsHere => Kept
        BY DEF StatusIsHere, Ground, Life, Live, Answering, Drive, Driving, Ending
    <2> QED
        BY <2>1, AnsweringNext DEF Kept
<1> QED
    BY <1>1, <1>2, <1>3, PTL DEF Spec, DataIsRight
=============================================================================
