---------------------------- MODULE DeviceProofs ----------------------------
(***************************************************************************)
(* Theorems about four of the board's devices, whatever they hold and      *)
(* whatever is asked of them: the flash changes only as a NOR flash may,   *)
(* and tells its driver what was not done; a request of the PC card moves  *)
(* the sectors it asked for; the battery answers the question that was put *)
(* to it; and the DMA engine, shared by two drivers, copies all of what it *)
(* says it has and is not at the buffer that a driver fills.  What it      *)
(* gives the codec is heard whole and in order: what is lost is the excess *)
(* over a second, and nothing is torn.                                     *)
(***************************************************************************)
EXTENDS Flash, I2c, Pcmcia, Sound, FiniteSetTheorems, SequenceTheorems, WellFoundedInduction, TLAPS

-----------------------------------------------------------------------------
(* The flash. *)

FlashStatus == {"ready", "program", "erase"}

(* The words are words, and the locks are of blocks.  What the driver      *)
(* writes need not be known: a word programmed only takes bits away.       *)
FlashInv ==
    /\ flash = [data |-> flash.data, mode |-> flash.mode, status |-> flash.status,
                locked |-> flash.locked, left |-> flash.left]
    /\ flash.data \in [Cells -> SUBSET Bits]
    /\ flash.locked \subseteq Blocks

(* What follows a write to the chips, as a NOR flash would see it. *)
Follows(f, g) ==
    /\ g = [data |-> g.data, mode |-> g.mode, status |-> g.status,
            locked |-> g.locked, left |-> g.left]
    /\ \/ g.data = f.data /\ g.locked = f.locked
       \/ /\ g.locked = f.locked
          /\ \E a \in Cells, w \in SUBSET Bits :
                 BlockOf[a] \notin f.locked /\ g.data = [f.data EXCEPT ![a] = @ \cap w]
       \/ /\ g.locked = f.locked
          /\ \E b \in Blocks :
                 /\ b \notin f.locked
                 /\ g.data = [a \in Cells |-> IF BlockOf[a] = b THEN Bits ELSE f.data[a]]
       \/ /\ g.data = f.data
          /\ \E b \in Blocks : g.locked \in {f.locked \cup {b}, f.locked \ {b}}

LEMMA BlockIsOne == ASSUME NEW a PROVE Block(a) \in Blocks
<1>1. Size \in Cells
    BY FlashAssumption DEF Cells
<1> QED
    BY <1>1 DEF Block, Blocks

(* Programming takes bits away, in a block that is not locked. *)
LEMMA ProgrammedFollows ==
    ASSUME FlashInv, NEW a, NEW w
    PROVE  Follows(flash, Programmed(flash, a, w))
<1> DEFINE g == Programmed(flash, a, w)
<1>1. CASE a \notin Cells \/ Block(a) \in flash.locked
    BY <1>1 DEF Programmed, Follows, FlashInv
<1>2. CASE a \in Cells /\ Block(a) \notin flash.locked
    <2>1. /\ g.locked = flash.locked
          /\ g.data = [flash.data EXCEPT ![a] = @ \cap w]
          /\ g = [data |-> g.data, mode |-> g.mode, status |-> g.status,
                  locked |-> g.locked, left |-> g.left]
        BY <1>2 DEF Programmed, FlashInv
    <2>2. flash.data[a] \cap w \in SUBSET Bits
        BY <1>2 DEF FlashInv
    <2>3. flash.data[a] \cap w = flash.data[a] \cap (flash.data[a] \cap w)
        OBVIOUS
    <2>4. g.data = [flash.data EXCEPT ![a] = @ \cap (flash.data[a] \cap w)]
        BY <2>1, <2>3
    <2>5. BlockOf[a] \notin flash.locked
        BY <1>2 DEF Block
    <2> QED
        BY <1>2, <2>1, <2>2, <2>4, <2>5 DEF Follows
<1> QED
    BY <1>1, <1>2

(* Erasing sets a block that is not locked. *)
LEMMA ErasedFollows ==
    ASSUME FlashInv, NEW b \in Blocks
    PROVE  Follows(flash, Erased(flash, b))
<1>1. CASE b \in flash.locked
    BY <1>1 DEF Erased, Follows, FlashInv
<1>2. CASE b \notin flash.locked
    BY <1>2 DEF Erased, Follows, FlashInv
<1> QED
    BY <1>1, <1>2

(* A command alone changes neither the words nor the locks. *)
LEMMA CommandFollows ==
    ASSUME FlashInv, NEW cmd
    PROVE  Follows(flash, Command(flash, cmd))
    BY DEF Command, Follows, FlashInv

(* The mode and the count are no part of what follows. *)
WithMode(g, mode) == [g EXCEPT !.mode = mode]
WithLeft(g, left) == [g EXCEPT !.left = left]

LEMMA ModeIsApart ==
    ASSUME NEW f, NEW g, Follows(f, g), NEW mode
    PROVE  Follows(f, WithMode(g, mode))
    BY DEF Follows, WithMode

LEMMA LeftIsApart ==
    ASSUME NEW f, NEW g, Follows(f, g), NEW left
    PROVE  Follows(f, WithLeft(g, left))
    BY DEF Follows, WithLeft

LEMMA WrittenFollows ==
    ASSUME FlashInv, NEW a, NEW value
    PROVE  Follows(flash, Written(flash, a, value))
<1>1. CASE flash.mode = "program"
    <2>1. Written(flash, a, value) = WithMode(Programmed(flash, a, value), "status")
        BY <1>1 DEF Written, WithMode
    <2>2. Follows(flash, Programmed(flash, a, value))
        BY ProgrammedFollows
    <2> QED
        BY <2>1, <2>2, ModeIsApart
<1>2. CASE flash.mode = "erase"
    <2>1. CASE value = "confirm"
        <3>1. Written(flash, a, value) = WithMode(Erased(flash, Block(a)), "status")
            BY <1>2, <2>1 DEF Written, WithMode
        <3>2. Follows(flash, Erased(flash, Block(a)))
            BY BlockIsOne, ErasedFollows
        <3> QED
            BY <3>1, <3>2, ModeIsApart
    <2>2. CASE value # "confirm"
        BY <1>2, <2>2 DEF Written, Follows, FlashInv
    <2> QED
        BY <2>1, <2>2
<1>3. CASE flash.mode = "lock"
    <2>1. Block(a) \in Blocks
        BY BlockIsOne
    <2> HIDE DEF Blocks
    <2> QED
        BY <1>3, <2>1 DEF Written, Follows, FlashInv
<1>4. CASE flash.mode = "count"
    BY <1>4 DEF Written, Counted, Follows, FlashInv
<1>5. CASE flash.mode = "data"
    <2>1. Follows(flash, Programmed(flash, a, value))
        BY ProgrammedFollows
    <2> DEFINE g == Programmed(flash, a, value)
               fewer == WithLeft(g, g.left - 1)
    <2>2. Follows(flash, fewer)
        BY <2>1, LeftIsApart
    <2>3. Written(flash, a, value) =
              WithMode(fewer, IF flash.left = 1 THEN "confirm" ELSE g.mode)
        BY <1>5, <2>1 DEF Written, WithMode, WithLeft, Follows
    <2> QED
        BY <2>2, <2>3, ModeIsApart
<1>6. CASE flash.mode = "confirm"
    BY <1>6 DEF Written, Follows, FlashInv
<1>7. CASE flash.mode \notin {"program", "erase", "lock", "count", "data", "confirm"}
    <2>1. Written(flash, a, value) = Command(flash, value)
        BY <1>7 DEF Written
    <2> QED
        BY <2>1, CommandFollows
<1> QED
    BY <1>1, <1>2, <1>3, <1>4, <1>5, <1>6, <1>7

LEMMA FlashStep ==
    ASSUME FlashInv, [FlashNext]_flashVars
    PROVE  FlashInv' /\ [Nor!Next]_<<flash.data, flash.locked>>
<1>1. CASE Follows(flash, flash')
    <2>1. FlashInv'
        BY <1>1 DEF Follows, FlashInv
    <2> QED
        BY <1>1, <2>1 DEF Follows, Nor!Next, Nor!Program, Nor!Erase, Nor!SetLock, Blocks
<1>2. CASE PutBack
    BY <1>2, FlashAssumption DEF PutBack, FlashInv, Nor!Next, Nor!PutBack
<1>3. CASE flash' = flash
    BY <1>3 DEF FlashInv
<1>4. CASE BusWrite \/ Finish
    <2>1. PICK a, value : flash' = Written(flash, a, value)
        BY <1>4 DEF BusWrite, Finish
    <2> QED
        BY <2>1, <1>1, WrittenFollows
<1> QED
    BY <1>2, <1>3, <1>4 DEF FlashNext, Begin, flashVars

(* The command machine of the chips, and a driver that may be broken off   *)
(* anywhere in a sequence, implement the array of a NOR flash, whatever    *)
(* their size, their blocks and the jobs (write of flash.rs).              *)
THEOREM FlashRefinesNor == FlashSpec => FlashIsNor
<1>1. FlashInit => FlashInv /\ Nor!Init
    BY FlashAssumption DEF FlashInit, FlashInv, Nor!Init
<1>2. FlashInv /\ [FlashNext]_flashVars => FlashInv' /\ [Nor!Next]_<<flash.data, flash.locked>>
    BY FlashStep
<1> QED
    BY <1>1, <1>2, PTL DEF FlashSpec, FlashIsNor, Nor!Spec

-----------------------------------------------------------------------------
(* What a job comes to. *)

(* How many writes a job takes. *)
Writes(j) == IF j.kind = "buffer" THEN Len(j.words) + 5 ELSE 4

(* What the driver has still to write is what is left after the first k.   *)
Remains(j, k) == script = [i \in 1 .. Writes(j) - k |-> Script(j)[k + i]]

Untouched(f, before) == f.status = {"ready"} /\ f.data = before

Open(f, a) == a \in Cells /\ BlockOf[a] \notin f.locked

(* The first n words of a job are programmed, or were refused. *)
Filled(f, j, before, n) ==
    /\ "ready" \in f.status
    /\ f.status = {"ready"} <=> \A i \in 1 .. n : Open(f, j.at + i - 1)
    /\ \A a \in Cells :
           f.data[a] = IF a - j.at + 1 \in 1 .. n /\ BlockOf[a] \notin f.locked
                       THEN before[a] \cap j.words[a - j.at + 1] ELSE before[a]

Cleaned(f, j, before) ==
    /\ f.status = {"ready"} <=> BlockOf[j.at] \notin f.locked
    /\ \A a \in Cells : f.data[a] = IF BlockOf[a] = BlockOf[j.at] /\ BlockOf[a] \notin f.locked
                                    THEN Bits ELSE before[a]

(* The chips after k writes of a job. *)
Stage(f, j, before, k) ==
    /\ k = 0 => f.mode = "array" /\ f.data = before
    /\ k = 1 => f.mode = "array" /\ Untouched(f, before)
    /\ j.kind = "erase" =>
           /\ k = 2 => f.mode = "erase" /\ Untouched(f, before)
           /\ k > 2 => f.mode = "status" /\ Cleaned(f, j, before)
    /\ j.kind = "program" =>
           /\ k = 2 => f.mode = "program" /\ Untouched(f, before)
           /\ k > 2 => f.mode = "status" /\ Filled(f, j, before, 1)
    /\ j.kind \in {"lock", "unlock"} =>
           /\ k = 2 => f.mode = "lock"
           /\ k > 2 => f.mode = "status"
    /\ j.kind = "buffer" =>
           LET n == Len(j.words)
           IN  /\ k = 2 => f.mode = "count" /\ Untouched(f, before)
               /\ k \in 3 .. n + 3 =>
                      /\ f.mode = IF k = n + 3 THEN "confirm" ELSE "data"
                      /\ f.left = n + 3 - k
                      /\ Filled(f, j, before, k - 3)
               /\ k > n + 3 => f.mode = "status" /\ Filled(f, j, before, n)

(* Between jobs the array can be read; within one, the chips are at the    *)
(* stage that what is left of the script says.                             *)
JobInv ==
    /\ job.kind = "none" => script = << >> /\ flash.mode = "array"
    /\ job.kind # "none" =>
           /\ job.ask \in Jobs
           /\ job.kind = job.ask.kind
           /\ \E k \in 0 .. Writes(job.ask) :
                  Remains(job.ask, k) /\ Stage(flash, job.ask, job.before, k)

LEMMA JoinIs ==
    ASSUME NEW S, NEW s \in Seq(S), NEW t \in Seq(S)
    PROVE  /\ s \o t \in Seq(S)
           /\ Len(s \o t) = Len(s) + Len(t)
           /\ \A i \in 1 .. Len(s) + Len(t) :
                  (s \o t)[i] = IF i <= Len(s) THEN s[i] ELSE t[i - Len(s)]
    BY ConcatProperties, Zenon

(* A buffer's script is a head, its words and an end. *)
Pieces(S, A, B, C, D, m, n, s) ==
    /\ A \in Seq(S) /\ B \in Seq(S) /\ C \in Seq(S) /\ D \in Seq(S) /\ m \in Seq(S)
    /\ Len(A) = 1 /\ Len(B) = 2 /\ Len(C) = 1 /\ Len(D) = 1
    /\ n \in Nat /\ Len(m) = n
    /\ s = A \o (B \o m \o C) \o D

LEMMA ScriptOfBuffer ==
    ASSUME NEW S, NEW A, NEW B, NEW C, NEW D, NEW m, NEW n, NEW s,
           Pieces(S, A, B, C, D, m, n, s)
    PROVE  /\ s \in Seq(S) /\ Len(s) = n + 5
           /\ s[1] = A[1] /\ s[2] = B[1] /\ s[3] = B[2]
           /\ s[n + 4] = C[1] /\ s[n + 5] = D[1]
           /\ \A i \in 1 .. n : s[i + 3] = m[i]
<1>1. A \in Seq(S) /\ B \in Seq(S) /\ C \in Seq(S) /\ D \in Seq(S) /\ m \in Seq(S)
    BY DEF Pieces
<1>2. Len(A) = 1 /\ Len(B) = 2 /\ Len(C) = 1 /\ Len(D) = 1 /\ n \in Nat /\ Len(m) = n
    BY DEF Pieces
<1> DEFINE p == B \o m
           q == p \o C
           r == A \o q
           z == r \o D
<1>3. /\ p \in Seq(S) /\ Len(p) = Len(B) + Len(m)
      /\ \A i \in 1 .. Len(B) + Len(m) : p[i] = IF i <= Len(B) THEN B[i] ELSE m[i - Len(B)]
    BY <1>1, JoinIs, Zenon
<1> HIDE DEF p
<1>4. p \in Seq(S)
    BY <1>2, <1>3
<1>5. Len(p) = n + 2
    BY <1>2, <1>3
<1>6. p[1] = B[1] /\ p[2] = B[2]
    BY <1>2, <1>3
<1>7. \A i \in 1 .. n : p[i + 2] = m[i]
    <2> TAKE i \in 1 .. n
    <2>1. i + 2 \in 1 .. 2 + n /\ ~(i + 2 <= 2) /\ (i + 2) - 2 = i
        BY <1>2
    <2> QED
        BY <1>2, <1>3, <2>1
<1>8. /\ q \in Seq(S) /\ Len(q) = Len(p) + Len(C)
      /\ \A i \in 1 .. Len(p) + Len(C) : q[i] = IF i <= Len(p) THEN p[i] ELSE C[i - Len(p)]
    BY <1>1, <1>4, JoinIs, Zenon
<1> HIDE DEF q
<1>9. q \in Seq(S) /\ Len(q) = n + 3
    BY <1>2, <1>5, <1>8
<1>10. q[n + 3] = C[1]
    BY <1>2, <1>5, <1>8
<1>11. \A i \in 1 .. n + 2 : q[i] = p[i]
    BY <1>2, <1>5, <1>8
<1>12. q \in Seq(S)
    BY <1>8
<1>13. /\ r \in Seq(S) /\ Len(r) = Len(A) + Len(q)
       /\ \A i \in 1 .. Len(A) + Len(q) : r[i] = IF i <= Len(A) THEN A[i] ELSE q[i - Len(A)]
    BY <1>1, <1>12, JoinIs, Zenon
<1> HIDE DEF r
<1>14. r \in Seq(S)
    BY <1>13
<1>15. Len(r) = n + 4 /\ r[1] = A[1]
    BY <1>2, <1>9, <1>13
<1>16. \A i \in 1 .. n + 3 : r[i + 1] = q[i]
    <2> TAKE i \in 1 .. n + 3
    <2>1. i + 1 \in 1 .. 1 + (n + 3) /\ ~(i + 1 <= 1) /\ (i + 1) - 1 = i
        BY <1>2
    <2> QED
        BY <1>2, <1>9, <1>13, <2>1
<1>17. /\ z \in Seq(S) /\ Len(z) = Len(r) + Len(D)
       /\ \A i \in 1 .. Len(r) + Len(D) : z[i] = IF i <= Len(r) THEN r[i] ELSE D[i - Len(r)]
    BY <1>1, <1>14, JoinIs, Zenon
<1> HIDE DEF z
<1>18. z \in Seq(S) /\ Len(z) = n + 5 /\ z[n + 5] = D[1]
    BY <1>2, <1>15, <1>17
<1>19. \A i \in 1 .. n + 4 : z[i] = r[i]
    BY <1>2, <1>15, <1>17
<1>20. ASSUME NEW i \in 1 .. n + 2 PROVE z[i + 1] = p[i]
    <2>1. i \in 1 .. n + 3 /\ i + 1 \in 1 .. n + 4
        BY <1>2
    <2> QED
        BY <2>1, <1>11, <1>16, <1>19
<1>21. z[1] = A[1]
    <2>1. 1 \in 1 .. n + 4
        BY <1>2
    <2> QED
        BY <2>1, <1>15, <1>19
<1>22. z[2] = B[1] /\ z[3] = B[2]
    <2>1. 1 \in 1 .. n + 2 /\ 2 \in 1 .. n + 2 /\ 1 + 1 = 2 /\ 2 + 1 = 3
        BY <1>2
    <2>2. z[1 + 1] = p[1] /\ z[2 + 1] = p[2]
        BY <2>1, <1>20
    <2> QED
        BY <2>1, <2>2, <1>6
<1>23. z[n + 4] = C[1]
    <2>1. n + 3 \in 1 .. n + 3 /\ n + 4 \in 1 .. n + 4 /\ (n + 3) + 1 = n + 4
        BY <1>2
    <2>2. r[(n + 3) + 1] = q[n + 3] /\ z[n + 4] = r[n + 4]
        BY <2>1, <1>16, <1>19
    <2> QED
        BY <2>1, <2>2, <1>10
<1>24. ASSUME NEW i \in 1 .. n PROVE z[i + 3] = m[i]
    <2>1. i + 2 \in 1 .. n + 2 /\ (i + 2) + 1 = i + 3
        BY <1>2
    <2>2. z[(i + 2) + 1] = p[i + 2]
        BY <2>1, <1>20
    <2> QED
        BY <2>1, <2>2, <1>7
<1>25. /\ z \in Seq(S) /\ Len(z) = n + 5
       /\ z[1] = A[1] /\ z[2] = B[1] /\ z[3] = B[2]
       /\ z[n + 4] = C[1] /\ z[n + 5] = D[1]
       /\ \A i \in 1 .. n : z[i + 3] = m[i]
    BY <1>18, <1>21, <1>22, <1>23, <1>24
<1>26. s = z
    BY DEF Pieces, z, r, q, p
<1> QED
    BY <1>25, <1>26, Zenon

(* The writes of a job, one by one. *)
LEMMA ScriptSays ==
    ASSUME NEW j \in Jobs
    PROVE  /\ Script(j)[1] = <<1, "clear status">>
           /\ Script(j)[Writes(j)] = <<1, "read status">>
           /\ Len(Script(j)) = Writes(j)
           /\ Script(j) = [i \in 1 .. Writes(j) |-> Script(j)[i]]
           /\ j.kind = "erase" =>
                  Script(j)[2] = <<j.at, "erase">> /\ Script(j)[3] = <<j.at, "confirm">>
           /\ j.kind \in {"lock", "unlock"} => Script(j)[2] = <<j.at, "lock setup">>
           /\ j.kind = "program" =>
                  Script(j)[2] = <<j.at, "program">> /\ Script(j)[3] = <<j.at, j.words[1]>>
           /\ j.kind = "buffer" =>
                  /\ Script(j)[2] = <<j.at, "buffer">>
                  /\ Script(j)[3] = <<j.at, Len(j.words) - 1>>
                  /\ \A i \in 1 .. Len(j.words) : Script(j)[i + 3] = <<j.at + i - 1, j.words[i]>>
                  /\ Script(j)[Len(j.words) + 4] = <<j.at, "confirm">>
<1> DEFINE n == Len(j.words)
<1>1. n \in Nat \ {0} /\ j.at \in Nat
    BY JobsAssumption DEF Cells
<1>2. CASE j.kind \in {"erase", "lock", "unlock", "program"}
    <2>1. PICK b, c : /\ Steps(j) = << b, c >>
                      /\ j.kind = "erase" => b = <<j.at, "erase">> /\ c = <<j.at, "confirm">>
                      /\ j.kind \in {"lock", "unlock"} => b = <<j.at, "lock setup">>
                      /\ j.kind = "program" => b = <<j.at, "program">> /\ c = <<j.at, j.words[1]>>
        BY <1>2 DEF Steps
    <2> DEFINE a == <<1, "clear status">>
               d == <<1, "read status">>
    <2>2. Script(j) = << a >> \o << b, c >> \o << d >>
        BY <2>1 DEF Script
    <2>3. Writes(j) = 4
        BY <1>2 DEF Writes
    <2>4. j.kind # "buffer"
        BY <1>2
    <2>5. /\ Len(Script(j)) = 4
          /\ Script(j)[1] = a /\ Script(j)[2] = b /\ Script(j)[3] = c /\ Script(j)[4] = d
          /\ Script(j) = [i \in 1 .. 4 |-> Script(j)[i]]
        <3> HIDE DEF a, d
        <3> DEFINE z == << a >> \o << b, c >> \o << d >>
        <3>1. /\ Len(z) = 4 /\ z[1] = a /\ z[2] = b /\ z[3] = c /\ z[4] = d
              /\ z = [i \in 1 .. 4 |-> z[i]]
            OBVIOUS
        <3>2. Script(j) = z
            BY <2>2
        <3> HIDE DEF z
        <3> QED
            BY <3>1, <3>2
    <2> QED
        BY <2>1, <2>3, <2>4, <2>5
<1>3. CASE j.kind = "buffer"
    <2> DEFINE m == [i \in 1 .. n |-> <<j.at + i - 1, j.words[i]>>]
               S == UNION {{<<1, "clear status">>, <<1, "read status">>, <<j.at, "buffer">>,
                            <<j.at, n - 1>>, <<j.at, "confirm">>}, {m[i] : i \in 1 .. n}}
    <2>1. Steps(j) = << <<j.at, "buffer">>, <<j.at, n - 1>> >> \o m \o << <<j.at, "confirm">> >>
        BY <1>3 DEF Steps
    <2>3. m \in Seq(S) /\ Len(m) = n /\ \A i \in 1 .. n : m[i] = <<j.at + i - 1, j.words[i]>>
        <3>1. \A i \in 1 .. n : m[i] = <<j.at + i - 1, j.words[i]>>
            OBVIOUS
        <3>2. \A i \in 1 .. n : m[i] \in S
            OBVIOUS
        <3>3. m = [i \in 1 .. n |-> m[i]]
            OBVIOUS
        <3>4. n \in Nat
            BY <1>1
        <3> HIDE DEF S, m, n
        <3>5. m \in Seq(S) /\ Len(m) = n
            BY <3>2, <3>3, <3>4
        <3> QED
            BY <3>1, <3>5
    <2> DEFINE a == <<1, "clear status">>
               b == <<j.at, "buffer">>
               c == <<j.at, n - 1>>
               d == <<j.at, "confirm">>
               e == <<1, "read status">>
    <2>4. Script(j) = << a >> \o (<< b, c >> \o m \o << d >>) \o << e >>
        BY <2>1 DEF Script
    <2>5. a \in S /\ b \in S /\ c \in S /\ d \in S /\ e \in S /\ n \in Nat
        BY <1>1
    <2> HIDE DEF S, m, n, a, b, c, d, e
    <2>6. /\ Script(j) \in Seq(S) /\ Len(Script(j)) = n + 5
          /\ Script(j)[1] = a /\ Script(j)[2] = b /\ Script(j)[3] = c
          /\ Script(j)[n + 4] = d /\ Script(j)[n + 5] = e
          /\ \A i \in 1 .. n : Script(j)[i + 3] = m[i]
        <3> DEFINE A == << a >>
                   B == << b, c >>
                   C == << d >>
                   D == << e >>
        <3>1. /\ A \in Seq(S) /\ B \in Seq(S) /\ C \in Seq(S) /\ D \in Seq(S)
              /\ Len(A) = 1 /\ Len(B) = 2 /\ Len(C) = 1 /\ Len(D) = 1
            BY <2>5
        <3>2. A[1] = a /\ B[1] = b /\ B[2] = c /\ C[1] = d /\ D[1] = e
            OBVIOUS
        <3>3. n \in Nat /\ m \in Seq(S) /\ Len(m) = n
            BY <2>3, <2>5
        <3>4. Script(j) = A \o (B \o m \o C) \o D
            BY <2>4
        <3> HIDE DEF A, B, C, D
        <3>5. Pieces(S, A, B, C, D, m, n, Script(j))
            BY <3>1, <3>3, <3>4 DEF Pieces
        <3>6. /\ Script(j) \in Seq(S) /\ Len(Script(j)) = n + 5
              /\ Script(j)[1] = A[1] /\ Script(j)[2] = B[1] /\ Script(j)[3] = B[2]
              /\ Script(j)[n + 4] = C[1] /\ Script(j)[n + 5] = D[1]
              /\ \A i \in 1 .. n : Script(j)[i + 3] = m[i]
            BY <3>5, ScriptOfBuffer
        <3> QED
            BY <3>2, <3>6
    <2>7. Writes(j) = n + 5
        BY <1>3 DEF Writes, n
    <2>8. Script(j) = [i \in 1 .. Writes(j) |-> Script(j)[i]]
        BY <2>6, <2>7
    <2> QED
        BY <1>3, <2>3, <2>6, <2>7, <2>8 DEF n, a, b, c, d, e
<1> QED
    BY <1>2, <1>3, JobsAssumption

(* A job's writes leave the driver one by one. *)
LEMMA NextWrite ==
    ASSUME NEW j \in Jobs, NEW k \in 0 .. Writes(j), Remains(j, k)
    PROVE  /\ Writes(j) \in Nat
           /\ script = << >> <=> k = Writes(j)
           /\ script # << >> => script[1] = Script(j)[k + 1]
           /\ script # << >> => Tail(script) = [i \in 1 .. Writes(j) - (k + 1) |-> Script(j)[k + 1 + i]]
<1>1. Writes(j) \in Nat
    BY JobsAssumption DEF Writes
<1> DEFINE n == Writes(j) - k
           S == {Script(j)[k + i] : i \in 1 .. n}
<1>2. n \in Nat
    BY <1>1
<1>3. script = [i \in 1 .. n |-> Script(j)[k + i]]
    BY DEF Remains
<1>4. \A i \in 1 .. n : Script(j)[k + i] \in S
    OBVIOUS
<1> HIDE DEF n, S
<1>5. script \in Seq(S) /\ Len(script) = n /\ \A i \in 1 .. n : script[i] = Script(j)[k + i]
    BY <1>2, <1>3, <1>4
<1>6. script = << >> <=> n = 0
    BY <1>2, <1>5
<1>7. ASSUME script # << >>
      PROVE  /\ script[1] = Script(j)[k + 1]
             /\ Tail(script) = [i \in 1 .. Writes(j) - (k + 1) |-> Script(j)[k + 1 + i]]
    <2>1. n - 1 = Writes(j) - (k + 1) /\ n - 1 \in Nat
        BY <1>1, <1>2, <1>6, <1>7 DEF n
    <2>2. PICK t : t = Tail(script)
        OBVIOUS
    <2>3. t \in Seq(S) /\ Len(t) = n - 1 /\ \A i \in 1 .. n - 1 : t[i] = script[i + 1]
        BY <1>2, <1>5, <1>7, <2>1, <2>2
    <2>4. \A i \in 1 .. n - 1 : t[i] = Script(j)[k + 1 + i]
        <3> TAKE i \in 1 .. n - 1
        <3>1. i + 1 \in 1 .. n /\ k + (i + 1) = k + 1 + i
            BY <1>1, <1>2, <2>1
        <3> QED
            BY <1>5, <2>3, <3>1
    <2>6. t = [i \in 1 .. n - 1 |-> t[i]]
        BY <2>1, <2>3
    <2>5. script[1] = Script(j)[k + 1]
        BY <1>2, <1>5, <1>6, <1>7
    <2> QED
        BY <2>1, <2>2, <2>4, <2>5, <2>6
<1>8. n = 0 <=> k = Writes(j)
    BY <1>1 DEF n
<1> QED
    BY <1>1, <1>6, <1>7, <1>8

(* The words of a job are in the chips or refused, one more at a time. *)
LEMMA WordFilled ==
    ASSUME FlashInv, NEW j \in Jobs, NEW before, NEW n \in 1 .. Len(j.words),
           Filled(flash, j, before, n - 1)
    PROVE  LET g == Programmed(flash, j.at + n - 1, j.words[n])
           IN  /\ Filled(g, j, before, n)
               /\ g.mode = flash.mode /\ g.left = flash.left /\ g.locked = flash.locked
<1> DEFINE a == j.at + n - 1
           w == j.words[n]
           g == Programmed(flash, a, w)
<1>1. Len(j.words) \in Nat /\ j.at \in Nat /\ n \in Nat \ {0} /\ a \in Nat
    BY JobsAssumption DEF Cells
<1>2. a - j.at + 1 = n
    BY <1>1
<1>3. \A i \in 1 .. n : i \in 1 .. n - 1 \/ i = n
    BY <1>1
<1>4. \A i \in 1 .. n - 1 : i \in 1 .. n
    BY <1>1
<1>5. \A c \in Cells : c - j.at + 1 \in 1 .. n <=> (c - j.at + 1 \in 1 .. n - 1 \/ c = a)
    BY <1>1 DEF Cells
<1>6. a - j.at + 1 \notin 1 .. n - 1
    BY <1>1
<1>7. n \in 1 .. n
    BY <1>1
<1>8. CASE ~Open(flash, a)
    <2>1. g.status = flash.status \cup {"program"} /\ g.data = flash.data
          /\ g.mode = flash.mode /\ g.left = flash.left /\ g.locked = flash.locked
        BY <1>8, FlashAssumption DEF Programmed, FlashInv, Open, Block
    <2>5. "program" \in g.status /\ "program" # "ready"
        BY <2>1
    <2>2. "ready" \in g.status /\ g.status # {"ready"}
        <3>1. "ready" \in flash.status
            BY DEF Filled
        <3>2. "ready" \in g.status
            BY <2>1, <3>1
        <3> HIDE DEF g
        <3> QED
            BY <2>5, <3>2
    <2>3. ~(\A i \in 1 .. n : Open(g, j.at + i - 1))
        BY <1>7, <1>8, <2>1 DEF Open
    <2>4. ASSUME NEW c \in Cells
          PROVE  g.data[c] = IF c - j.at + 1 \in 1 .. n /\ BlockOf[c] \notin g.locked
                             THEN before[c] \cap j.words[c - j.at + 1] ELSE before[c]
        <3>1. BlockOf[c] \notin flash.locked => c # a
            BY <1>8, <2>4 DEF Open
        <3> QED
            BY <1>5, <2>1, <2>4, <3>1 DEF Filled
    <2> QED
        BY <2>1, <2>2, <2>3, <2>4 DEF Filled
<1>9. CASE Open(flash, a)
    <2>1. g.status = flash.status \cup {"ready"}
          /\ g.data = [flash.data EXCEPT ![a] = @ \cap w]
          /\ g.mode = flash.mode /\ g.left = flash.left /\ g.locked = flash.locked
        BY <1>9, FlashAssumption DEF Programmed, FlashInv, Open, Block
    <2>2. g.status = flash.status
        BY <2>1 DEF Filled
    <2>3. (\A i \in 1 .. n : Open(g, j.at + i - 1)) <=> \A i \in 1 .. n - 1 : Open(flash, j.at + i - 1)
        BY <1>3, <1>4, <1>9, <2>1 DEF Open
    <2>4. ASSUME NEW c \in Cells
          PROVE  g.data[c] = IF c - j.at + 1 \in 1 .. n /\ BlockOf[c] \notin g.locked
                             THEN before[c] \cap j.words[c - j.at + 1] ELSE before[c]
        <3>1. CASE c = a
            <4>1. g.data[a] = flash.data[a] \cap w /\ flash.data[a] = before[a]
                BY <1>6, <1>9, <2>1 DEF FlashInv, Open, Filled
            <4> QED
                BY <1>2, <1>7, <1>9, <2>1, <3>1, <4>1 DEF Open
        <3>2. CASE c # a
            <4>1. g.data[c] = flash.data[c]
                BY <2>1, <2>4, <3>2 DEF FlashInv
            <4> QED
                BY <1>5, <2>1, <2>4, <3>2, <4>1 DEF Filled
        <3> QED
            BY <3>1, <3>2
    <2> QED
        BY <2>1, <2>2, <2>3, <2>4 DEF Filled
<1> QED
    BY <1>8, <1>9

(* A write of a value to an address. *)
Is(w, a, value) == w[1] = a /\ w[2] = value

(* What the next write of a job is, of those before it k done. *)
Says(j, k, w) ==
    /\ k = 0 => Is(w, 1, "clear status")
    /\ k + 1 = Writes(j) => Is(w, 1, "read status")
    /\ k = 1 /\ j.kind = "erase" => Is(w, j.at, "erase")
    /\ k = 2 /\ j.kind = "erase" => Is(w, j.at, "confirm")
    /\ k = 1 /\ j.kind \in {"lock", "unlock"} => Is(w, j.at, "lock setup")
    /\ k = 1 /\ j.kind = "program" => Is(w, j.at, "program")
    /\ k = 2 /\ j.kind = "program" => Is(w, j.at, j.words[1])
    /\ k = 1 /\ j.kind = "buffer" => Is(w, j.at, "buffer")
    /\ k = 2 /\ j.kind = "buffer" => Is(w, j.at, Len(j.words) - 1)
    /\ \A i \in 1 .. Len(j.words) :
           k = i + 2 /\ j.kind = "buffer" => Is(w, j.at + i - 1, j.words[i])

LEMMA NthWrite ==
    ASSUME NEW j \in Jobs, NEW k \in 0 .. Writes(j) - 1, NEW w, w = Script(j)[k + 1]
    PROVE  Says(j, k, w)
<1>1. PICK s : s = Script(j)
    OBVIOUS
<1>2. /\ s[1] = <<1, "clear status">>
      /\ s[Writes(j)] = <<1, "read status">>
    BY <1>1, ScriptSays
<1>3. j.kind = "erase" => s[2] = <<j.at, "erase">> /\ s[3] = <<j.at, "confirm">>
    BY <1>1, ScriptSays
<1>4. j.kind \in {"lock", "unlock"} => s[2] = <<j.at, "lock setup">>
    BY <1>1, ScriptSays
<1>5. j.kind = "program" => s[2] = <<j.at, "program">> /\ s[3] = <<j.at, j.words[1]>>
    BY <1>1, ScriptSays
<1>6. j.kind = "buffer" => s[2] = <<j.at, "buffer">> /\ s[3] = <<j.at, Len(j.words) - 1>>
    BY <1>1, ScriptSays
<1>7. ASSUME NEW i \in 1 .. Len(j.words), j.kind = "buffer"
      PROVE  s[i + 3] = <<j.at + i - 1, j.words[i]>>
    BY <1>1, <1>7, ScriptSays
<1>8. w = s[k + 1]
    BY <1>1
<1> HIDE <1>1
<1>9. /\ k = 0 => w = s[1]
      /\ k + 1 = Writes(j) => w = s[Writes(j)]
    BY <1>8
<1>10. k = 1 => w = s[2]
    BY <1>8
<1>11. k = 2 => w = s[3]
    BY <1>8
<1>12. ASSUME NEW i \in 1 .. Len(j.words), k = i + 2 PROVE w = s[i + 3]
    <2>1. k + 1 = i + 3
        BY <1>12, JobsAssumption
    <2> QED
        BY <1>8, <2>1
<1>13. /\ k = 0 => w = <<1, "clear status">>
       /\ k + 1 = Writes(j) => w = <<1, "read status">>
    BY <1>2, <1>9
<1>14. /\ k = 1 /\ j.kind = "erase" => w = <<j.at, "erase">>
       /\ k = 2 /\ j.kind = "erase" => w = <<j.at, "confirm">>
    BY <1>3, <1>10, <1>11
<1>15. k = 1 /\ j.kind \in {"lock", "unlock"} => w = <<j.at, "lock setup">>
    BY <1>4, <1>10
<1>16. /\ k = 1 /\ j.kind = "program" => w = <<j.at, "program">>
       /\ k = 2 /\ j.kind = "program" => w = <<j.at, j.words[1]>>
    BY <1>5, <1>10, <1>11
<1>17. /\ k = 1 /\ j.kind = "buffer" => w = <<j.at, "buffer">>
       /\ k = 2 /\ j.kind = "buffer" => w = <<j.at, Len(j.words) - 1>>
    BY <1>6, <1>10, <1>11
<1>18. \A i \in 1 .. Len(j.words) :
           k = i + 2 /\ j.kind = "buffer" => w = <<j.at + i - 1, j.words[i]>>
    BY <1>7, <1>12
<1>19. ASSUME NEW a, NEW value, w = <<a, value>>
       PROVE  Is(w, a, value)
    BY <1>19 DEF Is

<1> QED
    BY <1>13, <1>14, <1>15, <1>16, <1>17, <1>18, <1>19, JobsAssumption, Zenon DEF Says

(* A buffer whose confirmation is written is at the last stage. *)
LEMMA LastStage ==
    ASSUME NEW f, NEW j, NEW before, NEW k, j.kind = "buffer",
           k \notin {0, 1, 2}, k \notin 3 .. Len(j.words) + 3,
           f.mode = "status", Filled(f, j, before, Len(j.words))
    PROVE  Stage(f, j, before, k)
    BY Zenon DEF Stage

(* The next write of a job takes the chips to the next stage. *)
LEMMA NextStage ==
    ASSUME FlashInv, NEW j \in Jobs, NEW before, NEW k \in 0 .. Writes(j) - 1,
           Stage(flash, j, before, k), NEW w,
           w = Script(j)[k + 1], NEW g, g = Written(flash, w[1], w[2])
    PROVE  Stage(g, j, before, k + 1)
<1> DEFINE n == Len(j.words)
<1>0. Says(j, k, w)
    BY NthWrite, Zenon
<1>1. n \in Nat \ {0} /\ j.at \in Cells /\ j.at \in Nat /\ Writes(j) \in Nat
    BY JobsAssumption DEF Cells, Writes
<1>2. j.kind \in {"erase", "lock", "unlock", "program", "buffer"}
    BY JobsAssumption
<1>3. k \in Nat /\ k + 1 \in Nat /\ k + 1 # 0
    BY <1>1
<1>4. ASSUME flash.status = {"ready"}, flash.data = before
      PROVE  Filled(flash, j, before, 0)
    BY <1>1, <1>4 DEF Filled
<1>5. CASE k = 0
    <2>1. w[2] = "clear status"
        BY <1>0, <1>5 DEF Says, Is
    <2>4. flash.mode = "array" /\ flash.data = before
        BY <1>5 DEF Stage
    <2>5. g = Command(flash, w[2])
        BY <2>4 DEF Written
    <2>2. g = [flash EXCEPT !.mode = "array", !.status = {"ready"}]
        BY <2>1, <2>5 DEF Command
    <2>3. g.mode = "array" /\ Untouched(g, before)
        BY <1>5, <2>2 DEF Stage, Untouched, FlashInv
    <2> QED
        BY <1>1, <1>5, <2>3 DEF Stage
<1>6. CASE k = 1
    <2>1. flash.mode = "array" /\ Untouched(flash, before)
        BY <1>6 DEF Stage
    <2> DEFINE cmd == w[2]
    <2>2. g = Command(flash, cmd)
        BY <1>6, <2>1 DEF Written
    <2>3. /\ j.kind = "erase" => cmd = "erase"
          /\ j.kind = "program" => cmd = "program"
          /\ j.kind \in {"lock", "unlock"} => cmd = "lock setup"
          /\ j.kind = "buffer" => cmd = "buffer"
        BY <1>0, <1>6 DEF Says, Is
    <2> HIDE DEF cmd
    <2>4. /\ j.kind = "erase" => g = [flash EXCEPT !.mode = "erase"]
          /\ j.kind = "program" => g = [flash EXCEPT !.mode = "program"]
          /\ j.kind \in {"lock", "unlock"} => g = [flash EXCEPT !.mode = "lock"]
          /\ j.kind = "buffer" => g = [flash EXCEPT !.mode = "count"]
        BY <2>2, <2>3 DEF Command
    <2>5. Untouched(g, before)
        BY <1>2, <2>1, <2>4 DEF Untouched, FlashInv
    <2>6. /\ j.kind = "erase" => g.mode = "erase"
          /\ j.kind = "program" => g.mode = "program"
          /\ j.kind \in {"lock", "unlock"} => g.mode = "lock"
          /\ j.kind = "buffer" => g.mode = "count"
        BY <2>4 DEF FlashInv
    <2>7. k + 1 = 2 /\ ~(2 > n + 3) /\ 2 \notin 3 .. n + 3
        BY <1>1, <1>6
    <2> QED
        BY <2>5, <2>6, <2>7 DEF Stage
<1>7. CASE k > 1 /\ j.kind = "erase"
    <2>1. k \in {2, 3} /\ Writes(j) = 4
        BY <1>1, <1>3, <1>7 DEF Writes
    <2>2. CASE k = 2
        <3>1. flash.mode = "erase" /\ Untouched(flash, before)
            BY <1>7, <2>2 DEF Stage
        <3>2. w[1] = j.at /\ w[2] = "confirm"
            BY <1>0, <1>7, <2>2 DEF Says, Is
        <3>3. Block(j.at) = BlockOf[j.at]
            BY <1>1 DEF Block
        <3>4. g = [Erased(flash, BlockOf[j.at]) EXCEPT !.mode = "status"]
            BY <3>1, <3>2, <3>3 DEF Written
        <3>5. CASE BlockOf[j.at] \in flash.locked
            <4>1. /\ g.status = flash.status \cup {"erase"} /\ g.data = flash.data
                  /\ g.locked = flash.locked /\ g.mode = "status"
                BY <3>4, <3>5 DEF Erased, FlashInv
            <4>2. Cleaned(g, j, before)
                BY <3>1, <3>5, <4>1 DEF Cleaned, Untouched
            <4> QED
                BY <1>7, <2>2, <4>1, <4>2 DEF Stage
        <3>6. CASE BlockOf[j.at] \notin flash.locked
            <4>1. /\ g.status = flash.status \cup {"ready"}
                  /\ g.data = [a \in Cells |-> IF BlockOf[a] = BlockOf[j.at] THEN Bits ELSE flash.data[a]]
                  /\ g.locked = flash.locked /\ g.mode = "status"
                BY <3>4, <3>6 DEF Erased, FlashInv
            <4>2. Cleaned(g, j, before)
                BY <3>1, <3>6, <4>1 DEF Cleaned, Untouched
            <4> QED
                BY <1>7, <2>2, <4>1, <4>2 DEF Stage
        <3> QED
            BY <3>5, <3>6
    <2>3. CASE k = 3
        <3>1. flash.mode = "status" /\ Cleaned(flash, j, before)
            BY <1>7, <2>3 DEF Stage
        <3>2. w[2] = "read status"
            <4>1. k + 1 = Writes(j)
                BY <2>1, <2>3
            <4> QED
                BY <1>0, <4>1 DEF Says, Is
        <3>5. g = Command(flash, w[2])
            BY <3>1 DEF Written
        <3>3. g = [flash EXCEPT !.mode = "status"]
            BY <3>2, <3>5 DEF Command
        <3>4. g.mode = "status" /\ Cleaned(g, j, before)
            BY <3>1, <3>3 DEF Cleaned, FlashInv
        <3> QED
            BY <1>7, <2>3, <3>4 DEF Stage
    <2> QED
        BY <2>1, <2>2, <2>3
<1>8. CASE k > 1 /\ j.kind = "program"
    <2>1. k \in {2, 3} /\ Writes(j) = 4
        BY <1>1, <1>3, <1>8 DEF Writes
    <2>2. CASE k = 2
        <3>1. flash.mode = "program" /\ Untouched(flash, before)
            BY <1>8, <2>2 DEF Stage
        <3>2. w[1] = j.at /\ w[2] = j.words[1]
            BY <1>0, <1>8, <2>2 DEF Says, Is
        <3> DEFINE h == Programmed(flash, j.at + 1 - 1, j.words[1])
        <3>3. j.at + 1 - 1 = j.at /\ 1 \in 1 .. n /\ 1 - 1 = 0
            BY <1>1
        <3>4. g = [h EXCEPT !.mode = "status"]
            BY <3>1, <3>2, <3>3 DEF Written
        <3>5. Filled(flash, j, before, 1 - 1)
            BY <1>4, <3>1, <3>3 DEF Untouched
        <3>6. Filled(h, j, before, 1) /\ h.locked = flash.locked
            BY <3>3, <3>5, WordFilled
        <3>7. /\ g.mode = "status" /\ g.status = h.status /\ g.data = h.data /\ g.locked = h.locked
            BY <3>4 DEF Programmed, FlashInv
        <3> HIDE DEF h
        <3>8. Filled(g, j, before, 1)
            BY <3>6, <3>7 DEF Filled, Open
        <3> QED
            BY <1>8, <2>2, <3>7, <3>8 DEF Stage
    <2>3. CASE k = 3
        <3>1. flash.mode = "status" /\ Filled(flash, j, before, 1)
            BY <1>8, <2>3 DEF Stage
        <3>2. w[2] = "read status"
            <4>1. k + 1 = Writes(j)
                BY <2>1, <2>3
            <4> QED
                BY <1>0, <4>1 DEF Says, Is
        <3>5. g = Command(flash, w[2])
            BY <3>1 DEF Written
        <3>3. g = [flash EXCEPT !.mode = "status"]
            BY <3>2, <3>5 DEF Command
        <3>4. g.mode = "status" /\ Filled(g, j, before, 1)
            BY <3>1, <3>3 DEF Filled, Open, FlashInv
        <3> QED
            BY <1>8, <2>3, <3>4 DEF Stage
    <2> QED
        BY <2>1, <2>2, <2>3
<1>9. CASE k > 1 /\ j.kind \in {"lock", "unlock"}
    <2>1. k \in {2, 3} /\ Writes(j) = 4
        BY <1>1, <1>3, <1>9 DEF Writes
    <2>2. CASE k = 2
        <3>1. flash.mode = "lock"
            BY <1>9, <2>2 DEF Stage
        <3>2. g.mode = "status"
            BY <3>1 DEF Written, FlashInv
        <3> QED
            BY <1>9, <2>2, <3>2 DEF Stage
    <2>3. CASE k = 3
        <3>1. flash.mode = "status"
            BY <1>9, <2>3 DEF Stage
        <3>2. w[2] = "read status"
            <4>1. k + 1 = Writes(j)
                BY <2>1, <2>3
            <4> QED
                BY <1>0, <4>1 DEF Says, Is
        <3>5. g = Command(flash, w[2])
            BY <3>1 DEF Written
        <3>3. g = [flash EXCEPT !.mode = "status"]
            BY <3>2, <3>5 DEF Command
        <3>4. g.mode = "status"
            BY <3>3 DEF FlashInv
        <3> QED
            BY <1>9, <2>3, <3>4 DEF Stage
    <2> QED
        BY <2>1, <2>2, <2>3
<1>10. CASE k > 1 /\ j.kind = "buffer"
    <2>1. Writes(j) = n + 5
        BY <1>10 DEF Writes
    <2>2. CASE k = 2
        <3>1. flash.mode = "count" /\ Untouched(flash, before)
            BY <1>10, <2>2 DEF Stage
        <3>2. w[2] = n - 1
            BY <1>0, <1>10, <2>2 DEF Says, Is
        <3>3. g = [flash EXCEPT !.mode = "data", !.left = n - 1 + 1]
            BY <3>1, <3>2 DEF Written, Counted
        <3>4. /\ g.mode = "data" /\ g.left = n - 1 + 1 /\ g.status = flash.status
              /\ g.data = flash.data /\ g.locked = flash.locked
            BY <3>3 DEF FlashInv
        <3>5. Filled(g, j, before, 0)
            BY <1>4, <3>1, <3>4 DEF Untouched, Filled, Open
        <3>6. /\ k + 1 = 3 /\ n - 1 + 1 = n + 3 - 3 /\ 3 - 3 = 0 /\ 3 # n + 3
              /\ ~(3 > n + 3) /\ 3 \in 3 .. n + 3
            BY <1>1, <2>2
        <3> QED
            BY <1>10, <3>4, <3>5, <3>6 DEF Stage
    <2>3. CASE k \in 3 .. n + 2
        <3>0. PICK i \in Int : i = k - 2
            BY <1>3
        <3>10. k = i + 2 /\ i \in 1 .. n
            BY <1>1, <1>3, <2>3, <3>0
        <3>1. /\ i \in 1 .. n /\ i - 1 = k - 3 /\ k + 1 = i + 3 /\ k + 1 - 3 = i
              /\ k \in 3 .. n + 3 /\ k # n + 3 /\ k + 1 \in 3 .. n + 3 /\ ~(k + 1 > n + 3)
              /\ n + 3 - k = n + 1 - i /\ n + 1 - i \in Nat /\ n + 3 - (k + 1) = n + 1 - i - 1
              /\ (k + 1 = n + 3 <=> n + 1 - i = 1) /\ k + 1 # 0 /\ k + 1 # 1 /\ k + 1 # 2
            BY <1>1, <3>10
        <3>2. flash.mode = "data" /\ flash.left = n + 1 - i /\ Filled(flash, j, before, i - 1)
            BY <1>10, <3>1 DEF Stage
        <3>3. w[1] = j.at + i - 1 /\ w[2] = j.words[i]
            BY <1>0, <1>10, <3>10 DEF Says, Is
        <3> DEFINE h == Programmed(flash, j.at + i - 1, j.words[i])
        <3>4. /\ Filled(h, j, before, i)
              /\ h.mode = flash.mode /\ h.left = flash.left /\ h.locked = flash.locked
            BY <3>1, <3>2, WordFilled
        <3>5. g = [h EXCEPT !.left = @ - 1, !.mode = IF flash.left = 1 THEN "confirm" ELSE @]
            BY <3>2, <3>3 DEF Written
        <3>6. h = [data |-> h.data, mode |-> h.mode, status |-> h.status,
                   locked |-> h.locked, left |-> h.left]
            BY DEF Programmed, FlashInv
        <3> HIDE DEF h
        <3>7. /\ g.mode = IF flash.left = 1 THEN "confirm" ELSE h.mode
              /\ g.left = h.left - 1
              /\ g.status = h.status /\ g.data = h.data /\ g.locked = h.locked
            BY <3>5, <3>6
        <3>8. Filled(g, j, before, i)
            BY <3>4, <3>7 DEF Filled, Open
        <3>9. g.mode = (IF k + 1 = n + 3 THEN "confirm" ELSE "data") /\ g.left = n + 3 - (k + 1)
            BY <3>1, <3>2, <3>4, <3>7
        <3> QED
            BY <1>10, <3>1, <3>8, <3>9 DEF Stage
    <2>4. CASE k = n + 3
        <3>1. /\ k \in 3 .. n + 3 /\ k - 3 = n /\ k + 1 > n + 3 /\ k + 1 \notin 3 .. n + 3
              /\ k + 1 # 0 /\ k + 1 # 1 /\ k + 1 # 2
            BY <1>1, <2>4
        <3>2. flash.mode = "confirm" /\ Filled(flash, j, before, n)
            BY <1>10, <2>4, <3>1 DEF Stage
        <3>3. g = [flash EXCEPT !.mode = "status"]
            BY <3>2 DEF Written
        <3>4. g.mode = "status" /\ Filled(g, j, before, n)
            BY <3>2, <3>3 DEF Filled, Open, FlashInv
        <3> QED
            BY <1>10, <3>1, <3>4, LastStage
    <2>5. CASE k = n + 4
        <3>1. /\ k > n + 3 /\ k + 1 = n + 5 /\ k + 1 > n + 3 /\ k + 1 \notin 3 .. n + 3
              /\ k + 1 # 0 /\ k + 1 # 1 /\ k + 1 # 2
            BY <1>1, <2>5
        <3>2. flash.mode = "status" /\ Filled(flash, j, before, n)
            BY <1>10, <3>1 DEF Stage
        <3>3. w[2] = "read status"
            <4>1. k + 1 = Writes(j)
                BY <2>1, <3>1
            <4> QED
                BY <1>0, <4>1 DEF Says, Is
        <3>6. g = Command(flash, w[2])
            BY <3>2 DEF Written
        <3>4. g = [flash EXCEPT !.mode = "status"]
            BY <3>3, <3>6 DEF Command
        <3>5. g.mode = "status" /\ Filled(g, j, before, n)
            BY <3>2, <3>4 DEF Filled, Open, FlashInv
        <3>7. PICK q : q = k + 1
            OBVIOUS
        <3>8. q \notin {0, 1, 2} /\ q \notin 3 .. n + 3
            BY <3>1, <3>7
        <3>9. Stage(g, j, before, q)
            BY <1>10, <3>5, <3>8, LastStage, Zenon
        <3> QED
            BY <3>7, <3>9
    <2>6. k = 2 \/ k \in 3 .. n + 2 \/ k = n + 3 \/ k = n + 4
        <3>1. PICK m \in Nat : m = n
            BY <1>1
        <3>2. k \in Nat /\ k > 1 /\ k <= m + 4
            BY <1>3, <1>10, <2>1, <3>1
        <3>3. k = 2 \/ k \in 3 .. m + 2 \/ k = m + 3 \/ k = m + 4
            BY <3>1, <3>2
        <3> QED
            BY <3>1, <3>3, Zenon
    <2> QED
        BY <2>2, <2>3, <2>4, <2>5, <2>6
<1>11. k = 0 \/ k = 1 \/ k > 1
    BY <1>3
<1> QED
    BY <1>2, <1>5, <1>6, <1>7, <1>8, <1>9, <1>10, <1>11

(* A job all of whose writes are made has come to its last stage. *)
LEMMA AtTheEnd ==
    ASSUME JobInv, script = << >>, job.kind # "none"
    PROVE  /\ job.ask \in Jobs /\ job.kind = job.ask.kind
           /\ flash.mode = "status"
           /\ job.kind = "erase" => Cleaned(flash, job.ask, job.before)
           /\ job.kind \in {"program", "buffer"} =>
                  Filled(flash, job.ask, job.before, Len(job.ask.words))
<1>1. PICK j : j = job.ask
    OBVIOUS
<1>2. PICK before : before = job.before
    OBVIOUS
<1>3. j \in Jobs /\ job.kind = j.kind
    BY <1>1 DEF JobInv
<1>4. PICK k \in 0 .. Writes(j) : Remains(j, k) /\ Stage(flash, j, before, k)
    BY <1>1, <1>2 DEF JobInv
<1>5. k = Writes(j)
    BY <1>3, <1>4, NextWrite, Zenon
<1>6. j.kind \in {"erase", "lock", "unlock", "program", "buffer"} /\ Len(j.words) \in Nat
    BY <1>3, JobsAssumption
<1>7. j.kind # "buffer" => k > 2 /\ Len(j.words) = 1
    BY <1>3, <1>5, JobsAssumption DEF Writes
<1>8. j.kind = "buffer" => k > Len(j.words) + 3
    BY <1>5, <1>6 DEF Writes
<1>9. /\ flash.mode = "status"
      /\ j.kind = "erase" => Cleaned(flash, j, before)
      /\ j.kind = "program" => Filled(flash, j, before, 1)
      /\ j.kind = "buffer" => Filled(flash, j, before, Len(j.words))
    BY <1>4, <1>6, <1>7, <1>8 DEF Stage
<1> QED
    BY <1>1, <1>2, <1>3, <1>6, <1>7, <1>9

LEMMA JobsDone ==
    ASSUME FlashInv, JobInv
    PROVE  FailuresAreTold
<1> SUFFICES ASSUME script = << >>, job.kind \in {"erase", "program", "buffer"}
             PROVE  FailuresAreTold
    BY DEF FailuresAreTold
<1>1. PICK j : j = job.ask
    OBVIOUS
<1>2. PICK before : before = job.before
    OBVIOUS
<1>3. j \in Jobs /\ job.kind = j.kind /\ flash.mode = "status"
    BY <1>1, AtTheEnd
<1>4. Shown(flash, 1) = flash.status
    BY <1>3 DEF Shown
<1>5. Len(j.words) \in Nat /\ DOMAIN j.words = 1 .. Len(j.words) /\ j.at \in Cells /\ j.at \in Nat
    BY <1>3, JobsAssumption DEF Cells
<1> DEFINE asked(a) == IF job.kind = "erase"
                       THEN IF BlockOf[a] = BlockOf[j.at] THEN Bits ELSE before[a]
                       ELSE IF a - j.at + 1 \in DOMAIN j.words
                            THEN before[a] \cap j.words[a - j.at + 1]
                            ELSE before[a]
           Wanted == {j.at + i - 1 : i \in DOMAIN j.words}
           Free == {a \in Cells : BlockOf[a] \notin flash.locked}
<1>6. CASE job.kind = "erase"
    <2>1. Cleaned(flash, j, before)
        BY <1>1, <1>2, <1>6, AtTheEnd
    <2>2. Len(j.words) = 1
        BY <1>3, <1>6, JobsAssumption
    <2>3. DOMAIN j.words = {1} /\ j.at + 1 - 1 = j.at
        BY <1>5, <2>2
    <2>4. Wanted = {j.at}
        BY <2>3
    <2>5. flash.status = {"ready"} <=> Wanted \subseteq Free
        BY <1>5, <2>1, <2>4 DEF Cleaned
    <2>6. \A a \in Cells : flash.data[a] = IF BlockOf[a] \in flash.locked
                                           THEN before[a] ELSE asked(a)
        BY <1>6, <2>1 DEF Cleaned
    <2> QED
        BY <1>1, <1>2, <1>4, <2>5, <2>6 DEF FailuresAreTold
<1>7. CASE job.kind \in {"program", "buffer"}
    <2>1. Filled(flash, j, before, Len(j.words))
        BY <1>1, <1>2, <1>7, AtTheEnd
    <2>5. flash.status = {"ready"} <=> Wanted \subseteq Free
        BY <1>5, <2>1 DEF Filled, Open
    <2>6. \A a \in Cells : flash.data[a] = IF BlockOf[a] \in flash.locked
                                           THEN before[a] ELSE asked(a)
        BY <1>5, <1>7, <2>1 DEF Filled
    <2> QED
        BY <1>1, <1>2, <1>4, <2>5, <2>6 DEF FailuresAreTold
<1> QED
    BY <1>6, <1>7

(* What the driver does, and what breaks it off, keep to the script. *)
LEMMA JobStep ==
    ASSUME FlashInv, JobInv, [FlashNext]_flashVars
    PROVE  JobInv'
<1>1. ASSUME NEW j \in Jobs, Begin(j) PROVE JobInv'
    <2>1. j.kind \in {"erase", "lock", "unlock", "program", "buffer"} /\ Writes(j) \in Nat
        BY JobsAssumption DEF Writes
    <2>2. /\ job' = [ask |-> j, before |-> flash.data, kind |-> j.kind]
          /\ script' = Script(j) /\ flash' = flash /\ flash.mode = "array"
        BY <1>1 DEF Begin, JobInv
    <2>3. job'.ask = j /\ job'.before = flash.data /\ job'.kind = j.kind /\ job'.kind # "none"
        BY <2>1, <2>2
    <2>4. 0 \in 0 .. Writes(j) /\ Writes(j) - 0 = Writes(j)
        BY <2>1
    <2>5. Remains(j, 0)'
        <3>1. Script(j) = [i \in 1 .. Writes(j) |-> Script(j)[i]]
            BY ScriptSays, Zenon
        <3>2. \A i \in 1 .. Writes(j) : Script(j)[i] = Script(j)[0 + i]
            BY <2>1
        <3>3. script' = [i \in 1 .. Writes(j) - 0 |-> Script(j)[0 + i]]
            BY <2>2, <2>4, <3>1, <3>2
        <3> QED
            BY <3>3 DEF Remains
    <2>6. Stage(flash', j, flash.data, 0)
        BY <2>2 DEF Stage
    <2> QED
        BY <1>1, <2>3, <2>4, <2>5, <2>6, Zenon DEF JobInv
<1>2. CASE BusWrite
    <2>1. job.kind # "none"
        BY <1>2 DEF BusWrite, JobInv
    <2>2. PICK j : j = job.ask
        OBVIOUS
    <2>3. PICK before : before = job.before
        OBVIOUS
    <2>4. j \in Jobs /\ job.kind = j.kind
        BY <2>1, <2>2 DEF JobInv
    <2>5. PICK k \in 0 .. Writes(j) : Remains(j, k) /\ Stage(flash, j, before, k)
        BY <2>1, <2>2, <2>3 DEF JobInv
    <2>6. PICK w : w = Script(j)[k + 1]
        OBVIOUS
    <2>7. /\ Writes(j) \in Nat /\ k # Writes(j) /\ script[1] = w
          /\ Tail(script) = [i \in 1 .. Writes(j) - (k + 1) |-> Script(j)[k + 1 + i]]
        <3>1. script # << >>
            BY <1>2 DEF BusWrite
        <3> QED
            BY <2>4, <2>5, <2>6, <3>1, NextWrite, Zenon
    <2>8. k \in 0 .. Writes(j) - 1 /\ k + 1 \in 0 .. Writes(j)
        BY <2>7
    <2>9. flash' = Written(flash, w[1], w[2]) /\ script' = Tail(script) /\ job' = job
        BY <1>2, <2>7 DEF BusWrite
    <2>10. PICK g : g = Written(flash, w[1], w[2])
        OBVIOUS
    <2>11. Stage(g, j, before, k + 1)
        BY <2>4, <2>5, <2>6, <2>8, <2>10, NextStage, Zenon
    <2>12. Stage(flash', j, before, k + 1)
        BY <2>9, <2>10, <2>11, Zenon
    <2>13. Remains(j, k + 1)'
        BY <2>7, <2>9 DEF Remains
    <2>14. job'.ask = j /\ job'.before = before /\ job'.kind = j.kind /\ job'.kind # "none"
        BY <2>1, <2>2, <2>3, <2>4, <2>9
    <2> QED
        BY <2>4, <2>8, <2>12, <2>13, <2>14, Zenon DEF JobInv
<1>3. CASE Finish
    <2>1. flash.mode \in {"status", "array"}
        <3>1. script = << >> /\ job.kind # "none"
            BY <1>3 DEF Finish
        <3> QED
            BY <3>1, AtTheEnd
    <2>2. flash'.mode = "array"
        <3>1. flash' = Command(flash, "read array")
            BY <1>3, <2>1 DEF Finish, Written
        <3>2. flash' = [flash EXCEPT !.mode = "array"]
            BY <3>1 DEF Command
        <3> QED
            BY <3>2 DEF FlashInv
    <2> QED
        BY <1>3, <2>2 DEF Finish, JobInv, Idle
<1>4. CASE PutBack
    <2>1. flash'.mode = "array"
        BY <1>4 DEF PutBack, FlashInv
    <2> QED
        BY <1>4, <2>1 DEF PutBack, JobInv, Idle
<1>5. CASE UNCHANGED flashVars
    BY <1>5 DEF flashVars, JobInv, Remains
<1> QED
    BY <1>1, <1>2, <1>3, <1>4, <1>5 DEF FlashNext

(* When the driver looks at the status after what it asked, it is told of  *)
(* a failure just when something of it was not done, and nothing else was  *)
(* changed: whatever the chips, the jobs and the restarts (flash.rs).      *)
THEOREM FailuresTold == FlashSpec => []FailuresAreTold
<1>1. FlashInit => FlashInv /\ JobInv
    BY FlashAssumption DEF FlashInit, FlashInv, JobInv, Idle
<1>2. FlashInv /\ JobInv /\ [FlashNext]_flashVars => FlashInv' /\ JobInv'
    BY FlashStep, JobStep
<1>3. FlashInv /\ JobInv => FailuresAreTold
    BY JobsDone
<1> QED
    BY <1>1, <1>2, <1>3, PTL DEF FlashSpec

-----------------------------------------------------------------------------
(* The PC card. *)

HalfWords == Halves \cup {"zero", "identity"}
OneSector == HalfWords \X HalfWords

CardShape(c) ==
    c = [data |-> c.data, status |-> c.status, error |-> c.error, count |-> c.count,
         lba |-> c.lba, buffer |-> c.buffer, at |-> c.at, phase |-> c.phase,
         remaining |-> c.remaining]

(* The first k sectors of a request have been read from the disk.          *)
Got(m, d, lba, k) ==
    \A i \in 0 .. k - 1 :
        lba + i \in Disk /\ m[2 * i + 1] = d[lba + i][1] /\ m[2 * i + 2] = d[lba + i][2]

(* They have been written to it, as far as it reaches, and nothing else.   *)
Put(m, d, before, lba, k) ==
    \A s \in Disk :
        d[s] = IF s - lba \in 0 .. k - 1
               THEN <<m[2 * (s - lba) + 1], m[2 * (s - lba) + 2]>> ELSE before[s]

(* The card and the driver agree how many sectors were moved, and of the   *)
(* one that is being moved how much.                                       *)
InStep(c, q, k) ==
    /\ c.lba = q.ask.lba + k
    /\ c.remaining = Taken(q.ask) - k \/ (c.remaining = 0 /\ Taken(q.ask) = 1)
    /\ c.at \in {0, 1}
    /\ Len(q.moved) = 2 * k + c.at

Reading(c, q, k) ==
    /\ c.phase = "reading" /\ InStep(c, q, k)
    /\ c.lba \in Disk /\ c.buffer = c.data[c.lba]
    /\ Got(q.moved, c.data, q.ask.lba, k)
    /\ c.at = 1 => q.moved[2 * k + 1] = c.buffer[1]

Writing(c, q, k) ==
    /\ c.phase = "writing" /\ InStep(c, q, k)
    /\ c.buffer \in OneSector
    /\ Put(q.moved, c.data, q.before, q.ask.lba, k)
    /\ c.at = 1 => q.moved[2 * k + 1] = c.buffer[1]

Identifying(c, q) ==
    /\ c.phase = "reading" /\ c.remaining \in {0, 1}
    /\ c.buffer = Identity
    /\ c.at \in {0, 1} /\ q.moved = IF c.at = 0 THEN << >> ELSE << "identity" >>

(* A request is being served or is over, as the card's status tells.       *)
Served(c, q) ==
    /\ q.kind = "identify" =>
           IF "drq" \in c.status THEN Identifying(c, q) ELSE q.moved = Identity
    /\ q.kind = "read" =>
           IF "drq" \in c.status THEN \E k \in 0 .. Taken(q.ask) - 1 : Reading(c, q, k)
           ELSE "err" \in c.status
                \/ /\ Len(q.moved) = 2 * Taken(q.ask)
                   /\ Got(q.moved, c.data, q.ask.lba, Taken(q.ask))
    /\ q.kind = "write" =>
           IF "drq" \in c.status THEN \E k \in 0 .. Taken(q.ask) - 1 : Writing(c, q, k)
           ELSE "err" \in c.status
                \/ /\ Len(q.moved) = 2 * Taken(q.ask)
                   /\ Put(q.moved, c.data, q.before, q.ask.lba, Taken(q.ask))
    /\ q.kind \notin {"identify", "read", "write"} => c.data = q.before

AtaInv(q) ==
    /\ q = [kind |-> q.kind, ask |-> q.ask, moved |-> q.moved, before |-> q.before]
    /\ q.ask \in Requests
    /\ q.kind = q.ask.kind
    /\ q.moved \in Seq(HalfWords)

CardInv ==
    /\ CardShape(card)
    /\ card.data \in [Disk -> OneSector]
    /\ ata.kind # "none" => AtaInv(ata) /\ Served(card, ata)

(* The operators of the card, in terms of what they change. *)
LEMMA CountKept ==
    ASSUME NEW n \in 1 .. Counts
    PROVE  n % Counts = IF n = Counts THEN 0 ELSE n
    BY CardAssumption

LEMMA OneKept == 1 % Counts \in {0, 1}
    BY CardAssumption

LEMMA AppendIs ==
    ASSUME NEW S, NEW m \in Seq(S), NEW x \in S
    PROVE  /\ Append(m, x) \in Seq(S)
           /\ Len(Append(m, x)) = Len(m) + 1
           /\ \A i \in 1 .. Len(m) : Append(m, x)[i] = m[i]
           /\ Append(m, x)[Len(m) + 1] = x
    BY AppendProperties

LEMMA PairOf ==
    ASSUME NEW S, NEW m \in Seq(S), NEW i \in Nat, i + 2 <= Len(m)
    PROVE  SubSeq(m, i + 1, i + 2) = <<m[i + 1], m[i + 2]>>
<1>1. PICK p : p = SubSeq(m, i + 1, i + 2)
    OBVIOUS
<1>2. p \in Seq(S) /\ Len(p) = 2 /\ \A x \in 1 .. 2 : p[x] = m[i + x]
    BY <1>1, SubSeqProperties
<1>3. p[1] = m[i + 1] /\ p[2] = m[i + 2]
    BY <1>2
<1>4. p = <<p[1], p[2]>>
    BY <1>2
<1> QED
    BY <1>1, <1>3, <1>4

LEMMA BeginReadIs ==
    ASSUME NEW c, CardShape(c), NEW n
    PROVE  LET d == BeginRead(c, n)
           IN  /\ CardShape(d)
               /\ d.data = c.data /\ d.lba = c.lba /\ d.buffer = c.buffer
               /\ d.at = 0 /\ d.remaining = n % Counts /\ d.phase = "reading"
               /\ d.status = {"ready", "drq"}
<1>1. PICK x : x = n % Counts
    OBVIOUS
<1>2. PICK d : d = [c EXCEPT !.at = 0, !.remaining = x, !.phase = "reading",
                             !.status = {"ready", "drq"}]
    OBVIOUS
<1>3. d = BeginRead(c, n)
    BY <1>1, <1>2 DEF BeginRead
<1>4. /\ CardShape(d)
      /\ d.data = c.data /\ d.lba = c.lba /\ d.buffer = c.buffer
      /\ d.at = 0 /\ d.remaining = x /\ d.phase = "reading"
      /\ d.status = {"ready", "drq"}
    BY <1>2 DEF CardShape
<1> HIDE <1>2
<1> QED
    BY <1>1, <1>3, <1>4

LEMMA FailIs ==
    ASSUME NEW c, CardShape(c)
    PROVE  LET d == Fail(c)
           IN  CardShape(d) /\ d.data = c.data /\ d.status = {"ready", "err"}
<1>1. PICK d : d = [c EXCEPT !.status = {"ready", "err"}, !.error = "aborted", !.phase = "idle"]
    OBVIOUS
<1>2. CardShape(d) /\ d.data = c.data /\ d.status = {"ready", "err"}
    BY <1>1 DEF CardShape
<1> QED
    BY <1>1, <1>2 DEF Fail

(* What a read of the data port does to a card that is reading. *)
LEMMA TakeDataIs ==
    ASSUME NEW c, CardShape(c), c.phase = "reading", c.at \in {0, 1}, NEW d, d = TakeData(c)
    PROVE  /\ CardShape(d) /\ d.data = c.data
           /\ c.at = 0 =>
                  /\ d.status = c.status /\ d.phase = "reading" /\ d.at = 1 /\ d.lba = c.lba
                  /\ d.remaining = c.remaining /\ d.buffer = c.buffer
           /\ c.at = 1 /\ Minus(c.remaining) = 0 => d.status = {"ready"}
           /\ c.at = 1 /\ Minus(c.remaining) # 0 =>
                  IF c.lba + 1 \in Disk
                  THEN /\ d.status = {"ready", "drq"} /\ d.phase = "reading" /\ d.at = 0
                       /\ d.lba = c.lba + 1 /\ d.remaining = c.remaining - 1
                       /\ d.buffer = c.data[c.lba + 1]
                  ELSE d.status = {"ready", "err"}
<1>1. CASE c.at = 0
    <2>1. d = [c EXCEPT !.at = 1]
        BY <1>1 DEF TakeData, SectorWords
    <2> QED
        BY <1>1, <2>1 DEF CardShape
<1>2. CASE c.at = 1 /\ Minus(c.remaining) = 0
    <2>1. d = [c EXCEPT !.at = 2, !.remaining = 0, !.phase = "idle", !.status = {"ready"}]
        BY <1>2 DEF TakeData, SectorWords
    <2>2. CardShape(d) /\ d.data = c.data /\ d.status = {"ready"}
        BY <2>1 DEF CardShape
    <2> QED
        BY <1>2, <2>2
<1>3. CASE c.at = 1 /\ Minus(c.remaining) # 0
    <2>1. PICK next : next = [c EXCEPT !.at = 0, !.remaining = @ - 1, !.lba = @ + 1]
        OBVIOUS
    <2>2. /\ CardShape(next) /\ next.data = c.data /\ next.at = 0 /\ next.lba = c.lba + 1
          /\ next.remaining = c.remaining - 1 /\ next.phase = "reading"
        BY <2>1 DEF CardShape
    <2>3. d = IF next.lba \in Disk THEN [Loaded(next) EXCEPT !.status = {"ready", "drq"}]
                                   ELSE Fail(next)
        BY <1>3, <2>1 DEF TakeData, SectorWords
    <2> HIDE <2>1
    <2>4. CASE next.lba \in Disk
        <3>1. PICK full : full = Loaded(next)
            OBVIOUS
        <3>2. /\ CardShape(full) /\ full.data = c.data /\ full.at = 0 /\ full.lba = c.lba + 1
              /\ full.remaining = c.remaining - 1 /\ full.phase = "reading"
              /\ full.buffer = c.data[c.lba + 1]
            BY <2>2, <3>1 DEF Loaded, CardShape
        <3>3. d = [full EXCEPT !.status = {"ready", "drq"}]
            BY <2>3, <2>4, <3>1
        <3> HIDE <3>1
        <3> QED
            BY <1>3, <2>2, <2>4, <3>2, <3>3 DEF CardShape
    <2>5. CASE next.lba \notin Disk
        BY <1>3, <2>2, <2>3, <2>5, FailIs
    <2> QED
        BY <2>4, <2>5
<1> QED
    BY <1>1, <1>2, <1>3

LEMMA PairChanged ==
    ASSUME NEW S, NEW b \in S \X S, NEW x \in S, NEW i \in {1, 2}
    PROVE  /\ [b EXCEPT ![i] = x] \in S \X S
           /\ i = 1 => [b EXCEPT ![i] = x] = <<x, b[2]>>
           /\ i = 2 => [b EXCEPT ![i] = x] = <<b[1], x>>
<1>1. b = <<b[1], b[2]>> /\ b[1] \in S /\ b[2] \in S
    OBVIOUS
<1> QED
    BY <1>1

(* What a write to the data port does to a card that is writing. *)
LEMMA PutDataIs ==
    ASSUME NEW c, CardShape(c), c.phase = "writing", c.at \in {0, 1}, c.buffer \in OneSector,
           NEW half \in HalfWords, NEW d, d = PutData(c, half)
    PROVE  /\ CardShape(d)
           /\ c.at = 0 =>
                  /\ d.data = c.data /\ d.status = c.status /\ d.phase = "writing" /\ d.at = 1
                  /\ d.lba = c.lba /\ d.remaining = c.remaining
                  /\ d.buffer = <<half, c.buffer[2]>>
           /\ c.at = 1 =>
                  /\ d.buffer = <<c.buffer[1], half>>
                  /\ d.data = IF c.lba \in Disk THEN [c.data EXCEPT ![c.lba] = d.buffer]
                                                ELSE c.data
           /\ c.at = 1 /\ Minus(c.remaining) = 0 => d.status = {"ready"}
           /\ c.at = 1 /\ Minus(c.remaining) # 0 =>
                  /\ d.status = {"ready", "drq"} /\ d.phase = "writing" /\ d.at = 0
                  /\ d.lba = c.lba + 1 /\ d.remaining = c.remaining - 1
<1>1. PICK b : b = [c.buffer EXCEPT ![c.at + 1] = half]
    OBVIOUS
<1>2. /\ b \in OneSector
      /\ c.at = 0 => b = <<half, c.buffer[2]>>
      /\ c.at = 1 => b = <<c.buffer[1], half>>
    <2>1. c.at + 1 \in {1, 2}
        OBVIOUS
    <2> QED
        BY <1>1, <2>1, PairChanged DEF OneSector
<1>3. PICK filled : filled = [c EXCEPT !.buffer[c.at + 1] = half, !.at = @ + 1]
    OBVIOUS
<1>4. PICK stored : stored = IF c.lba \in Disk THEN [filled EXCEPT !.data[c.lba] = filled.buffer]
                                               ELSE filled
    OBVIOUS
<1>5. d = IF filled.at < SectorWords THEN filled
          ELSE IF Minus(c.remaining) = 0
          THEN [stored EXCEPT !.remaining = 0, !.phase = "idle", !.status = {"ready"}]
          ELSE [stored EXCEPT !.remaining = @ - 1, !.lba = @ + 1, !.at = 0,
                              !.status = {"ready", "drq"}]
    BY <1>3, <1>4 DEF PutData
<1>6. /\ CardShape(filled)
      /\ filled.data = c.data /\ filled.status = c.status /\ filled.phase = c.phase
      /\ filled.at = c.at + 1 /\ filled.lba = c.lba /\ filled.remaining = c.remaining
      /\ filled.buffer = b
    BY <1>1, <1>3 DEF CardShape
<1> HIDE <1>3
<1>7. /\ CardShape(stored)
      /\ stored.phase = c.phase /\ stored.lba = c.lba /\ stored.remaining = c.remaining
      /\ stored.buffer = b
      /\ stored.data = IF c.lba \in Disk THEN [c.data EXCEPT ![c.lba] = b] ELSE c.data
    BY <1>4, <1>6 DEF CardShape
<1> HIDE <1>1, <1>4
<1>8. CASE c.at = 0
    <2>1. d = filled
        BY <1>5, <1>6, <1>8 DEF SectorWords
    <2> QED
        BY <1>2, <1>6, <1>8, <2>1
<1>9. CASE c.at = 1 /\ Minus(c.remaining) = 0
    <2>1. d = [stored EXCEPT !.remaining = 0, !.phase = "idle", !.status = {"ready"}]
        BY <1>5, <1>6, <1>9 DEF SectorWords
    <2>2. CardShape(d) /\ d.status = {"ready"} /\ d.data = stored.data /\ d.buffer = b
        BY <1>7, <2>1 DEF CardShape
    <2> QED
        BY <1>2, <1>7, <1>9, <2>2
<1>10. CASE c.at = 1 /\ Minus(c.remaining) # 0
    <2>1. d = [stored EXCEPT !.remaining = @ - 1, !.lba = @ + 1, !.at = 0,
                             !.status = {"ready", "drq"}]
        BY <1>5, <1>6, <1>10 DEF SectorWords
    <2>2. /\ CardShape(d) /\ d.status = {"ready", "drq"} /\ d.data = stored.data /\ d.buffer = b
          /\ d.phase = stored.phase /\ d.lba = stored.lba + 1 /\ d.at = 0
          /\ d.remaining = stored.remaining - 1
        BY <1>7, <2>1 DEF CardShape
    <2> QED
        BY <1>2, <1>7, <1>10, <2>2
<1> QED
    BY <1>8, <1>9, <1>10

(* What a command does to a card. *)
LEMMA IssuedIs ==
    ASSUME NEW c, CardShape(c), NEW cmd, NEW d, d = Issued(c, cmd)
    PROVE  /\ CardShape(d) /\ d.data = c.data
           /\ cmd = "identify" =>
                  /\ d.status = {"ready", "drq"} /\ d.phase = "reading" /\ d.at = 0
                  /\ d.remaining = 1 % Counts /\ d.buffer = Identity
           /\ cmd = "read" =>
                  IF c.lba \in Disk
                  THEN /\ d.status = {"ready", "drq"} /\ d.phase = "reading" /\ d.at = 0
                       /\ d.lba = c.lba /\ d.buffer = c.data[c.lba]
                       /\ d.remaining = (IF c.count = 0 THEN Counts ELSE c.count) % Counts
                  ELSE d.status = {"ready", "err"}
           /\ cmd = "write" =>
                  IF c.lba \in Disk
                  THEN /\ d.status = {"ready", "drq"} /\ d.phase = "writing" /\ d.at = 0
                       /\ d.lba = c.lba /\ d.remaining = c.count
                       /\ d.buffer = << "zero", "zero" >>
                  ELSE d.status = {"ready", "err"}
           /\ cmd \notin {"identify", "read", "write"} => "drq" \notin d.status
<1>1. PICK fresh : fresh = [c EXCEPT !.error = "none", !.status = {"ready"}]
    OBVIOUS
<1>2. /\ CardShape(fresh) /\ fresh.data = c.data /\ fresh.lba = c.lba /\ fresh.count = c.count
      /\ fresh.status = {"ready"}
    BY <1>1 DEF CardShape
<1>3. /\ cmd = "identify" => d = BeginRead([fresh EXCEPT !.buffer = Identity], 1)
      /\ cmd = "read" => d = ReadSectors(fresh)
      /\ cmd = "write" => d = WriteSectors(fresh)
      /\ cmd = "set features" => d = fresh
      /\ cmd = "diagnose" => d = [fresh EXCEPT !.error = "passed"]
      /\ cmd \notin {"identify", "read", "write", "set features", "diagnose"} => d = Fail(fresh)
    BY <1>1 DEF Issued
<1> HIDE <1>1
<1>4. CASE cmd = "identify"
    <2>1. PICK e : e = [fresh EXCEPT !.buffer = Identity]
        OBVIOUS
    <2>2. CardShape(e) /\ e.data = c.data /\ e.buffer = Identity
        BY <1>2, <2>1 DEF CardShape
    <2>3. d = BeginRead(e, 1)
        BY <1>3, <1>4, <2>1
    <2> HIDE <2>1
    <2> QED
        BY <1>4, <2>2, <2>3, BeginReadIs
<1>5. CASE cmd = "read"
    <2>1. CASE c.lba \in Disk
        <3>1. PICK e : e = Loaded(fresh)
            OBVIOUS
        <3>2. /\ CardShape(e) /\ e.data = c.data /\ e.buffer = c.data[c.lba] /\ e.lba = c.lba
            BY <1>2, <3>1 DEF CardShape, Loaded
        <3>3. d = BeginRead(e, IF c.count = 0 THEN Counts ELSE c.count)
            BY <1>2, <1>3, <1>5, <2>1, <3>1 DEF ReadSectors
        <3> HIDE <3>1
        <3> QED
            BY <1>5, <2>1, <3>2, <3>3, BeginReadIs
    <2>2. CASE c.lba \notin Disk
        <3>1. d = Fail(fresh)
            BY <1>2, <1>3, <1>5, <2>2 DEF ReadSectors
        <3> QED
            BY <1>2, <1>5, <2>2, <3>1, FailIs
    <2> QED
        BY <2>1, <2>2
<1>6. CASE cmd = "write"
    <2>1. CASE c.lba \in Disk
        <3>1. d = [fresh EXCEPT !.remaining = fresh.count, !.buffer = << "zero", "zero" >>,
                                !.at = 0, !.phase = "writing", !.status = {"ready", "drq"}]
            BY <1>2, <1>3, <1>6, <2>1 DEF WriteSectors
        <3>2. PICK zeros : zeros = << "zero", "zero" >>
            OBVIOUS
        <3>3. /\ CardShape(d) /\ d.data = fresh.data /\ d.status = {"ready", "drq"}
              /\ d.phase = "writing" /\ d.at = 0 /\ d.lba = fresh.lba
              /\ d.remaining = fresh.count /\ d.buffer = zeros
            BY <1>2, <3>1, <3>2 DEF CardShape
        <3> QED
            BY <1>2, <1>6, <2>1, <3>2, <3>3
    <2>2. CASE c.lba \notin Disk
        <3>1. d = Fail(fresh)
            BY <1>2, <1>3, <1>6, <2>2 DEF WriteSectors
        <3> QED
            BY <1>2, <1>6, <2>2, <3>1, FailIs
    <2> QED
        BY <2>1, <2>2
<1>7. CASE cmd \notin {"identify", "read", "write"}
    <2>1. CASE cmd = "diagnose"
        <3>1. CardShape(d) /\ d.data = fresh.data /\ d.status = fresh.status
            BY <1>2, <1>3, <2>1 DEF CardShape
        <3> QED
            BY <1>2, <1>7, <3>1
    <2>2. CASE cmd = "set features"
        BY <1>2, <1>3, <1>7, <2>2
    <2>3. CASE cmd \notin {"identify", "read", "write", "set features", "diagnose"}
        <3>1. d = Fail(fresh)
            BY <1>3, <2>3
        <3> QED
            BY <1>2, <1>7, <3>1, FailIs
    <2> QED
        BY <1>7, <2>1, <2>2, <2>3
<1> QED
    BY <1>4, <1>5, <1>6, <1>7

(* What the card keeps of the number of sectors. *)
CountsLeft(r) == IF r.sectors = Counts THEN 0 ELSE r.sectors

LEMMA RequestType ==
    ASSUME NEW r \in Requests
    PROVE  /\ r.kind # "none" /\ r.lba \in Nat /\ r.sectors \in 1 .. Counts
           /\ Taken(r) \in Nat \ {0} /\ r.sectors % Counts = CountsLeft(r)
           /\ CountsLeft(r) = Taken(r) \/ (CountsLeft(r) = 0 /\ Taken(r) = 1)
           /\ (IF CountsLeft(r) = 0 THEN Counts ELSE CountsLeft(r)) % Counts = CountsLeft(r)
<1>1. r.kind # "none" /\ r.lba \in Nat /\ r.sectors \in 1 .. Counts
    BY RequestsAssumption
<1>2. PICK n \in 1 .. Counts : n = r.sectors
    BY <1>1
<1>3. n \in Nat \ {0} /\ Counts \in Nat \ {0}
    BY CardAssumption
<1>4. Counts % Counts = 0 /\ n % Counts = IF n = Counts THEN 0 ELSE n
    BY <1>3, CountKept
<1> QED
    BY <1>1, <1>2, <1>3, <1>4 DEF Taken, CountsLeft

(* A request finds the card in any state, and puts it in step with itself. *)
LEMMA IssueServes ==
    ASSUME CardInv, NEW r \in Requests, Issue(r)
    PROVE  CardInv'
<1>1. PICK c : c = [card EXCEPT !.count = r.sectors % Counts, !.lba = r.lba]
    OBVIOUS
<1>2. /\ r.lba \in Nat /\ Taken(r) \in Nat \ {0} /\ r.sectors % Counts = CountsLeft(r)
      /\ CountsLeft(r) = Taken(r) \/ (CountsLeft(r) = 0 /\ Taken(r) = 1)
      /\ (IF CountsLeft(r) = 0 THEN Counts ELSE CountsLeft(r)) % Counts = CountsLeft(r)
      /\ r.kind # "none"
    BY RequestType
<1>3. CardShape(c) /\ c.data = card.data /\ c.count = CountsLeft(r) /\ c.lba = r.lba
    BY <1>1, <1>2 DEF CardInv, CardShape
<1>4. PICK d : d = Issued(c, r.kind)
    OBVIOUS
<1>5. PICK q : q = [kind |-> r.kind, ask |-> r, moved |-> << >>, before |-> card.data]
    OBVIOUS
<1>6. card' = d /\ ata' = q
    BY <1>1, <1>4, <1>5 DEF Issue
<1> HIDE <1>1
<1>7. /\ q.kind = r.kind /\ q.ask = r /\ q.before = card.data
      /\ q = [kind |-> q.kind, ask |-> q.ask, moved |-> q.moved, before |-> q.before]
    BY <1>5
<1>8. q.moved = << >> /\ q.moved \in Seq(HalfWords) /\ Len(q.moved) = 0
    BY <1>5
<1> HIDE <1>5
<1>9. AtaInv(q)
    BY <1>7, <1>8 DEF AtaInv
<1>10. CardShape(d) /\ d.data = card.data
    BY <1>3, <1>4, IssuedIs
<1>11. card.data \in [Disk -> OneSector]
    BY DEF CardInv
<1> SUFFICES Served(d, q)
    BY <1>6, <1>9, <1>10, <1>11 DEF CardInv
<1>12. CASE r.kind = "identify"
    <2>1. /\ d.status = {"ready", "drq"} /\ d.phase = "reading" /\ d.at = 0
          /\ d.remaining = 1 % Counts /\ d.buffer = Identity
        BY <1>3, <1>4, <1>12, IssuedIs
    <2>2. Identifying(d, q)
        BY <1>8, <2>1, OneKept DEF Identifying
    <2>3. "drq" \in d.status
        BY <2>1
    <2> QED
        BY <1>7, <1>12, <2>2, <2>3 DEF Served
<1>13. CASE r.kind = "read" /\ r.lba \in Disk
    <2>1. /\ d.status = {"ready", "drq"} /\ d.phase = "reading" /\ d.at = 0 /\ d.lba = r.lba
          /\ d.buffer = card.data[r.lba]
          /\ d.remaining = (IF CountsLeft(r) = 0 THEN Counts ELSE CountsLeft(r)) % Counts
        BY <1>3, <1>4, <1>13, IssuedIs
    <2>2. d.remaining = CountsLeft(r)
        BY <1>2, <2>1
    <2>3. InStep(d, q, 0)
        BY <1>2, <1>7, <1>8, <2>1, <2>2 DEF InStep
    <2>4. Got(q.moved, d.data, r.lba, 0)
        BY DEF Got
    <2>5. Reading(d, q, 0)
        BY <1>7, <1>10, <1>13, <2>1, <2>3, <2>4 DEF Reading
    <2>6. 0 \in 0 .. Taken(r) - 1 /\ "drq" \in d.status
        BY <1>2, <2>1
    <2> QED
        BY <1>7, <1>13, <2>5, <2>6 DEF Served
<1>14. CASE r.kind = "write" /\ r.lba \in Disk
    <2>1. /\ d.status = {"ready", "drq"} /\ d.phase = "writing" /\ d.at = 0 /\ d.lba = r.lba
          /\ d.remaining = CountsLeft(r) /\ d.buffer = << "zero", "zero" >>
        BY <1>3, <1>4, <1>14, IssuedIs
    <2>2. d.buffer \in OneSector
        BY <2>1 DEF OneSector, HalfWords
    <2>3. InStep(d, q, 0)
        BY <1>2, <1>7, <1>8, <2>1 DEF InStep
    <2>4. Put(q.moved, d.data, q.before, r.lba, 0)
        BY <1>2, <1>7, <1>10, <1>11 DEF Put, Disk
    <2>5. Writing(d, q, 0)
        BY <1>7, <2>1, <2>2, <2>3, <2>4 DEF Writing
    <2>6. 0 \in 0 .. Taken(r) - 1 /\ "drq" \in d.status
        BY <1>2, <2>1
    <2> QED
        BY <1>7, <1>14, <2>5, <2>6 DEF Served
<1>15. CASE r.kind \in {"read", "write"} /\ r.lba \notin Disk
    <2>1. d.status = {"ready", "err"}
        BY <1>3, <1>4, <1>15, IssuedIs
    <2> QED
        BY <1>7, <1>15, <2>1 DEF Served
<1>16. CASE r.kind \notin {"identify", "read", "write"}
    BY <1>7, <1>10, <1>16 DEF Served
<1> QED
    BY <1>12, <1>13, <1>14, <1>15, <1>16

(* The driver takes a halfword of what is read. *)
LEMMA ReadServes ==
    ASSUME CardInv, Read
    PROVE  CardInv'
<1>1. PICK c : c = card
    OBVIOUS
<1>2. PICK o : o = ata
    OBVIOUS
<1>3. PICK d : d = TakeData(c)
    OBVIOUS
<1>4. PICK x : x = DataPort(c)
    OBVIOUS
<1>5. PICK q : q = [o EXCEPT !.moved = Append(@, x)]
    OBVIOUS
<1>6. /\ card' = d /\ ata' = q /\ "drq" \in c.status /\ o.kind \in {"read", "identify"}
    BY <1>1, <1>2, <1>3, <1>4, <1>5 DEF Read
<1>7. CardShape(c) /\ c.data \in [Disk -> OneSector] /\ AtaInv(o) /\ Served(c, o)
    BY <1>1, <1>2, <1>6 DEF CardInv
<1>8. /\ q.kind = o.kind /\ q.ask = o.ask /\ q.before = o.before /\ q.moved = Append(o.moved, x)
      /\ q = [kind |-> q.kind, ask |-> q.ask, moved |-> q.moved, before |-> q.before]
    BY <1>5, <1>7 DEF AtaInv
<1> HIDE <1>5
<1>9. o.moved \in Seq(HalfWords)
    BY <1>7 DEF AtaInv
<1>10. x \in HalfWords => AtaInv(q)
    BY <1>7, <1>8, <1>9, AppendIs DEF AtaInv
<1> SUFFICES CardShape(d) /\ d.data = c.data /\ x \in HalfWords /\ Served(d, q)
    BY <1>6, <1>7, <1>10 DEF CardInv
<1>11. CASE o.kind = "identify"
    <2>1. Identifying(c, o)
        BY <1>6, <1>7, <1>11 DEF Served
    <2>2. /\ c.phase = "reading" /\ c.remaining \in {0, 1} /\ c.buffer = Identity
          /\ c.at \in {0, 1} /\ o.moved = IF c.at = 0 THEN << >> ELSE << "identity" >>
        BY <2>1 DEF Identifying
    <2>3. x = "identity"
        BY <1>4, <2>2 DEF DataPort, SectorWords, Identity
    <2>4. CASE c.at = 0
        <3>1. /\ CardShape(d) /\ d.data = c.data /\ d.status = c.status /\ d.phase = "reading"
              /\ d.at = 1 /\ d.remaining = c.remaining /\ d.buffer = c.buffer
            BY <1>3, <1>7, <2>2, <2>4, TakeDataIs
        <3>2. q.moved = << "identity" >>
            BY <1>8, <2>2, <2>3, <2>4
        <3>3. Identifying(d, q)
            BY <2>2, <3>1, <3>2 DEF Identifying
        <3> QED
            BY <1>6, <1>8, <1>11, <2>3, <3>1, <3>3 DEF Served, HalfWords
    <2>5. CASE c.at = 1
        <3>1. Minus(c.remaining) = 0
            BY <2>2 DEF Minus
        <3>2. CardShape(d) /\ d.data = c.data /\ d.status = {"ready"}
            BY <1>3, <1>7, <2>2, <2>5, <3>1, TakeDataIs
        <3>3. q.moved = Identity
            <4>1. o.moved = << "identity" >> /\ q.moved = Append(o.moved, "identity")
                BY <1>8, <2>2, <2>3, <2>5
            <4>2. "identity" \in HalfWords /\ Len(o.moved) = 1 /\ o.moved[1] = "identity"
                BY <4>1, <2>2, <2>5 DEF HalfWords
            <4>3. PICK p : p = q.moved
                OBVIOUS
            <4>4. p \in Seq(HalfWords) /\ Len(p) = 2 /\ p[1] = "identity" /\ p[2] = "identity"
                BY <1>9, <4>1, <4>2, <4>3, AppendIs
            <4>5. p = <<p[1], p[2]>>
                BY <4>4
            <4> QED
                BY <4>3, <4>4, <4>5 DEF Identity
        <3> QED
            BY <1>8, <1>11, <2>3, <3>2, <3>3 DEF Served, HalfWords
    <2> QED
        BY <2>2, <2>4, <2>5
<1>12. CASE o.kind = "read"
    <2> DEFINE n == Taken(o.ask)
               lba == o.ask.lba
    <2>1. n \in Nat \ {0} /\ lba \in Nat
        BY <1>7, RequestType DEF AtaInv
    <2>2. PICK k \in 0 .. n - 1 : Reading(c, o, k)
        BY <1>6, <1>7, <1>12 DEF Served
    <2> HIDE DEF n, lba
    <2>3. /\ c.phase = "reading" /\ c.lba \in Disk /\ c.buffer = c.data[c.lba]
          /\ c.lba = lba + k /\ (c.remaining = n - k \/ (c.remaining = 0 /\ n = 1)) /\ c.at \in {0, 1}
          /\ Len(o.moved) = 2 * k + c.at /\ Got(o.moved, c.data, lba, k)
          /\ c.at = 1 => o.moved[2 * k + 1] = c.buffer[1]
        BY <2>2 DEF Reading, InStep, n, lba
    <2>4. k \in Nat /\ c.lba \in Int /\ c.remaining \in Nat
        BY <2>1, <2>3
    <2>5. c.buffer \in OneSector
        BY <1>7, <2>3
    <2>6. c.buffer[1] \in HalfWords /\ c.buffer[2] \in HalfWords
        BY <2>5 DEF OneSector
    <2>7. x = c.buffer[c.at + 1]
        BY <1>4, <2>3 DEF DataPort, SectorWords
    <2>8. x \in HalfWords
        BY <2>3, <2>6, <2>7
    <2>9. /\ Len(q.moved) = 2 * k + c.at + 1
          /\ \A i \in 1 .. 2 * k + c.at : q.moved[i] = o.moved[i]
          /\ q.moved[2 * k + c.at + 1] = x
        BY <1>8, <1>9, <2>3, <2>8, AppendIs
    <2>10. CardShape(d) /\ d.data = c.data
        BY <1>3, <1>7, <2>3, TakeDataIs
    <2>11. Got(q.moved, d.data, lba, k)
        <3>1. ASSUME NEW i \in 0 .. k - 1
              PROVE  q.moved[2 * i + 1] = o.moved[2 * i + 1] /\ q.moved[2 * i + 2] = o.moved[2 * i + 2]
            <4>1. 2 * i + 1 \in 1 .. 2 * k + c.at /\ 2 * i + 2 \in 1 .. 2 * k + c.at
                BY <2>3, <2>4
            <4> QED
                BY <2>9, <4>1
        <3> QED
            BY <2>3, <2>10, <3>1 DEF Got
    <2>12. CASE c.at = 0
        <3>1. /\ d.status = c.status /\ d.phase = "reading" /\ d.at = 1 /\ d.lba = c.lba
              /\ d.remaining = c.remaining /\ d.buffer = c.buffer
            BY <1>3, <1>7, <2>3, <2>12, TakeDataIs
        <3>2. InStep(d, q, k)
            BY <1>8, <2>3, <2>4, <2>9, <2>12, <3>1 DEF InStep, n, lba
        <3>3. q.moved[2 * k + 1] = d.buffer[1]
            BY <2>4, <2>7, <2>9, <2>12, <3>1
        <3>4. Reading(d, q, k)
            BY <1>8, <2>3, <2>10, <2>11, <3>1, <3>2, <3>3 DEF Reading, lba
        <3>5. "drq" \in d.status /\ k \in 0 .. Taken(q.ask) - 1
            BY <1>6, <1>8, <3>1 DEF n
        <3> QED
            BY <1>8, <1>12, <2>8, <2>10, <3>4, <3>5 DEF Served
    <2>13. CASE c.at = 1
        <3>1. q.moved[2 * k + 1] = c.buffer[1] /\ q.moved[2 * k + 2] = c.buffer[2]
            <4>1. 2 * k + 1 \in 1 .. 2 * k + c.at /\ 2 * k + c.at + 1 = 2 * k + 2 /\ c.at + 1 = 2
                BY <2>4, <2>13
            <4> QED
                BY <2>3, <2>7, <2>9, <2>13, <4>1
        <3>2. Got(q.moved, d.data, lba, k + 1)
            <4> SUFFICES ASSUME NEW i \in 0 .. (k + 1) - 1
                         PROVE  /\ lba + i \in Disk /\ q.moved[2 * i + 1] = d.data[lba + i][1]
                                /\ q.moved[2 * i + 2] = d.data[lba + i][2]
                BY DEF Got
            <4>1. i \in 0 .. k - 1 \/ i = k
                BY <2>4
            <4>2. CASE i \in 0 .. k - 1
                BY <2>11, <4>2 DEF Got
            <4>3. CASE i = k
                BY <2>3, <2>10, <3>1, <4>3
            <4> QED
                BY <4>1, <4>2, <4>3
        <3>3. Len(q.moved) = 2 * (k + 1)
            BY <2>4, <2>9, <2>13
        <3>4. CASE c.remaining \in {0, 1}
            <4>1. d.status = {"ready"}
                BY <1>3, <1>7, <2>3, <2>13, <3>4, TakeDataIs DEF Minus
            <4>2. k + 1 = n
                BY <2>1, <2>3, <2>4, <3>4
            <4>3. Len(q.moved) = 2 * Taken(q.ask) /\ Got(q.moved, d.data, q.ask.lba, Taken(q.ask))
                BY <1>8, <3>2, <3>3, <4>2 DEF n, lba
            <4>4. "drq" \notin d.status
                BY <4>1
            <4> QED
                BY <1>8, <1>12, <2>8, <2>10, <4>3, <4>4 DEF Served
        <3>5. CASE c.remaining \notin {0, 1} /\ c.lba + 1 \in Disk
            <4>1. Minus(c.remaining) # 0
                BY <2>4, <3>5 DEF Minus
            <4>2. /\ d.status = {"ready", "drq"} /\ d.phase = "reading" /\ d.at = 0
                  /\ d.lba = c.lba + 1 /\ d.remaining = c.remaining - 1
                  /\ d.buffer = c.data[c.lba + 1]
                BY <1>3, <1>7, <2>3, <2>13, <3>5, <4>1, TakeDataIs
            <4>3. k + 1 \in 0 .. n - 1
                BY <2>1, <2>3, <2>4, <3>5
            <4>4. InStep(d, q, k + 1)
                <5>1. d.lba = lba + (k + 1) /\ d.remaining = n - (k + 1)
                    <6>1. c.remaining = n - k
                        BY <2>3, <3>5
                    <6> QED
                        BY <2>1, <2>3, <2>4, <4>2, <6>1
                <5>2. Len(q.moved) = 2 * (k + 1) + d.at
                    BY <2>4, <3>3, <4>2
                <5> QED
                    BY <1>8, <4>2, <5>1, <5>2 DEF InStep, n, lba
            <4>5. Reading(d, q, k + 1)
                BY <1>8, <2>10, <3>2, <3>5, <4>2, <4>4 DEF Reading, lba
            <4>6. "drq" \in d.status /\ k + 1 \in 0 .. Taken(q.ask) - 1
                BY <1>8, <4>2, <4>3 DEF n
            <4> QED
                BY <1>8, <1>12, <2>8, <2>10, <4>5, <4>6 DEF Served
        <3>6. CASE c.remaining \notin {0, 1} /\ c.lba + 1 \notin Disk
            <4>1. Minus(c.remaining) # 0
                BY <2>4, <3>6 DEF Minus
            <4>2. d.status = {"ready", "err"}
                BY <1>3, <1>7, <2>3, <2>13, <3>6, <4>1, TakeDataIs
            <4> QED
                BY <1>8, <1>12, <2>8, <2>10, <4>2 DEF Served
        <3> QED
            BY <3>4, <3>5, <3>6
    <2> QED
        BY <2>3, <2>12, <2>13
<1> QED
    BY <1>6, <1>11, <1>12

(* The driver gives a halfword of what is written. *)
LEMMA WriteServes ==
    ASSUME CardInv, NEW half \in Halves, Write(half)
    PROVE  CardInv'
<1>1. PICK c : c = card
    OBVIOUS
<1>2. PICK o : o = ata
    OBVIOUS
<1>3. PICK d : d = PutData(c, half)
    OBVIOUS
<1>5. PICK q : q = [o EXCEPT !.moved = Append(@, half)]
    OBVIOUS
<1>6. card' = d /\ ata' = q /\ "drq" \in c.status /\ o.kind = "write"
    BY <1>1, <1>2, <1>3, <1>5 DEF Write
<1>7. CardShape(c) /\ c.data \in [Disk -> OneSector] /\ AtaInv(o) /\ Served(c, o)
    BY <1>1, <1>2, <1>6 DEF CardInv
<1>8. /\ q.kind = o.kind /\ q.ask = o.ask /\ q.before = o.before /\ q.moved = Append(o.moved, half)
      /\ q = [kind |-> q.kind, ask |-> q.ask, moved |-> q.moved, before |-> q.before]
    BY <1>5, <1>7 DEF AtaInv
<1> HIDE <1>5
<1>9. o.moved \in Seq(HalfWords) /\ half \in HalfWords
    BY <1>7 DEF AtaInv, HalfWords
<1>10. AtaInv(q)
    BY <1>7, <1>8, <1>9, AppendIs DEF AtaInv
<1> DEFINE n == Taken(o.ask)
           lba == o.ask.lba
           m == o.moved
           mm == q.moved
<1>11. n \in Nat \ {0} /\ lba \in Nat
    BY <1>7, RequestType DEF AtaInv
<1>12. PICK k \in 0 .. n - 1 : Writing(c, o, k)
    BY <1>6, <1>7 DEF Served
<1> HIDE DEF n, lba, m, mm
<1>13. /\ c.phase = "writing" /\ c.buffer \in OneSector
       /\ c.lba = lba + k /\ (c.remaining = n - k \/ (c.remaining = 0 /\ n = 1)) /\ c.at \in {0, 1}
       /\ Len(m) = 2 * k + c.at /\ Put(m, c.data, o.before, lba, k)
       /\ c.at = 1 => m[2 * k + 1] = c.buffer[1]
    BY <1>12 DEF Writing, InStep, n, lba, m
<1>14. k \in Nat /\ c.lba \in Nat /\ c.remaining \in Nat
    BY <1>11, <1>13
<1>15. c.buffer[1] \in HalfWords /\ c.buffer[2] \in HalfWords
    BY <1>13 DEF OneSector
<1>16. /\ Len(mm) = 2 * k + c.at + 1
       /\ \A i \in 1 .. 2 * k + c.at : mm[i] = m[i]
       /\ mm[2 * k + c.at + 1] = half
    BY <1>8, <1>9, <1>13, AppendIs DEF m, mm
<1>17. /\ CardShape(d)
       /\ c.at = 0 =>
              /\ d.data = c.data /\ d.status = c.status /\ d.phase = "writing" /\ d.at = 1
              /\ d.lba = c.lba /\ d.remaining = c.remaining
              /\ d.buffer = <<half, c.buffer[2]>>
       /\ c.at = 1 =>
              /\ d.buffer = <<c.buffer[1], half>>
              /\ d.data = IF c.lba \in Disk THEN [c.data EXCEPT ![c.lba] = d.buffer]
                                            ELSE c.data
       /\ c.at = 1 /\ Minus(c.remaining) = 0 => d.status = {"ready"}
       /\ c.at = 1 /\ Minus(c.remaining) # 0 =>
              /\ d.status = {"ready", "drq"} /\ d.phase = "writing" /\ d.at = 0
              /\ d.lba = c.lba + 1 /\ d.remaining = c.remaining - 1
    BY <1>3, <1>7, <1>9, <1>13, PutDataIs
<1>18. ASSUME NEW s \in Disk, s - lba \in 0 .. k - 1
       PROVE  c.data[s] = <<mm[2 * (s - lba) + 1], mm[2 * (s - lba) + 2]>>
    <2>1. PICK i \in 0 .. k - 1 : i = s - lba
        BY <1>18
    <2>2. 2 * i + 1 \in 1 .. 2 * k + c.at /\ 2 * i + 2 \in 1 .. 2 * k + c.at
        BY <1>13, <1>14
    <2>3. mm[2 * i + 1] = m[2 * i + 1] /\ mm[2 * i + 2] = m[2 * i + 2]
        BY <1>16, <2>2
    <2>4. c.data[s] = <<m[2 * i + 1], m[2 * i + 2]>>
        BY <1>13, <1>18, <2>1 DEF Put
    <2> QED
        BY <2>1, <2>3, <2>4
<1>19. ASSUME NEW s \in Disk, s - lba \notin 0 .. k - 1
       PROVE  c.data[s] = o.before[s]
    BY <1>13, <1>19 DEF Put
<1> SUFFICES d.data \in [Disk -> OneSector] /\ Served(d, q)
    BY <1>6, <1>7, <1>10, <1>17 DEF CardInv
<1>20. CASE c.at = 0
    <2>1. /\ d.data = c.data /\ d.status = c.status /\ d.phase = "writing" /\ d.at = 1
          /\ d.lba = c.lba /\ d.remaining = c.remaining /\ d.buffer = <<half, c.buffer[2]>>
        BY <1>17, <1>20
    <2>2. d.buffer \in OneSector /\ d.buffer[1] = half
        BY <1>9, <1>15, <2>1 DEF OneSector
    <2>3. mm[2 * k + 1] = half /\ Len(mm) = 2 * k + 1
        BY <1>14, <1>16, <1>20
    <2>4. InStep(d, q, k)
        BY <1>8, <1>13, <2>1, <2>3 DEF InStep, n, lba, mm
    <2>5. Put(mm, d.data, o.before, lba, k)
        BY <1>18, <1>19, <2>1 DEF Put
    <2>6. Writing(d, q, k)
        BY <1>8, <2>1, <2>2, <2>3, <2>4, <2>5 DEF Writing, lba, mm
    <2>7. "drq" \in d.status /\ k \in 0 .. Taken(q.ask) - 1
        BY <1>6, <1>8, <2>1 DEF n
    <2> QED
        BY <1>6, <1>7, <1>8, <2>1, <2>6, <2>7 DEF Served
<1>21. CASE c.at = 1
    <2>1. /\ d.buffer = <<c.buffer[1], half>>
          /\ d.data = IF c.lba \in Disk THEN [c.data EXCEPT ![c.lba] = d.buffer] ELSE c.data
        BY <1>17, <1>21
    <2>2. d.buffer \in OneSector
        BY <1>9, <1>15, <2>1 DEF OneSector
    <2>3. d.data \in [Disk -> OneSector]
        BY <1>7, <2>1, <2>2
    <2>4. mm[2 * k + 1] = c.buffer[1] /\ mm[2 * k + 2] = half /\ Len(mm) = 2 * (k + 1)
        <3>1. /\ 2 * k + 1 \in 1 .. 2 * k + c.at /\ 2 * k + c.at + 1 = 2 * k + 2
              /\ 2 * k + 2 = 2 * (k + 1)
            BY <1>14, <1>21
        <3> QED
            BY <1>13, <1>16, <1>21, <3>1
    <2>5. Put(mm, d.data, o.before, lba, k + 1)
        <3> SUFFICES ASSUME NEW s \in Disk
                     PROVE  d.data[s] = IF s - lba \in 0 .. (k + 1) - 1
                                        THEN <<mm[2 * (s - lba) + 1], mm[2 * (s - lba) + 2]>>
                                        ELSE o.before[s]
            BY DEF Put
        <3>1. s \in Int
            BY DEF Disk
        <3>2. s = c.lba <=> s - lba = k
            BY <1>11, <1>13, <1>14, <3>1
        <3>3. s - lba \in 0 .. (k + 1) - 1 <=> s - lba \in 0 .. k - 1 \/ s - lba = k
            BY <1>11, <1>14, <3>1
        <3>4. k \notin 0 .. k - 1
            BY <1>14
        <3>5. CASE s = c.lba
            <4>1. d.data[s] = d.buffer
                BY <1>7, <2>1, <3>5
            <4>2. d.buffer = <<mm[2 * k + 1], mm[2 * k + 2]>>
                BY <2>1, <2>4
            <4> QED
                BY <3>2, <3>3, <3>5, <4>1, <4>2
        <3>6. CASE s # c.lba
            <4>1. d.data[s] = c.data[s]
                BY <1>7, <2>1, <3>6
            <4>2. s - lba # k
                BY <3>2, <3>6
            <4>3. CASE s - lba \in 0 .. k - 1
                BY <1>18, <3>3, <4>1, <4>3
            <4>4. CASE s - lba \notin 0 .. k - 1
                BY <1>19, <3>3, <4>1, <4>2, <4>4
            <4> QED
                BY <4>3, <4>4
        <3> QED
            BY <3>5, <3>6
    <2>6. CASE c.remaining \in {0, 1}
        <3>1. d.status = {"ready"}
            BY <1>17, <1>21, <2>6 DEF Minus
        <3>2. k + 1 = n
            BY <1>11, <1>13, <1>14, <2>6
        <3>3. /\ Len(q.moved) = 2 * Taken(q.ask)
              /\ Put(q.moved, d.data, q.before, q.ask.lba, Taken(q.ask))
            BY <1>8, <2>4, <2>5, <3>2 DEF n, lba, mm
        <3>4. "drq" \notin d.status
            BY <3>1
        <3> QED
            BY <1>6, <1>8, <2>3, <3>3, <3>4 DEF Served
    <2>7. CASE c.remaining \notin {0, 1}
        <3>1. Minus(c.remaining) # 0
            BY <1>14, <2>7 DEF Minus
        <3>2. /\ d.status = {"ready", "drq"} /\ d.phase = "writing" /\ d.at = 0
              /\ d.lba = c.lba + 1 /\ d.remaining = c.remaining - 1
            BY <1>17, <1>21, <3>1
        <3>3. k + 1 \in 0 .. n - 1
            BY <1>11, <1>13, <1>14, <2>7
        <3>4. InStep(d, q, k + 1)
            <4>1. d.lba = lba + (k + 1) /\ d.remaining = n - (k + 1)
                <5>1. c.remaining = n - k
                    BY <1>13, <2>7
                <5> QED
                    BY <1>11, <1>13, <1>14, <3>2, <5>1
            <4>2. Len(mm) = 2 * (k + 1) + d.at
                BY <1>14, <2>4, <3>2
            <4> QED
                BY <1>8, <3>2, <4>1, <4>2 DEF InStep, n, lba, mm
        <3>5. Writing(d, q, k + 1)
            BY <1>8, <2>2, <2>5, <3>2, <3>4 DEF Writing, lba, mm
        <3>6. "drq" \in d.status /\ k + 1 \in 0 .. Taken(q.ask) - 1
            BY <1>8, <3>2, <3>3 DEF n
        <3> QED
            BY <1>6, <1>8, <2>3, <3>5, <3>6 DEF Served
    <2> QED
        BY <2>6, <2>7
<1> QED
    BY <1>13, <1>20, <1>21

LEMMA CardStep ==
    ASSUME CardInv, [CardNext]_cardVars
    PROVE  CardInv'
<1>1. ASSUME NEW r \in Requests, Issue(r) PROVE CardInv'
    BY <1>1, IssueServes
<1>2. CASE Read
    BY <1>2, ReadServes
<1>3. ASSUME NEW half \in Halves, Write(half) PROVE CardInv'
    BY <1>3, WriteServes
<1>4. CASE Conclude
    <2>1. ata'.kind = "none"
        BY <1>4 DEF Conclude, NoRequest
    <2> QED
        BY <1>4, <2>1 DEF Conclude, CardInv
<1>5. CASE BreakOff
    <2>1. ata'.kind = "none"
        BY <1>5 DEF BreakOff, NoRequest
    <2>2. CardShape(Reset(card)) /\ Reset(card).data = card.data
        <3>1. PICK d : d = [card EXCEPT !.status = {"ready"}, !.error = "none", !.buffer = << >>,
                                        !.at = 0, !.phase = "idle", !.remaining = 0]
            OBVIOUS
        <3>2. CardShape(d) /\ d.data = card.data
            BY <3>1 DEF CardInv, CardShape
        <3> QED
            BY <3>1, <3>2 DEF Reset
    <2>3. CardShape(card') /\ card'.data = card.data
        BY <1>5, <2>2 DEF BreakOff, CardInv
    <2> QED
        BY <2>1, <2>3 DEF CardInv
<1>6. CASE UNCHANGED cardVars
    BY <1>6 DEF cardVars, CardInv
<1> QED
    BY <1>1, <1>2, <1>3, <1>4, <1>5, <1>6 DEF CardNext

LEMMA CardServes ==
    ASSUME CardInv
    PROVE  RequestsAreServed
<1> SUFFICES ASSUME Over, "err" \notin card.status
             PROVE  RequestsAreServed
    BY DEF RequestsAreServed
<1>1. ata.kind # "none" /\ "drq" \notin card.status
    BY DEF Over
<1>2. PICK q : q = ata
    OBVIOUS
<1>3. PICK d : d = card.data
    OBVIOUS
<1>4. AtaInv(q) /\ Served(card, q) /\ d \in [Disk -> OneSector]
    BY <1>1, <1>2, <1>3 DEF CardInv
<1> DEFINE n == Taken(q.ask)
           lba == q.ask.lba
           m == q.moved
<1>5. n \in Nat \ {0} /\ lba \in Nat /\ m \in Seq(HalfWords)
    BY <1>4, RequestType DEF AtaInv
<1>6. ASSUME NEW i \in 0 .. n - 1, Len(m) = 2 * n, NEW s, s = lba + i
      PROVE  SectorMoved(s) = <<m[2 * i + 1], m[2 * i + 2]>>
    <2>1. s - lba = i /\ 2 * i \in Nat /\ 2 * i + 2 <= Len(m)
        BY <1>5, <1>6
    <2>2. SectorMoved(s) = SubSeq(m, 2 * i + 1, 2 * i + 2)
        BY <1>2, <2>1 DEF SectorMoved, SectorWords
    <2> HIDE DEF m
    <2> QED
        BY <1>5, <2>1, <2>2, PairOf
<1>7. CASE ata.kind = "identify"
    BY <1>1, <1>2, <1>4, <1>7 DEF Served, RequestsAreServed
<1>8. CASE ata.kind = "read"
    <2>1. Len(m) = 2 * n /\ Got(m, d, lba, n)
        BY <1>1, <1>2, <1>3, <1>4, <1>8 DEF Served
    <2>2. Requested \subseteq Disk
        BY <1>2, <2>1 DEF Requested, Got
    <2>3. ASSUME NEW s \in Requested PROVE SectorMoved(s) = d[s]
        <3>1. PICK i \in 0 .. n - 1 : s = lba + i
            BY <1>2 DEF Requested
        <3>2. SectorMoved(s) = <<m[2 * i + 1], m[2 * i + 2]>>
            BY <1>6, <2>1, <3>1
        <3>3. s \in Disk /\ m[2 * i + 1] = d[s][1] /\ m[2 * i + 2] = d[s][2]
            BY <2>1, <3>1 DEF Got
        <3>4. d[s] = <<d[s][1], d[s][2]>>
            BY <1>4, <3>3 DEF OneSector
        <3> QED
            BY <3>2, <3>3, <3>4
    <2> QED
        BY <1>2, <1>3, <1>8, <2>1, <2>2, <2>3 DEF RequestsAreServed, SectorWords
<1>9. CASE ata.kind = "write"
    <2>1. Len(m) = 2 * n /\ Put(m, d, q.before, lba, n)
        BY <1>1, <1>2, <1>3, <1>4, <1>9 DEF Served
    <2>2. ASSUME NEW s \in Disk
          PROVE  d[s] = IF s \in Requested THEN SectorMoved(s) ELSE q.before[s]
        <3>1. s \in Int
            BY DEF Disk
        <3>2. s \in Requested <=> s - lba \in 0 .. n - 1
            <4>1. ASSUME s \in Requested PROVE s - lba \in 0 .. n - 1
                <5>1. PICK i \in 0 .. n - 1 : s = lba + i
                    BY <1>2, <4>1 DEF Requested
                <5> QED
                    BY <1>5, <5>1
            <4>2. ASSUME s - lba \in 0 .. n - 1 PROVE s \in Requested
                <5>1. s = lba + (s - lba)
                    BY <1>5, <3>1
                <5> QED
                    BY <1>2, <4>2, <5>1 DEF Requested
            <4> QED
                BY <4>1, <4>2
        <3>3. CASE s \in Requested
            <4>1. PICK i \in 0 .. n - 1 : i = s - lba /\ s = lba + i
                BY <1>5, <3>1, <3>2, <3>3
            <4>2. SectorMoved(s) = <<m[2 * i + 1], m[2 * i + 2]>>
                BY <1>6, <2>1, <4>1
            <4> QED
                BY <2>1, <3>3, <4>1, <4>2 DEF Put
        <3>4. CASE s \notin Requested
            BY <2>1, <3>2, <3>4 DEF Put
        <3> QED
            BY <3>3, <3>4
    <2>3. d = [s \in Disk |-> IF s \in Requested THEN SectorMoved(s) ELSE q.before[s]]
        BY <1>4, <2>2
    <2> QED
        BY <1>2, <1>3, <1>9, <2>1, <2>3 DEF RequestsAreServed, SectorWords
<1>10. CASE ata.kind \notin {"identify", "read", "write"}
    BY <1>2, <1>4, <1>10 DEF Served, RequestsAreServed
<1> QED
    BY <1>7, <1>8, <1>9, <1>10

(* A request that ends without an error has moved the sectors the card     *)
(* took it to be of, and has changed no others, whatever the card, the     *)
(* requests and what was broken off before; what of a write is past the    *)
(* end of the card is dropped (command, take_data and put_data of          *)
(* pcmcia.rs).                                                             *)
THEOREM RequestsServed == CardSpec => []RequestsAreServed
<1>1. CardInit => CardInv
    BY DEF CardInit, CardInv, CardShape, NoRequest, OneSector, HalfWords
<1>2. CardInv /\ [CardNext]_cardVars => CardInv'
    BY CardStep
<1>3. CardInv => RequestsAreServed
    BY CardServes
<1> QED
    BY <1>1, <1>2, <1>3, PTL DEF CardSpec

-----------------------------------------------------------------------------
(* The battery. *)

Flags == {"nak", "read", "busy", "ite", "irf"}
BusAddresses == Others \cup {Battery}
Answer == Response[ask.command]

Controller ==
    [idbr : BusAddresses \cup Commands \cup AnswerBytes \cup {Floating, None},
     isr : SUBSET Flags, command : Commands \cup {None}, buf : Seq(AnswerBytes),
     current : BusAddresses \cup {None}, reading : BOOLEAN]

Asking ==
    [stage : {"quiet", "addressed", "commanded", "reading", "done"},
     address : BusAddresses \cup {None}, command : Commands \cup {None}, got : Seq(AnswerBytes)]

I2cType ==
    /\ i2c \in Controller
    /\ ask \in Asking
    /\ ask.stage # "quiet" => ask.address \in BusAddresses /\ ask.command \in Commands

(* The bytes read and those staged are together the answer. *)
Parts(got, buf, whole) ==
    /\ Len(got) + Len(buf) = Len(whole)
    /\ \A i \in 1 .. Len(got) : got[i] = whole[i]
    /\ \A i \in 1 .. Len(buf) : buf[i] = whole[Len(got) + i]

Staged == Len(i2c.buf) > 0 /\ Parts(ask.got, i2c.buf, Answer)

(* What the controller remembers at each stage of a transaction: the       *)
(* command of this one, and nothing of those dropped before it.            *)
I2cInv ==
    /\ I2cType
    /\ ask.stage = "addressed" =>
           \/ "nak" \in i2c.isr
           \/ /\ ask.address = Battery /\ i2c.current = Battery
              /\ i2c.command = None /\ ~i2c.reading
    /\ ask.stage \in {"addressed", "commanded"} => ask.got = << >>
    /\ ask.stage = "commanded" => ask.address = Battery /\ i2c.command = ask.command
    /\ ask.stage = "reading" => ask.address = Battery /\ i2c.reading /\ Staged
    /\ ask.stage = "done" =>
           /\ ask.address = Battery /\ "busy" \notin i2c.isr
           /\ Parts(ask.got, << >>, Answer)

LEMMA AnswerType ==
    ASSUME NEW cmd \in Commands
    PROVE  Response[cmd] \in Seq(AnswerBytes) /\ Len(Response[cmd]) \in Nat \ {0}
    BY BatteryAssumption

(* What the status after a byte says, and what it leaves alone. *)
LEMMA StatusSays ==
    ASSUME NEW c \in Controller, NEW acked \in BOOLEAN, NEW flag \in {"ite", "irf"},
           NEW stop \in BOOLEAN
    PROVE  LET d == Status(c, acked, flag, stop)
           IN  /\ d \in Controller
               /\ d.idbr = c.idbr /\ d.command = c.command /\ d.buf = c.buf
               /\ d.reading = c.reading
               /\ d.current = IF stop THEN None ELSE c.current
               /\ "nak" \in d.isr <=> ~acked
               /\ stop => "busy" \notin d.isr
<1> DEFINE d == Status(c, acked, flag, stop)
           isr == (c.isr \ {"nak", "read", "busy"}) \cup {flag}
                      \cup (IF acked THEN {} ELSE {"nak"})
                      \cup (IF c.reading THEN {"read"} ELSE {})
                      \cup (IF stop THEN {} ELSE {"busy"})
           current == IF stop THEN None ELSE c.current
<1>1. d = [c EXCEPT !.isr = isr, !.current = current]
    BY DEF Status, Controller
<1>2. isr \in SUBSET Flags
    BY DEF Controller, Flags
<1>3. current \in BusAddresses \cup {None}
    BY DEF Controller
<1>4. ("nak" \in isr <=> ~acked) /\ (stop => "busy" \notin isr)
    OBVIOUS
<1> HIDE DEF isr, current
<1>5. /\ d \in Controller /\ d.isr = isr /\ d.current = current
      /\ d.idbr = c.idbr /\ d.command = c.command /\ d.buf = c.buf /\ d.reading = c.reading
    BY <1>1, <1>2, <1>3 DEF Controller
<1> QED
    BY <1>4, <1>5 DEF current

(* What a first byte does, before the status. *)
LEMMA AddressSays ==
    ASSUME NEW c \in Controller, NEW address \in BusAddresses, NEW read \in BOOLEAN,
           c.command # None => Response[c.command] \in Seq(AnswerBytes)
    PROVE  LET d == [Address(c, address, read) EXCEPT !.idbr = address]
           IN  /\ d \in Controller
               /\ d.reading = read /\ d.current = address
               /\ address = Battery /\ ~read => d.command = None
               /\ read => d.command = c.command
               /\ address = Battery /\ read /\ c.command # None => d.buf = Response[c.command]
<1>1. << >> \in Seq(AnswerBytes)
    OBVIOUS
<1> QED
    BY <1>1 DEF Address, Controller

LEMMA ClearedSays ==
    ASSUME NEW c \in Controller, NEW bits
    PROVE  /\ Cleared(c, bits) \in Controller
           /\ Cleared(c, bits).command = c.command /\ Cleared(c, bits).buf = c.buf
           /\ Cleared(c, bits).reading = c.reading /\ Cleared(c, bits).current = c.current
    BY DEF Cleared, Controller

(* A byte moves from one part of the answer to the other. *)
LEMMA PartsMove ==
    ASSUME NEW S, NEW got \in Seq(S), NEW buf \in Seq(S), NEW whole \in Seq(S),
           buf # << >>, Parts(got, buf, whole)
    PROVE  /\ Parts(Append(got, Head(buf)), Tail(buf), whole)
           /\ Len(Append(got, Head(buf))) = Len(got) + 1
           /\ Len(Tail(buf)) = Len(buf) - 1
<1> DEFINE got2 == Append(got, Head(buf))
           buf2 == Tail(buf)
<1>1. Len(got2) = Len(got) + 1 /\ Len(buf2) = Len(buf) - 1 /\ Len(got2) + Len(buf2) = Len(whole)
    BY DEF Parts
<1>2. \A i \in 1 .. Len(got2) : got2[i] = whole[i]
    <2> TAKE i \in 1 .. Len(got2)
    <2>1. CASE i = Len(got) + 1
        <3>1. got2[i] = buf[1] /\ 1 \in 1 .. Len(buf)
            BY <2>1
        <3> QED
            BY <2>1, <3>1 DEF Parts
    <2>2. CASE i # Len(got) + 1
        <3>1. i \in 1 .. Len(got)
            BY <1>1, <2>2
        <3> QED
            BY <3>1 DEF Parts
    <2> QED
        BY <2>1, <2>2
<1>3. \A i \in 1 .. Len(buf2) : buf2[i] = whole[Len(got2) + i]
    <2> TAKE i \in 1 .. Len(buf2)
    <2>1. buf2[i] = buf[i + 1] /\ i + 1 \in 1 .. Len(buf)
        BY <1>1
    <2>2. Len(got2) + i = Len(got) + (i + 1)
        BY <1>1
    <2> QED
        BY <2>1, <2>2 DEF Parts
<1> QED
    BY <1>1, <1>2, <1>3 DEF Parts

LEMMA AbortSays == ASSUME NEW c \in Controller PROVE Abort(c) \in Controller
    BY DEF Abort, Controller

(* Between transactions nothing is asked of the controller's state. *)
LEMMA QuietInv == ASSUME ask' = Quiet, i2c' \in Controller PROVE I2cInv'
<1>1. << >> \in Seq(AnswerBytes)
    OBVIOUS
<1>2. ask' \in Asking /\ ask'.stage = "quiet"
    BY <1>1 DEF Quiet, Asking
<1> QED
    BY <1>2 DEF I2cInv, I2cType

LEMMA AskForInv ==
    ASSUME I2cInv, NEW address \in BusAddresses, NEW cmd \in Commands, AskFor(address, cmd)
    PROVE  I2cInv'
<1> DEFINE d == [Address(i2c, address, FALSE) EXCEPT !.idbr = address]
<1>1. i2c \in Controller /\ (i2c.command # None => Response[i2c.command] \in Seq(AnswerBytes))
    BY AnswerType DEF I2cInv, I2cType, Controller
<1>2. /\ d \in Controller /\ d.reading = FALSE /\ d.current = address
      /\ address = Battery => d.command = None
    BY <1>1, AddressSays
<1>3. i2c' = Status(d, address = Battery, "ite", FALSE)
    BY DEF AskFor, StartByte
<1> HIDE DEF d
<1>4. /\ i2c' \in Controller /\ i2c'.reading = FALSE /\ i2c'.current = address
      /\ address = Battery => i2c'.command = None
      /\ address # Battery => "nak" \in i2c'.isr
    BY <1>2, <1>3, StatusSays
<1>5. ask' = [stage |-> "addressed", address |-> address, command |-> cmd, got |-> << >>]
    BY DEF AskFor
<1>6. ask' \in Asking
    BY <1>5 DEF Asking
<1> QED
    BY <1>4, <1>5, <1>6 DEF I2cInv, I2cType

LEMMA GiveUpInv == ASSUME I2cInv, GiveUp PROVE I2cInv'
<1>1. i2c \in Controller
    BY DEF I2cInv, I2cType
<1>2. Cleared(i2c, {"nak", "ite", "irf"}) \in Controller
    BY <1>1, ClearedSays
<1>3. i2c' \in Controller /\ ask' = Quiet
    BY <1>2, AbortSays DEF GiveUp
<1> QED
    BY <1>3, QuietInv

LEMMA SendCommandInv == ASSUME I2cInv, SendCommand PROVE I2cInv'
<1> DEFINE c == Cleared(i2c, {"ite"})
           d == [c EXCEPT !.idbr = ask.command, !.command = ask.command]
<1>1. /\ i2c \in Controller /\ ask.command \in Commands /\ ask.address = Battery
      /\ i2c.current = Battery /\ i2c.command = None /\ i2c.reading = FALSE
    BY DEF SendCommand, I2cInv, I2cType, Controller
<1>2. /\ c \in Controller /\ c.command = None /\ c.reading = FALSE /\ c.current = Battery
    BY <1>1, ClearedSays
<1>3. d \in Controller /\ d.command = ask.command
    BY <1>1, <1>2 DEF Controller
<1>4. i2c' = Status(d, TRUE, "ite", FALSE)
    BY <1>2 DEF SendCommand, MovesByte, WriteByte
<1> HIDE DEF d
<1>5. i2c' \in Controller /\ i2c'.command = ask.command
    BY <1>3, <1>4, StatusSays
<1>6. /\ ask' = [ask EXCEPT !.stage = "commanded"] /\ ask \in Asking
      /\ ask.address \in BusAddresses /\ ask.got = << >>
    BY DEF SendCommand, I2cInv, I2cType
<1>7. /\ ask' \in Asking /\ ask'.stage = "commanded" /\ ask'.address = ask.address
      /\ ask'.command = ask.command /\ ask'.got = << >>
    BY <1>6 DEF Asking
<1> QED
    BY <1>1, <1>5, <1>6, <1>7 DEF I2cInv, I2cType

LEMMA TurnRoundInv == ASSUME I2cInv, TurnRound PROVE I2cInv'
<1> DEFINE c == Cleared(i2c, {"ite"})
           d == [Address(c, Battery, TRUE) EXCEPT !.idbr = Battery]
<1>1. /\ ask.command \in Commands /\ i2c.command = ask.command /\ ask.address = Battery
      /\ i2c \in Controller
    BY DEF TurnRound, I2cInv, I2cType
<1>2. Answer \in Seq(AnswerBytes) /\ Len(Answer) \in Nat \ {0}
    BY <1>1, AnswerType DEF Answer
<1>3. ask' = [ask EXCEPT !.stage = "reading"] /\ ask.got = << >> /\ ask \in Asking
    BY DEF TurnRound, I2cInv, I2cType
<1>4. /\ ask' \in Asking /\ ask'.stage = "reading" /\ ask'.address = Battery
      /\ ask'.command = ask.command /\ ask'.got = << >> /\ Answer' = Answer
    BY <1>1, <1>3 DEF Answer, Asking
<1>5. c \in Controller /\ c.command = ask.command
    BY <1>1, ClearedSays
<1>6. c.command # None
    BY <1>1, <1>5, BatteryAssumption
<1> HIDE DEF c
<1>b. Battery \in BusAddresses /\ Response[c.command] = Answer
    BY <1>5 DEF BusAddresses, Answer
<1>7. d \in Controller /\ d.reading = TRUE /\ d.buf = Answer
    BY <1>2, <1>5, <1>6, <1>b, AddressSays
<1>8. i2c' = Status(d, TRUE, "ite", FALSE)
    BY <1>1 DEF TurnRound, StartByte, c
<1> HIDE DEF d
<1>9. i2c' \in Controller /\ i2c'.buf = Answer /\ i2c'.reading = TRUE
    BY <1>7, <1>8, StatusSays
<1>a. Staged'
    BY <1>2, <1>4, <1>9 DEF Staged, Parts
<1> QED
    BY <1>1, <1>4, <1>9, <1>a, <1>b DEF I2cInv, I2cType

LEMMA TakeByteInv == ASSUME I2cInv, TakeByte PROVE I2cInv'
<1> DEFINE last == Len(ask.got) + 1 = Len(Answer)
           c == Cleared(i2c, {"ite", "irf"})
           d == [c EXCEPT !.idbr = Head(c.buf), !.buf = Tail(c.buf)]
<1>1. /\ i2c \in Controller /\ ask.command \in Commands /\ ask.address = Battery /\ i2c.reading
      /\ ask.got \in Seq(AnswerBytes) /\ i2c.buf \in Seq(AnswerBytes) /\ i2c.buf # << >>
      /\ Staged
    <2>1. i2c \in Controller /\ ask \in Asking /\ ask.stage = "reading"
        BY DEF TakeByte, I2cInv, I2cType
    <2>2. ask.command \in Commands /\ ask.address = Battery /\ i2c.reading /\ Staged
        BY <2>1 DEF I2cInv, I2cType
    <2> QED
        BY <2>1, <2>2 DEF Staged, Controller, Asking
<1>2. Answer \in Seq(AnswerBytes) /\ Len(Answer) \in Nat \ {0} /\ Answer' = Answer
    BY <1>1, AnswerType DEF Answer, TakeByte, I2cInv, I2cType, Asking
<1>3. c \in Controller /\ c.buf = i2c.buf /\ c.reading = TRUE
    BY <1>1, ClearedSays DEF Controller
<1>4. Head(i2c.buf) \in AnswerBytes /\ Tail(i2c.buf) \in Seq(AnswerBytes)
    BY <1>1
<1> HIDE DEF c
<1>5. d \in Controller /\ d.idbr = Head(i2c.buf) /\ d.buf = Tail(i2c.buf) /\ d.reading = TRUE
    BY <1>3, <1>4 DEF Controller
<1>a. i2c' = Status(d, TRUE, "irf", last)
    BY <1>1, <1>3 DEF TakeByte, MovesByte, ReadByte, Answer, c
<1> HIDE DEF d
<1>b. /\ i2c' \in Controller /\ i2c'.idbr = Head(i2c.buf) /\ i2c'.buf = Tail(i2c.buf)
      /\ i2c'.reading = TRUE /\ (last => "busy" \notin i2c'.isr)
    BY <1>5, <1>a, StatusSays
<1>c. ask' = [ask EXCEPT !.got = Append(ask.got, Head(i2c.buf)),
                         !.stage = IF last THEN "done" ELSE "reading"]
    BY <1>b DEF TakeByte, Answer
<1>e. Append(ask.got, Head(i2c.buf)) \in Seq(AnswerBytes) /\ ask \in Asking
    BY <1>1, <1>4 DEF I2cInv, I2cType
<1>d. /\ ask' \in Asking /\ ask'.got = Append(ask.got, Head(i2c.buf)) /\ ask'.address = Battery
      /\ ask'.command = ask.command /\ ask'.stage = IF last THEN "done" ELSE "reading"
    BY <1>1, <1>c, <1>e DEF Asking
<1>6. Parts(ask.got, i2c.buf, Answer)
    BY <1>1 DEF Staged
<1>7. /\ Parts(ask'.got, i2c'.buf, Answer')
      /\ Len(ask'.got) = Len(ask.got) + 1
    BY <1>1, <1>2, <1>6, <1>b, <1>d, PartsMove
<1>8. i2c'.buf \in Seq(AnswerBytes) /\ Len(i2c'.buf) = Len(Answer) - (Len(ask.got) + 1)
    <2>1. i2c'.buf \in Seq(AnswerBytes) /\ Len(i2c'.buf) \in Nat
        BY <1>4, <1>b
    <2>2. Len(ask.got) \in Nat /\ Len(Answer) \in Nat
        BY <1>1, <1>2
    <2>3. Len(ask'.got) + Len(i2c'.buf) = Len(Answer')
        BY <1>7 DEF Parts
    <2>4. Len(ask.got) + 1 + Len(i2c'.buf) = Len(Answer)
        BY <1>2, <1>7, <2>3
    <2>5. \A g, b, a \in Nat : g + 1 + b = a => b = a - (g + 1)
        OBVIOUS
    <2>6. Len(i2c'.buf) = Len(Answer) - (Len(ask.got) + 1)
        BY <2>1, <2>2, <2>4, <2>5
    <2> QED
        BY <2>1, <2>6
<1>9. CASE last
    <2>1. Len(i2c'.buf) = 0
        BY <1>1, <1>2, <1>8, <1>9
    <2>2. i2c'.buf = << >>
        BY <1>8, <2>1
    <2> QED
        BY <1>1, <1>7, <1>9, <1>b, <1>d, <2>2 DEF I2cInv, I2cType, BusAddresses
<1>f. CASE ~last
    <2>1. Len(i2c'.buf) \in Nat
        <3>1. i2c'.buf \in Seq(AnswerBytes)
            BY <1>8
        <3> QED
            BY <3>1
    <2>2. Len(ask.got) \in Nat /\ Len(Answer) \in Nat
        BY <1>1, <1>2
    <2>3. \A g, b, a \in Nat : b = a - (g + 1) /\ g + 1 # a => b > 0
        OBVIOUS
    <2>4. Len(i2c'.buf) > 0
        BY <2>1, <2>2, <2>3, <1>8, <1>f
    <2> QED
        BY <1>1, <1>7, <1>b, <1>d, <1>f, <2>4 DEF I2cInv, I2cType, Staged, BusAddresses
<1> QED
    BY <1>9, <1>f

LEMMA DropInv == ASSUME I2cInv, Drop PROVE I2cInv'
<1>1. i2c \in Controller
    BY DEF I2cInv, I2cType
<1>2. UnitReset \in Controller
    BY DEF UnitReset, I2cDefault, Controller, Flags
<1>3. i2c' \in Controller /\ ask' = Quiet
    BY <1>1, <1>2, AbortSays DEF Drop
<1> QED
    BY <1>3, QuietInv

LEMMA I2cNextInv == ASSUME I2cInv, [I2cNext]_i2cVars PROVE I2cInv'
<1>1. ASSUME NEW address \in Others \cup {Battery}, NEW cmd \in Commands, AskFor(address, cmd)
      PROVE  I2cInv'
    BY <1>1, AskForInv DEF BusAddresses
<1>2. CASE Take
    BY <1>2, QuietInv DEF Take, I2cInv, I2cType
<1>3. CASE UNCHANGED i2cVars
    BY <1>3 DEF i2cVars, I2cInv, I2cType, Staged, Answer
<1> QED
    BY <1>1, <1>2, <1>3, GiveUpInv, SendCommandInv, TurnRoundInv, TakeByteInv, DropInv DEF I2cNext

(* A driver that has read an answer to its end has the answer to the       *)
(* command it sent, and the bus is free, whatever transactions were        *)
(* dropped half way before (transfer_byte of i2c.rs), for any commands and *)
(* answers and any addresses with nothing at them.                         *)
THEOREM BatteryAnswers == I2cSpec => []AnswersAreToTheQuestion
<1>1. I2cInit => I2cInv
    <2> SUFFICES ASSUME I2cInit PROVE I2cInv
        OBVIOUS
    <2>1. << >> \in Seq(AnswerBytes)
        OBVIOUS
    <2>2. i2c \in Controller
        BY <2>1 DEF I2cInit, I2cDefault, Controller
    <2>3. ask \in Asking /\ ask.stage = "quiet"
        BY <2>1 DEF I2cInit, Quiet, Asking
    <2> QED
        BY <2>2, <2>3 DEF I2cInv, I2cType
<1>2. I2cInv /\ [I2cNext]_i2cVars => I2cInv'
    BY I2cNextInv
<1>3. I2cInv => AnswersAreToTheQuestion
    <2> SUFFICES ASSUME I2cInv PROVE AnswersAreToTheQuestion
        OBVIOUS
    <2>1. CASE ask.stage = "done"
        <3>1. ask.command \in Commands /\ ask.got \in Seq(AnswerBytes)
            BY <2>1 DEF I2cInv, I2cType, Asking
        <3>2. Answer \in Seq(AnswerBytes)
            BY <3>1, AnswerType DEF Answer
        <3>3. ask.got = Answer
            BY <2>1, <3>1, <3>2 DEF I2cInv, Parts
        <3> QED
            BY <2>1, <3>3 DEF I2cInv, AnswersAreToTheQuestion, Answer
    <2>2. CASE ask.stage # "done"
        BY <2>2 DEF I2cInv, AnswersAreToTheQuestion
    <2> QED
        BY <2>1, <2>2
<1> QED
    BY <1>1, <1>2, <1>3, PTL DEF I2cSpec

-----------------------------------------------------------------------------
(* The DMA engine and the two drivers of the sound model. *)

ChannelShape(ch) ==
    /\ ch = [run |-> ch.run, stopped |-> ch.stopped, chained |-> ch.chained, ints |-> ch.ints,
             next |-> ch.next, last |-> ch.last, from |-> ch.from, to |-> ch.to,
             left |-> ch.left, irqs |-> ch.irqs]
    /\ ch.run \in BOOLEAN /\ ch.stopped \in BOOLEAN /\ ch.last \in BOOLEAN
    /\ ch.ints \subseteq Interrupts /\ ch.irqs \subseteq Interrupts

(* The descriptors the sound goes round, by the buffer they play. *)
Round(k) == IF k = 1 THEN PlayChain ELSE Table[PlayChain].next

(* The sound driver's channel: what is left of a transfer is for the codec *)
(* and tells its end, and the chain stays on its two descriptors.          *)
PlayOk(ch) ==
    /\ ChannelShape(ch) /\ ch.chained /\ ~ch.last
    /\ ch.left \in Nat
    /\ ch.left # 0 => ch.to = Codec /\ ch.irqs = {"end"} /\ ch.from \in Nat
    /\ ch.run => ch.next \in {Round(1), Round(2)}

(* The channel is at buffer k, with all of it to come or some of it left. *)
At(ch, k) ==
    IF ch.left = 0 THEN ch.next = Round(k)
    ELSE /\ ch.next = Round(3 - k)
         /\ ch.from .. ch.from + ch.left - 1 \subseteq Buffers[k]

(* The other's: it is between two transfers, and what it has yet to do is  *)
(* part of the copy.                                                       *)
CopyOk(ch) ==
    /\ ChannelShape(ch) /\ ch.chained
    /\ ch.left = 0
    /\ ch.run => ch.next \in DOMAIN Table /\ Table[ch.next].to # Codec

(* The words below an address have been copied. *)
CopiedTo(m, limit) == \A a \in CopyTo : a < limit => m[a] = m[CopyFrom + a - Min(CopyTo)]
AllCopied(m) == \A a \in CopyTo : m[a] = m[CopyFrom + a - Min(CopyTo)]

CopyState(ch, m) ==
    /\ CopyOk(ch)
    /\ copier = "running" /\ ch.run => ch.ints = {} /\ CopiedTo(m, Table[ch.next].to)
    /\ copier = "running" /\ ~ch.run => AllCopied(m)
    /\ copier = "done" => ~ch.run /\ AllCopied(m)

-----------------------------------------------------------------------------
(* What the engine does to a channel. *)

(* A descriptor has been read, words have been moved, a transfer is over. *)
HasFetched(ch, d, g) ==
    /\ ChannelShape(g)
    /\ g.run = ch.run /\ g.chained = ch.chained /\ g.ints = ch.ints
    /\ g.next = d.next /\ g.last = d.stop /\ g.from = d.from /\ g.to = d.to
    /\ g.left = d.len /\ g.irqs = d.irqs

HasMoved(ch, count, g) ==
    /\ ChannelShape(g)
    /\ g.run = ch.run /\ g.chained = ch.chained /\ g.ints = ch.ints
    /\ g.next = ch.next /\ g.last = ch.last /\ g.irqs = ch.irqs
    /\ g.from = ch.from + count /\ g.left = ch.left - count
    /\ g.to = IF ch.to = Codec THEN Codec ELSE ch.to + count

HasWritten(ch, run, clears, g) ==
    /\ ChannelShape(g)
    /\ g.run = run /\ g.chained /\ g.ints = ch.ints \ clears
    /\ g.next = ch.next /\ g.last = ch.last /\ g.from = ch.from /\ g.to = ch.to
    /\ g.left = ch.left /\ g.irqs = ch.irqs

HasCompleted(ch, g) ==
    /\ ChannelShape(g)
    /\ g.run = (ch.run /\ ~ch.last) /\ g.chained = ch.chained
    /\ g.ints = ch.ints \cup ch.irqs
    /\ g.next = ch.next /\ g.last = ch.last /\ g.left = ch.left

LEMMA FetchedIs ==
    ASSUME NEW ch, ChannelShape(ch), ch.next \in DOMAIN Table
    PROVE  HasFetched(ch, Table[ch.next], Fetched(ch))
<1>1. PICK d : d = Table[ch.next]
    OBVIOUS
<1>2. d.stop \in BOOLEAN /\ d.irqs \subseteq Interrupts
    BY <1>1, DmaAssumption DEF Interrupts
<1>3. PICK g : g = Fetched(ch)
    OBVIOUS
<1>4. HasFetched(ch, d, g)
    BY <1>1, <1>2, <1>3 DEF Fetched, ChannelShape, HasFetched
<1> QED
    BY <1>1, <1>3, <1>4

LEMMA MovedIs ==
    ASSUME NEW ch, ChannelShape(ch), NEW count
    PROVE  HasMoved(ch, count, Moved(ch, count))
<1>1. PICK g : g = Moved(ch, count)
    OBVIOUS
<1>2. HasMoved(ch, count, g)
    BY <1>1 DEF Moved, ChannelShape, HasMoved
<1> QED
    BY <1>1, <1>2

LEMMA CompletedIs ==
    ASSUME NEW ch, ChannelShape(ch), ch.chained
    PROVE  HasCompleted(ch, Completed(ch))
<1>1. PICK g : g = Completed(ch)
    OBVIOUS
<1>2. HasCompleted(ch, g)
    BY <1>1 DEF Completed, ChannelShape, HasCompleted
<1> QED
    BY <1>1, <1>2

LEMMA DcsrIs ==
    ASSUME NEW ch, ChannelShape(ch), NEW run \in BOOLEAN, NEW clears
    PROVE  HasWritten(ch, run, clears, Dcsr(ch, run, TRUE, clears))
<1>1. PICK g : g = Dcsr(ch, run, TRUE, clears)
    OBVIOUS
<1>2. HasWritten(ch, run, clears, g)
    BY <1>1 DEF Dcsr, ChannelShape, HasWritten
<1> QED
    BY <1>1, <1>2

LEMMA DdadrIs ==
    ASSUME NEW ch, ChannelShape(ch), NEW address, NEW g, g = Ddadr(ch, address)
    PROVE  /\ ChannelShape(g)
           /\ g.run = ch.run /\ g.chained = ch.chained /\ g.ints = ch.ints
           /\ g.next = address /\ ~g.last /\ g.from = ch.from /\ g.to = ch.to
           /\ g.left = ch.left /\ g.irqs = ch.irqs
BY DEF Ddadr, ChannelShape

-----------------------------------------------------------------------------
LEMMA MinOfTwo ==
    ASSUME NEW x \in Nat, NEW y \in Nat
    PROVE  Min({x, y}) \in Nat /\ Min({x, y}) <= x /\ Min({x, y}) <= y
<1>1. \E z \in {x, y} : \A w \in {x, y} : z <= w
    OBVIOUS
<1>2. Min({x, y}) \in {x, y} /\ \A w \in {x, y} : Min({x, y}) <= w
    BY <1>1, Zenon DEF Min
<1> QED
    BY <1>2

LEMMA MinOfChans ==
    ASSUME NEW S \in SUBSET Chans, S # {}
    PROVE  Min(S) \in S
<1>1. S \subseteq Nat
    BY DmaAssumption
<1>2. PICK x \in S : \A y \in S : <<y, x>> \notin OpToRel(<, Nat)
    BY <1>1, NatLessThanWellFounded, WFMin
<1>3. ASSUME NEW y \in S PROVE x <= y
    <2>1. x \in Nat /\ y \in Nat
        BY <1>1
    <2>2. ~(y < x)
        BY <1>2, <2>1 DEF OpToRel
    <2> QED
        BY <2>1, <2>2
<1> QED
    BY <1>3, Zenon DEF Min

(* The descriptors of the sound. *)
LEMMA RoundIs ==
    ASSUME NEW k \in {1, 2}, NEW d, d = Table[Round(k)]
    PROVE  /\ Round(k) \in DOMAIN Table
           /\ d.next = Round(3 - k)
           /\ d.to = Codec /\ ~d.stop /\ d.irqs = {"end"} /\ d.len \in Nat \ {0}
           /\ d.from \in Nat
           /\ d.from .. d.from + d.len - 1 \subseteq Buffers[k]
<1>1. Round(k) \in DOMAIN Table
    BY PlayAssumption, DmaAssumption DEF Round
<1>2. d.next = Round(3 - k)
    <2>1. CASE k = 1
        BY <2>1 DEF Round
    <2>2. CASE k = 2
        BY <2>2, PlayAssumption DEF Round
    <2> QED
        BY <2>1, <2>2
<1>3. d = Table[IF k = 1 THEN PlayChain ELSE Table[PlayChain].next]
    BY DEF Round
<1> QED
    BY <1>1, <1>2, <1>3, PlayAssumption, DmaAssumption

-----------------------------------------------------------------------------
(* A turn of the sound driver's channel.  It is part of a transfer, or the *)
(* rest of one, and only the rest ends a buffer.                           *)
LEMMA PlayCurrent ==
    ASSUME NEW ch, PlayOk(ch), ch.run, NEW cur, cur = Current(ch)
    PROVE  /\ PlayOk(cur) /\ cur.left # 0 /\ cur.ints = ch.ints
           /\ \A k \in {1, 2} : At(ch, k) => At(cur, k)
<1>1. CASE ch.left # 0
    BY <1>1 DEF Current, PlayOk
<1>2. CASE ch.left = 0
    <2>1. PICK j \in {1, 2} : ch.next = Round(j)
        BY DEF PlayOk
    <2>2. PICK d : d = Table[Round(j)]
        OBVIOUS
    <2>3. /\ Round(j) \in DOMAIN Table
          /\ d.next = Round(3 - j)
          /\ d.to = Codec /\ ~d.stop /\ d.irqs = {"end"} /\ d.len \in Nat \ {0}
          /\ d.from \in Nat
          /\ d.from .. d.from + d.len - 1 \subseteq Buffers[j]
        BY <2>2, RoundIs
    <2>4. cur = Fetched(ch)
        BY <1>2 DEF Current, PlayOk
    <2>9. ChannelShape(ch) /\ ch.next \in DOMAIN Table /\ d = Table[ch.next]
        BY <2>1, <2>2, <2>3 DEF PlayOk
    <2>5. HasFetched(ch, d, cur)
        BY <2>4, <2>9, FetchedIs
    <2>6. 3 - j \in {1, 2}
        OBVIOUS
    <2>7. PlayOk(cur) /\ cur.left # 0 /\ cur.ints = ch.ints
        BY <2>3, <2>5, <2>6 DEF PlayOk, HasFetched
    <2>8. ASSUME NEW k \in {1, 2}, At(ch, k) PROVE At(cur, k)
        <3>1. Round(j) = Round(k)
            BY <1>2, <2>1, <2>8 DEF At
        <3>2. d = Table[Round(k)]
            BY <2>2, <3>1
        <3>3. d.next = Round(3 - k) /\ d.from .. d.from + d.len - 1 \subseteq Buffers[k]
            BY <3>2, RoundIs
        <3> QED
            BY <2>5, <2>7, <3>3 DEF At, HasFetched
    <2> QED
        BY <2>7, <2>8
<1> QED
    BY <1>1, <1>2

LEMMA PlayMoved ==
    ASSUME NEW cur, PlayOk(cur), cur.left # 0, NEW count \in Nat, count <= cur.left,
           NEW after, after = Moved(cur, count)
    PROVE  /\ PlayOk(after) /\ after.ints = cur.ints /\ after.irqs = {"end"}
           /\ \A k \in {1, 2} : At(cur, k) /\ after.left # 0 => At(after, k)
           /\ \A k \in {1, 2} : At(cur, k) /\ after.left = 0 => after.next = Round(3 - k)
<1>0. ChannelShape(cur)
    BY DEF PlayOk
<1>1. HasMoved(cur, count, after)
    BY <1>0, MovedIs
<1>2. PlayOk(after) /\ after.irqs = {"end"} /\ after.ints = cur.ints
    BY <1>1 DEF PlayOk, HasMoved
<1>3. ASSUME NEW k \in {1, 2}, At(cur, k), after.left # 0
      PROVE  At(after, k)
    <2>1. after.from .. after.from + after.left - 1 \subseteq cur.from .. cur.from + cur.left - 1
        BY <1>1 DEF PlayOk, HasMoved
    <2> QED
        BY <1>1, <1>3, <2>1 DEF At, HasMoved
<1>4. ASSUME NEW k \in {1, 2}, At(cur, k), after.left = 0
      PROVE  after.next = Round(3 - k)
    BY <1>1, <1>4 DEF At, HasMoved
<1> QED
    BY <1>2, <1>3, <1>4

LEMMA PlayCompleted ==
    ASSUME NEW after, PlayOk(after), after.left = 0, after.irqs = {"end"},
           NEW new, new = Completed(after)
    PROVE  /\ PlayOk(new) /\ new.ints = after.ints \cup {"end"}
           /\ \A k \in {1, 2} : after.next = Round(3 - k) => At(new, 3 - k)
<1>0. ChannelShape(after) /\ after.chained
    BY DEF PlayOk
<1>1. HasCompleted(after, new)
    BY <1>0, CompletedIs
<1> QED
    BY <1>1 DEF PlayOk, At, HasCompleted

-----------------------------------------------------------------------------
(* A turn of the other channel is a whole transfer, the next of the copy. *)
LEMMA CopyWords ==
    /\ Min(CopyTo) \in Nat /\ Min(CopyTo) # Codec
    /\ CopyTo \subseteq Nat
    /\ \A a \in CopyTo : CopyFrom + a - Min(CopyTo) \in Addresses \ CopyTo
BY DmaAssumption, CopyAssumption DEF Codec

(* What a transfer of the copy has done. *)
HasCopied(t, m, n) ==
    /\ CopiedTo(m, t.to) => CopiedTo(n, t.to + t.len)
    /\ CopiedTo(m, t.to) /\ t.stop => AllCopied(n)
    /\ ~t.stop => Table[t.next].to = t.to + t.len /\ t.to + t.len # Codec /\ t.irqs = {}

LEMMA CopiedIs ==
    ASSUME NEW m, NEW d \in DOMAIN Table, NEW t, t = Table[d], t.to # Codec,
           NEW n, n = Copied(m, t.from, t.to, t.len)
    PROVE  HasCopied(t, m, n)
<1>1. PICK low : low = Min(CopyTo)
    OBVIOUS
<1>2. low \in Nat /\ low # 0 /\ CopyTo \subseteq Nat /\ CopyTo \subseteq Addresses
    BY <1>1, CopyWords, CopyAssumption DEF Codec
<1>3. /\ t.to \in Nat /\ t.to >= low /\ t.len \in Nat
      /\ t.to .. t.to + t.len - 1 \subseteq CopyTo
      /\ t.from = CopyFrom + t.to - low
      /\ ~t.stop => t.irqs = {} /\ Table[t.next].to = t.to + t.len
      /\ t.stop => \A a \in CopyTo : a < t.to + t.len
    BY <1>1, CopyAssumption, DmaAssumption
<1>4. CopyFrom \in Nat
    BY CopyAssumption
<1>5. \A a \in CopyTo : CopyFrom + a - low \in Addresses \ CopyTo
    BY <1>1, CopyWords
<1>6. \A a \in Addresses :
          n[a] = IF a \in t.to .. t.to + t.len - 1 THEN m[t.from + a - t.to] ELSE m[a]
    BY DEF Copied
<1>7. ASSUME CopiedTo(m, t.to), NEW a \in CopyTo, a < t.to + t.len
      PROVE  n[a] = n[CopyFrom + a - low]
    <2>1. a \in Nat /\ a \in Addresses
        BY <1>2
    <2>2. PICK s : s = CopyFrom + a - low
        OBVIOUS
    <2>3. s \in Addresses /\ s \notin CopyTo
        BY <1>5, <2>2
    <2>4. n[s] = m[s]
        BY <1>3, <1>6, <2>3
    <2>5. CASE a < t.to
        <3>1. m[a] = m[s]
            BY <1>1, <1>7, <2>2, <2>5 DEF CopiedTo
        <3>2. a \notin t.to .. t.to + t.len - 1
            BY <1>3, <2>1, <2>5
        <3>3. n[a] = m[a]
            BY <1>6, <2>1, <3>2
        <3> QED
            BY <2>2, <2>4, <3>1, <3>3
    <2>6. CASE ~(a < t.to)
        <3>1. a \in t.to .. t.to + t.len - 1
            BY <1>3, <1>7, <2>1, <2>6
        <3>2. n[a] = m[t.from + a - t.to]
            BY <1>6, <2>1, <3>1
        <3>3. t.from + a - t.to = s
            BY <1>2, <1>3, <1>4, <2>1, <2>2
        <3> QED
            BY <2>2, <2>4, <3>2, <3>3
    <2> QED
        BY <2>5, <2>6
<1>8. CopiedTo(m, t.to) => CopiedTo(n, t.to + t.len)
    BY <1>1, <1>7 DEF CopiedTo
<1>9. CopiedTo(m, t.to) /\ t.stop => AllCopied(n)
    BY <1>1, <1>3, <1>7 DEF AllCopied
<1>10. ~t.stop => Table[t.next].to = t.to + t.len /\ t.to + t.len # Codec /\ t.irqs = {}
    BY <1>2, <1>3 DEF Codec
<1> QED
    BY <1>8, <1>9, <1>10 DEF HasCopied

LEMMA CopyServed ==
    ASSUME NEW ch, NEW m, CopyState(ch, m), ch.run,
           NEW cur, cur = Current(ch), NEW available, NEW count, count = Count(cur, available),
           NEW after, after = Moved(cur, count), NEW new, new = Completed(after),
           NEW n, n = Copied(m, cur.from, cur.to, count)
    PROVE  cur.to # Codec /\ after.left = 0 /\ CopyState(new, n)
<1>1. PICK t : t = Table[ch.next]
    OBVIOUS
<1>2. ch.next \in DOMAIN Table /\ t.to # Codec /\ ChannelShape(ch) /\ ch.chained /\ ch.left = 0
    BY <1>1 DEF CopyState, CopyOk
<1>3. t.len \in Nat /\ t.stop \in BOOLEAN /\ t.next \in DOMAIN Table
    BY <1>1, <1>2, DmaAssumption
<1>4. cur = Fetched(ch)
    BY <1>2 DEF Current
<1>5. HasFetched(ch, t, cur)
    BY <1>1, <1>2, <1>4, FetchedIs
<1>6. count = t.len
    BY <1>2, <1>5 DEF Count, HasFetched
<1>7. HasMoved(cur, count, after)
    <2>1. ChannelShape(cur)
        BY <1>5 DEF HasFetched
    <2> QED
        BY <2>1, MovedIs
<1>8. after.left = 0 /\ after.chained /\ ChannelShape(after)
    <2>1. after.left = t.len - t.len
        BY <1>5, <1>6, <1>7 DEF HasFetched, HasMoved
    <2>2. after.chained /\ ChannelShape(after)
        BY <1>2, <1>5, <1>7, Zenon DEF HasFetched, HasMoved
    <2> QED
        BY <1>3, <2>1, <2>2
<1>9. HasCompleted(after, new)
    BY <1>8, CompletedIs
<1>10. /\ new.run = (ch.run /\ ~t.stop) /\ new.chained /\ new.ints = ch.ints \cup t.irqs
       /\ new.next = t.next /\ new.left = 0 /\ ChannelShape(new)
    BY <1>2, <1>5, <1>7, <1>8, <1>9 DEF HasFetched, HasMoved, HasCompleted
<1>11. n = Copied(m, t.from, t.to, t.len) /\ cur.to = t.to
    BY <1>5, <1>6 DEF HasFetched
<1>12. HasCopied(t, m, n)
    BY <1>1, <1>2, <1>11, CopiedIs
<1>13. CopyOk(new)
    BY <1>3, <1>10, <1>12 DEF CopyOk, HasCopied
<1>14. copier = "running" => ch.ints = {} /\ CopiedTo(m, t.to)
    BY <1>1 DEF CopyState
<1>15. copier # "done"
    BY DEF CopyState
<1>16. copier = "running" /\ new.run => new.ints = {} /\ CopiedTo(n, Table[new.next].to)
    BY <1>10, <1>12, <1>14 DEF HasCopied
<1>17. copier = "running" /\ ~new.run => AllCopied(n)
    BY <1>10, <1>12, <1>14 DEF HasCopied
<1> QED
    BY <1>2, <1>8, <1>11, <1>13, <1>15, <1>16, <1>17 DEF CopyState

-----------------------------------------------------------------------------
(* How often the sound driver's channel has finished a buffer. *)
Ended(done) == Cardinality({i \in 1 .. Len(done) : done[i] = Playing})

LEMMA EndedIs ==
    ASSUME NEW s \in Seq(Chans), NEW c \in Chans
    PROVE  /\ Ended(<< >>) = 0
           /\ Ended(s) \in Nat
           /\ c = Playing => Ended(Append(s, c)) = Ended(s) + 1
           /\ c # Playing => Ended(Append(s, c)) = Ended(s)
<1> DEFINE E(q) == {i \in 1 .. Len(q) : q[i] = Playing}
<1>1. PICK n \in Nat : n = Len(s)
    OBVIOUS
<1>2. PICK p : p = Append(s, c)
    OBVIOUS
<1>3. Len(p) = n + 1 /\ p[n + 1] = c /\ \A i \in 1 .. n : p[i] = s[i]
    BY <1>1, <1>2, AppendProperties
<1>4. IsFiniteSet(1 .. n)
    BY FS_Interval
<1>5. E(s) \subseteq 1 .. n
    BY <1>1
<1>6. IsFiniteSet(E(s)) /\ Cardinality(E(s)) \in Nat
    BY <1>4, <1>5, FS_Subset, FS_CardinalityType
<1>7. E(p) = IF c = Playing THEN E(s) \cup {n + 1} ELSE E(s)
    BY <1>1, <1>3
<1>8. n + 1 \notin E(s)
    BY <1>1, <1>5
<1>9. Cardinality(E(s) \cup {n + 1}) = Cardinality(E(s)) + 1
    BY <1>6, <1>8, FS_AddElement
<1>10. E(<< >>) = {}
    OBVIOUS
<1>11. Cardinality({}) = 0
    BY FS_EmptySet
<1> QED
    BY <1>2, <1>6, <1>7, <1>9, <1>10, <1>11 DEF Ended

(* The engine in the course of a batch. *)
EngineShape(b) ==
    /\ b = [chan |-> b.chan, mem |-> b.mem, credit |-> b.credit, pcm |-> b.pcm,
            done |-> b.done, more |-> b.more]
    /\ b.chan = [c \in Chans |-> b.chan[c]]

EngineOk(b) ==
    /\ EngineShape(b)
    /\ b.credit \in Nat
    /\ b.done \in Seq(Chans)
    /\ \A c \in Chans \ {Playing, Copying} : ~b.chan[c].run
    /\ PlayOk(b.chan[Playing])
    /\ CopyState(b.chan[Copying], b.mem)

(* A batch that began at buffer k with interrupts z, as long as it has     *)
(* finished one buffer at most.                                            *)
WaveAt(b, k, z) ==
    /\ Ended(b.done) = 0 => b.chan[Playing].ints = z /\ At(b.chan[Playing], k)
    /\ Ended(b.done) = 1 =>
          b.chan[Playing].ints = z \cup {"end"} /\ At(b.chan[Playing], 3 - k)

(* The words a channel gives the codec. *)
Given(m, from, count) == [i \in 1 .. count |-> m[from + i - 1]]

(* A turn given to channel c. *)
HasServed(b, c, ch, count, after, g) ==
    /\ EngineShape(g)
    /\ ch.to = Codec /\ count = 0 =>
          /\ g.chan = [b.chan EXCEPT ![c] = ch]
          /\ g.mem = b.mem /\ g.credit = b.credit /\ g.done = b.done /\ g.pcm = b.pcm
    /\ ~(ch.to = Codec /\ count = 0) =>
          /\ g.chan = [b.chan EXCEPT ![c] = IF after.left = 0 THEN Completed(after) ELSE after]
          /\ g.mem = IF ch.to = Codec THEN b.mem ELSE Copied(b.mem, ch.from, ch.to, count)
          /\ g.credit = IF ch.to = Codec THEN b.credit - count ELSE b.credit
          /\ g.done = IF after.left = 0 THEN Append(b.done, c) ELSE b.done
          /\ g.pcm = IF ch.to = Codec THEN b.pcm \o Given(b.mem, ch.from, count) ELSE b.pcm

LEMMA ServiceIs ==
    ASSUME NEW b, EngineShape(b), NEW c \in Chans, c = Min(Runnable(b.chan)),
           NEW ch, ch = Current(b.chan[c]), NEW count, count = Count(ch, b.credit),
           NEW after, after = Moved(ch, count)
    PROVE  HasServed(b, c, ch, count, after, Service(b))
<1> DEFINE new == IF after.left = 0 THEN Completed(after) ELSE after
           out == Given(b.mem, ch.from, count)
           fed == ch.to = Codec
<1>1. PICK g : g = Service(b)
    OBVIOUS
<1>2. \A x : [b.chan EXCEPT ![c] = x] = [e \in Chans |-> [b.chan EXCEPT ![c] = x][e]]
    BY DEF EngineShape
<1>3. CASE fed /\ count = 0
    <2>1. g = [b EXCEPT !.chan[c] = ch, !.more = FALSE]
        BY <1>1, <1>3, Zenon DEF Service
    <2>2. /\ g.chan = [b.chan EXCEPT ![c] = ch]
          /\ g.mem = b.mem /\ g.credit = b.credit /\ g.done = b.done /\ g.pcm = b.pcm
          /\ g = [chan |-> g.chan, mem |-> g.mem, credit |-> g.credit, pcm |-> g.pcm,
                  done |-> g.done, more |-> g.more]
        BY <2>1 DEF EngineShape
    <2> QED
        BY <1>1, <1>2, <1>3, <2>2 DEF HasServed, EngineShape
<1>4. CASE ~(fed /\ count = 0)
    <2>1. g = [b EXCEPT !.chan[c] = new,
                       !.mem = IF fed THEN @ ELSE Copied(@, ch.from, ch.to, count),
                       !.pcm = IF fed THEN @ \o out ELSE @,
                       !.credit = IF fed THEN @ - count ELSE @,
                       !.done = IF after.left = 0 THEN Append(@, c) ELSE @]
        BY <1>1, <1>4, Zenon DEF Service, Given
    <2> HIDE DEF new, out
    <2>2. /\ g.chan = [b.chan EXCEPT ![c] = new]
          /\ g.mem = IF fed THEN b.mem ELSE Copied(b.mem, ch.from, ch.to, count)
          /\ g.credit = IF fed THEN b.credit - count ELSE b.credit
          /\ g.done = IF after.left = 0 THEN Append(b.done, c) ELSE b.done
          /\ g.pcm = IF fed THEN b.pcm \o out ELSE b.pcm
          /\ g = [chan |-> g.chan, mem |-> g.mem, credit |-> g.credit, pcm |-> g.pcm,
                  done |-> g.done, more |-> g.more]
        BY <2>1 DEF EngineShape
    <2>3. g.chan = [e \in Chans |-> g.chan[e]]
        BY <1>2, <2>2
    <2>4. EngineShape(g)
        BY <2>2, <2>3 DEF EngineShape
    <2>5. /\ g.chan = [b.chan EXCEPT ![c] = IF after.left = 0 THEN Completed(after) ELSE after]
          /\ g.pcm = IF fed THEN b.pcm \o Given(b.mem, ch.from, count) ELSE b.pcm
        BY <2>2 DEF new, out
    <2> QED
        BY <1>1, <1>4, <2>2, <2>4, <2>5 DEF HasServed
<1> QED
    BY <1>3, <1>4

(* A turn given to the sound driver's channel. *)
LEMMA PlayTurn ==
    ASSUME NEW b, EngineOk(b), Playing = Min(Runnable(b.chan)), b.chan[Playing].run
    PROVE  /\ EngineOk(Service(b))
           /\ \A k \in {1, 2}, z \in SUBSET Interrupts : WaveAt(b, k, z) => WaveAt(Service(b), k, z)
<1>1. PICK ch : ch = b.chan[Playing]
    OBVIOUS
<1>2. PICK cur : cur = Current(ch)
    OBVIOUS
<1>3. PICK count : count = Count(cur, b.credit)
    OBVIOUS
<1>4. PICK after : after = Moved(cur, count)
    OBVIOUS
<1>5. PICK new : new = IF after.left = 0 THEN Completed(after) ELSE after
    OBVIOUS
<1>6. PICK g : g = Service(b)
    OBVIOUS
<1>7. PlayOk(ch) /\ ch.run
    BY <1>1 DEF EngineOk
<1>8. /\ PlayOk(cur) /\ cur.left # 0 /\ cur.ints = ch.ints
      /\ \A k \in {1, 2} : At(ch, k) => At(cur, k)
    BY <1>2, <1>7, PlayCurrent
<1>9. cur.left \in Nat /\ cur.to = Codec /\ b.credit \in Nat
    BY <1>8 DEF PlayOk, EngineOk
<1>10. count \in Nat /\ count <= cur.left /\ count <= b.credit
    <2>1. count = Min({cur.left, b.credit})
        BY <1>3, <1>9 DEF Count
    <2> QED
        BY <1>9, <2>1, MinOfTwo
<1>11. /\ PlayOk(after) /\ after.ints = cur.ints /\ after.irqs = {"end"}
       /\ \A k \in {1, 2} : At(cur, k) /\ after.left # 0 => At(after, k)
       /\ \A k \in {1, 2} : At(cur, k) /\ after.left = 0 => after.next = Round(3 - k)
    BY <1>4, <1>8, <1>10, PlayMoved
<1>12. EngineShape(b) /\ Playing \in Chans
    BY ChannelsAssumption DEF EngineOk
<1>13. HasServed(b, Playing, cur, count, after, g)
    BY <1>1, <1>2, <1>3, <1>4, <1>6, <1>12, ServiceIs
<1>14. EngineShape(g) /\ b.done \in Seq(Chans)
    BY <1>13 DEF HasServed, EngineOk
<1>15. ASSUME NEW p, PlayOk(p), g.chan = [b.chan EXCEPT ![Playing] = p],
              g.mem = b.mem, g.credit \in Nat, g.done \in Seq(Chans)
       PROVE  EngineOk(g) /\ g.chan[Playing] = p
    <2>1. /\ g.chan[Playing] = p
          /\ \A c \in Chans \ {Playing} : g.chan[c] = b.chan[c]
        BY <1>12, <1>15 DEF EngineShape
    <2>2. Copying \in Chans \ {Playing}
        BY ChannelsAssumption
    <2> QED
        BY <1>14, <1>15, <2>1, <2>2 DEF EngineOk
<1>16. CASE count = 0
    <2>1. g.chan = [b.chan EXCEPT ![Playing] = cur]
          /\ g.mem = b.mem /\ g.credit = b.credit /\ g.done = b.done
        BY <1>9, <1>13, <1>16 DEF HasServed
    <2>2. EngineOk(g) /\ g.chan[Playing] = cur
        BY <1>8, <1>9, <1>14, <1>15, <2>1
    <2>3. ASSUME NEW k \in {1, 2}, NEW z, WaveAt(b, k, z) PROVE WaveAt(g, k, z)
        <3>1. 3 - k \in {1, 2}
            OBVIOUS
        <3> QED
            BY <1>1, <1>8, <2>1, <2>2, <2>3, <3>1 DEF WaveAt
    <2> QED
        BY <1>6, <2>2, <2>3
<1>17. CASE count # 0
    <2>1. /\ g.chan = [b.chan EXCEPT ![Playing] = new]
          /\ g.mem = b.mem /\ g.credit = b.credit - count
          /\ g.done = IF after.left = 0 THEN Append(b.done, Playing) ELSE b.done
        BY <1>5, <1>9, <1>13, <1>17 DEF HasServed
    <2>2. g.credit \in Nat /\ g.done \in Seq(Chans)
        BY <1>9, <1>10, <1>12, <1>14, <2>1, AppendProperties
    <2>3. CASE after.left # 0
        <3>1. new = after /\ g.done = b.done
            BY <1>5, <2>1, <2>3
        <3>2. EngineOk(g) /\ g.chan[Playing] = after
            BY <1>11, <1>15, <2>1, <2>2, <3>1
        <3>3. ASSUME NEW k \in {1, 2}, NEW z, WaveAt(b, k, z) PROVE WaveAt(g, k, z)
            <4>1. 3 - k \in {1, 2}
                OBVIOUS
            <4> QED
                BY <1>1, <1>8, <1>11, <2>3, <3>1, <3>2, <3>3, <4>1 DEF WaveAt
        <3> QED
            BY <1>6, <3>2, <3>3
    <2>4. CASE after.left = 0
        <3>1. new = Completed(after) /\ g.done = Append(b.done, Playing)
            BY <1>5, <2>1, <2>4
        <3>2. /\ PlayOk(new) /\ new.ints = after.ints \cup {"end"}
              /\ \A k \in {1, 2} : after.next = Round(3 - k) => At(new, 3 - k)
            BY <1>11, <2>4, <3>1, PlayCompleted
        <3>3. EngineOk(g) /\ g.chan[Playing] = new
            BY <1>15, <2>1, <2>2, <3>2
        <3>4. Ended(b.done) \in Nat /\ Ended(g.done) = Ended(b.done) + 1
            BY <1>12, <1>14, <3>1, EndedIs
        <3>5. ASSUME NEW k \in {1, 2}, NEW z, WaveAt(b, k, z) PROVE WaveAt(g, k, z)
            <4>1. CASE Ended(b.done) = 0
                <5>1. ch.ints = z /\ At(ch, k)
                    BY <1>1, <3>5, <4>1 DEF WaveAt
                <5>2. new.ints = z \cup {"end"} /\ At(new, 3 - k)
                    BY <1>8, <1>11, <2>4, <3>2, <5>1
                <5> QED
                    BY <3>3, <3>4, <4>1, <5>2 DEF WaveAt
            <4>2. CASE Ended(b.done) # 0
                <5>1. Ended(g.done) # 0 /\ Ended(g.done) # 1
                    BY <3>4, <4>2
                <5> QED
                    BY <5>1 DEF WaveAt
            <4> QED
                BY <4>1, <4>2
        <3> QED
            BY <1>6, <3>3, <3>5
    <2> QED
        BY <2>3, <2>4
<1> QED
    BY <1>16, <1>17

(* And one given to the other. *)
LEMMA CopyTurn ==
    ASSUME NEW b, EngineOk(b), Copying = Min(Runnable(b.chan)), b.chan[Copying].run
    PROVE  /\ EngineOk(Service(b))
           /\ \A k \in {1, 2}, z \in SUBSET Interrupts : WaveAt(b, k, z) => WaveAt(Service(b), k, z)
<1>1. PICK ch : ch = b.chan[Copying]
    OBVIOUS
<1>2. PICK cur : cur = Current(ch)
    OBVIOUS
<1>3. PICK count : count = Count(cur, b.credit)
    OBVIOUS
<1>4. PICK after : after = Moved(cur, count)
    OBVIOUS
<1>5. PICK new : new = Completed(after)
    OBVIOUS
<1>6. PICK n : n = Copied(b.mem, cur.from, cur.to, count)
    OBVIOUS
<1>7. PICK g : g = Service(b)
    OBVIOUS
<1>8. CopyState(ch, b.mem) /\ ch.run
    BY <1>1 DEF EngineOk
<1>9. cur.to # Codec /\ after.left = 0 /\ CopyState(new, n)
    BY <1>2, <1>3, <1>4, <1>5, <1>6, <1>8, CopyServed
<1>10. EngineShape(b) /\ Copying \in Chans /\ b.done \in Seq(Chans)
    BY ChannelsAssumption DEF EngineOk
<1>11. HasServed(b, Copying, cur, count, after, g)
    BY <1>1, <1>2, <1>3, <1>4, <1>7, <1>10, ServiceIs
<1>12. /\ EngineShape(g)
       /\ g.chan = [b.chan EXCEPT ![Copying] = new]
       /\ g.mem = n /\ g.credit = b.credit /\ g.done = Append(b.done, Copying)
    BY <1>5, <1>6, <1>9, <1>11 DEF HasServed
<1>13. /\ g.chan[Copying] = new
       /\ \A c \in Chans \ {Copying} : g.chan[c] = b.chan[c]
    BY <1>10, <1>12 DEF EngineShape
<1>14. Playing \in Chans \ {Copying}
    BY ChannelsAssumption
<1>15. g.done \in Seq(Chans) /\ Ended(g.done) = Ended(b.done)
    BY <1>10, <1>12, <1>14, EndedIs, AppendProperties
<1>16. EngineOk(g)
    BY <1>9, <1>12, <1>13, <1>14, <1>15 DEF EngineOk
<1>17. ASSUME NEW k, NEW z, WaveAt(b, k, z) PROVE WaveAt(g, k, z)
    BY <1>13, <1>14, <1>15, <1>17 DEF WaveAt
<1> QED
    BY <1>7, <1>16, <1>17

LEMMA TurnKeeps ==
    ASSUME NEW b, EngineOk(b)
    PROVE  /\ EngineOk(Turn(b))
           /\ \A k \in {1, 2}, z \in SUBSET Interrupts : WaveAt(b, k, z) => WaveAt(Turn(b), k, z)
<1>1. CASE b.more /\ Runnable(b.chan) # {}
    <2>1. Turn(b) = Service(b)
        BY <1>1 DEF Turn
    <2>2. PICK c : c = Min(Runnable(b.chan))
        OBVIOUS
    <2>3. Runnable(b.chan) \in SUBSET Chans
        BY DEF Runnable
    <2>4. c \in Chans /\ b.chan[c].run
        BY <1>1, <2>2, <2>3, MinOfChans DEF Runnable
    <2>5. c = Playing \/ c = Copying
        BY <2>4 DEF EngineOk
    <2> QED
        BY <2>1, <2>2, <2>4, <2>5, PlayTurn, CopyTurn
<1>2. CASE ~(b.more /\ Runnable(b.chan) # {})
    BY <1>2, Zenon DEF Turn
<1> QED
    BY <1>1, <1>2

-----------------------------------------------------------------------------
(* The turns of a batch, one after the other. *)
AreTurns(f, start, n) == f = [i \in 0 .. n |-> IF i = 0 THEN start ELSE Turn(f[i - 1])]

(* There are such turns: no number of them is the first that cannot be     *)
(* taken.                                                                  *)
LEMMA TurnsExist ==
    ASSUME NEW start, NEW n \in Nat
    PROVE  \E f : AreTurns(f, start, n)
<1> DEFINE bad == {k \in Nat : ~\E f : AreTurns(f, start, k)}
<1> SUFFICES ASSUME bad # {} PROVE FALSE
    OBVIOUS
<1>1. PICK k \in bad : \A j \in bad : <<j, k>> \notin OpToRel(<, Nat)
    BY NatLessThanWellFounded, WFMin
<1>2. k \in Nat /\ ~\E f : AreTurns(f, start, k)
    OBVIOUS
<1>3. CASE k = 0
    <2>1. AreTurns([i \in 0 .. 0 |-> start], start, 0)
        BY DEF AreTurns
    <2> QED
        BY <1>2, <1>3, <2>1
<1>4. CASE k # 0
    <2>1. k - 1 \in Nat /\ <<k - 1, k>> \in OpToRel(<, Nat)
        BY <1>2, <1>4 DEF OpToRel
    <2>2. PICK f : AreTurns(f, start, k - 1)
        BY <1>1, <2>1
    <2>3. \A i \in 0 .. k - 1 : f[i] = IF i = 0 THEN start ELSE Turn(f[i - 1])
        BY <2>2 DEF AreTurns
    <2>4. PICK g : g = [i \in 0 .. k |-> IF i = k THEN Turn(f[k - 1]) ELSE f[i]]
        OBVIOUS
    <2>5. ASSUME NEW i \in 0 .. k
          PROVE  g[i] = IF i = 0 THEN start ELSE Turn(g[i - 1])
        <3>1. CASE i = k
            <4>1. k - 1 \in 0 .. k /\ k - 1 # k
                BY <1>2, <1>4
            <4>2. g[k - 1] = f[k - 1]
                BY <2>4, <4>1
            <4> QED
                BY <1>4, <2>4, <3>1, <4>2
        <3>2. CASE i # k
            <4>1. i \in 0 .. k - 1 /\ (i # 0 => i - 1 \in 0 .. k /\ i - 1 # k)
                BY <1>2, <3>2
            <4>2. g[i] = f[i] /\ (i # 0 => g[i - 1] = f[i - 1])
                BY <2>4, <3>2, <4>1
            <4> QED
                BY <2>3, <4>1, <4>2
        <3> QED
            BY <3>1, <3>2
    <2>6. AreTurns(g, start, k)
        BY <2>4, <2>5 DEF AreTurns
    <2> QED
        BY <1>2, <2>6
<1> QED
    BY <1>3, <1>4

(* What a turn keeps, a batch keeps. *)
LEMMA TurnsKeep ==
    ASSUME NEW start, EngineOk(start), NEW n \in Nat, NEW f, AreTurns(f, start, n)
    PROVE  /\ EngineOk(f[n])
           /\ \A k \in {1, 2}, z \in SUBSET Interrupts :
                 WaveAt(start, k, z) => WaveAt(f[n], k, z)
<1> DEFINE Good(b) == /\ EngineOk(b)
                      /\ \A k \in {1, 2}, z \in SUBSET Interrupts :
                            WaveAt(start, k, z) => WaveAt(b, k, z)
           bad == {i \in 0 .. n : ~Good(f[i])}
<1> SUFFICES ASSUME ~Good(f[n]) PROVE FALSE
    OBVIOUS
<1>1. n \in bad /\ bad \subseteq Nat
    OBVIOUS
<1>2. PICK i \in bad : \A j \in bad : <<j, i>> \notin OpToRel(<, Nat)
    BY <1>1, NatLessThanWellFounded, WFMin
<1>3. \A j \in 0 .. n : f[j] = IF j = 0 THEN start ELSE Turn(f[j - 1])
    BY DEF AreTurns
<1>4. Good(start)
    OBVIOUS
<1>5. \A b : Good(b) => Good(Turn(b))
    BY TurnKeeps
<1> HIDE DEF Good
<1>6. i \in 0 .. n /\ ~Good(f[i])
    OBVIOUS
<1>7. i # 0
    BY <1>3, <1>4, <1>6
<1>8. i - 1 \in 0 .. n /\ <<i - 1, i>> \in OpToRel(<, Nat)
    BY <1>6, <1>7 DEF OpToRel
<1>9. Good(f[i - 1])
    BY <1>2, <1>8
<1>10. f[i] = Turn(f[i - 1])
    BY <1>3, <1>6, <1>7
<1> QED
    BY <1>5, <1>6, <1>9, <1>10

(* The engine at the start of a batch. *)
Started(frames) ==
    [chan |-> chan, mem |-> mem, credit |-> Min({credit + frames, MaxCredit}),
     pcm |-> << >>, done |-> << >>, more |-> TRUE]

LEMMA BatchIs ==
    ASSUME NEW cycles \in Nat, NEW frames
    PROVE  \E f : AreTurns(f, Started(frames), cycles) /\ Batch(cycles, frames) = f[cycles]
<1>1. PICK start : start = Started(frames)
    OBVIOUS
<1>2. Batch(cycles, frames) =
          (CHOOSE f : f = [i \in 0 .. cycles |->
                              IF i = 0 THEN start ELSE Turn(f[i - 1])])[cycles]
    BY <1>1 DEF Batch, Started
<1>3. PICK f : f = (CHOOSE g : g = [i \in 0 .. cycles |->
                                       IF i = 0 THEN start ELSE Turn(g[i - 1])])
    OBVIOUS
<1>4. PICK g : AreTurns(g, start, cycles)
    BY TurnsExist
<1>5. AreTurns(f, start, cycles)
    BY <1>3, <1>4, Zenon DEF AreTurns
<1>6. Batch(cycles, frames) = f[cycles]
    BY <1>2, <1>3
<1> QED
    BY <1>1, <1>5, <1>6

LEMMA BatchKeeps ==
    ASSUME NEW cycles \in Nat, NEW frames, EngineOk(Started(frames)),
           NEW b, b = Batch(cycles, frames)
    PROVE  /\ EngineOk(b)
           /\ \A k \in {1, 2}, z \in SUBSET Interrupts :
                 WaveAt(Started(frames), k, z) => WaveAt(b, k, z)
<1>1. PICK f : AreTurns(f, Started(frames), cycles) /\ b = f[cycles]
    BY BatchIs
<1> QED
    BY <1>1, TurnsKeep

-----------------------------------------------------------------------------
(* The drivers and the engine together.  What a driver in good time can    *)
(* rely on is where the engine is when it is told, and when it is not.     *)
WaveOk ==
    wave = "playing" /\ ~late /\ ~stale =>
        /\ chan[Playing].ints \in {{}, {"end"}}
        /\ At(chan[Playing], IF chan[Playing].ints = {} THEN fill ELSE 3 - fill)

ChannelsOk ==
    /\ chan = [c \in Chans |-> chan[c]]
    /\ \A c \in Chans \ {Playing, Copying} : ~chan[c].run
    /\ PlayOk(chan[Playing])

SoundInv ==
    /\ ChannelsOk
    /\ credit \in Nat
    /\ CopyState(chan[Copying], mem)
    /\ fill \in {1, 2}
    /\ WaveOk

LEMMA SoundInit == Init => SoundInv
<1> SUFFICES ASSUME Init PROVE SoundInv
    OBVIOUS
<1>1. /\ chan = [c \in Chans |-> IdleChannel] /\ credit = 0 /\ fill = 1
      /\ wave = "off" /\ copier = "idle"
    BY DEF Init, DmaInit
<1>2. Playing \in Chans /\ Copying \in Chans
    BY ChannelsAssumption
<1>3. PICK idle : idle = IdleChannel
    OBVIOUS
<1>4. ChannelShape(idle) /\ idle.chained /\ ~idle.last /\ idle.left = 0 /\ ~idle.run
    BY <1>3 DEF IdleChannel, ChannelShape, Interrupts
<1>5. PlayOk(idle) /\ CopyState(idle, mem)
    BY <1>1, <1>4 DEF PlayOk, CopyState, CopyOk
<1>6. \A c \in Chans : chan[c] = idle
    BY <1>1, <1>3
<1>7. ChannelsOk
    BY <1>1, <1>2, <1>4, <1>5, <1>6 DEF ChannelsOk
<1> QED
    BY <1>1, <1>2, <1>5, <1>6, <1>7 DEF SoundInv, WaveOk

LEMMA TickKeeps ==
    ASSUME SoundInv, NEW cycles \in Batches, NEW frames \in Asked, Tick(cycles, frames)
    PROVE  SoundInv'
<1>1. PICK b : b = Batch(cycles, frames)
    OBVIOUS
<1>2. PICK start : start = Started(frames)
    OBVIOUS
<1>3. cycles \in Nat /\ frames \in Nat /\ MaxCredit \in Nat /\ credit \in Nat
    BY ChannelsAssumption, DmaAssumption DEF SoundInv
<1>4. Min({credit + frames, MaxCredit}) \in Nat
    BY <1>3, MinOfTwo
<1>5. /\ EngineShape(start)
      /\ start.chan = chan /\ start.mem = mem /\ start.credit \in Nat /\ start.done = << >>
    BY <1>2, <1>4 DEF Started, EngineShape, SoundInv, ChannelsOk
<1>6. EngineOk(start)
    BY <1>5 DEF EngineOk, SoundInv, ChannelsOk
<1>7. /\ EngineOk(b)
      /\ \A k \in {1, 2}, z \in SUBSET Interrupts : WaveAt(start, k, z) => WaveAt(b, k, z)
    BY <1>1, <1>2, <1>3, <1>6, BatchKeeps
<1>8. /\ chan' = b.chan /\ mem' = b.mem /\ credit' = b.credit
      /\ wave' = wave /\ fill' = fill /\ stale' = stale /\ copier' = copier
      /\ late' = (late \/ Ended(b.done) > 1
                       \/ (Ended(b.done) = 1 /\ "end" \in chan[Playing].ints))
    BY <1>1 DEF Tick, Ended
<1>9. ChannelsOk'
    BY <1>7, <1>8 DEF ChannelsOk, EngineOk, EngineShape
<1>10. CopyState(chan[Copying], mem)'
    BY <1>7, <1>8 DEF EngineOk, CopyState, AllCopied, CopiedTo
<1>11. ASSUME wave' = "playing", ~late', ~stale'
       PROVE  /\ chan'[Playing].ints \in {{}, {"end"}}
              /\ At(chan'[Playing], IF chan'[Playing].ints = {} THEN fill ELSE 3 - fill)
    <2>1. PICK z : z = chan[Playing].ints
        OBVIOUS
    <2>2. PICK k : k = IF z = {} THEN fill ELSE 3 - fill
        OBVIOUS
    <2>3. wave = "playing" /\ ~late /\ ~stale
        BY <1>8, <1>11
    <2>4. z \in {{}, {"end"}} /\ At(chan[Playing], k) /\ fill \in {1, 2}
        BY <2>1, <2>2, <2>3 DEF SoundInv, WaveOk
    <2>5. k \in {1, 2} /\ z \in SUBSET Interrupts
        BY <2>2, <2>4 DEF Interrupts
    <2>6. Ended(start.done) = 0
        <3>1. << >> \in Seq(Chans) /\ Playing \in Chans
            BY ChannelsAssumption
        <3>2. Ended(<< >>) = 0
            BY <3>1, EndedIs
        <3> QED
            BY <1>5, <3>2
    <2>7. WaveAt(start, k, z)
        BY <1>5, <2>1, <2>4, <2>6 DEF WaveAt
    <2>8. WaveAt(b, k, z)
        BY <1>7, <2>5, <2>7
    <2>9. b.done \in Seq(Chans)
        BY <1>7 DEF EngineOk
    <2>10. Ended(b.done) \in Nat
        BY <2>9, ChannelsAssumption, EndedIs
    <2>11. Ended(b.done) = 0 \/ (Ended(b.done) = 1 /\ z = {})
        <3>1. ~(Ended(b.done) > 1) /\ ~(Ended(b.done) = 1 /\ "end" \in z)
            BY <1>8, <1>11, <2>1, Zenon
        <3> QED
            BY <2>4, <2>10, <3>1
    <2>12. CASE Ended(b.done) = 0
        BY <1>8, <2>2, <2>4, <2>8, <2>12 DEF WaveAt
    <2>13. CASE Ended(b.done) = 1 /\ z = {}
        <3>1. b.chan[Playing].ints = {"end"} /\ At(b.chan[Playing], 3 - k) /\ k = fill
            BY <2>2, <2>8, <2>13 DEF WaveAt
        <3> QED
            BY <1>8, <3>1
    <2> QED
        BY <2>11, <2>12, <2>13
<1>12. WaveOk'
    BY <1>8, <1>11 DEF WaveOk
<1> QED
    BY <1>7, <1>8, <1>9, <1>10, <1>12 DEF SoundInv, EngineOk

-----------------------------------------------------------------------------
(* A driver writes the registers of its own channel. *)
LEMMA PlayWritten ==
    ASSUME SoundInv, NEW p, PlayOk(p), chan' = [chan EXCEPT ![Playing] = p],
           UNCHANGED <<mem, credit, copier>>
    PROVE  /\ chan'[Playing] = p
           /\ ChannelsOk' /\ credit' \in Nat /\ CopyState(chan[Copying], mem)'
<1>1. Playing \in Chans /\ Copying \in Chans /\ Playing # Copying
    BY ChannelsAssumption
<1>2. /\ chan'[Playing] = p
      /\ \A c \in Chans \ {Playing} : chan'[c] = chan[c]
      /\ chan' = [c \in Chans |-> chan'[c]]
    BY <1>1 DEF SoundInv, ChannelsOk
<1>3. ChannelsOk'
    BY <1>2 DEF SoundInv, ChannelsOk
<1>4. chan'[Copying] = chan[Copying]
    BY <1>1, <1>2
<1>5. CopyState(chan[Copying], mem)'
    BY <1>4 DEF SoundInv, CopyState, AllCopied, CopiedTo
<1> QED
    BY <1>2, <1>3, <1>5 DEF SoundInv

LEMMA CopyWritten ==
    ASSUME SoundInv, NEW p, chan' = [chan EXCEPT ![Copying] = p], CopyState(p, mem)'
    PROVE  ChannelsOk' /\ CopyState(chan[Copying], mem)' /\ chan'[Playing] = chan[Playing]
<1>1. Playing \in Chans /\ Copying \in Chans /\ Playing # Copying
    BY ChannelsAssumption
<1>2. /\ chan'[Copying] = p
      /\ \A c \in Chans \ {Copying} : chan'[c] = chan[c]
      /\ chan' = [c \in Chans |-> chan'[c]]
    BY <1>1 DEF SoundInv, ChannelsOk
<1>3. chan'[Playing] = chan[Playing]
    BY <1>1, <1>2
<1>4. ChannelsOk'
    BY <1>2, <1>3 DEF SoundInv, ChannelsOk
<1> QED
    BY <1>2, <1>3, <1>4

(* Stopping the chain, or starting it over, leaves nothing of it to rely   *)
(* on; a driver that starts it with nothing left over knows where it is.   *)
LEMMA WaveStopped ==
    ASSUME SoundInv, NEW p, p = Dcsr(chan[Playing], FALSE, TRUE, Interrupts)
    PROVE  PlayOk(p)
<1>1. PlayOk(chan[Playing])
    BY DEF SoundInv, ChannelsOk
<1>2. ChannelShape(chan[Playing])
    BY <1>1 DEF PlayOk
<1>3. HasWritten(chan[Playing], FALSE, Interrupts, p)
    BY <1>2, DcsrIs
<1> QED
    BY <1>1, <1>3 DEF PlayOk, HasWritten

LEMMA RunKeeps == SoundInv /\ Run => SoundInv'
<1> SUFFICES ASSUME SoundInv, Run PROVE SoundInv'
    OBVIOUS
<1>1. PICK ch : ch = chan[Playing]
    OBVIOUS
<1>2. PICK d : d = Ddadr(ch, PlayChain)
    OBVIOUS
<1>3. PICK p : p = Dcsr(d, TRUE, TRUE, Interrupts)
    OBVIOUS
<1>4. PlayOk(ch)
    BY <1>1 DEF SoundInv, ChannelsOk
<1>5. /\ ChannelShape(d) /\ d.next = PlayChain /\ ~d.last /\ d.ints = ch.ints
      /\ d.from = ch.from /\ d.to = ch.to /\ d.left = ch.left /\ d.irqs = ch.irqs
    BY <1>2, <1>4, DdadrIs DEF PlayOk
<1>6. HasWritten(d, TRUE, Interrupts, p)
    BY <1>3, <1>5, DcsrIs
<1>7. p.ints = {} /\ p.next = Round(1) /\ p.left = ch.left
    BY <1>5, <1>6 DEF ChannelShape, Round, HasWritten
<1>8. PlayOk(p)
    BY <1>4, <1>5, <1>6, <1>7 DEF PlayOk, HasWritten
<1>9. /\ chan' = [chan EXCEPT ![Playing] = p]
      /\ fill' = 1 /\ UNCHANGED <<mem, credit, copier>>
      /\ stale' = (ch.left > 0)
    BY <1>1, <1>2, <1>3 DEF Run, SoundInv, ChannelsOk
<1>10. /\ chan'[Playing] = p
       /\ ChannelsOk' /\ credit' \in Nat /\ CopyState(chan[Copying], mem)'
    BY <1>8, <1>9, PlayWritten
<1>11. ASSUME ~stale' PROVE At(p, 1)
    <2>1. ~(ch.left > 0)
        BY <1>9, <1>11
    <2>2. ch.left = 0
        BY <1>4, <2>1 DEF PlayOk
    <2> QED
        BY <1>7, <2>2 DEF At
<1>12. WaveOk'
    BY <1>7, <1>9, <1>10, <1>11 DEF WaveOk
<1> QED
    BY <1>9, <1>10, <1>12 DEF SoundInv

LEMMA StopKeeps == SoundInv /\ (BringUp \/ Stop) => SoundInv'
<1> SUFFICES ASSUME SoundInv, BringUp \/ Stop PROVE SoundInv'
    OBVIOUS
<1>1. PICK p : p = Dcsr(chan[Playing], FALSE, TRUE, Interrupts)
    OBVIOUS
<1>2. /\ chan' = [chan EXCEPT ![Playing] = p] /\ wave' = "ready"
      /\ fill' = fill /\ UNCHANGED <<mem, credit, copier>>
    BY <1>1 DEF BringUp, Stop, SoundInv, ChannelsOk
<1>3. /\ chan'[Playing] = p
      /\ ChannelsOk' /\ credit' \in Nat /\ CopyState(chan[Copying], mem)'
    BY <1>1, <1>2, WaveStopped, PlayWritten
<1> QED
    BY <1>2, <1>3 DEF SoundInv, WaveOk

LEMMA RefillKeeps == SoundInv /\ Refill => SoundInv'
<1> SUFFICES ASSUME SoundInv, Refill PROVE SoundInv'
    OBVIOUS
<1>1. PICK ch : ch = chan[Playing]
    OBVIOUS
<1>2. PICK p : p = Dcsr(ch, ch.run, TRUE, Interrupts)
    OBVIOUS
<1>3. PlayOk(ch) /\ ch.ints # {}
    BY <1>1 DEF SoundInv, ChannelsOk, Refill, Dint
<1>4. HasWritten(ch, ch.run, Interrupts, p)
    <2>1. ChannelShape(ch) /\ ch.run \in BOOLEAN
        BY <1>3 DEF PlayOk, ChannelShape
    <2> QED
        BY <1>2, <2>1, DcsrIs
<1>5. p.ints = {} /\ PlayOk(p)
    BY <1>3, <1>4 DEF PlayOk, ChannelShape, HasWritten
<1>6. /\ chan' = [chan EXCEPT ![Playing] = p]
      /\ fill' = 3 - fill /\ UNCHANGED <<mem, credit, copier, wave, late, stale>>
    BY <1>1, <1>2 DEF Refill, SoundInv, ChannelsOk
<1>7. /\ chan'[Playing] = p
      /\ ChannelsOk' /\ credit' \in Nat /\ CopyState(chan[Copying], mem)'
    BY <1>5, <1>6, PlayWritten
<1>8. fill \in {1, 2} /\ fill' \in {1, 2}
    BY <1>6 DEF SoundInv
<1>9. \A k \in {1, 2} : At(ch, k) => At(p, k)
    BY <1>4 DEF At, HasWritten
<1>10. WaveOk'
    <2> SUFFICES ASSUME wave = "playing", ~late, ~stale
                 PROVE  At(p, 3 - fill)
        BY <1>5, <1>6, <1>7 DEF WaveOk
    <2>1. At(ch, 3 - fill)
        BY <1>1, <1>3 DEF SoundInv, WaveOk
    <2> QED
        BY <1>8, <1>9, <2>1
<1> QED
    BY <1>7, <1>8, <1>10 DEF SoundInv

LEMMA StartCopyKeeps == SoundInv /\ StartCopy => SoundInv'
<1> SUFFICES ASSUME SoundInv, StartCopy PROVE SoundInv'
    OBVIOUS
<1>1. PICK ch : ch = chan[Copying]
    OBVIOUS
<1>2. PICK s : s = Dcsr(ch, FALSE, TRUE, Interrupts)
    OBVIOUS
<1>3. PICK d : d = Ddadr(s, CopyChain)
    OBVIOUS
<1>4. PICK p : p = Dcsr(d, TRUE, TRUE, {})
    OBVIOUS
<1>5. ChannelShape(ch) /\ ch.left = 0
    BY <1>1 DEF SoundInv, CopyState, CopyOk
<1>6. HasWritten(ch, FALSE, Interrupts, s) /\ ChannelShape(s)
    <2>1. HasWritten(ch, FALSE, Interrupts, s)
        BY <1>2, <1>5, DcsrIs
    <2> QED
        BY <2>1 DEF HasWritten
<1>7. ChannelShape(d) /\ d.ints = s.ints /\ d.left = s.left /\ d.next = CopyChain
    BY <1>3, <1>6, DdadrIs
<1>8. HasWritten(d, TRUE, {}, p)
    BY <1>4, <1>7, DcsrIs
<1>9. p.ints = {} /\ p.left = 0 /\ p.next = CopyChain
    BY <1>5, <1>6, <1>7, <1>8 DEF ChannelShape, HasWritten
<1>10. PICK low : low = Min(CopyTo)
    OBVIOUS
<1>11. /\ low \in Nat /\ low # Codec /\ CopyTo \subseteq Nat /\ \A a \in CopyTo : a >= low
       /\ CopyChain \in DOMAIN Table /\ Table[CopyChain].to = low
    BY <1>10, CopyWords, CopyAssumption
<1>12. CopiedTo(mem', low)
    <2>1. \A a \in CopyTo : ~(a < low)
        BY <1>11
    <2> QED
        BY <2>1 DEF CopiedTo
<1>13. copier' = "running"
    BY DEF StartCopy
<1>14. CopyState(p, mem)'
    BY <1>8, <1>9, <1>11, <1>12, <1>13 DEF CopyState, CopyOk, HasWritten
<1>15. /\ chan' = [chan EXCEPT ![Copying] = p]
       /\ UNCHANGED <<credit, wave, fill, late, stale>>
    BY <1>1, <1>2, <1>3, <1>4 DEF StartCopy, OthersRest, SoundInv, ChannelsOk
<1>16. ChannelsOk' /\ CopyState(chan[Copying], mem)' /\ chan'[Playing] = chan[Playing]
    BY <1>14, <1>15, CopyWritten
<1> QED
    BY <1>15, <1>16 DEF SoundInv, WaveOk

LEMMA CopyToldKeeps == SoundInv /\ CopyTold => SoundInv'
<1> SUFFICES ASSUME SoundInv, CopyTold PROVE SoundInv'
    OBVIOUS
<1>1. PICK ch : ch = chan[Copying]
    OBVIOUS
<1>2. PICK p : p = Dcsr(ch, ch.run, TRUE, Interrupts)
    OBVIOUS
<1>3. CopyState(ch, mem) /\ ch.ints # {} /\ copier = "running"
    BY <1>1 DEF SoundInv, CopyTold, Dint
<1>4. ~ch.run /\ AllCopied(mem) /\ CopyOk(ch)
    BY <1>3 DEF CopyState
<1>5. ChannelShape(ch) /\ ch.run \in BOOLEAN
    BY <1>4 DEF CopyOk, ChannelShape
<1>6. HasWritten(ch, ch.run, Interrupts, p)
    BY <1>2, <1>5, DcsrIs
<1>7. /\ chan' = [chan EXCEPT ![Copying] = p] /\ mem' = mem /\ copier' = "done"
      /\ UNCHANGED <<credit, wave, fill, late, stale>>
    BY <1>1, <1>2 DEF CopyTold, OthersRest, SoundInv, ChannelsOk
<1>8. AllCopied(mem')
    BY <1>4, <1>7
<1>9. CopyState(p, mem)'
    BY <1>4, <1>6, <1>7, <1>8 DEF CopyState, CopyOk, HasWritten
<1>10. ChannelsOk' /\ CopyState(chan[Copying], mem)' /\ chan'[Playing] = chan[Playing]
    BY <1>7, <1>9, CopyWritten
<1> QED
    BY <1>7, <1>10 DEF SoundInv, WaveOk

LEMMA SoundStep == SoundInv /\ [Next]_vars => SoundInv'
<1> SUFFICES ASSUME SoundInv, [Next]_vars PROVE SoundInv'
    OBVIOUS
<1>1. CASE TimePasses
    BY <1>1, TickKeeps DEF TimePasses
<1>2. CASE Plays
    <2>1. UNCHANGED <<chan, mem, credit, wave, fill, late, stale, copier>>
        BY <1>2 DEF Plays, dmaVars, drivers
    <2> QED
        BY <2>1 DEF SoundInv, ChannelsOk, CopyState, AllCopied, CopiedTo, WaveOk
<1>3. CASE Restart
    <2>1. /\ UNCHANGED <<chan, mem, credit, fill, late, stale>>
          /\ wave' = "off" /\ copier' = "idle"
        BY <1>3 DEF Restart, dmaVars
    <2> QED
        BY <2>1 DEF SoundInv, ChannelsOk, CopyState, WaveOk
<1>4. CASE UNCHANGED vars
    <2>1. UNCHANGED <<chan, mem, credit, wave, fill, late, stale, copier>>
        BY <1>4 DEF vars, dmaVars, drivers
    <2> QED
        BY <2>1 DEF SoundInv, ChannelsOk, CopyState, AllCopied, CopiedTo, WaveOk
<1>5. CASE WaveDriver \/ Stop \/ Copier
    BY <1>5, RunKeeps, StopKeeps, RefillKeeps, StartCopyKeeps, CopyToldKeeps
       DEF WaveDriver, Copier
<1> QED
    BY <1>1, <1>2, <1>3, <1>4, <1>5 DEF Next, Drivers

(* A driver told that its copy is done finds all of it there: the copy's   *)
(* channel runs until the last transfer, which alone raises the interrupt, *)
(* and a turn of either channel leaves what was copied before.             *)
THEOREM CopiesWhole == Spec => []CopiesAreWhole
<1>1. SoundInv => CopiesAreWhole
    BY DEF SoundInv, CopyState, AllCopied, CopiesAreWhole
<1> QED
    BY <1>1, SoundInit, SoundStep, PTL DEF Spec

(* The buffer a driver fills is not the one the engine reads: a driver     *)
(* that was told in time has the engine at the other one.                  *)
THEOREM RefillsSafe == Spec => RefillsAreSafe
<1>1. SoundInv /\ [Next]_vars =>
          [Refill /\ ~late /\ ~stale =>
              chan[Playing].left = 0 \/ chan[Playing].from \notin Buffers[fill]]_vars
    <2> SUFFICES ASSUME SoundInv, Refill, ~late, ~stale
                 PROVE  chan[Playing].left = 0 \/ chan[Playing].from \notin Buffers[fill]
        OBVIOUS
    <2>1. PICK ch : ch = chan[Playing]
        OBVIOUS
    <2>2. PlayOk(ch) /\ ch.ints # {} /\ wave = "playing" /\ fill \in {1, 2}
        BY <2>1 DEF SoundInv, ChannelsOk, Refill, Dint
    <2>3. At(ch, 3 - fill)
        BY <2>1, <2>2 DEF SoundInv, WaveOk
    <2>4. ASSUME ch.left # 0 PROVE ch.from \notin Buffers[fill]
        <3>1. ch.left \in Nat /\ ch.from \in Nat
            BY <2>2, <2>4 DEF PlayOk
        <3>2. ch.from \in ch.from .. ch.from + ch.left - 1
            BY <2>4, <3>1
        <3>3. ch.from \in Buffers[3 - fill]
            BY <2>3, <2>4, <3>2 DEF At
        <3>4. Buffers[1] \cap Buffers[2] = {}
            BY PlayAssumption
        <3>5. CASE fill = 1
            BY <3>3, <3>4, <3>5
        <3>6. CASE fill = 2
            BY <3>3, <3>4, <3>6
        <3> QED
            BY <2>2, <3>5, <3>6
    <2> QED
        BY <2>1, <2>4
<1> QED
    BY <1>1, SoundInit, SoundStep, PTL DEF Spec, RefillsAreSafe

-----------------------------------------------------------------------------
(* The sound, from the driver's buffers to the listener's ear. *)

(* The samples of some frames, and the frames of some samples. *)
Sides == {"left", "right"}

Decoded(q) ==
    [i \in 1 .. Len(q) \div 2 |->
        IF q[2 * i - 1][2] = "left" /\ q[2 * i] = <<q[2 * i - 1][1], "right">>
        THEN q[2 * i][1] ELSE "broken"]

(* Samples that are those of n frames. *)
AreSamples(q, l, n) ==
    /\ q = [j \in 1 .. 2 * n |-> q[j]]
    /\ \A i \in 1 .. n : q[2 * i - 1] = <<l[i], "left">> /\ q[2 * i] = <<l[i], "right">>

LEMMA SideOf ==
    ASSUME NEW n \in Nat, NEW j \in 1 .. 2 * n
    PROVE  \E i \in 1 .. n : j = 2 * i - 1 \/ j = 2 * i
<1>1. PICK m \in Nat : m = 2 * n
    OBVIOUS
<1>2. j \in 1 .. m
    BY <1>1
<1>3. j \in Nat /\ j >= 1 /\ j <= 2 * n
    BY <1>1, <1>2
<1>4. PICK i \in Nat : i = (j + 1) \div 2
    BY <1>3, SMT
<1>5. (j = 2 * i - 1 \/ j = 2 * i) /\ i \in 1 .. n
    BY <1>3, <1>4, SMT
<1> QED
    BY <1>5

LEMMA SamplesAre ==
    ASSUME NEW T, NEW l \in Seq(T), NEW n \in Nat, n = Len(l)
    PROVE  /\ AreSamples(Samples(l), l, n)
           /\ Samples(l) \in Seq(T \X Sides)
           /\ Len(Samples(l)) = 2 * n
           /\ \A q : AreSamples(q, l, n) => q = Samples(l)
<1>1. PICK s : s = Samples(l)
    OBVIOUS
<1>2. s = [j \in 1 .. 2 * n |-> Frame(l[(j + 1) \div 2])[2 - (j % 2)]]
    BY <1>1 DEF Samples
<1>3. \A w : Frame(w)[1] = <<w, "left">> /\ Frame(w)[2] = <<w, "right">>
    BY DEF Frame
<1>4. ASSUME NEW i \in 1 .. n PROVE s[2 * i - 1] = <<l[i], "left">> /\ s[2 * i] = <<l[i], "right">>
    <2>1. /\ 2 * i - 1 \in 1 .. 2 * n /\ 2 * i \in 1 .. 2 * n
          /\ (2 * i - 1 + 1) \div 2 = i /\ (2 * i + 1) \div 2 = i
          /\ (2 * i - 1) % 2 = 1 /\ (2 * i) % 2 = 0
        OBVIOUS
    <2>2. s[2 * i - 1] = Frame(l[i])[2 - 1] /\ s[2 * i] = Frame(l[i])[2 - 0]
        BY <1>2, <2>1
    <2> QED
        BY <1>3, <2>2
<1>5. ASSUME NEW j \in 1 .. 2 * n
      PROVE  s[j] \in T \X Sides
    <2>1. PICK i \in 1 .. n : j = 2 * i - 1 \/ j = 2 * i
        BY SideOf
    <2>2. s[j] = <<l[i], "left">> \/ s[j] = <<l[i], "right">>
        BY <1>4, <2>1
    <2>3. l[i] \in T
        OBVIOUS
    <2>4. <<l[i], "left">> \in T \X Sides /\ <<l[i], "right">> \in T \X Sides
        BY <2>3 DEF Sides
    <2> QED
        BY <2>2, <2>4
<1>6. s \in [1 .. 2 * n -> T \X Sides]
    BY <1>2, <1>5
<1>7. 2 * n \in Nat
    OBVIOUS
<1>8. s \in Seq(T \X Sides) /\ Len(s) = 2 * n
    BY <1>6, <1>7
<1>9. ASSUME NEW q, AreSamples(q, l, n) PROVE q = s
    <2>1. q = [j \in 1 .. 2 * n |-> q[j]]
        BY <1>9 DEF AreSamples
    <2>2. ASSUME NEW j \in 1 .. 2 * n PROVE q[j] = s[j]
        <3>1. PICK i \in 1 .. n : j = 2 * i - 1 \/ j = 2 * i
            BY SideOf
        <3> QED
            BY <1>4, <1>9, <3>1 DEF AreSamples
    <2> QED
        BY <1>2, <2>1, <2>2
<1>10. s = [j \in 1 .. 2 * n |-> s[j]]
    BY <1>2
<1> QED
    BY <1>1, <1>4, <1>8, <1>9, <1>10 DEF AreSamples

LEMMA DecodedIs ==
    ASSUME NEW T, NEW l \in Seq(T)
    PROVE  Decoded(Samples(l)) = l
<1>1. PICK n \in Nat : n = Len(l)
    OBVIOUS
<1>2. PICK q : q = Samples(l)
    OBVIOUS
<1>3. AreSamples(q, l, n)
    BY <1>1, <1>2, SamplesAre
<1>4. Len(q) \div 2 = n
    <2>1. Len(q) = 2 * n
        BY <1>1, <1>2, SamplesAre
    <2> QED
        BY <2>1
<1>5. ASSUME NEW i \in 1 .. n
      PROVE  l[i] = IF q[2 * i - 1][2] = "left" /\ q[2 * i] = <<q[2 * i - 1][1], "right">>
                    THEN q[2 * i][1] ELSE "broken"
    <2>1. PICK x, y : x = q[2 * i - 1] /\ y = q[2 * i]
        OBVIOUS
    <2>2. x = <<l[i], "left">> /\ y = <<l[i], "right">>
        BY <1>3, <2>1 DEF AreSamples
    <2>3. l[i] = IF x[2] = "left" /\ y = <<x[1], "right">> THEN y[1] ELSE "broken"
        BY <2>2
    <2> QED
        BY <2>1, <2>3
<1>6. Decoded(q) = [i \in 1 .. n |-> l[i]]
    BY <1>4, <1>5, Zenon DEF Decoded
<1>7. l = [i \in 1 .. n |-> l[i]]
    BY <1>1
<1> QED
    BY <1>2, <1>6, <1>7

LEMMA SamplesJoined ==
    ASSUME NEW T, NEW l \in Seq(T), NEW m \in Seq(T)
    PROVE  Samples(l) \o Samples(m) = Samples(l \o m)
<1>1. PICK a \in Nat, b \in Nat : a = Len(l) /\ b = Len(m)
    OBVIOUS
<1>2. PICK k : k = l \o m
    OBVIOUS
<1>3. /\ k \in Seq(T) /\ Len(k) = a + b
      /\ \A i \in 1 .. a + b : k[i] = IF i <= a THEN l[i] ELSE m[i - a]
    BY <1>1, <1>2, ConcatProperties
<1>4. PICK p, r : p = Samples(l) /\ r = Samples(m)
    OBVIOUS
<1>5. p \in Seq(T \X Sides) /\ r \in Seq(T \X Sides) /\ AreSamples(p, l, a) /\ AreSamples(r, m, b)
    BY <1>1, <1>4, SamplesAre
<1>6. PICK q : q = p \o r
    OBVIOUS
<1>7. /\ q \in Seq(T \X Sides) /\ Len(q) = 2 * a + 2 * b
      /\ \A j \in 1 .. 2 * a + 2 * b : q[j] = IF j <= 2 * a THEN p[j] ELSE r[j - 2 * a]
    <2>1. Len(p) = 2 * a /\ Len(r) = 2 * b
        BY <1>1, <1>4, SamplesAre
    <2>2. /\ p \o r \in Seq(T \X Sides) /\ Len(p \o r) = Len(p) + Len(r)
          /\ \A j \in 1 .. Len(p) + Len(r) :
                (p \o r)[j] = IF j <= Len(p) THEN p[j] ELSE r[j - Len(p)]
        BY <1>5, ConcatProperties, Zenon
    <2> QED
        BY <1>6, <2>1, <2>2, Zenon
<1>8. \A i \in 1 .. a + b : q[2 * i - 1] = <<k[i], "left">> /\ q[2 * i] = <<k[i], "right">>
    <2> TAKE i \in 1 .. a + b
    <2>1. 2 * i - 1 \in 1 .. 2 * a + 2 * b /\ 2 * i \in 1 .. 2 * a + 2 * b
        OBVIOUS
    <2>2. CASE i <= a
        <3>1. 2 * i - 1 <= 2 * a /\ 2 * i <= 2 * a /\ i \in 1 .. a
            BY <2>2
        <3>2. q[2 * i - 1] = p[2 * i - 1] /\ q[2 * i] = p[2 * i] /\ k[i] = l[i]
            BY <1>3, <1>7, <2>1, <2>2, <3>1
        <3> QED
            BY <1>5, <3>1, <3>2 DEF AreSamples
    <2>3. CASE ~(i <= a)
        <3>1. PICK c : c = i - a
            OBVIOUS
        <3>2. ~(2 * i - 1 <= 2 * a) /\ ~(2 * i <= 2 * a) /\ c \in 1 .. b
              /\ 2 * i - 1 - 2 * a = 2 * c - 1 /\ 2 * i - 2 * a = 2 * c
            BY <2>3, <3>1
        <3>3. q[2 * i - 1] = r[2 * c - 1] /\ q[2 * i] = r[2 * c] /\ k[i] = m[c]
            BY <1>3, <1>7, <2>1, <2>3, <3>1, <3>2
        <3> QED
            BY <1>5, <3>2, <3>3 DEF AreSamples
    <2> QED
        BY <2>2, <2>3
<1>9. AreSamples(q, k, a + b)
    <2>1. 2 * a + 2 * b = 2 * (a + b)
        OBVIOUS
    <2>2. q = [j \in 1 .. 2 * a + 2 * b |-> q[j]]
        BY <1>7
    <2> QED
        BY <1>8, <2>1, <2>2 DEF AreSamples
<1>10. a + b \in Nat /\ a + b = Len(k)
    BY <1>3
<1>11. q = Samples(k)
    BY <1>3, <1>9, <1>10, SamplesAre, Zenon
<1> QED
    BY <1>2, <1>4, <1>6, <1>11

LEMMA PartOf ==
    ASSUME NEW S, NEW s, NEW a \in Nat, NEW b \in Nat, a <= b + 1, \A i \in a .. b : s[i] \in S,
           NEW t, t = SubSeq(s, a, b)
    PROVE  t \in Seq(S) /\ Len(t) = b - a + 1 /\ \A i \in 1 .. b - a + 1 : t[i] = s[a + i - 1]
<1>1. a \in Int /\ b \in Int
    OBVIOUS
<1>2. /\ t \in Seq(S) /\ Len(t) = IF a <= b THEN b - a + 1 ELSE 0
      /\ \A i \in 1 .. b - a + 1 : t[i] = s[a + i - 1]
    BY <1>1, SubSeqProperties
<1>3. ~(a <= b) => b - a + 1 = 0
    OBVIOUS
<1> QED
    BY <1>2, <1>3

LEMMA SamplesLost ==
    ASSUME NEW T, NEW l \in Seq(T), NEW n \in Nat, n = Len(l), NEW p \in 0 .. n
    PROVE  /\ SubSeq(Samples(l), 2 * p + 1, 2 * n) = Samples(SubSeq(l, p + 1, n))
           /\ SubSeq(l, p + 1, n) \in Seq(T) /\ Len(SubSeq(l, p + 1, n)) = n - p
<1>1. PICK k : k = SubSeq(l, p + 1, n)
    OBVIOUS
<1>0. p \in Nat /\ p <= n
    OBVIOUS
<1>12. n - p \in Nat
    BY <1>0, SMT
<1>2. PICK m \in Nat : m = n - p
    BY <1>12, Zenon
<1>3. /\ k \in Seq(T) /\ Len(k) = m
      /\ \A i \in 1 .. m : k[i] = l[p + i]
    <2>1. PICK a \in Nat : a = p + 1 /\ a <= n + 1
        BY <1>0
    <2>2. \A i \in a .. n : l[i] \in T
        BY <1>0, <2>1
    <2>3. /\ k \in Seq(T) /\ Len(k) = n - a + 1
          /\ \A i \in 1 .. n - a + 1 : k[i] = l[a + i - 1]
        BY <1>1, <2>1, <2>2, PartOf
    <2>4. n - a + 1 = m /\ \A i \in 1 .. m : a + i - 1 = p + i
        BY <1>0, <1>2, <2>1
    <2> QED
        BY <2>3, <2>4
<1>4. PICK s : s = Samples(l)
    OBVIOUS
<1>5. s \in Seq(T \X Sides) /\ AreSamples(s, l, n) /\ Len(s) = 2 * n
    BY <1>4, SamplesAre
<1>6. PICK q : q = SubSeq(s, 2 * p + 1, 2 * n)
    OBVIOUS
<1>7. /\ q \in Seq(T \X Sides) /\ Len(q) = 2 * m
      /\ \A j \in 1 .. 2 * m : q[j] = s[2 * p + j]
    <2>1. PICK a \in Nat, b \in Nat : a = 2 * p + 1 /\ b = 2 * n /\ a <= b + 1
        BY <1>0
    <2>2. \A i \in a .. b : s[i] \in T \X Sides
        <3>1. \A i \in a .. b : i \in 1 .. Len(s)
            BY <1>0, <1>5, <2>1
        <3> QED
            BY <1>5, <3>1, ElementOfSeq
    <2>3. /\ q \in Seq(T \X Sides) /\ Len(q) = b - a + 1
          /\ \A i \in 1 .. b - a + 1 : q[i] = s[a + i - 1]
        <3>1. PICK S : S = T \X Sides
            OBVIOUS
        <3>2. \A i \in a .. b : s[i] \in S
            BY <2>2, <3>1
        <3>3. q = SubSeq(s, a, b)
            BY <1>6, <2>1, Zenon
        <3>4. /\ q \in Seq(S) /\ Len(q) = b - a + 1
              /\ \A i \in 1 .. b - a + 1 : q[i] = s[a + i - 1]
            <4>1. a <= b + 1
                BY <2>1
            <4> QED
                BY <3>2, <3>3, <4>1, PartOf
        <3> QED
            BY <3>1, <3>4
    <2>4. b - a + 1 = 2 * m /\ \A i \in 1 .. 2 * m : a + i - 1 = 2 * p + i
        BY <1>0, <1>2, <2>1
    <2> QED
        BY <2>3, <2>4
<1>8. ASSUME NEW i \in 1 .. m PROVE q[2 * i - 1] = <<k[i], "left">> /\ q[2 * i] = <<k[i], "right">>
    <2>1. PICK c : c = p + i
        OBVIOUS
    <2>2. /\ c \in 1 .. n /\ 2 * i - 1 \in 1 .. 2 * m /\ 2 * i \in 1 .. 2 * m
          /\ 2 * p + (2 * i - 1) = 2 * c - 1 /\ 2 * p + 2 * i = 2 * c
        BY <1>2, <2>1
    <2>3. q[2 * i - 1] = s[2 * c - 1] /\ q[2 * i] = s[2 * c] /\ k[i] = l[c]
        BY <1>3, <1>7, <2>1, <2>2
    <2> QED
        BY <1>5, <2>2, <2>3 DEF AreSamples
<1>9. q = [j \in 1 .. 2 * m |-> q[j]]
    BY <1>7
<1>10. AreSamples(q, k, m)
    BY <1>8, <1>9 DEF AreSamples
<1>11. q = Samples(k)
    BY <1>3, <1>10, SamplesAre, Zenon
<1> QED
    BY <1>1, <1>2, <1>3, <1>4, <1>6, <1>11

LEMMA KeptIs ==
    ASSUME NEW T, NEW l \in Seq(T), NEW n \in Nat, n = Len(l)
    PROVE  \E lost \in 0 .. n :
               /\ Kept(Samples(l)) = Samples(SubSeq(l, lost + 1, n))
               /\ lost > 0 => n - lost >= Capacity \div 2
<1>1. PICK c \in Nat : c = Capacity \div 2
    BY AudioAssumption, SMT
<1>2. Capacity \in Nat /\ Capacity = 2 * c
    BY <1>1, AudioAssumption, SMT
<1>3. PICK q : q = Samples(l)
    OBVIOUS
<1>4. Len(q) = 2 * n
    BY <1>3, SamplesAre
<1>5. CASE 2 * n > 2 * c
    <2>1. n - c \in 0 .. n /\ 2 * n - Capacity + 1 = 2 * (n - c) + 1 /\ n - (n - c) >= c
        BY <1>2, <1>5
    <2>2. PICK lost \in 0 .. n : lost = n - c
        BY <2>1
    <2>3. Kept(q) = SubSeq(q, 2 * lost + 1, 2 * n)
        BY <1>2, <1>4, <1>5, <2>1, <2>2 DEF Kept
    <2>4. SubSeq(q, 2 * lost + 1, 2 * n) = Samples(SubSeq(l, lost + 1, n))
        BY <1>3, SamplesLost
    <2> QED
        BY <1>1, <1>3, <2>1, <2>2, <2>3, <2>4
<1>6. CASE ~(2 * n > 2 * c)
    <2>1. Kept(q) = q
        BY <1>2, <1>4, <1>6 DEF Kept
    <2>2. SubSeq(l, 0 + 1, n) = l
        BY SubSeqFull
    <2>3. 0 \in 0 .. n /\ ~(0 > 0)
        OBVIOUS
    <2> QED
        BY <1>3, <2>1, <2>2, <2>3
<1> QED
    BY <1>5, <1>6

-----------------------------------------------------------------------------
(* The frames of the device, in the time of the guest's words. *)
LEMMA Products ==
    ASSUME NEW a \in Nat, NEW b \in Nat, NEW s \in Nat
    PROVE  /\ a * s \in Nat /\ (a + 1) * s = a * s + s
           /\ a <= b => a * s <= b * s
           /\ a * s < b * s => a < b
<1>1. a * s \in Nat /\ b * s \in Nat /\ (a + 1) * s = a * s + s
    BY SMT
<1>2. \A x, y \in Nat : x <= y => x * s <= y * s
    BY SMT
<1>3. a <= b => a * s <= b * s
    BY <1>2
<1>4. b <= a => b * s <= a * s
    BY <1>2
<1> QED
    BY <1>1, <1>3, <1>4

(* How many frames have begun, as the number it is. *)
IsBegun(b, r, parts, s) ==
    /\ b \in Nat /\ parts <= r + b * s
    /\ \A c \in Nat : c < b => r + c * s < parts

LEMMA BegunIs ==
    ASSUME NEW parts \in Nat, resample \in Nat, NEW s \in Nat \ {0}, NEW b, b = Begun(parts, s)
    PROVE  IsBegun(b, resample, parts, s)
<1>1. PICK r \in Nat : r = resample
    OBVIOUS
<1>2. CASE r >= parts
    <2>1. b = 0
        BY <1>1, <1>2 DEF Begun
    <2>2. b * s = 0
        BY <2>1, SMT
    <2>3. b \in Nat /\ parts <= r + b * s /\ \A c \in Nat : ~(c < b)
        BY <1>2, <2>1, <2>2
    <2> QED
        BY <1>1, <2>3 DEF IsBegun
<1>3. CASE ~(r >= parts)
    <2>1. PICK a \in Nat : a = parts - r /\ a > 0
        BY <1>3
    <2>2. b = (a + s - 1) \div s
        BY <1>1, <1>3, <2>1 DEF Begun
    <2>3. PICK t \in Nat : t = a + s - 1
        OBVIOUS
    <2>4. PICK e \in Nat : e = t % s /\ e < s /\ b \in Nat /\ t = b * s + e
        BY <2>2, <2>3, SMT
    <2>5. PICK m \in Nat : m = b * s
        BY <2>4, Products
    <2>6. a <= m /\ m < a + s
        BY <2>3, <2>4, <2>5
    <2>7. ASSUME NEW c \in Nat, c < b PROVE r + c * s < parts
        <3>1. PICK x \in Nat : x = c * s
            BY Products
        <3>2. c + 1 \in Nat /\ c + 1 <= b
            BY <2>4, <2>7
        <3>3. (c + 1) * s <= b * s /\ (c + 1) * s = c * s + s
            BY <2>4, <3>2, Products
        <3>4. x + s <= m
            BY <2>5, <3>1, <3>3
        <3>5. r + x < parts
            BY <2>1, <2>6, <3>4
        <3> QED
            BY <3>1, <3>5
    <2>8. parts <= r + m
        BY <2>1, <2>6
    <2> QED
        BY <1>1, <2>4, <2>5, <2>7, <2>8 DEF IsBegun
<1> QED
    BY <1>2, <1>3

(* They are as many as have begun in the line's own reckoning. *)
LEMMA BegunAgrees ==
    ASSUME NEW k \in Nat, resample \in Nat, NEW s, s = Step[PlayRate]
    PROVE  IsBegun(TheLine!Begun(k), resample, k * Unit, s)
<1>1. s \in Nat \ {0} /\ Unit \in Nat \ {0}
    BY PlayAssumption, AudioAssumption
<1>2. PICK parts \in Nat : parts = k * Unit
    BY <1>1, Products
<1>3. PICK r \in Nat : r = resample
    OBVIOUS
<1>4. PICK b : b = Begun(parts, s)
    OBVIOUS
<1>5. IsBegun(b, r, parts, s)
    BY <1>1, <1>3, <1>4, BegunIs
<1>6. b \in Nat /\ parts <= r + b * s /\ \A c \in Nat : c < b => r + c * s < parts
    BY <1>5 DEF IsBegun
<1>7. b <= parts
    <2> SUFFICES ASSUME parts < b PROVE FALSE
        BY <1>6
    <2>1. r + parts * s < parts
        BY <1>6
    <2>2. 1 * parts <= s * parts
        BY <1>1, Products
    <2>3. 1 * parts = parts /\ s * parts = parts * s
        BY <1>1, SMT
    <2>4. PICK x \in Nat : x = parts * s
        BY <1>1, Products
    <2> QED
        BY <2>1, <2>2, <2>3, <2>4
<1> DEFINE reached == {e \in 0 .. parts : parts <= r + e * s}
<1>8. b \in reached /\ \A c \in reached : b <= c
    <2>1. b \in reached
        BY <1>6, <1>7
    <2>2. ASSUME NEW c \in reached PROVE b <= c
        <3>1. c \in Nat /\ parts <= r + c * s
            OBVIOUS
        <3>2. PICK x \in Nat : x = c * s
            BY <1>1, <3>1, Products
        <3>3. ~(r + x < parts)
            BY <3>1, <3>2
        <3>4. ~(c < b)
            BY <1>6, <3>1, <3>2, <3>3
        <3> QED
            BY <1>6, <3>1, <3>4
    <2> QED
        BY <2>1, <2>2
<1>9. TheLine!Begun(k) = TheLine!Min(reached)
    BY <1>2, <1>3 DEF TheLine!Begun
<1>10. \A c \in reached : c \in Nat
    OBVIOUS
<1> HIDE DEF reached
<1>11. TheLine!Min(reached) = b
    <2>1. \A c \in reached : (\A e \in reached : c <= e) => c = b
        BY <1>8, <1>10
    <2> QED
        BY <1>8, <2>1, Zenon DEF TheLine!Min
<1> QED
    BY <1>2, <1>3, <1>5, <1>9, <1>11

(* Some words are the next of the two buffers.                             *)
AreNext(words, n) == \A k \in 1 .. n : words[k] = Head(TheLine!Ahead[k - 1].rest)

(* The frames of the device that a batch of words makes are the words',    *)
(* each for as long as it lasts.                                           *)
LEMMA ResampledIs ==
    ASSUME NEW T, NEW words \in Seq(T), NEW n \in Nat, n = Len(words),
           NEW s, s = Step[PlayRate], resample \in Nat, AreNext(words, n),
           NEW made, made = Resampled(words, s)
    PROVE  /\ made.frames = TheLine!Made(n)
           /\ made.frames \in Seq(T)
           /\ made.pos \in Nat
           /\ made.pos = resample + TheLine!Begun(n) * s - n * Unit
<1>1. PICK r \in Nat : r = resample
    OBVIOUS
<1>2. s \in Nat \ {0} /\ Unit \in Nat \ {0}
    BY PlayAssumption, AudioAssumption
<1> DEFINE ends(k) == TheLine!Begun(k)
<1>3. \A k \in 0 .. n : IsBegun(ends(k), r, k * Unit, s)
    BY <1>1, BegunAgrees
<1> HIDE DEF ends
<1>4. PICK total \in Nat : total = n * Unit
    BY <1>2, Products
<1>5. PICK count \in Nat : count = ends(n) /\ count = Begun(total, s) /\ IsBegun(count, r, total, s)
    <2>1. n \in 0 .. n
        OBVIOUS
    <2>2. PICK b : b = Begun(total, s)
        OBVIOUS
    <2>3. IsBegun(b, r, total, s) /\ IsBegun(ends(n), r, total, s)
        BY <1>1, <1>2, <1>3, <1>4, <2>1, <2>2, BegunIs
    <2>4. b \in Nat /\ ends(n) \in Nat /\ ~(b < ends(n)) /\ ~(ends(n) < b)
        <3>1. /\ b \in Nat /\ total <= r + b * s
              /\ \A c \in Nat : c < b => r + c * s < total
              /\ ends(n) \in Nat /\ total <= r + ends(n) * s
              /\ \A c \in Nat : c < ends(n) => r + c * s < total
            BY <2>3 DEF IsBegun
        <3>2. PICK x \in Nat, y \in Nat : x = b * s /\ y = ends(n) * s
            BY <1>2, <3>1, Products
        <3>3. ~(r + x < total) /\ ~(r + y < total)
            BY <3>1, <3>2
        <3> QED
            BY <3>1, <3>2, <3>3
    <2>5. b = ends(n)
        BY <2>4
    <2> QED
        BY <2>2, <2>3, <2>4, <2>5
<1>6. /\ made.frames = [i \in 1 .. count |-> words[(resample + (i - 1) * s) \div Unit + 1]]
      /\ made.pos = resample + count * s - total
    BY <1>4, <1>5, Zenon DEF Resampled
<1> DEFINE word(i) == (r + (i - 1) * s) \div Unit + 1
<1>7. ASSUME NEW i \in 1 .. count
      PROVE  /\ word(i) \in 1 .. n /\ ends(word(i) - 1) < i /\ i <= ends(word(i))
             /\ \A k \in 1 .. n : ends(k - 1) < i /\ i <= ends(k) => k = word(i)
    <2>1. PICK c \in Nat : c = i - 1 /\ i = c + 1
        OBVIOUS
    <2>2. PICK x \in Nat : x = c * s
        BY <1>2, Products
    <2>3. r + x < total
        BY <1>5, <2>1, <2>2 DEF IsBegun
    <2>4. PICK v \in Nat, e \in Nat : v = (r + x) \div Unit /\ r + x = v * Unit + e /\ e < Unit
        <3>1. PICK t \in Nat : t = r + x
            OBVIOUS
        <3>2. t \div Unit \in Nat /\ t % Unit \in Nat /\ t = (t \div Unit) * Unit + (t % Unit) /\ t % Unit < Unit
            BY <1>2, <3>1, SMT
        <3> QED
            BY <3>1, <3>2
    <2>5. PICK a \in Nat : a = v * Unit /\ a <= r + x /\ r + x < a + Unit
        BY <1>2, <2>4, Products
    <2>6. (v + 1) * Unit = a + Unit
        BY <1>2, <2>5, Products
    <2>7. v < n
        <3>1. v * Unit < n * Unit
            BY <1>4, <2>3, <2>5
        <3> QED
            BY <1>2, <3>1, Products
    <2>8. v \in 0 .. n /\ v + 1 \in 0 .. n /\ v + 1 \in 1 .. n /\ v + 1 - 1 = v
        BY <2>7
    <2>9. ends(v) < i
        <3>1. /\ ends(v) \in Nat
              /\ \A d \in Nat : d < ends(v) => r + d * s < a
            BY <1>3, <2>5, <2>8 DEF IsBegun
        <3>2. ~(c < ends(v))
            BY <2>2, <2>5, <3>1
        <3> QED
            BY <2>1, <3>1, <3>2
    <2>10. i <= ends(v + 1)
        <3>1. ends(v + 1) \in Nat /\ a + Unit <= r + ends(v + 1) * s
            BY <1>3, <2>6, <2>8 DEF IsBegun
        <3>2. PICK y \in Nat : y = ends(v + 1) * s
            BY <1>2, <3>1, Products
        <3>5. x < y
            <4>1. a + Unit <= r + y
                BY <3>1, <3>2
            <4> QED
                BY <1>2, <2>5, <4>1
        <3>3. c * s < ends(v + 1) * s
            BY <2>2, <3>2, <3>5
        <3>4. c < ends(v + 1)
            BY <1>2, <3>1, <3>3, Products
        <3> QED
            BY <2>1, <3>1, <3>4
    <2>11. ASSUME NEW k \in 1 .. n, ends(k - 1) < i, i <= ends(k) PROVE k = v + 1
        <3>1. PICK j \in Nat : j = k - 1 /\ k = j + 1 /\ j \in 0 .. n /\ k \in 0 .. n
            OBVIOUS
        <3>2. /\ ends(j) \in Nat /\ j * Unit <= r + ends(j) * s
              /\ ends(k) \in Nat /\ \A d \in Nat : d < ends(k) => r + d * s < k * Unit
            BY <1>3, <3>1 DEF IsBegun
        <3>3. r + x < k * Unit
            BY <2>1, <2>2, <2>11, <3>2
        <3>4. PICK y \in Nat : y = ends(j) * s
            BY <1>2, <3>2, Products
        <3>5. y <= x
            <4>1. ends(j) <= c
                BY <2>1, <2>11, <3>1, <3>2
            <4> QED
                BY <1>2, <2>2, <3>2, <3>4, <4>1, Products
        <3>6. j * Unit <= r + x
            BY <3>2, <3>4, <3>5, <1>2, Products
        <3>7. j < v + 1
            <4>1. j * Unit < (v + 1) * Unit
                BY <2>5, <2>6, <3>6, <1>2, Products
            <4> QED
                BY <1>2, <4>1, Products
        <3>8. v < k
            <4>1. v * Unit < k * Unit
                BY <2>5, <3>3, <1>2, Products
            <4> QED
                BY <1>2, <3>1, <4>1, Products
        <3> QED
            BY <3>1, <3>7, <3>8
    <2>12. word(i) = v + 1
        BY <2>1, <2>2, <2>4
    <2> HIDE DEF word
    <2> QED
        BY <2>8, <2>9, <2>10, <2>11, <2>12
<1>12. made.frames = [i \in 1 .. count |-> words[word(i)]]
    BY <1>1, <1>6
<1> HIDE DEF word
<1>8. ASSUME NEW i \in 1 .. count
      PROVE  (CHOOSE k \in 0 .. n - 1 : ends(k) < i /\ i <= ends(k + 1)) = word(i) - 1
    <2>1. word(i) - 1 \in 0 .. n - 1 /\ word(i) - 1 + 1 = word(i)
        BY <1>7
    <2>2. ends(word(i) - 1) < i /\ i <= ends(word(i) - 1 + 1)
        BY <1>7, <2>1
    <2>3. ASSUME NEW k \in 0 .. n - 1, ends(k) < i, i <= ends(k + 1)
          PROVE  k = word(i) - 1
        <3>1. k + 1 \in 1 .. n /\ k + 1 - 1 = k
            OBVIOUS
        <3>2. k + 1 = word(i)
            BY <1>7, <2>3, <3>1
        <3> QED
            BY <3>1, <3>2
    <2> QED
        BY <2>1, <2>2, <2>3, Zenon
<1>9. made.frames = TheLine!Made(n)
    <2>1. TheLine!Made(n) =
              [i \in 1 .. count |->
                  Head(TheLine!Ahead[CHOOSE k \in 0 .. n - 1 : ends(k) < i /\ i <= ends(k + 1)].rest)]
        BY <1>5, Zenon DEF TheLine!Made, ends
    <2>2. ASSUME NEW i \in 1 .. count
          PROVE  Head(TheLine!Ahead[CHOOSE k \in 0 .. n - 1 : ends(k) < i /\ i <= ends(k + 1)].rest)
                     = words[word(i)]
        <3>1. word(i) \in 1 .. n
            BY <1>7
        <3>2. words[word(i)] = Head(TheLine!Ahead[word(i) - 1].rest)
            BY <3>1 DEF AreNext
        <3> QED
            BY <1>8, <3>2, Zenon
    <2> QED
        BY <1>12, <2>1, <2>2, Zenon
<1>10. made.frames \in Seq(T)
    <2>1. \A i \in 1 .. count : words[word(i)] \in T
        BY <1>7, ElementOfSeq
    <2>2. made.frames \in [1 .. count -> T]
        BY <1>12, <2>1
    <2> QED
        BY <2>2
<1>11. made.pos \in Nat /\ made.pos = r + ends(n) * s - n * Unit
    <2>1. PICK x \in Nat : x = count * s
        BY <1>2, Products
    <2>2. total <= r + x
        BY <1>5, <2>1 DEF IsBegun
    <2>3. made.pos = r + x - total
        BY <1>1, <1>6, <2>1
    <2> QED
        BY <1>4, <1>5, <2>1, <2>2, <2>3
<1> QED
    BY <1>1, <1>9, <1>10, <1>11 DEF ends

(* What is left of a transfer is of the sound, and the sound is there. *)
InBuffers(ch) ==
    ch.left # 0 => ch.from .. ch.from + ch.left - 1 \subseteq Buffers[1] \cup Buffers[2]

SoundThere(m) == \A a \in Buffers[1] \cup Buffers[2] : m[a] = Blank[a]

(* The words the sound driver's buffers hold. *)
Played == {Blank[a] : a \in Buffers[1] \cup Buffers[2]}

(* They are the next of the two buffers, and the channel is where they     *)
(* end; it has given some only if it was running.                          *)
Streams(b) ==
    /\ AreNext(b.pcm, Len(b.pcm))
    /\ PlaceOf(b.chan[Playing]) = TheLine!Ahead[Len(b.pcm)]
    /\ b.pcm # << >> \/ b.chan[Playing].run => chan[Playing].run

(* The engine has given the codec words of the sound, and no more of them  *)
(* than it had time for.                                                   *)
Feeds(b, total) ==
    /\ total \in 0 .. MaxCredit
    /\ Streams(b)
    /\ EngineOk(b)
    /\ InBuffers(b.chan[Playing])
    /\ SoundThere(b.mem)
    /\ b.pcm \in Seq(Played)
    /\ b.credit + Len(b.pcm) = total

LEMMA PlayInside ==
    ASSUME NEW ch, PlayOk(ch), ch.run, InBuffers(ch), NEW cur, cur = Current(ch),
           NEW count \in Nat, count <= cur.left, NEW after, after = Moved(cur, count),
           NEW new, new = IF after.left = 0 THEN Completed(after) ELSE after
    PROVE  InBuffers(cur) /\ InBuffers(after) /\ InBuffers(new)
<1>1. InBuffers(cur) /\ PlayOk(cur) /\ cur.left # 0
    <2>1. PlayOk(cur) /\ cur.left # 0
        BY PlayCurrent
    <2>2. CASE ch.left # 0
        BY <2>1, <2>2 DEF Current
    <2>3. CASE ch.left = 0
        <3>1. PICK j \in {1, 2} : ch.next = Round(j)
            BY DEF PlayOk
        <3>2. PICK d : d = Table[Round(j)]
            OBVIOUS
        <3>3. /\ Round(j) \in DOMAIN Table
              /\ d.from .. d.from + d.len - 1 \subseteq Buffers[j]
            BY <3>2, RoundIs
        <3>4. cur = Fetched(ch)
            BY <2>3 DEF Current, PlayOk
        <3>5. ChannelShape(ch) /\ ch.next \in DOMAIN Table /\ d = Table[ch.next]
            BY <3>1, <3>2, <3>3 DEF PlayOk
        <3>6. HasFetched(ch, d, cur)
            BY <3>4, <3>5, FetchedIs
        <3>7. cur.from .. cur.from + cur.left - 1 \subseteq Buffers[j]
            BY <3>3, <3>6 DEF HasFetched
        <3>8. Buffers[j] \subseteq Buffers[1] \cup Buffers[2]
            OBVIOUS
        <3>9. cur.from .. cur.from + cur.left - 1 \subseteq Buffers[1] \cup Buffers[2]
            BY <3>7, <3>8, Zenon
        <3>10. InBuffers(cur)
            BY <3>9, Zenon DEF InBuffers
        <3> QED
            BY <2>1, <3>10
    <2> QED
        BY <2>1, <2>2, <2>3
<1>2. HasMoved(cur, count, after)
    <2>1. ChannelShape(cur)
        BY <1>1 DEF PlayOk
    <2> QED
        BY <2>1, MovedIs
<1>3. InBuffers(after)
    <2> SUFFICES ASSUME after.left # 0
                 PROVE  after.from .. after.from + after.left - 1 \subseteq Buffers[1] \cup Buffers[2]
        BY DEF InBuffers
    <2>1. cur.left \in Nat /\ cur.from \in Nat
        BY <1>1 DEF PlayOk
    <2>2. after.from = cur.from + count /\ after.left = cur.left - count
        BY <1>2 DEF HasMoved
    <2>3. after.from .. after.from + after.left - 1 \subseteq cur.from .. cur.from + cur.left - 1
        BY <2>1, <2>2
    <2> QED
        BY <1>1, <2>3 DEF InBuffers
<1>4. InBuffers(new)
    <2>1. CASE after.left = 0
        <3>1. ChannelShape(after) /\ after.chained
            BY <1>1, <1>2 DEF HasMoved, PlayOk
        <3>2. HasCompleted(after, new)
            BY <2>1, <3>1, CompletedIs
        <3> QED
            BY <2>1, <3>2 DEF HasCompleted, InBuffers
    <2>2. CASE after.left # 0
        BY <1>3, <2>2
    <2> QED
        BY <2>1, <2>2
<1> QED
    BY <1>1, <1>3, <1>4

LEMMA GivenAre ==
    ASSUME NEW m, SoundThere(m), NEW ch, ch.left \in Nat, ch.from \in Nat, InBuffers(ch),
           NEW count \in Nat, count <= ch.left
    PROVE  Given(m, ch.from, count) \in Seq(Played) /\ Len(Given(m, ch.from, count)) = count
<1>1. ASSUME NEW i \in 1 .. count PROVE m[ch.from + i - 1] \in Played
    <2>1. ch.left # 0 /\ ch.from + i - 1 \in ch.from .. ch.from + ch.left - 1
        OBVIOUS
    <2>2. PICK a \in Buffers[1] \cup Buffers[2] : a = ch.from + i - 1
        BY <2>1 DEF InBuffers
    <2>3. m[a] = Blank[a]
        BY DEF SoundThere
    <2>4. Blank[a] \in Played
        BY DEF Played
    <2> QED
        BY <2>2, <2>3, <2>4
<1>2. PICK g : g = Given(m, ch.from, count)
    OBVIOUS
<1>3. g \in [1 .. count -> Played]
    BY <1>1, <1>2 DEF Given
<1> QED
    BY <1>2, <1>3

(* Where the sound is, word by word. *)
AreAhead(f, p, n) == f = [k \in 0 .. n |-> IF k = 0 THEN p ELSE TheLine!After(f[k - 1])]

LEMMA AheadExists ==
    ASSUME NEW p, NEW n \in Nat
    PROVE  \E f : AreAhead(f, p, n)
<1> DEFINE bad == {k \in Nat : ~\E f : AreAhead(f, p, k)}
<1> SUFFICES ASSUME bad # {} PROVE FALSE
    OBVIOUS
<1>1. PICK k \in bad : \A j \in bad : <<j, k>> \notin OpToRel(<, Nat)
    BY NatLessThanWellFounded, WFMin
<1>2. k \in Nat /\ ~\E f : AreAhead(f, p, k)
    OBVIOUS
<1>3. CASE k = 0
    <2>1. AreAhead([i \in 0 .. 0 |-> p], p, 0)
        BY DEF AreAhead
    <2> QED
        BY <1>2, <1>3, <2>1
<1>4. CASE k # 0
    <2>1. k - 1 \in Nat /\ <<k - 1, k>> \in OpToRel(<, Nat)
        BY <1>2, <1>4 DEF OpToRel
    <2>2. PICK f : AreAhead(f, p, k - 1)
        BY <1>1, <2>1
    <2>3. \A i \in 0 .. k - 1 : f[i] = IF i = 0 THEN p ELSE TheLine!After(f[i - 1])
        BY <2>2 DEF AreAhead
    <2>4. PICK g : g = [i \in 0 .. k |-> IF i = k THEN TheLine!After(f[k - 1]) ELSE f[i]]
        OBVIOUS
    <2>5. ASSUME NEW i \in 0 .. k
          PROVE  g[i] = IF i = 0 THEN p ELSE TheLine!After(g[i - 1])
        <3>1. CASE i = k
            <4>1. k - 1 \in 0 .. k /\ k - 1 # k
                BY <1>2, <1>4
            <4>2. g[k - 1] = f[k - 1]
                BY <2>4, <4>1
            <4> QED
                BY <1>4, <2>4, <3>1, <4>2
        <3>2. CASE i # k
            <4>1. i \in 0 .. k - 1 /\ (i # 0 => i - 1 \in 0 .. k /\ i - 1 # k)
                BY <1>2, <3>2
            <4>2. g[i] = f[i] /\ (i # 0 => g[i - 1] = f[i - 1])
                BY <2>4, <3>2, <4>1
            <4> QED
                BY <2>3, <4>1, <4>2
        <3> QED
            BY <3>1, <3>2
    <2>6. AreAhead(g, p, k)
        BY <2>4, <2>5 DEF AreAhead
    <2> QED
        BY <1>2, <2>6
<1> QED
    BY <1>3, <1>4

LEMMA AheadIs ==
    /\ TheLine!Ahead[0] = PlaceOf(chan[Playing])
    /\ \A k \in 1 .. MaxCredit : TheLine!Ahead[k] = TheLine!After(TheLine!Ahead[k - 1])
<1>1. PICK p : p = PlaceOf(chan[Playing])
    OBVIOUS
<1>2. MaxCredit \in Nat
    BY DmaAssumption
<1>3. TheLine!Ahead =
          (CHOOSE f : f = [k \in 0 .. MaxCredit |-> IF k = 0 THEN p ELSE TheLine!After(f[k - 1])])
    BY <1>1, Zenon DEF TheLine!Ahead
<1>4. PICK g : AreAhead(g, p, MaxCredit)
    BY <1>2, AheadExists
<1>5. PICK f : f = TheLine!Ahead
    OBVIOUS
<1>6. AreAhead(f, p, MaxCredit)
    BY <1>3, <1>4, <1>5, Zenon DEF AreAhead
<1>7. \A k \in 0 .. MaxCredit : f[k] = IF k = 0 THEN p ELSE TheLine!After(f[k - 1])
    BY <1>6 DEF AreAhead
<1>8. f[0] = p
    BY <1>2, <1>7
<1>9. \A k \in 1 .. MaxCredit : f[k] = TheLine!After(f[k - 1])
    BY <1>2, <1>7
<1> QED
    BY <1>1, <1>5, <1>8, <1>9

(* The buffer that a channel goes to next. *)
Following(ch) == IF ch.next = Table[PlayChain].next THEN 2 ELSE 1

LEMMA PlaceIs ==
    ASSUME NEW ch
    PROVE  PlaceOf(ch) = IF ch.left > 0
                         THEN [rest |-> Words(ch.from, ch.left), next |-> Following(ch)]
                         ELSE [rest |-> BufferWords[Following(ch)], next |-> 3 - Following(ch)]
BY DEF PlaceOf, Following

(* The two descriptors are two. *)
LEMMA RoundsDiffer == Round(1) # Round(2)
<1>1. PICK d : d = Table[Round(1)]
    OBVIOUS
<1>2. /\ d.len \in Nat \ {0} /\ d.from \in Nat
      /\ d.from .. d.from + d.len - 1 \subseteq Buffers[1]
    BY <1>1, RoundIs
<1>3. d.from \in Buffers[1]
    BY <1>2
<1>4. Round(1) = Round(2) => d.from .. d.from + d.len - 1 \subseteq Buffers[2]
    <2>1. 2 \in {1, 2}
        OBVIOUS
    <2> QED
        BY <1>1, <2>1, RoundIs
<1>5. Buffers[1] \cap Buffers[2] = {}
    BY PlayAssumption
<1> QED
    BY <1>2, <1>3, <1>4, <1>5

LEMMA FollowingIs ==
    ASSUME NEW ch, NEW k \in {1, 2}, ch.next = Round(k)
    PROVE  Following(ch) = k
BY RoundsDiffer DEF Following, Round

(* Fetching a buffer is no step ahead. *)
LEMMA FetchRests ==
    ASSUME NEW ch, PlayOk(ch), ch.run, NEW cur, cur = Current(ch)
    PROVE  PlaceOf(cur) = PlaceOf(ch) /\ cur.run
<1>1. CASE ch.left # 0
    BY <1>1 DEF Current
<1>2. CASE ch.left = 0
    <2>1. PICK j \in {1, 2} : ch.next = Round(j)
        BY DEF PlayOk
    <2>2. PICK d : d = Table[Round(j)]
        OBVIOUS
    <2>3. /\ Round(j) \in DOMAIN Table /\ d.next = Round(3 - j) /\ d.len \in Nat \ {0}
        BY <2>2, RoundIs
    <2>4. cur = Fetched(ch)
        BY <1>2 DEF Current, PlayOk
    <2>5. ChannelShape(ch) /\ ch.next \in DOMAIN Table /\ d = Table[ch.next]
        BY <2>1, <2>2, <2>3 DEF PlayOk
    <2>6. HasFetched(ch, d, cur)
        BY <2>4, <2>5, FetchedIs
    <2>7. /\ cur.left = d.len /\ cur.from = d.from /\ cur.next = Round(3 - j) /\ cur.run
        BY <2>3, <2>6 DEF HasFetched
    <2>8. 3 - j \in {1, 2}
        OBVIOUS
    <2>9. Following(ch) = j /\ Following(cur) = 3 - j
        BY <2>1, <2>7, <2>8, FollowingIs
    <2>10. BufferWords[j] = Words(d.from, d.len)
        BY <2>2 DEF BufferWords, Descriptor, Round
    <2>11. PlaceOf(ch) = [rest |-> BufferWords[j], next |-> 3 - j]
        BY <1>2, <2>9, PlaceIs
    <2>12. PlaceOf(cur) = [rest |-> Words(d.from, d.len), next |-> 3 - j]
        BY <2>3, <2>7, <2>9, PlaceIs
    <2> QED
        BY <2>7, <2>10, <2>11, <2>12
<1> QED
    BY <1>1, <1>2

(* A place so many words into a transfer. *)
Into(from, left, k, j) ==
    IF j < left THEN [rest |-> Words(from + j, left - j), next |-> k]
                ELSE [rest |-> BufferWords[k], next |-> 3 - k]

LEMMA IntoIs ==
    ASSUME NEW from \in Nat, NEW left \in Nat, NEW k, NEW j \in Nat, j < left
    PROVE  /\ Head(Into(from, left, k, j).rest) = Blank[from + j]
           /\ TheLine!After(Into(from, left, k, j)) = Into(from, left, k, j + 1)
<1>1. PICK w : w = Words(from + j, left - j)
    OBVIOUS
<1>2. PICK n \in Nat : n = left - j /\ n > 0
    OBVIOUS
<1>3. PICK a \in Nat : a = from + j
    OBVIOUS
<1>4. w = [i \in 1 .. n |-> Blank[a + i - 1]]
    BY <1>1, <1>2, <1>3 DEF Words
<1>11. PICK T : T = {Blank[a + i - 1] : i \in 1 .. n}
    OBVIOUS
<1>5. w \in Seq(T) /\ Len(w) = n
    <2>1. \A i \in 1 .. n : w[i] \in T
        BY <1>4, <1>11
    <2>2. w \in [1 .. n -> T]
        BY <1>4, <2>1
    <2> QED
        BY <1>2, <2>2
<1>6. PICK p : p = Into(from, left, k, j)
    OBVIOUS
<1>7. p = [rest |-> w, next |-> k]
    BY <1>1, <1>6 DEF Into
<1>8. Head(w) = Blank[from + j]
    <2>1. Head(w) = w[1] /\ 1 \in 1 .. n
        BY <1>2, <1>5
    <2>2. w[1] = Blank[a + 1 - 1] /\ a + 1 - 1 = from + j
        BY <1>3, <1>4, <2>1
    <2> QED
        BY <2>1, <2>2
<1>9. CASE n > 1
    <2>1. Tail(w) = Words(from + (j + 1), left - (j + 1))
        <3>1. Tail(w) = [i \in 1 .. n - 1 |-> w[i + 1]]
            <4>1. w # << >>
                BY <1>5, <1>9
            <4>2. /\ Tail(w) \in Seq(T) /\ Len(Tail(w)) = n - 1
                  /\ \A i \in 1 .. Len(Tail(w)) : Tail(w)[i] = w[i + 1]
                BY <1>5, <4>1, HeadTailProperties
            <4>3. PICK u \in Seq(T) : u = Tail(w)
                BY <4>2
            <4>5. Len(u) = n - 1 /\ n - 1 \in Nat
                BY <1>2, <4>2, <4>3
            <4>6. DOMAIN u = 1 .. n - 1
                BY <4>5
            <4>4. u = [i \in 1 .. n - 1 |-> u[i]]
                BY <4>6
            <4>7. \A i \in 1 .. n - 1 : u[i] = w[i + 1]
                BY <4>2, <4>3, <4>5
            <4> QED
                BY <4>3, <4>4, <4>7
        <3>2. \A i \in 1 .. n - 1 : w[i + 1] = Blank[from + (j + 1) + i - 1]
            <4> TAKE i \in 1 .. n - 1
            <4>1. i + 1 \in 1 .. n /\ a + (i + 1) - 1 = from + (j + 1) + i - 1
                BY <1>3
            <4> QED
                BY <1>4, <4>1
        <3>3. n - 1 = left - (j + 1)
            BY <1>2
        <3> QED
            BY <3>1, <3>2, <3>3 DEF Words
    <2>2. TheLine!After(p) = [p EXCEPT !.rest = Tail(@)]
        BY <1>5, <1>7, <1>9 DEF TheLine!After
    <2>3. [p EXCEPT !.rest = Tail(@)] = [rest |-> Tail(w), next |-> k]
        <3>1. PICK u : u = Tail(p.rest)
            OBVIOUS
        <3>2. [p EXCEPT !.rest = u] = [rest |-> u, next |-> k]
            BY <1>7
        <3>3. u = Tail(w)
            BY <1>7, <3>1
        <3> QED
            BY <3>1, <3>2, <3>3, Zenon
    <2>4. j + 1 < left
        BY <1>2, <1>9
    <2>5. Into(from, left, k, j + 1) = [rest |-> Words(from + (j + 1), left - (j + 1)), next |-> k]
        BY <2>4 DEF Into
    <2>6. p.rest = w
        BY <1>7
    <2> QED
        BY <1>6, <1>8, <2>1, <2>2, <2>3, <2>5, <2>6, Zenon
<1>10. CASE ~(n > 1)
    <2>1. TheLine!After(p) = [rest |-> BufferWords[k], next |-> 3 - k]
        BY <1>2, <1>5, <1>7, <1>10 DEF TheLine!After
    <2>2. ~(j + 1 < left)
        BY <1>2, <1>10
    <2>3. Into(from, left, k, j + 1) = [rest |-> BufferWords[k], next |-> 3 - k]
        BY <2>2 DEF Into
    <2>4. p.rest = w
        BY <1>7
    <2> QED
        BY <1>6, <1>8, <2>1, <2>3, <2>4, Zenon
<1> QED
    BY <1>9, <1>10

(* The words of a transfer, one after the other. *)
LEMMA WalkInto ==
    ASSUME NEW from \in Nat, NEW left \in Nat, NEW k, NEW n \in Nat,
           TheLine!Ahead[n] = Into(from, left, k, 0),
           NEW count \in Nat, count <= left, n + count <= MaxCredit
    PROVE  \A j \in 0 .. count : TheLine!Ahead[n + j] = Into(from, left, k, j)
<1> DEFINE There(j) == TheLine!Ahead[n + j] = Into(from, left, k, j)
<1>1. There(0)
    OBVIOUS
<1>2. ASSUME NEW j \in 0 .. count, j # 0, There(j - 1) PROVE There(j)
    <2>1. PICK i \in Nat : i = j - 1 /\ j = i + 1 /\ i < left
        BY <1>2
    <2>2. n + j \in 1 .. MaxCredit /\ n + j - 1 = n + i
        BY <1>2, <2>1, DmaAssumption
    <2>3. TheLine!Ahead[n + j] = TheLine!After(TheLine!Ahead[n + i])
        BY <2>2, AheadIs
    <2>4. TheLine!After(Into(from, left, k, i)) = Into(from, left, k, j)
        BY <2>1, IntoIs
    <2>5. TheLine!Ahead[n + i] = Into(from, left, k, i)
        BY <1>2, <2>1
    <2> QED
        BY <2>3, <2>4, <2>5
<1> HIDE DEF There
<1>3. PICK bad : bad = {j \in 0 .. count : ~There(j)}
    OBVIOUS
<1>5. ASSUME bad # {} PROVE FALSE
    <2>1. bad \subseteq Nat
        BY <1>3
    <2>2. PICK j \in bad : \A i \in bad : ~(<<i, j>> \in OpToRel(<, Nat))
        BY <1>5, <2>1, NatLessThanWellFounded, WFMin
    <2>3. j \in 0 .. count /\ ~There(j)
        BY <1>3
    <2>4. j # 0
        BY <1>1, <2>3
    <2>5. j - 1 \in 0 .. count /\ <<j - 1, j>> \in OpToRel(<, Nat)
        BY <2>3, <2>4 DEF OpToRel
    <2>6. There(j - 1)
        BY <1>3, <2>2, <2>5
    <2> QED
        BY <1>2, <2>3, <2>4, <2>6
<1>4. \A j \in 0 .. count : There(j)
    BY <1>3, <1>5
<1> QED
    BY <1>4 DEF There

LEMMA PlayFeeds ==
    ASSUME NEW b, NEW total, Feeds(b, total), Playing = Min(Runnable(b.chan)), b.chan[Playing].run
    PROVE  Feeds(Service(b), total)
<1>1. PICK ch : ch = b.chan[Playing]
    OBVIOUS
<1>2. PICK cur : cur = Current(ch)
    OBVIOUS
<1>3. PICK count : count = Count(cur, b.credit)
    OBVIOUS
<1>4. PICK after : after = Moved(cur, count)
    OBVIOUS
<1>5. PICK new : new = IF after.left = 0 THEN Completed(after) ELSE after
    OBVIOUS
<1>6. PICK g : g = Service(b)
    OBVIOUS
<1>7. PlayOk(ch) /\ ch.run /\ InBuffers(ch) /\ EngineOk(b)
    BY <1>1 DEF EngineOk, Feeds
<1>8. PlayOk(cur) /\ cur.left # 0
    BY <1>2, <1>7, PlayCurrent
<1>9. cur.left \in Nat /\ cur.to = Codec /\ cur.from \in Nat /\ b.credit \in Nat
    BY <1>7, <1>8 DEF PlayOk, EngineOk
<1>10. count \in Nat /\ count <= cur.left /\ count <= b.credit
    <2>1. count = Min({cur.left, b.credit})
        BY <1>3, <1>9 DEF Count
    <2> QED
        BY <1>9, <2>1, MinOfTwo
<1>11. InBuffers(cur) /\ InBuffers(after) /\ InBuffers(new)
    BY <1>2, <1>4, <1>5, <1>7, <1>10, PlayInside
<1>12. EngineShape(b) /\ Playing \in Chans
    BY <1>7, ChannelsAssumption DEF EngineOk
<1>13. HasServed(b, Playing, cur, count, after, g)
    BY <1>1, <1>2, <1>3, <1>4, <1>6, <1>12, ServiceIs
<1>14. EngineOk(g)
    BY <1>1, <1>6, <1>7, PlayTurn
<1>15. /\ SoundThere(b.mem) /\ b.pcm \in Seq(Played) /\ b.credit + Len(b.pcm) = total
       /\ total \in 0 .. MaxCredit /\ Streams(b)
    BY DEF Feeds
<1>16. PICK x \in Nat : x = Len(b.pcm)
    BY <1>15
<1>17. chan[Playing].run /\ PlaceOf(cur) = TheLine!Ahead[x] /\ cur.run
       /\ AreNext(b.pcm, x)
    BY <1>1, <1>2, <1>7, <1>15, <1>16, FetchRests DEF Streams
<1>18. CASE count = 0
    <2>1. g.chan = [b.chan EXCEPT ![Playing] = cur]
          /\ g.mem = b.mem /\ g.credit = b.credit /\ g.pcm = b.pcm
        BY <1>9, <1>13, <1>18 DEF HasServed
    <2>2. g.chan[Playing] = cur
        BY <1>12, <2>1 DEF EngineShape
    <2>3. Streams(g)
        BY <1>16, <1>17, <2>1, <2>2 DEF Streams
    <2> QED
        BY <1>6, <1>11, <1>14, <1>15, <2>1, <2>2, <2>3 DEF Feeds
<1>19. CASE count # 0
    <2>1. PICK out : out = Given(b.mem, cur.from, count)
        OBVIOUS
    <2>2. /\ g.chan = [b.chan EXCEPT ![Playing] = new]
          /\ g.mem = b.mem /\ g.credit = b.credit - count
          /\ g.pcm = b.pcm \o out
        BY <1>5, <1>9, <1>13, <1>19, <2>1 DEF HasServed
    <2>3. g.chan[Playing] = new
        BY <1>12, <2>2 DEF EngineShape
    <2>4. out \in Seq(Played) /\ Len(out) = count
        <3>1. SoundThere(b.mem) /\ InBuffers(cur)
            BY <1>11, <1>15
        <3> QED
            BY <1>9, <1>10, <2>1, <3>1, GivenAre
    <2>5. g.pcm \in Seq(Played) /\ Len(g.pcm) = x + count
        <3>1. PICK q \in Seq(Played) : q = b.pcm /\ Len(q) = x
            BY <1>15, <1>16
        <3>2. q \o out \in Seq(Played) /\ Len(q \o out) = x + count
            BY <2>4, <3>1, ConcatProperties
        <3> QED
            BY <2>2, <3>1, <3>2
    <2>6. g.credit + Len(g.pcm) = total /\ x + count <= MaxCredit
        <3>1. b.credit - count + (x + count) = b.credit + x
            BY <1>9, <1>10
        <3>2. b.credit + x = total /\ total \in 0 .. MaxCredit /\ MaxCredit \in Nat
            BY <1>15, <1>16, DmaAssumption
        <3>3. x + count <= MaxCredit
            BY <1>9, <1>10, <3>2
        <3> QED
            BY <2>2, <2>5, <3>1, <3>2, <3>3
    <2>7. InBuffers(g.chan[Playing]) /\ SoundThere(g.mem)
        BY <1>11, <1>15, <2>2, <2>3
    <2>8. PICK from \in Nat, left \in Nat, k \in {1, 2} :
              from = cur.from /\ left = cur.left /\ left # 0 /\ k = Following(cur)
        BY <1>8, <1>9 DEF Following
    <2>9. PlaceOf(cur) = Into(from, left, k, 0)
        <3>1. from + 0 = from /\ left - 0 = left /\ 0 < left
            BY <2>8
        <3>2. cur.left > 0
            BY <1>9, <2>8
        <3> QED
            BY <2>8, <3>1, <3>2, PlaceIs DEF Into
    <2>10. count \in Nat /\ count <= left
        BY <1>10, <2>8
    <2>11. \A i \in 0 .. count : TheLine!Ahead[x + i] = Into(from, left, k, i)
        <3>1. TheLine!Ahead[x] = Into(from, left, k, 0) /\ x + count <= MaxCredit
            BY <1>17, <2>6, <2>9
        <3> QED
            BY <2>10, <3>1, WalkInto
    <2>12. ASSUME NEW i \in 1 .. x + count PROVE g.pcm[i] = Head(TheLine!Ahead[i - 1].rest)
        <3>1. CASE i <= x
            <4>1. i \in 1 .. x /\ g.pcm[i] = b.pcm[i]
                BY <1>15, <1>16, <2>2, <2>4, <3>1, ConcatProperties
            <4> QED
                BY <1>17, <4>1 DEF AreNext
        <3>2. CASE ~(i <= x)
            <4>1. PICK e \in 1 .. count : i = x + e
                <5>1. i - x \in 1 .. count /\ i = x + (i - x)
                    BY <2>10, <3>2
                <5> QED
                    BY <5>1
            <4>2. g.pcm[i] = out[e]
                <5>1. g.pcm[i] = out[i - x] /\ i - x = e
                    BY <1>15, <1>16, <2>2, <2>4, <2>10, <3>2, <4>1, ConcatProperties
                <5> QED
                    BY <5>1
            <4>3. out[e] = b.mem[from + e - 1]
                BY <2>1, <2>8, <4>1 DEF Given
            <4>4. PICK c \in Nat : c = e - 1 /\ c < left /\ from + e - 1 = from + c /\ i - 1 = x + c /\ c \in 0 .. count
                BY <2>10, <4>1
            <4>5. b.mem[from + c] = Blank[from + c]
                <5>1. from + c \in from .. from + left - 1
                    BY <4>4
                <5>2. from + c \in Buffers[1] \cup Buffers[2]
                    BY <1>11, <2>8, <5>1 DEF InBuffers
                <5> QED
                    BY <1>15, <5>2 DEF SoundThere
            <4>6. Head(Into(from, left, k, c).rest) = Blank[from + c]
                BY <4>4, IntoIs
            <4> QED
                BY <2>11, <4>2, <4>3, <4>4, <4>5, <4>6
        <3> QED
            BY <3>1, <3>2
    <2>13. PlaceOf(new) = Into(from, left, k, count)
        <3>1. HasMoved(cur, count, after)
            BY <1>4, <1>8, MovedIs DEF PlayOk
        <3>2. after.from = from + count /\ after.left = left - count /\ after.next = cur.next
              /\ ChannelShape(after) /\ after.chained
            BY <1>8, <2>8, <3>1 DEF HasMoved, PlayOk
        <3>3. CASE after.left = 0
            <4>1. HasCompleted(after, new)
                BY <1>5, <3>2, <3>3, CompletedIs
            <4>2. new.left = 0 /\ new.next = cur.next
                BY <3>2, <3>3, <4>1 DEF HasCompleted
            <4>3. Following(new) = k /\ ~(new.left > 0)
                BY <2>8, <4>2 DEF Following
            <4>4. ~(count < left)
                BY <2>10, <3>2, <3>3
            <4> QED
                BY <4>3, <4>4, PlaceIs DEF Into
        <3>4. CASE after.left # 0
            <4>1. new = after /\ Following(new) = k
                BY <1>5, <2>8, <3>2, <3>4 DEF Following
            <4>2. count < left /\ new.left > 0
                BY <2>10, <3>2, <3>4, <4>1
            <4> QED
                BY <3>2, <4>1, <4>2, PlaceIs DEF Into
        <3> QED
            BY <3>3, <3>4
    <2>14. count \in 0 .. count
        BY <2>10
    <2>15. Streams(g)
        BY <1>17, <2>3, <2>5, <2>11, <2>12, <2>13, <2>14 DEF Streams, AreNext
    <2> QED
        BY <1>6, <1>14, <1>15, <2>5, <2>6, <2>7, <2>15 DEF Feeds
<1> QED
    BY <1>18, <1>19

LEMMA CopyFeeds ==
    ASSUME NEW b, NEW total, Feeds(b, total), Copying = Min(Runnable(b.chan)), b.chan[Copying].run
    PROVE  Feeds(Service(b), total)
<1>1. PICK ch : ch = b.chan[Copying]
    OBVIOUS
<1>2. PICK cur : cur = Current(ch)
    OBVIOUS
<1>3. PICK count : count = Count(cur, b.credit)
    OBVIOUS
<1>4. PICK after : after = Moved(cur, count)
    OBVIOUS
<1>5. PICK new : new = Completed(after)
    OBVIOUS
<1>6. PICK n : n = Copied(b.mem, cur.from, cur.to, count)
    OBVIOUS
<1>7. PICK g : g = Service(b)
    OBVIOUS
<1>8. EngineOk(b) /\ CopyState(ch, b.mem) /\ ch.run
    BY <1>1 DEF EngineOk, Feeds
<1>9. cur.to # Codec /\ after.left = 0
    BY <1>2, <1>3, <1>4, <1>5, <1>6, <1>8, CopyServed
<1>10. EngineShape(b) /\ Copying \in Chans /\ Playing \in Chans \ {Copying}
    BY <1>8, ChannelsAssumption DEF EngineOk
<1>11. HasServed(b, Copying, cur, count, after, g)
    BY <1>1, <1>2, <1>3, <1>4, <1>7, <1>10, ServiceIs
<1>12. /\ g.chan = [b.chan EXCEPT ![Copying] = new]
       /\ g.mem = n /\ g.credit = b.credit /\ g.pcm = b.pcm
    BY <1>5, <1>6, <1>9, <1>11 DEF HasServed
<1>13. g.chan[Playing] = b.chan[Playing]
    BY <1>10, <1>12 DEF EngineShape
<1>14. EngineOk(g)
    BY <1>1, <1>7, <1>8, CopyTurn
<1>15. /\ InBuffers(b.chan[Playing]) /\ SoundThere(b.mem)
       /\ b.pcm \in Seq(Played) /\ b.credit + Len(b.pcm) = total
       /\ total \in 0 .. MaxCredit /\ Streams(b)
    BY DEF Feeds
<1>16. PICK t : t = Table[ch.next]
    OBVIOUS
<1>17. ch.next \in DOMAIN Table /\ t.to # Codec /\ ChannelShape(ch) /\ ch.chained /\ ch.left = 0
    BY <1>8, <1>16 DEF CopyState, CopyOk
<1>18. HasFetched(ch, t, cur)
    <2>1. cur = Fetched(ch)
        BY <1>2, <1>17 DEF Current
    <2> QED
        BY <1>16, <1>17, <2>1, FetchedIs
<1>19. cur.to = t.to /\ count = t.len
    BY <1>3, <1>17, <1>18 DEF Count, HasFetched
<1>20. t.to .. t.to + t.len - 1 \subseteq CopyTo
    BY <1>16, <1>17, CopyAssumption
<1>21. SoundThere(n)
    <2> SUFFICES ASSUME NEW a \in Buffers[1] \cup Buffers[2] PROVE n[a] = b.mem[a]
        BY <1>15 DEF SoundThere
    <2>1. a \in Addresses /\ a \notin t.to .. t.to + t.len - 1
        BY <1>20, PlayAssumption
    <2> QED
        BY <1>6, <1>19, <2>1 DEF Copied
<1>22. Streams(g)
    BY <1>12, <1>13, <1>15 DEF Streams
<1> QED
    BY <1>7, <1>12, <1>13, <1>14, <1>15, <1>21, <1>22 DEF Feeds

LEMMA TurnFeeds == ASSUME NEW b, NEW total, Feeds(b, total) PROVE Feeds(Turn(b), total)
<1>1. CASE b.more /\ Runnable(b.chan) # {}
    <2>1. Turn(b) = Service(b)
        BY <1>1 DEF Turn
    <2>2. PICK c : c = Min(Runnable(b.chan))
        OBVIOUS
    <2>3. Runnable(b.chan) \in SUBSET Chans
        BY DEF Runnable
    <2>4. c \in Chans /\ b.chan[c].run
        BY <1>1, <2>2, <2>3, MinOfChans DEF Runnable
    <2>5. c = Playing \/ c = Copying
        BY <2>4 DEF EngineOk, Feeds
    <2> QED
        BY <2>1, <2>2, <2>4, <2>5, PlayFeeds, CopyFeeds
<1>2. CASE ~(b.more /\ Runnable(b.chan) # {})
    BY <1>2, Zenon DEF Turn
<1> QED
    BY <1>1, <1>2

LEMMA TurnsFeed ==
    ASSUME NEW start, NEW total, Feeds(start, total), NEW n \in Nat, NEW f, AreTurns(f, start, n)
    PROVE  Feeds(f[n], total)
<1> DEFINE bad == {i \in 0 .. n : ~Feeds(f[i], total)}
<1> SUFFICES ASSUME ~Feeds(f[n], total) PROVE FALSE
    OBVIOUS
<1>1. n \in bad /\ bad \subseteq Nat
    OBVIOUS
<1>2. PICK i \in bad : \A j \in bad : <<j, i>> \notin OpToRel(<, Nat)
    BY <1>1, NatLessThanWellFounded, WFMin
<1>3. \A j \in 0 .. n : f[j] = IF j = 0 THEN start ELSE Turn(f[j - 1])
    BY DEF AreTurns
<1>4. i \in 0 .. n /\ ~Feeds(f[i], total)
    OBVIOUS
<1>5. i # 0
    BY <1>3, <1>4
<1>6. i - 1 \in 0 .. n /\ <<i - 1, i>> \in OpToRel(<, Nat)
    BY <1>4, <1>5 DEF OpToRel
<1>7. Feeds(f[i - 1], total)
    BY <1>2, <1>6
<1>8. f[i] = Turn(f[i - 1])
    BY <1>3, <1>4, <1>5
<1> QED
    BY <1>4, <1>7, <1>8, TurnFeeds

-----------------------------------------------------------------------------
(* The way of the sound: what is in the queue are whole frames, of the     *)
(* driver's words and of tones.                                            *)
Sounded == Played \cup {"tone"}

(* The codec's link, as its registers are written.                         *)
LinkShape(link) ==
    link = [gcr |-> link.gcr, gsr |-> link.gsr, variable |-> link.variable, rate |-> link.rate]

(* The codec plays at the rate the driver asked for. *)
Rated(link) == link.variable /\ link.rate = PlayRate

LineInv ==
    /\ SoundInv
    /\ InBuffers(chan[Playing])
    /\ SoundThere(mem)
    /\ resample \in Nat
    /\ LinkShape(ac97)
    /\ wave # "off" \/ chan[Playing].run => Rated(ac97)
    /\ \E l \in Seq(Sounded) : queue = Samples(l)

LEMMA BatchFeeds ==
    ASSUME LineInv, NEW cycles \in Batches, NEW frames \in Asked, NEW b, b = Batch(cycles, frames)
    PROVE  Feeds(b, Min({credit + frames, MaxCredit}))
<1>1. PICK start : start = Started(frames)
    OBVIOUS
<1>2. cycles \in Nat /\ frames \in Nat /\ MaxCredit \in Nat /\ credit \in Nat /\ SoundInv
    BY ChannelsAssumption, DmaAssumption DEF SoundInv, LineInv
<1>3. PICK total \in 0 .. MaxCredit : total = Min({credit + frames, MaxCredit})
    BY <1>2, MinOfTwo
<1>4. /\ EngineShape(start)
      /\ start.chan = chan /\ start.mem = mem /\ start.credit = total /\ start.done = << >>
      /\ start.pcm = << >>
    BY <1>1, <1>2, <1>3 DEF Started, EngineShape, SoundInv, ChannelsOk
<1>5. EngineOk(start)
    BY <1>2, <1>4 DEF EngineOk, SoundInv, ChannelsOk
<1>6. << >> \in Seq(Played) /\ Len(<< >>) = 0 /\ total + 0 = total
    OBVIOUS
<1>9. Streams(start)
    BY <1>4, <1>6, AheadIs DEF Streams, AreNext
<1>7. Feeds(start, total)
    BY <1>4, <1>5, <1>6, <1>9 DEF Feeds, LineInv
<1>8. PICK f : AreTurns(f, start, cycles) /\ b = f[cycles]
    BY <1>1, <1>2, BatchIs
<1> QED
    BY <1>2, <1>3, <1>7, <1>8, TurnsFeed

(* What is heard of the queue. *)
LEMMA HeardIs ==
    ASSUME NEW l \in Seq(Sounded), queue = Samples(l) PROVE Heard = l
<1>1. Heard = Decoded(queue)
    BY DEF Heard, Decoded
<1> QED
    BY <1>1, DecodedIs

LEMMA HeardNext ==
    ASSUME NEW l \in Seq(Sounded), queue' = Samples(l) PROVE Heard' = l
<1>1. Heard' = Decoded(queue')
    BY DEF Heard, Decoded
<1> QED
    BY <1>1, DecodedIs

LEMMA SoundedSeq == ASSUME NEW s \in Seq(Played) PROVE s \in Seq(Sounded)
<1>1. Played \subseteq Sounded
    BY DEF Sounded
<1> QED
    BY <1>1, SeqMonotonic

(* Words sent become frames at the end of the line, the oldest of which    *)
(* are lost for want of room.                                              *)
LEMMA PushKeeps ==
    ASSUME NEW words \in Seq(Played), NEW n \in Nat, n = Len(words),
           NEW rate, n # 0 => rate = PlayRate,
           AreNext(words, n), PushAc97(words, rate), resample \in Nat, NEW l \in Seq(Sounded), queue = Samples(l)
    PROVE  /\ resample' \in Nat
           /\ resample' = resample + TheLine!Begun(n) * Step[PlayRate] - n * Unit
           /\ \E t \in Seq(Sounded) : queue' = Samples(t)
           /\ TheLine!Keep(Heard \o TheLine!Made(n))
<1>1. PICK s : s = Step[PlayRate]
    OBVIOUS
<1>3. PICK made : made = Resampled(words, s)
    OBVIOUS
<1>4. /\ made.frames = TheLine!Made(n)
      /\ made.frames \in Seq(Played)
      /\ made.pos \in Nat
      /\ made.pos = resample + TheLine!Begun(n) * s - n * Unit
    BY <1>1, <1>3, ResampledIs
<1>5. PICK new \in Seq(Sounded) : new = made.frames
    BY <1>4, SoundedSeq
<1>6. Heard = l
    BY HeardIs
<1>7. PICK all : all = l \o new
    OBVIOUS
<1>8. PICK m \in Nat : m = Len(all) /\ all \in Seq(Sounded)
    BY <1>7, ConcatProperties
<1>9. ASSUME NEW lost \in 0 .. m, NEW t, t = SubSeq(all, lost + 1, m), queue' = Samples(t),
             lost > 0 => m - lost >= Capacity \div 2
      PROVE  /\ \E u \in Seq(Sounded) : queue' = Samples(u)
             /\ TheLine!Keep(all)
    <2>1. t \in Seq(Sounded) /\ Len(t) = m - lost
        BY <1>8, <1>9, SamplesLost
    <2>2. Heard' = t
        BY <1>9, <2>1, HeardNext
    <2>3. lost \in 0 .. Len(all) /\ Heard' = SubSeq(all, lost + 1, Len(all))
          /\ (lost > 0 => Len(Heard') >= Capacity \div 2)
        BY <1>8, <1>9, <2>1, <2>2
    <2>4. TheLine!Keep(all)
        BY <2>3 DEF TheLine!Keep
    <2> QED
        BY <1>9, <2>1, <2>4
<1>10. CASE words = << >>
    <2>1. queue' = queue /\ resample' = resample
        BY <1>10 DEF PushAc97, audioVars
    <2>2. n = 0
        BY <1>10
    <2>3. Len(words) * Unit = 0 /\ n * Unit = 0
        BY <1>10, <2>2, AudioAssumption, SMT
    <2>4. Begun(0, s) = 0
        BY DEF Begun
    <2>5. 0 * s = 0
        BY <1>1, PlayAssumption, AudioAssumption, SMT
    <2>6. made.frames = << >> /\ made.pos = resample
        <3>1. /\ made.frames = [i \in 1 .. Begun(0, s) |-> words[(resample + (i - 1) * s) \div Unit + 1]]
              /\ made.pos = resample + Begun(0, s) * s - 0
            BY <1>3, <2>3, Zenon DEF Resampled
        <3>2. made.frames = << >>
            BY <2>4, <3>1
        <3>3. made.pos = resample + 0 - 0
            BY <2>4, <2>5, <3>1
        <3> QED
            BY <3>2, <3>3
    <2>7. all = l
        BY <1>5, <1>7, <2>6, ConcatEmptySeq
    <2>8. 0 \in 0 .. m /\ SubSeq(all, 0 + 1, m) = all /\ ~(0 > 0)
        BY <1>8, SubSeqFull
    <2>9. TheLine!Keep(all)
        BY <1>9, <2>1, <2>7, <2>8
    <2> QED
        BY <1>1, <1>4, <1>5, <1>6, <1>7, <2>1, <2>6, <2>9
<1>11. CASE words # << >>
    <2>0. rate = PlayRate
        BY <1>11, EmptySeq
    <2>1. queue' = Kept(queue \o Samples(made.frames)) /\ resample' = made.pos
        BY <1>1, <1>3, <1>11, <2>0 DEF PushAc97
    <2>2. queue' = Kept(Samples(all))
        BY <1>5, <1>7, <2>1, SamplesJoined
    <2>3. PICK lost \in 0 .. m : /\ Kept(Samples(all)) = Samples(SubSeq(all, lost + 1, m))
                                 /\ lost > 0 => m - lost >= Capacity \div 2
        BY <1>8, KeptIs
    <2>4. (\E u \in Seq(Sounded) : queue' = Samples(u)) /\ TheLine!Keep(all)
        BY <1>9, <2>2, <2>3
    <2> QED
        BY <1>1, <1>4, <1>5, <1>6, <1>7, <2>1, <2>4
<1> QED
    BY <1>10, <1>11

(* Where the channel is, after a step. *)
LEMMA PlaceNext == PlaceOf(chan[Playing])' = PlaceOf(chan'[Playing])
BY DEF PlaceOf, Words, BufferWords, Descriptor

LEMMA TickFlows ==
    ASSUME LineInv, NEW cycles \in Batches, NEW frames \in Asked, Tick(cycles, frames)
    PROVE  LineInv' /\ TheLine!Next
<1>1. PICK b : b = Batch(cycles, frames)
    OBVIOUS
<1>2. PICK total : total = Min({credit + frames, MaxCredit})
    OBVIOUS
<1>3. Feeds(b, total)
    BY <1>1, <1>2, BatchFeeds
<1>4. cycles \in Nat /\ frames \in Nat /\ MaxCredit \in Nat /\ credit \in Nat /\ SoundInv
    BY ChannelsAssumption, DmaAssumption DEF SoundInv, LineInv
<1>5. total \in Nat /\ total <= MaxCredit
    BY <1>2, <1>4, MinOfTwo
<1>6. /\ chan' = b.chan /\ mem' = b.mem /\ credit' = b.credit /\ ac97' = ac97
      /\ PushAc97(b.pcm, PcmRate)
    BY <1>1 DEF Tick
<1>7. SoundInv'
    BY <1>4, TickKeeps
<1>8. PICK words \in Seq(Played), n \in Nat : words = b.pcm /\ n = Len(words)
    BY <1>3 DEF Feeds
<1>9. b.credit \in Nat /\ b.credit + n = total
    BY <1>3, <1>8 DEF Feeds, EngineOk
<1>10. /\ AreNext(words, n)
       /\ PlaceOf(b.chan[Playing]) = TheLine!Ahead[n]
       /\ words # << >> \/ b.chan[Playing].run => chan[Playing].run
    BY <1>3, <1>8 DEF Feeds, Streams, AreNext
<1>11. PICK l \in Seq(Sounded) : queue = Samples(l)
    BY DEF LineInv
<1>12. n # 0 => PcmRate = PlayRate
    <2>1. n # 0 => words # << >>
        BY <1>8
    <2> QED
        BY <1>10, <2>1 DEF LineInv, Rated, PcmRate
<1>13. resample \in Nat
    BY DEF LineInv
<1>14. /\ resample' \in Nat
       /\ resample' = resample + TheLine!Begun(n) * Step[PlayRate] - n * Unit
       /\ \E t \in Seq(Sounded) : queue' = Samples(t)
       /\ TheLine!Keep(Heard \o TheLine!Made(n))
    BY <1>6, <1>8, <1>10, <1>11, <1>12, <1>13, PushKeeps
<1>15. LineInv'
    <2>1. wave' = wave
        BY DEF Tick
    <2>2. wave # "off" \/ b.chan[Playing].run => Rated(ac97)
        BY <1>10 DEF LineInv
    <2> QED
        BY <1>3, <1>6, <1>7, <1>14, <2>1, <2>2 DEF LineInv, Feeds
<1>16. TheLine!Send(frames, n)
    <2>1. n <= total /\ credit' = total - n
        BY <1>5, <1>6, <1>9
    <2>2. n <= TheLine!Min({credit + frames, MaxCredit})
          /\ credit' = TheLine!Min({credit + frames, MaxCredit}) - n
        BY <1>2, <2>1, Zenon DEF Min, TheLine!Min
    <2>3. PlaceOf(chan[Playing])' = TheLine!Ahead[n]
        BY <1>6, <1>10, PlaceNext
    <2> QED
        BY <1>14, <2>2, <2>3, Zenon DEF TheLine!Send
<1>17. n \in 0 .. MaxCredit
    BY <1>4, <1>5, <1>9
<1>18. TheLine!Next
    BY <1>16, <1>17 DEF TheLine!Next
<1> QED
    BY <1>15, <1>18

(* What the listener hears is what has waited longest. *)
LEMMA PlaysFlow ==
    ASSUME LineInv, Plays
    PROVE  LineInv' /\ (TheLine!Next \/ UNCHANGED TheLine!lineVars)
<1>1. PICK frames \in 1 .. MaxFrames : Callback(frames) /\ UNCHANGED <<dmaVars, drivers, clock>>
    BY DEF Plays
<1>2. /\ UNCHANGED <<chan, mem, credit, ac97, wave, fill, late, stale, copier>>
      /\ resample' = resample /\ PlaceOf(chan[Playing])' = PlaceOf(chan[Playing])
    BY <1>1, PlaceNext DEF Callback, dmaVars, drivers
<1>3. SoundInv'
    BY <1>2 DEF LineInv, SoundInv, ChannelsOk, CopyState, AllCopied, CopiedTo, WaveOk
<1>4. PICK l \in Seq(Sounded), n \in Nat : queue = Samples(l) /\ n = Len(l)
    BY DEF LineInv
<1>5. Len(queue) = 2 * n /\ Heard = l
    BY <1>4, SamplesAre, HeardIs
<1>6. CASE queue' = queue
    <2>1. Heard' = l
        BY <1>4, <1>6, HeardNext
    <2> QED
        BY <1>2, <1>3, <1>4, <1>5, <1>6, <2>1 DEF LineInv, TheLine!lineVars
<1>7. CASE queue' # queue
    <2>1. PICK played : /\ played = Min({frames, Len(queue) \div 2})
                        /\ queue' = SubSeq(queue, 2 * played + 1, Len(queue))
        BY <1>1, <1>7 DEF Callback
    <2>2. Len(queue) \div 2 = n
        BY <1>5
    <2>3. frames \in Nat
        OBVIOUS
    <2>4. played \in Nat /\ played <= n
        BY <2>1, <2>2, <2>3, MinOfTwo
    <2>5. PICK p \in 0 .. n : p = played
        BY <2>4
    <2>6. PICK t : t = SubSeq(l, p + 1, n)
        OBVIOUS
    <2>7. t \in Seq(Sounded) /\ queue' = Samples(t)
        <3>1. queue' = SubSeq(Samples(l), 2 * p + 1, 2 * n)
            BY <1>4, <1>5, <2>1, <2>5, Zenon
        <3> QED
            BY <1>4, <2>6, <3>1, SamplesLost
    <2>8. Heard' = t
        BY <2>7, HeardNext
    <2>9. TheLine!Hear
        BY <1>2, <1>4, <1>5, <2>5, <2>6, <2>8 DEF TheLine!Hear
    <2> QED
        BY <1>2, <1>3, <2>7, <2>9 DEF LineInv, TheLine!Next
<1> QED
    BY <1>6, <1>7

(* A tone goes to the end of the line. *)
LEMMA RestartFlows ==
    ASSUME LineInv, Restart, UNCHANGED clock
    PROVE  LineInv' /\ TheLine!Next
<1>1. /\ UNCHANGED <<chan, mem, credit, ac97, resample>> /\ wave' = "off"
      /\ queue' = queue \o Samples([i \in 1 .. ToneFrames |-> "tone"])
      /\ PlaceOf(chan[Playing])' = PlaceOf(chan[Playing])
    BY PlaceNext DEF Restart, PushTone, dmaVars
<1>2. SoundInv'
    BY SoundStep DEF LineInv, Next, Drivers
<1>3. PICK l \in Seq(Sounded) : queue = Samples(l)
    BY DEF LineInv
<1>4. PICK tone : tone = [i \in 1 .. ToneFrames |-> "tone"]
    OBVIOUS
<1>5. tone \in Seq(Sounded)
    <2>1. ToneFrames \in Nat /\ "tone" \in Sounded
        BY AudioAssumption DEF Sounded
    <2>2. tone \in [1 .. ToneFrames -> Sounded]
        BY <1>4, <2>1
    <2> QED
        BY <2>1, <2>2
<1>6. queue' = Samples(l \o tone) /\ l \o tone \in Seq(Sounded)
    BY <1>1, <1>3, <1>4, <1>5, SamplesJoined, ConcatProperties
<1>7. Heard = l /\ Heard' = l \o tone
    BY <1>3, <1>6, HeardIs, HeardNext
<1>8. TheLine!Tone
    BY <1>1, <1>4, <1>7 DEF TheLine!Tone
<1> QED
    BY <1>1, <1>2, <1>6, <1>8 DEF LineInv, TheLine!Next

LEMMA LineInit == Init => LineInv /\ TheLine!Init
<1> SUFFICES ASSUME Init PROVE LineInv /\ TheLine!Init
    OBVIOUS
<1>1. /\ chan = [c \in Chans |-> IdleChannel] /\ mem = Blank /\ credit = 0
      /\ wave = "off" /\ queue = << >> /\ resample = 0
    BY DEF Init, DmaInit, AudioInit
<1>2. PICK idle : idle = IdleChannel
    OBVIOUS
<1>3. idle.left = 0 /\ idle.next = 0 /\ ~idle.run /\ chan[Playing] = idle
    BY <1>1, <1>2, ChannelsAssumption DEF IdleChannel
<1>4. PICK l : l = << >>
    OBVIOUS
<1>5. l \in Seq(Sounded) /\ Len(l) = 0
    BY <1>4
<1>6. queue = Samples(l)
    <2>1. AreSamples(queue, l, 0)
        <3>1. queue = [j \in 1 .. 2 * 0 |-> queue[j]]
            BY <1>1
        <3>2. \A i \in 1 .. 0 : FALSE
            OBVIOUS
        <3> QED
            BY <3>1, <3>2 DEF AreSamples
    <2>2. 0 \in Nat /\ 0 = Len(l)
        BY <1>5
    <2> QED
        BY <1>5, <2>1, <2>2, SamplesAre, Zenon
<1>7. Heard = << >>
    BY <1>4, <1>5, <1>6, HeardIs
<1>8. SoundInv
    BY SoundInit
<1>9. SoundThere(mem)
    BY <1>1 DEF SoundThere
<1>10. LinkShape(ac97)
    BY DEF LinkShape, Init, DmaInit
<1>11. InBuffers(chan[Playing])
    BY <1>3 DEF InBuffers
<1>12. PlaceOf(chan[Playing]) = TheLine!Beginning
    <2>1. Following(idle) = 1
        BY <1>2, PlayAssumption DEF Following
    <2> QED
        BY <1>3, <2>1, PlaceIs DEF TheLine!Beginning
<1> QED
    BY <1>1, <1>3, <1>5, <1>6, <1>7, <1>8, <1>9, <1>10, <1>11, <1>12 DEF LineInv, TheLine!Init

(* The drivers leave the line alone, but for setting off. *)
LEMMA LineRests ==
    ASSUME LineInv, SoundInv', UNCHANGED <<credit, queue, resample>>,
           InBuffers(chan[Playing])', SoundThere(mem)', LinkShape(ac97)',
           wave' # "off" \/ chan'[Playing].run => Rated(ac97')
    PROVE  LineInv' /\ UNCHANGED <<Heard, credit, resample>>
<1>1. PICK l \in Seq(Sounded) : queue = Samples(l) /\ queue' = Samples(l)
    BY DEF LineInv
<1>2. Heard = l /\ Heard' = l
    BY <1>1, HeardIs, HeardNext
<1>3. resample' = resample /\ resample \in Nat
    BY DEF LineInv
<1> QED
    BY <1>1, <1>2, <1>3 DEF LineInv, Rated

(* What a write of a register leaves of the link. *)
LEMMA GcrIs ==
    ASSUME NEW link, LinkShape(link), NEW bits
    PROVE  LinkShape(Gcr(link, bits))
<1>1. PICK g, s, v, r : link = [gcr |-> g, gsr |-> s, variable |-> v, rate |-> r]
    BY DEF LinkShape
<1>2. PICK up : up = Gcr(link, bits)
    OBVIOUS
<1>3. PICK h : h = CASE "off" \in bits -> (s \ {"ready"}) \cup {"off"}
                     [] "off" \notin bits /\ "reset" \in bits -> (s \ {"off"}) \cup {"ready"}
                     [] OTHER -> s
    OBVIOUS
<1>4. up = [gcr |-> bits, gsr |-> h, variable |-> v, rate |-> r]
    BY <1>1, <1>2, <1>3 DEF Gcr
<1> QED
    BY <1>2, <1>4 DEF LinkShape

LEMMA EnabledIs ==
    ASSUME NEW link, LinkShape(link)
    PROVE  /\ LinkShape(CodecRegister(link, "variable", TRUE))
           /\ CodecRegister(link, "variable", TRUE).variable = TRUE
<1>1. PICK g, s, v, r : link = [gcr |-> g, gsr |-> s, variable |-> v, rate |-> r]
    BY DEF LinkShape
<1>2. PICK up : up = CodecRegister(link, "variable", TRUE)
    OBVIOUS
<1>3. up = [gcr |-> g, gsr |-> s \cup {"written"}, variable |-> TRUE, rate |-> r]
    BY <1>1, <1>2 DEF CodecRegister
<1>4. LinkShape(up)
    BY <1>3 DEF LinkShape
<1>5. up.variable = TRUE
    BY <1>3, Zenon
<1> QED
    BY <1>2, <1>4, <1>5

LEMMA RatedIs ==
    ASSUME NEW link, LinkShape(link), NEW rate
    PROVE  /\ LinkShape(CodecRegister(link, "rate", rate))
           /\ CodecRegister(link, "rate", rate).rate = rate
           /\ CodecRegister(link, "rate", rate).variable = link.variable
<1>1. PICK g, s, v, r : link = [gcr |-> g, gsr |-> s, variable |-> v, rate |-> r]
    BY DEF LinkShape
<1>2. PICK up : up = CodecRegister(link, "rate", rate)
    OBVIOUS
<1>3. up = [gcr |-> g, gsr |-> s \cup {"written"}, variable |-> v, rate |-> rate]
    BY <1>1, <1>2 DEF CodecRegister
<1>4. LinkShape(up)
    BY <1>3 DEF LinkShape
<1>5. up.rate = rate /\ up.variable = v /\ link.variable = v
    BY <1>1, <1>3, Zenon
<1> QED
    BY <1>2, <1>4, <1>5

LEMMA GsrIs ==
    ASSUME NEW link, LinkShape(link), NEW clears
    PROVE  /\ LinkShape(Gsr(link, clears))
           /\ Gsr(link, clears).rate = link.rate /\ Gsr(link, clears).variable = link.variable
<1>1. PICK g, s, v, r : link = [gcr |-> g, gsr |-> s, variable |-> v, rate |-> r]
    BY DEF LinkShape
<1> QED
    BY <1>1 DEF LinkShape, Gsr

LEMMA WaveFlows ==
    ASSUME LineInv, SoundInv', BringUp \/ Run \/ Stop \/ Refill
    PROVE  LineInv' /\ [TheLine!Next]_(TheLine!lineVars)
<1>1. UNCHANGED <<credit, queue, resample, mem>>
    BY DEF BringUp, Run, Stop, Refill, audioVars
<1>2. SoundThere(mem)'
    BY <1>1 DEF LineInv, SoundThere
<1>3. PICK ch : ch = chan[Playing]
    OBVIOUS
<1>4. PlayOk(ch) /\ InBuffers(ch) /\ Playing \in DOMAIN chan
    BY <1>3, ChannelsAssumption DEF LineInv, SoundInv, ChannelsOk
<1>5. ChannelShape(ch)
    BY <1>4 DEF PlayOk
<1>6. PICK g : g = chan'[Playing]
    OBVIOUS
<1>7. /\ g.from = ch.from /\ g.left = ch.left
      /\ IF Run THEN g.next = PlayChain ELSE g.next = ch.next
      /\ BringUp \/ Stop => ~g.run
      /\ Refill => g.run = ch.run
    <2>0. Run => wave = "ready"
        BY DEF Run
    <2>1. CASE BringUp \/ Stop
        <3>1. g = Dcsr(ch, FALSE, TRUE, Interrupts)
            BY <1>3, <1>4, <1>6, <2>1 DEF BringUp, Stop
        <3>2. HasWritten(ch, FALSE, Interrupts, g)
            BY <1>5, <3>1, DcsrIs
        <3>3. ~Run
            BY <2>0, <2>1 DEF BringUp, Stop
        <3>4. ~Refill
            BY <2>1 DEF BringUp, Stop, Refill
        <3> QED
            BY <3>2, <3>3, <3>4 DEF HasWritten
    <2>2. CASE Refill
        <3>1. g = Dcsr(ch, ch.run, TRUE, Interrupts) /\ ch.run \in BOOLEAN
            BY <1>3, <1>4, <1>5, <1>6, <2>2 DEF Refill, ChannelShape
        <3>2. HasWritten(ch, ch.run, Interrupts, g)
            BY <1>5, <3>1, DcsrIs
        <3>3. ~Run
            BY <2>0, <2>2 DEF Refill
        <3>4. ~BringUp /\ ~Stop
            BY <2>2 DEF BringUp, Stop, Refill
        <3> QED
            BY <3>2, <3>3, <3>4 DEF HasWritten
    <2>3. CASE Run
        <3>1. PICK d : d = Ddadr(ch, PlayChain)
            OBVIOUS
        <3>2. g = Dcsr(d, TRUE, TRUE, Interrupts)
            BY <1>3, <1>4, <1>6, <2>3, <3>1 DEF Run
        <3>3. ChannelShape(d) /\ d.from = ch.from /\ d.left = ch.left /\ d.next = PlayChain
            BY <1>5, <3>1, DdadrIs
        <3>4. HasWritten(d, TRUE, Interrupts, g)
            BY <3>2, <3>3, DcsrIs
        <3>5. ~BringUp /\ ~Stop /\ ~Refill
            BY <2>0, <2>3 DEF BringUp, Stop, Refill
        <3> QED
            BY <2>3, <3>3, <3>4, <3>5 DEF HasWritten
    <2> QED
        BY <2>1, <2>2, <2>3
<1>8. InBuffers(chan[Playing])'
    BY <1>4, <1>6, <1>7 DEF InBuffers
<1>9. LinkShape(ac97') /\ (wave' # "off" \/ g.run => Rated(ac97'))
    <2>1. CASE BringUp
        <3>1. PICK up : up = Gcr(ac97, {"reset"})
            OBVIOUS
        <3>2. LinkShape(ac97)
            BY DEF LineInv
        <3>3. LinkShape(up)
            BY <3>1, <3>2, GcrIs
        <3>4. PICK on : on = CodecRegister(up, "variable", TRUE)
            OBVIOUS
        <3>5. LinkShape(on) /\ on.variable = TRUE
            BY <3>3, <3>4, EnabledIs
        <3>6. PICK rated : rated = CodecRegister(on, "rate", PlayRate)
            OBVIOUS
        <3>7. LinkShape(rated) /\ rated.rate = PlayRate /\ rated.variable = TRUE
            BY <3>5, <3>6, RatedIs
        <3>8. ac97' = Gsr(rated, {"written"})
            BY <2>1, <3>1, <3>4, <3>6 DEF BringUp
        <3>9. LinkShape(ac97') /\ ac97'.rate = PlayRate /\ ac97'.variable = TRUE
            BY <3>7, <3>8, GsrIs
        <3> QED
            BY <3>9 DEF Rated
    <2>2. CASE Run \/ Stop \/ Refill
        <3>1. ac97' = ac97 /\ wave # "off"
            BY <2>2 DEF Run, Stop, Refill
        <3> QED
            BY <3>1 DEF LineInv
    <2> QED
        BY <2>1, <2>2
<1>10. LineInv' /\ UNCHANGED <<Heard, credit, resample>>
    BY <1>1, <1>2, <1>6, <1>8, <1>9, LineRests
<1>11. PlaceOf(chan[Playing])' = PlaceOf(g)
    BY <1>6, PlaceNext
<1>12. CASE ~Run
    <2>1. PlaceOf(g) = PlaceOf(ch)
        BY <1>7, <1>12, PlaceIs DEF Following
    <2> QED
        BY <1>3, <1>10, <1>11, <2>1 DEF TheLine!lineVars
<1>13. CASE Run
    <2>1. Following(g) = 1
        <3>1. g.next = Round(1)
            BY <1>7, <1>13 DEF Round
        <3> QED
            BY <3>1, FollowingIs
    <2>2. PICK k \in {1, 2} : k = Following(ch)
        BY DEF Following
    <2>3. CASE ch.left > 0
        <3>1. PlaceOf(ch) = [rest |-> Words(ch.from, ch.left), next |-> k]
            BY <2>2, <2>3, PlaceIs
        <3>2. PlaceOf(g) = [rest |-> Words(ch.from, ch.left), next |-> 1]
            BY <1>7, <2>1, <2>3, PlaceIs
        <3>3. PlaceOf(g) = [PlaceOf(ch) EXCEPT !.next = 1]
            BY <3>1, <3>2
        <3>4. TheLine!SetOff
            BY <1>3, <1>10, <1>11, <3>3 DEF TheLine!SetOff
        <3> QED
            BY <1>10, <3>4 DEF TheLine!Next
    <2>4. CASE ~(ch.left > 0)
        <3>1. PlaceOf(ch) = [rest |-> BufferWords[k], next |-> 3 - k]
            BY <2>2, <2>4, PlaceIs
        <3>2. PlaceOf(g) = [rest |-> BufferWords[1], next |-> 2]
            BY <1>7, <2>1, <2>4, PlaceIs
        <3>3. PlaceOf(ch).rest = BufferWords[3 - PlaceOf(ch).next]
            BY <3>1
        <3>4. TheLine!SetOff
            BY <1>3, <1>10, <1>11, <3>2, <3>3 DEF TheLine!SetOff, TheLine!Beginning
        <3> QED
            BY <1>10, <3>4 DEF TheLine!Next
    <2> QED
        BY <2>3, <2>4
<1> QED
    BY <1>10, <1>12, <1>13

LEMMA CopierFlows ==
    ASSUME LineInv, SoundInv', Copier
    PROVE  LineInv' /\ UNCHANGED TheLine!lineVars
<1>1. UNCHANGED <<credit, queue, resample, ac97, wave>>
    BY DEF Copier, StartCopy, CopyTold, OthersRest, audioVars
<1>2. chan'[Playing] = chan[Playing]
    BY ChannelsAssumption DEF Copier, StartCopy, CopyTold, LineInv, SoundInv, ChannelsOk
<1>3. SoundThere(mem)'
    <2>1. CASE StartCopy
        <3> SUFFICES ASSUME NEW a \in Buffers[1] \cup Buffers[2] PROVE mem'[a] = mem[a]
            BY DEF LineInv, SoundThere
        <3>1. a \in Addresses /\ a \notin CopyTo
            BY PlayAssumption
        <3> QED
            BY <2>1, <3>1 DEF StartCopy
    <2>2. CASE CopyTold
        BY <2>2 DEF CopyTold, LineInv, SoundThere
    <2> QED
        BY <2>1, <2>2 DEF Copier
<1>4. InBuffers(chan[Playing])'
    BY <1>2 DEF LineInv, InBuffers
<1>5. LineInv' /\ UNCHANGED <<Heard, credit, resample>>
    <2>1. LinkShape(ac97)' /\ (wave' # "off" \/ chan'[Playing].run => Rated(ac97'))
        BY <1>1, <1>2 DEF LineInv
    <2> QED
        BY <1>1, <1>3, <1>4, <2>1, LineRests
<1>6. PlaceOf(chan[Playing])' = PlaceOf(chan[Playing])
    BY <1>2, PlaceNext
<1> QED
    BY <1>5, <1>6 DEF TheLine!lineVars

LEMMA LineStep ==
    ASSUME LineInv, [Next]_vars
    PROVE  LineInv' /\ [TheLine!Next]_(TheLine!lineVars)
<1>1. SoundInv'
    BY SoundStep DEF LineInv
<1>2. CASE TimePasses
    BY <1>2, TickFlows DEF TimePasses
<1>3. CASE Plays
    BY <1>3, PlaysFlow
<1>4. CASE Restart /\ UNCHANGED clock
    BY <1>4, RestartFlows
<1>5. CASE BringUp \/ Run \/ Stop \/ Refill
    BY <1>1, <1>5, WaveFlows
<1>6. CASE Copier
    BY <1>1, <1>6, CopierFlows
<1>7. CASE UNCHANGED vars
    <2>1. UNCHANGED <<credit, queue, resample, mem, chan, ac97, wave>>
        BY <1>7 DEF vars, dmaVars, audioVars, drivers
    <2>2. InBuffers(chan[Playing])' /\ SoundThere(mem)' /\ LinkShape(ac97)'
          /\ (wave' # "off" \/ chan'[Playing].run => Rated(ac97'))
        BY <2>1 DEF LineInv, SoundThere, InBuffers
    <2>3. LineInv' /\ UNCHANGED <<Heard, credit, resample>>
        BY <1>1, <2>1, <2>2, LineRests
    <2>4. PlaceOf(chan[Playing])' = PlaceOf(chan[Playing])
        BY <2>1, PlaceNext
    <2> QED
        BY <2>3, <2>4 DEF TheLine!lineVars
<1> QED
    BY <1>2, <1>3, <1>4, <1>5, <1>6, <1>7 DEF Next, Drivers, WaveDriver

(* The words of the two buffers reach the listener in turn and in order,   *)
(* none left out and none twice, each for the frames that begin in its     *)
(* time at the rate the driver asked for, by a listener however slow: the  *)
(* invariant says where the channel is in the buffers and that the codec   *)
(* has the driver's rate whenever the channel runs; a turn of the engine   *)
(* gives the codec the words from there on, and the queue holds whole      *)
(* frames, cut at a whole frame when a second is waiting.                  *)
THEOREM SoundRefinesLine == Spec => ImplementsSoundLine
<1>1. LineInv /\ [Next]_vars => LineInv' /\ [TheLine!Next]_(TheLine!lineVars)
    BY LineStep
<1> QED
    BY <1>1, LineInit, PTL DEF Spec, ImplementsSoundLine, TheLine!Spec
=============================================================================
