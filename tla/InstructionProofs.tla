------------------------- MODULE InstructionProofs -------------------------
(***************************************************************************)
(* What holds of instructions for words of any width: that Thumb's short   *)
(* forms do what ARM's long ones do, wherever a program meets them, and    *)
(* that comparisons, sums of two words and shifts are what they mean.      *)
(*                                                                         *)
(* From the bottom: arithmetic on words, the shifter and the adder; the    *)
(* core, what every operation on it keeps; what each instruction of ARM    *)
(* becomes (it goes on, goes elsewhere, aborts or calls); the long form of *)
(* each instruction of Thumb, and that both come to the same, one by one;  *)
(* what Thumb's others become; the invariant, that the core is at an       *)
(* instruction of its program or in a handler that knows the way back to   *)
(* one; and at the end flags after a sum, the carry between two words, and *)
(* every shift by one place more.                                          *)
(***************************************************************************)
EXTENDS Instructions, SequenceTheorems, WellFoundedInduction, TLAPS

(* A set of numbers that does not begin has nothing in it. *)
LEMMA NoFirst ==
    ASSUME NEW bad \in SUBSET Nat,
           \A n \in bad : \E m \in bad : m < n
    PROVE  bad = {}
<1> SUFFICES ASSUME bad # {} PROVE FALSE
    OBVIOUS
<1>1. PICK n \in bad : \A m \in bad : <<m, n>> \notin OpToRel(<, Nat)
    BY NatLessThanWellFounded, WFMin
<1>2. PICK m \in bad : m < n
    OBVIOUS
<1> QED
    BY <1>1, <1>2 DEF OpToRel

(* The powers up to one of them. *)
ArePowers(f, n) == f = [i \in 0 .. n |-> IF i = 0 THEN 1 ELSE 2 * f[i - 1]]

(* There are as many of the powers as are asked for. *)
LEMMA PowersExist ==
    ASSUME NEW n \in Nat
    PROVE  \E f : ArePowers(f, n)
<1> DEFINE bad == {k \in Nat : ~\E f : ArePowers(f, k)}
<1>1. ASSUME NEW k \in bad PROVE \E m \in bad : m < k
    <2>1. k \in Nat /\ ~\E f : ArePowers(f, k)
        OBVIOUS
    <2>2. CASE k = 0
        <3>1. ArePowers([i \in 0 .. 0 |-> 1], 0)
            BY DEF ArePowers
        <3> QED
            BY <2>1, <2>2, <3>1
    <2>3. CASE k # 0
        <3> SUFFICES ASSUME NEW f, ArePowers(f, k - 1) PROVE FALSE
            BY <2>1, <2>3
        <3>1. \A i \in 0 .. k - 1 : f[i] = IF i = 0 THEN 1 ELSE 2 * f[i - 1]
            BY DEF ArePowers
        <3>2. PICK g : g = [i \in 0 .. k |-> IF i = k THEN 2 * f[k - 1] ELSE f[i]]
            OBVIOUS
        <3>3. ASSUME NEW i \in 0 .. k
              PROVE  g[i] = IF i = 0 THEN 1 ELSE 2 * g[i - 1]
            <4>1. CASE i = k
                <5>1. k - 1 \in 0 .. k /\ k - 1 # k
                    BY <2>1, <2>3
                <5>2. g[k - 1] = f[k - 1]
                    BY <3>2, <5>1
                <5> QED
                    BY <2>3, <3>2, <4>1, <5>2
            <4>2. CASE i # k
                <5>1. i \in 0 .. k - 1 /\ (i # 0 => i - 1 \in 0 .. k /\ i - 1 # k)
                    BY <2>1, <4>2
                <5>2. g[i] = f[i] /\ (i # 0 => g[i - 1] = f[i - 1])
                    BY <3>2, <4>2, <5>1
                <5> QED
                    BY <3>1, <5>1, <5>2
            <4> QED
                BY <4>1, <4>2
        <3>4. ArePowers(g, k)
            BY <3>2, <3>3 DEF ArePowers
        <3> QED
            BY <2>1, <3>4
    <2> QED
        BY <2>2, <2>3
<1>2. bad = {}
    BY <1>1, NoFirst
<1> QED
    BY <1>2

(* Each power of two is twice the one before it. *)
LEMMA PowerStep ==
    /\ Power[0] = 1
    /\ \A n \in 1 .. 2 * Bits : Power[n] = 2 * Power[n - 1]
<1>1. 2 * Bits \in Nat
    BY WordAssumption
<1>2. PICK f : ArePowers(f, 2 * Bits)
    BY <1>1, PowersExist
<1>3. ArePowers(Power, 2 * Bits)
    BY <1>2, Zenon DEF ArePowers, Power
<1>4. \A i \in 0 .. 2 * Bits : Power[i] = IF i = 0 THEN 1 ELSE 2 * Power[i - 1]
    BY <1>3 DEF ArePowers
<1> QED
    BY <1>1, <1>4

(* A power of two is a number, and larger than its exponent. *)
LEMMA PowerIs == \A n \in 0 .. 2 * Bits : Power[n] \in Nat /\ Power[n] > n
<1> DEFINE bad == {n \in 0 .. 2 * Bits : ~(Power[n] \in Nat /\ Power[n] > n)}
<1>0. Bits \in Nat
    BY WordAssumption
<1>1. ASSUME NEW n \in bad PROVE \E m \in bad : m < n
    <2>1. n # 0
        BY PowerStep
    <2>2. n \in 1 .. 2 * Bits /\ n - 1 \in 0 .. 2 * Bits /\ n - 1 < n
        BY <1>0, <2>1
    <2>3. Power[n] = 2 * Power[n - 1]
        BY <2>2, PowerStep
    <2>4. SUFFICES ASSUME Power[n - 1] \in Nat /\ Power[n - 1] > n - 1 PROVE FALSE
        BY <2>2
    <2>5. PICK p \in Nat : p = Power[n - 1]
        BY <2>4
    <2>6. Power[n] = 2 * p /\ p > n - 1
        BY <2>3, <2>4, <2>5
    <2>7. 2 * p \in Nat /\ 2 * p > n
        BY <2>2, <2>6
    <2> QED
        BY <2>6, <2>7
<1>2. bad \subseteq Nat
    BY <1>0
<1>3. bad = {}
    BY <1>1, <1>2, NoFirst
<1> QED
    BY <1>3

(* The power of a sum is the product of the powers. *)
LEMMA PowerSum ==
    ASSUME NEW m \in Nat, NEW n \in Nat, m + n <= 2 * Bits
    PROVE  Power[m + n] = Power[m] * Power[n]
<1> DEFINE bad == {k \in 0 .. n : Power[m + k] # Power[m] * Power[k]}
<1>0. Bits \in Nat
    BY WordAssumption
<1>1. ASSUME NEW k \in bad PROVE \E j \in bad : j < k
    <2>0. m \in 0 .. 2 * Bits /\ k \in 0 .. 2 * Bits
        BY <1>0
    <2>1. PICK a \in Nat : a = Power[m]
        BY <2>0, PowerIs
    <2>2. k # 0
        <3>1. ASSUME k = 0 PROVE FALSE
            <4>1. m + k = m /\ Power[k] = 1 /\ a * 1 = a
                BY <3>1, PowerStep
            <4> QED
                BY <2>1, <4>1
        <3> QED
            BY <3>1
    <2>3. k - 1 \in 0 .. n /\ k - 1 \in 0 .. 2 * Bits /\ k \in 1 .. 2 * Bits
          /\ m + k \in 1 .. 2 * Bits /\ (m + k) - 1 = m + (k - 1) /\ k - 1 < k
        BY <1>0, <2>2
    <2>4. SUFFICES ASSUME Power[m + (k - 1)] = Power[m] * Power[k - 1] PROVE FALSE
        BY <2>3
    <2>5. PICK b \in Nat : b = Power[k - 1]
        BY <2>3, PowerIs
    <2>6. Power[k] = 2 * b
        BY <2>3, <2>5, PowerStep
    <2>7. Power[m + k] = 2 * (a * b)
        BY <2>1, <2>3, <2>4, <2>5, PowerStep
    <2>8. 2 * (a * b) = a * (2 * b)
        BY SMT
    <2> QED
        BY <2>1, <2>6, <2>7, <2>8
<1>2. bad \subseteq Nat
    OBVIOUS
<1>3. bad = {}
    BY <1>1, <1>2, NoFirst
<1>4. n \in 0 .. n
    OBVIOUS
<1> QED
    BY <1>3, <1>4
(* A word is so many bits, a multiple of four. *)
LEMMA WidthIs ==
    /\ Bits \in Nat /\ Bits >= 4
    /\ ByteBits \in Nat /\ ByteBits > 0 /\ HalfBits = 2 * ByteBits /\ Bits = 4 * ByteBits
BY WordAssumption DEF ByteBits, HalfBits

(* How many words there are: at least sixteen, and half of them positive. *)
LEMMA ModulusIs ==
    /\ Modulus \in Nat /\ Modulus >= 16 /\ Modulus > Bits
    /\ Modulus % 4 = 0 /\ Modulus = 4 * (Modulus \div 4)
    /\ Power[Bits - 1] \in Nat /\ Modulus = 2 * Power[Bits - 1]
<1>1. Power[0] = 1 /\ 0 \in 0 .. 2 * Bits
    BY PowerStep, WidthIs
<1>2. /\ Power[1] = 2 * Power[1 - 1] /\ Power[2] = 2 * Power[2 - 1]
      /\ Power[3] = 2 * Power[3 - 1] /\ Power[4] = 2 * Power[4 - 1]
    BY PowerStep, WidthIs
<1>3. Power[4] = 16
    BY <1>1, <1>2
<1>4. Bits - 4 \in Nat /\ Bits - 4 \in 0 .. 2 * Bits /\ 4 + (Bits - 4) = Bits /\ Bits <= 2 * Bits
    BY WidthIs
<1>5. PICK p \in Nat : p = Power[Bits - 4] /\ p > 0
    BY <1>4, PowerIs
<1>6. Power[4 + (Bits - 4)] = Power[4] * Power[Bits - 4]
    BY <1>4, PowerSum
<1>7. Modulus = 16 * p
    BY <1>3, <1>4, <1>5, <1>6 DEF Modulus
<1>8. Bits \in 1 .. 2 * Bits /\ Bits - 1 \in 0 .. 2 * Bits /\ Bits \in 0 .. 2 * Bits
    BY WidthIs
<1>9. Modulus = 2 * Power[Bits - 1] /\ Power[Bits - 1] \in Nat /\ Power[Bits] > Bits
    BY <1>8, PowerStep, PowerIs DEF Modulus
<1> QED
    BY <1>5, <1>7, <1>9 DEF Modulus

(* What is cut to a word is one, and a word stays as it is. *)
LEMMA WrapIs ==
    ASSUME NEW x \in Int
    PROVE  Wrap(x) \in Word /\ (x \in Word => Wrap(x) = x)
<1>1. PICK m \in Nat : m = Modulus /\ m > 0
    BY ModulusIs
<1>2. x % m \in 0 .. m - 1 /\ (x \in 0 .. m - 1 => x % m = x)
    BY <1>1, SMT
<1> QED
    BY <1>1, <1>2 DEF Wrap, Word

(* Two numbers a multiple of the modulus apart are the same word. *)
LEMMA WrapSame ==
    ASSUME NEW x \in Int, NEW k \in Int
    PROVE  Wrap(x + k * Modulus) = Wrap(x)
<1>1. PICK m \in Nat : m = Modulus /\ m > 0
    BY ModulusIs
<1>2. PICK q \in Int, r \in 0 .. m - 1 : x = q * m + r /\ r = x % m
    BY <1>1, SMT
<1>3. PICK p \in Int, t \in 0 .. m - 1 : x + k * m = p * m + t /\ t = (x + k * m) % m
    BY <1>1, SMT
<1>4. PICK e \in Int : e = p - q - k
    OBVIOUS
<1>5. e * m = r - t
    <2>1. PICK a \in Int, b \in Int, c \in Int : a = q * m /\ b = p * m /\ c = k * m
        BY <1>1, SMT
    <2>2. a + r + c = b + t
        BY <1>2, <1>3, <2>1
    <2>3. e * m = b - a - c
        <3>1. e * m = p * m - q * m - k * m
            BY <1>1, <1>4, SMT
        <3> QED
            BY <2>1, <3>1
    <2> QED
        BY <2>2, <2>3
<1>6. e = 0
    <2>1. ASSUME e >= 1 PROVE FALSE
        <3>1. e * m >= m
            BY <1>1, <2>1, SMT
        <3> QED
            BY <1>5, <3>1
    <2>2. ASSUME e <= -1 PROVE FALSE
        <3>1. e * m <= -m
            BY <1>1, <2>2, SMT
        <3> QED
            BY <1>5, <3>1
    <2> QED
        BY <2>1, <2>2
<1>7. r = t
    BY <1>5, <1>6
<1> QED
    BY <1>1, <1>2, <1>3, <1>7 DEF Wrap

(* A sum may be cut to a word at every step or once at the end. *)
LEMMA WrapSum ==
    ASSUME NEW x \in Int, NEW y \in Int
    PROVE  Wrap(Wrap(x) + y) = Wrap(x + y)
<1>1. PICK m \in Nat : m = Modulus /\ m > 0
    BY ModulusIs
<1>2. PICK q \in Int, r \in 0 .. m - 1 : x = q * m + r /\ r = x % m
    BY <1>1, SMT
<1>3. x + y = (r + y) + q * m
    BY <1>2, SMT
<1>4. Wrap((r + y) + q * m) = Wrap(r + y)
    <2>1. r + y \in Int
        OBVIOUS
    <2> QED
        BY <1>1, <2>1, WrapSame
<1> QED
    BY <1>1, <1>2, <1>3, <1>4 DEF Wrap

(* Quotient and remainder of any number by a positive one. *)
LEMMA Divided ==
    ASSUME NEW x \in Int, NEW p \in Nat, p > 0
    PROVE  /\ x \div p \in Int /\ x % p \in Nat /\ x % p < p
           /\ x = p * (x \div p) + (x % p)
BY SMT

(* The quotient of a number that is not negative is not, nor is it larger. *)
LEMMA NotNegative ==
    ASSUME NEW x \in Nat, NEW p \in Nat, p > 0
    PROVE  x \div p \in Nat /\ x \div p <= x
BY SMT

(* Quotient and remainder by a power of two. *)
LEMMA Division ==
    ASSUME NEW x \in Int, NEW n \in 0 .. 2 * Bits
    PROVE  \E p \in Nat, q \in Int, t \in Nat :
               /\ p = Power[n] /\ p > 0 /\ q = x \div p /\ t = x % p
               /\ x = p * q + t /\ t < p /\ (x >= 0 => q >= 0)
<1>1. PICK p \in Nat : p = Power[n] /\ p > 0
    BY PowerIs
<1>2. PICK q \in Int, t \in Nat : q = x \div p /\ t = x % p /\ x = p * q + t /\ t < p
    <2>1. x \div p \in Int /\ x % p \in Nat /\ x % p < p /\ x = p * (x \div p) + (x % p)
        BY <1>1, Divided, Zenon
    <2>2. PICK q : q = x \div p
        OBVIOUS
    <2>3. PICK t : t = x % p
        OBVIOUS
    <2> QED
        BY <2>1, <2>2, <2>3, Zenon
<1>3. x >= 0 => q >= 0
    <2> SUFFICES ASSUME x >= 0 PROVE q >= 0
        OBVIOUS
    <2>1. x \in Nat
        OBVIOUS
    <2>2. x \div p \in Nat
        BY <1>1, <2>1, NotNegative, Zenon
    <2> QED
        BY <1>2, <2>2
<1> QED
    BY <1>1, <1>2, <1>3, Zenon

(* The two parts of a word at a power. *)
LEMMA Halves ==
    ASSUME NEW n \in 0 .. Bits
    PROVE  \E p \in Nat, q \in Nat :
               /\ p = Power[n] /\ q = Power[Bits - n] /\ p > 0 /\ q > 0
               /\ Modulus = p * q
<1>1. n \in Nat /\ Bits - n \in Nat /\ n + (Bits - n) = Bits /\ Bits <= 2 * Bits
      /\ n \in 0 .. 2 * Bits /\ Bits - n \in 0 .. 2 * Bits
    BY WidthIs
<1>2. Power[n + (Bits - n)] = Power[n] * Power[Bits - n]
    BY <1>1, PowerSum
<1> QED
    BY <1>1, <1>2, PowerIs DEF Modulus

(* A word turned round is a word. *)
LEMMA RotateIs ==
    ASSUME NEW x \in Word, NEW n \in 0 .. Bits
    PROVE  Rotate(x, n) \in Word
<1>1. PICK p \in Nat, q \in Nat : /\ p = Power[n] /\ q = Power[Bits - n] /\ p > 0 /\ q > 0
                                  /\ Modulus = p * q
    BY Halves
<1>0. x \in Nat /\ x < Modulus
    BY ModulusIs DEF Word
<1>2. PICK h \in Nat, t \in Nat : x \div p = h /\ x = p * h + t /\ t < p
    <2>1. x \in Int
        BY <1>0
    <2>2. PICK h \in Int, t \in Nat : x \div p = h /\ x = p * h + t /\ t < p
        BY <1>1, <2>1, Divided, Zenon
    <2>3. h \in Nat
        BY <1>0, <1>1, <2>2, NotNegative, Zenon
    <2> QED
        BY <2>2, <2>3
<1>3. h < q
    <2> SUFFICES ASSUME h >= q PROVE FALSE
        OBVIOUS
    <2>1. p * h >= p * q
        BY <1>1, SMT
    <2> QED
        BY <1>0, <1>1, <1>2, <2>1
<1>4. x * q = t * q + h * Modulus
    BY <1>1, <1>2, SMT
<1>5. t * q \in Int /\ t * q >= 0 /\ t * q <= Modulus - q
    <2>1. t <= p - 1
        BY <1>1, <1>2
    <2>2. t * q <= (p - 1) * q
        BY <1>1, <2>1, SMT
    <2>3. (p - 1) * q = p * q - q
        BY <1>1, SMT
    <2> QED
        BY <1>1, <2>2, <2>3, SMT
<1>6. t * q \in Word
    BY <1>1, <1>5, ModulusIs DEF Word
<1>7. Wrap(x * q) = t * q
    BY <1>4, <1>5, <1>6, WrapSame, WrapIs
<1>8. h + t * q \in Word
    BY <1>3, <1>5, ModulusIs DEF Word
<1> QED
    BY <1>1, <1>2, <1>7, <1>8 DEF Rotate

(* A word is a number, and so is what it is taken with its sign. *)
LEMMA SignedIs == ASSUME NEW x \in Word PROVE Signed(x) \in Int /\ x \in Int
BY ModulusIs DEF Signed, Word

(* Bits are true or false. *)
LEMMA BitIs == \A x, n : BitOf(x, n) \in BOOLEAN /\ TopBit(x) \in BOOLEAN
BY DEF BitOf, TopBit

(* A number of some bits extended by its sign is a word. *)
LEMMA SignExtendIs ==
    ASSUME NEW x \in Word, NEW n \in 0 .. 2 * Bits
    PROVE  SignExtend(x, n) \in Word
<1>1. PICK p \in Nat : p = Power[n]
    BY PowerIs
<1>2. PICK y \in Int : y = IF BitOf(x, n - 1) THEN x - p ELSE x
    BY SignedIs
<1> QED
    BY <1>1, <1>2, WrapIs DEF SignExtend

(* What the shifter and the adder give. *)
IsShifted(w) == w.value \in Word /\ w.carry \in BOOLEAN

(* The two fields of what the shifter makes. *)
LEMMA ShiftedIs ==
    ASSUME NEW v \in Word, NEW c \in BOOLEAN
    PROVE  IsShifted(Shifted(v, c)) /\ Shifted(v, c).value = v /\ Shifted(v, c).carry = c
BY DEF Shifted, IsShifted

(* Words that are named outright. *)
LEMMA ZeroIs == 0 \in Word /\ Modulus - 1 \in Word /\ 1 \in Word
BY ModulusIs DEF Word

(* A word less some of its lower bits is a word. *)
LEMMA QuotientWord ==
    ASSUME NEW x \in Word, NEW n \in 0 .. 2 * Bits
    PROVE  x \div Power[n] \in Word
<1>1. PICK p \in Nat : p = Power[n] /\ p > 0
    BY PowerIs
<1>2. x \in Nat /\ x < Modulus /\ Modulus \in Nat
    BY ModulusIs DEF Word
<1>3. PICK q \in Nat : q = x \div p /\ q <= x
    BY <1>1, <1>2, NotNegative, Zenon
<1>4. q \in Word
    BY <1>2, <1>3 DEF Word
<1> QED
    BY <1>1, <1>3, <1>4

(* A shift by less than a word makes a word and a carry. *)
LEMMA ShiftWithinIs ==
    ASSUME NEW kind \in Kinds, NEW x \in Word, NEW n \in 1 .. Bits - 1
    PROVE  IsShifted(ShiftWithin(kind, x, n))
<1>1. n \in 0 .. 2 * Bits /\ n \in 0 .. Bits
    BY WidthIs
<1>2. PICK p \in Nat : p = Power[n] /\ p > 0
    BY <1>1, PowerIs
<1>3. Wrap(x * p) \in Word
    <2>1. x * p \in Int
        BY SignedIs, SMT
    <2> QED
        BY <2>1, WrapIs
<1>4. Wrap(Signed(x) \div p) \in Word
    <2>1. PICK y \in Int : y = Signed(x)
        BY SignedIs
    <2>2. y \div p \in Int
        BY <1>2, <2>1, Divided, Zenon
    <2> QED
        BY <2>1, <2>2, WrapIs
<1>5. PICK v \in Word : v = CASE kind = "LSR" -> x \div p [] kind = "ASR" -> Wrap(Signed(x) \div p)
                             [] kind = "ROR" -> Rotate(x, n) [] kind = "LSL" -> Wrap(x * p)
    <2>1. Rotate(x, n) \in Word /\ x \div p \in Word
        BY <1>1, <1>2, RotateIs, QuotientWord
    <2> HIDE DEF Word
    <2>2. CASE kind = "LSR"
        BY <2>1, <2>2
    <2>3. CASE kind = "ASR"
        BY <1>4, <2>3
    <2>4. CASE kind = "ROR"
        BY <2>1, <2>4
    <2>5. CASE kind = "LSL"
        BY <1>3, <2>5
    <2> QED
        BY <2>2, <2>3, <2>4, <2>5 DEF Kinds
<1>6. CASE kind = "LSL"
    <2>1. ShiftWithin(kind, x, n) = Shifted(v, BitOf(x, Bits - n))
        BY <1>2, <1>5, <1>6 DEF ShiftWithin
    <2> QED
        BY <2>1, BitIs, ShiftedIs
<1>7. CASE kind # "LSL"
    <2>1. ShiftWithin(kind, x, n) = Shifted(v, BitOf(x, n - 1))
        BY <1>2, <1>5, <1>7 DEF ShiftWithin, Kinds
    <2> QED
        BY <2>1, BitIs, ShiftedIs
<1> QED
    BY <1>6, <1>7

(* So does one that fills the word with its sign. *)
LEMMA FilledIs == ASSUME NEW x PROVE IsShifted(Filled(x))
BY BitIs, ZeroIs, ShiftedIs DEF Filled

(* So does a shift by an amount in the instruction, of 0 as well. *)
LEMMA ShiftImmediateIs ==
    ASSUME NEW kind \in Kinds, NEW x \in Word, NEW n \in Amounts, NEW c \in BOOLEAN
    PROVE  IsShifted(ShiftImmediate(kind, x, n, c))
<1>1. CASE n # 0
    <2>1. n \in 1 .. Bits - 1
        BY <1>1, WidthIs DEF Amounts
    <2>2. ShiftImmediate(kind, x, n, c) = ShiftWithin(kind, x, n)
        BY <1>1 DEF ShiftImmediate
    <2> QED
        BY <2>1, <2>2, ShiftWithinIs
<1>2. CASE n = 0 /\ kind = "LSL"
    BY <1>2, ShiftedIs DEF ShiftImmediate
<1>3. CASE n = 0 /\ kind = "LSR"
    BY <1>3, ShiftedIs, ZeroIs, BitIs DEF ShiftImmediate
<1>4. CASE n = 0 /\ kind = "ASR"
    BY <1>4, FilledIs DEF ShiftImmediate
<1>5. CASE n = 0 /\ kind = "ROR"
    <2>1. PICK v \in Word : v = x \div 2 + Power[Bits - 1] * ToInt(c)
        <3>1. PICK h \in Nat : h = Power[Bits - 1] /\ Modulus = 2 * h
            BY ModulusIs
        <3>2. PICK y : y = x \div 2 + h * ToInt(c)
            OBVIOUS
        <3>3. CASE c
            <4>1. ToInt(c) = 1 /\ h * 1 = h
                BY <3>1, <3>3 DEF ToInt
            <4>2. y = x \div 2 + h
                BY <3>2, <4>1
            <4>3. y \in Word
                BY <3>1, <4>2 DEF Word
            <4> QED
                BY <3>1, <3>2, <4>3
        <3>4. CASE ~c
            <4>1. ToInt(c) = 0 /\ h * 0 = 0
                BY <3>1, <3>4 DEF ToInt
            <4>2. y = x \div 2
                BY <3>2, <4>1 DEF Word
            <4>3. y \in Word
                BY <3>1, <4>2 DEF Word
            <4> QED
                BY <3>1, <3>2, <4>3
        <3> QED
            BY <3>3, <3>4
    <2>2. ShiftImmediate(kind, x, n, c) = Shifted(v, BitOf(x, 0))
        BY <1>5, <2>1 DEF ShiftImmediate
    <2> QED
        BY <2>2, BitIs, ShiftedIs
<1> QED
    BY <1>1, <1>2, <1>3, <1>4, <1>5 DEF Kinds

(* So does a shift by an amount in a register, however large. *)
LEMMA ShiftRegisterIs ==
    ASSUME NEW kind \in Kinds, NEW x \in Word, NEW amount \in Nat, NEW c \in BOOLEAN
    PROVE  IsShifted(ShiftRegister(kind, x, amount, c))
<1>0. PICK n \in Nat : n = amount % 256
    BY SMT
<1>1. CASE n = 0
    <2>1. ShiftRegister(kind, x, amount, c) = Shifted(x, c)
        BY <1>0, <1>1, WidthIs DEF ShiftRegister
    <2> QED
        BY <2>1, ShiftedIs
<1>2. CASE n # 0 /\ kind = "ROR"
    <2>1. PICK m \in Nat : m = n % Bits /\ m < Bits
        BY WidthIs, SMT
    <2>2. ShiftRegister(kind, x, amount, c) = IF m = 0 THEN Shifted(x, TopBit(x)) ELSE ShiftWithin(kind, x, m)
        BY <1>0, <1>2, <2>1 DEF ShiftRegister
    <2>3. CASE m = 0
        BY <2>2, <2>3, ShiftedIs, BitIs
    <2>4. CASE m # 0
        BY <2>1, <2>2, <2>4, ShiftWithinIs, WidthIs
    <2> QED
        BY <2>3, <2>4
<1>3. CASE n \in 1 .. Bits - 1 /\ kind # "ROR"
    <2>1. ShiftRegister(kind, x, amount, c) = ShiftWithin(kind, x, n)
        BY <1>0, <1>3, WidthIs DEF ShiftRegister
    <2> QED
        BY <1>3, <2>1, ShiftWithinIs
<1>4. CASE n >= Bits /\ kind = "ASR"
    BY <1>0, <1>4, FilledIs, WidthIs DEF ShiftRegister
<1>5. CASE n >= Bits /\ kind = "LSL"
    <2>1. PICK b \in BOOLEAN : b = (n = Bits /\ BitOf(x, 0))
        BY Zenon
    <2>2. ShiftRegister(kind, x, amount, c) = Shifted(0, b)
        BY <1>0, <1>5, <2>1, WidthIs DEF ShiftRegister
    <2> QED
        BY <2>2, ZeroIs, ShiftedIs
<1>6. CASE n >= Bits /\ kind = "LSR"
    <2>1. PICK b \in BOOLEAN : b = (n = Bits /\ TopBit(x))
        BY Zenon
    <2>2. ShiftRegister(kind, x, amount, c) = Shifted(0, b)
        BY <1>0, <1>6, <2>1, WidthIs DEF ShiftRegister
    <2> QED
        BY <2>2, ZeroIs, ShiftedIs
<1> QED
    BY <1>1, <1>2, <1>3, <1>4, <1>5, <1>6, WidthIs DEF Kinds

IsSum(w) == w.value \in Word /\ w.carry \in BOOLEAN /\ w.overflow \in BOOLEAN

(* What the adder makes of two words. *)
LEMMA AddIs ==
    ASSUME NEW a \in Word, NEW b \in Word, NEW c
    PROVE  /\ IsSum(AddWithCarry(a, b, c))
           /\ AddWithCarry(a, b, c).value = Wrap(a + b + ToInt(c))
<1>1. PICK x \in Int : x = a + b + ToInt(c)
    BY SignedIs DEF ToInt
<1>2. PICK v \in Word : v = Wrap(x)
    BY <1>1, WrapIs
<1>3. PICK k \in BOOLEAN : k = (x >= Modulus)
    <2>1. (x >= Modulus) \in BOOLEAN
        OBVIOUS
    <2> QED
        BY <2>1, Zenon
<1>4. PICK o \in BOOLEAN : o = (TopBit(a) # TopBit(v) /\ TopBit(b) # TopBit(v))
    BY Zenon
<1>5. AddWithCarry(a, b, c) = [value |-> v, carry |-> k, overflow |-> o]
    BY <1>1, <1>2, <1>3, <1>4, Zenon DEF AddWithCarry
<1> QED
    BY <1>1, <1>2, <1>5 DEF IsSum

(* The complement of a word is a word. *)
LEMMA ComplementIs == ASSUME NEW x \in Word PROVE Complement(x) \in Word
BY ModulusIs DEF Complement, Word

(* A difference is a sum with the complement. *)
LEMMA SubIs ==
    ASSUME NEW a \in Word, NEW b \in Word, NEW c
    PROVE  /\ IsSum(SubWithBorrow(a, b, c))
           /\ SubWithBorrow(a, b, TRUE).value = Wrap(a - b)
<1>1. PICK d \in Word : d = Complement(b)
    BY ComplementIs
<1>2. IsSum(SubWithBorrow(a, b, c)) /\ SubWithBorrow(a, b, TRUE).value = Wrap(a + d + 1)
    BY <1>1, AddIs DEF SubWithBorrow, ToInt
<1>3. a + d + 1 = (a - b) + 1 * Modulus
    BY <1>1, ModulusIs DEF Complement, Word
<1>4. a - b \in Int /\ 1 \in Int
    BY SignedIs
<1>5. Wrap((a - b) + 1 * Modulus) = Wrap(a - b)
    BY <1>4, WrapSame, Zenon
<1> QED
    BY <1>2, <1>3, <1>5, Zenon

(* Every instruction that adds or subtracts makes a word and two flags. *)
LEMMA SumIs ==
    ASSUME NEW code \in Sums, NEW a \in Word, NEW b \in Word, NEW c
    PROVE  IsSum(SumOf(code, a, b, c))
BY AddIs, SubIs DEF SumOf, Sums

(* Sums of the powers of a set. *)
Adds(f, S, n) ==
    f = [i \in 0 .. n |-> IF i = 0 THEN 0 ELSE f[i - 1] + (IF i - 1 \in S THEN Power[i - 1] ELSE 0)]

(* The sums of the powers of a set, as many as are asked for. *)
LEMMA AddsExist ==
    ASSUME NEW S, NEW n \in Nat
    PROVE  \E f : Adds(f, S, n)
<1> DEFINE bad == {k \in Nat : ~\E f : Adds(f, S, k)}
           with(k) == IF k - 1 \in S THEN Power[k - 1] ELSE 0
<1>1. ASSUME NEW k \in bad PROVE \E m \in bad : m < k
    <2>1. k \in Nat /\ ~\E f : Adds(f, S, k)
        OBVIOUS
    <2>2. CASE k = 0
        <3>1. Adds([i \in 0 .. 0 |-> 0], S, 0)
            BY DEF Adds
        <3> QED
            BY <2>1, <2>2, <3>1
    <2>3. CASE k # 0
        <3> SUFFICES ASSUME NEW f, Adds(f, S, k - 1) PROVE FALSE
            BY <2>1, <2>3
        <3>1. \A i \in 0 .. k - 1 : f[i] = IF i = 0 THEN 0 ELSE f[i - 1] + with(i)
            BY DEF Adds
        <3>2. PICK g : g = [i \in 0 .. k |-> IF i = k THEN f[k - 1] + with(k) ELSE f[i]]
            OBVIOUS
        <3>3. ASSUME NEW i \in 0 .. k
              PROVE  g[i] = IF i = 0 THEN 0 ELSE g[i - 1] + with(i)
            <4> HIDE DEF with
            <4>1. CASE i = k
                <5>1. k - 1 \in 0 .. k /\ k - 1 # k
                    BY <2>1, <2>3
                <5>2. g[k - 1] = f[k - 1]
                    BY <3>2, <5>1
                <5> QED
                    BY <2>3, <3>2, <4>1, <5>2
            <4>2. CASE i # k
                <5>1. i \in 0 .. k - 1 /\ (i # 0 => i - 1 \in 0 .. k /\ i - 1 # k)
                    BY <2>1, <4>2
                <5>2. g[i] = f[i] /\ (i # 0 => g[i - 1] = f[i - 1])
                    BY <3>2, <4>2, <5>1
                <5> QED
                    BY <3>1, <5>1, <5>2
            <4> QED
                BY <4>1, <4>2
        <3>4. Adds(g, S, k)
            BY <3>2, <3>3 DEF Adds
        <3> QED
            BY <2>1, <3>4
    <2> QED
        BY <2>2, <2>3
<1>2. bad = {}
    BY <1>1, NoFirst
<1> QED
    BY <1>2

(* The word some bits make is one. *)
LEMMA WordOfIs == ASSUME NEW S PROVE WordOf(S) \in Word
<1>0. Bits \in Nat /\ \A i \in 0 .. Bits : i \in 0 .. 2 * Bits
    BY WidthIs
<1>1. PICK f : f = CHOOSE g : g = [n \in 0 .. Bits |->
                      IF n = 0 THEN 0 ELSE g[n - 1] + (IF n - 1 \in S THEN Power[n - 1] ELSE 0)]
    OBVIOUS
<1>2. WordOf(S) = f[Bits]
    BY <1>1 DEF WordOf
<1>3. PICK g : Adds(g, S, Bits)
    BY <1>0, AddsExist
<1>4. Adds(f, S, Bits)
    BY <1>1, <1>3, Zenon DEF Adds
<1>5. \A i \in 0 .. Bits : f[i] = IF i = 0 THEN 0 ELSE f[i - 1] + (IF i - 1 \in S THEN Power[i - 1] ELSE 0)
    BY <1>4 DEF Adds
<1> DEFINE bad == {i \in 0 .. Bits : ~(f[i] \in Nat /\ f[i] < Power[i])}
<1>6. ASSUME NEW i \in bad PROVE \E j \in bad : j < i
    <2>1. i # 0
        BY <1>0, <1>5, PowerStep
    <2>2. i - 1 \in 0 .. Bits /\ i - 1 \in 0 .. 2 * Bits /\ i \in 1 .. 2 * Bits /\ i - 1 < i
        BY <1>0, <2>1
    <2>3. SUFFICES ASSUME f[i - 1] \in Nat /\ f[i - 1] < Power[i - 1] PROVE FALSE
        BY <2>2
    <2>4. PICK p \in Nat : p = Power[i - 1] /\ p > 0
        BY <2>2, PowerIs
    <2>5. Power[i] = 2 * p
        BY <2>2, <2>4, PowerStep
    <2>6. PICK x \in Nat : x = f[i - 1] /\ x < p
        BY <2>3, <2>4
    <2>7. f[i] = x \/ f[i] = x + p
        BY <1>5, <2>1, <2>4, <2>6
    <2> QED
        BY <2>4, <2>5, <2>6, <2>7
<1>7. bad \subseteq Nat
    BY <1>0
<1>8. bad = {}
    BY <1>6, <1>7, NoFirst
<1>9. f[Bits] \in Nat /\ f[Bits] < Modulus
    BY <1>0, <1>8 DEF Modulus
<1> QED
    BY <1>2, <1>9, ModulusIs DEF Word

(* Every instruction that works bit by bit makes a word. *)
LEMMA LogicIs ==
    ASSUME NEW code \in Logics, NEW a \in Word, NEW b \in Word
    PROVE  Logic(code, a, b) \in Word
BY WordOfIs, ComplementIs DEF Logic, Logics

(* What stops at the largest and the smallest number is a word. *)
LEMMA SaturatedIs == ASSUME NEW x \in Int PROVE Saturated(x) \in Word
<1>1. PICK h \in Nat : h = Power[Bits - 1] /\ Modulus = 2 * h
    BY ModulusIs
<1>2. CASE x > h - 1
    BY <1>1, <1>2, ModulusIs DEF Saturated, Word
<1>3. CASE x < -(h - 1) - 1
    BY <1>1, <1>3, ModulusIs DEF Saturated, Word
<1>4. CASE ~(x > h - 1) /\ ~(x < -(h - 1) - 1)
    BY <1>1, <1>4, WrapIs DEF Saturated
<1> QED
    BY <1>2, <1>3, <1>4

(* A product grows with its factor. *)
LEMMA Monotone ==
    ASSUME NEW q \in Nat, NEW a \in Nat, NEW b \in Nat, a <= b
    PROVE  q * a \in Nat /\ q * b \in Nat /\ q * a <= q * b
BY SMT

(* What is below a multiple stays below it whatever its remainder is. *)
LEMMA Inner ==
    ASSUME NEW q \in Nat, NEW e \in Nat, NEW g \in Nat, NEW u \in Nat, NEW w \in Nat,
           w < q, q * g + u < q * e
    PROVE  q * g + w >= 0 /\ q * g + w < q * e
<1>1. PICK a \in Nat, b \in Nat : a = q * g /\ b = q * e
    BY SMT
<1>2. g < e
    <2> SUFFICES ASSUME e <= g PROVE FALSE
        OBVIOUS
    <2>1. q * e <= q * g
        BY Monotone
    <2> QED
        BY <1>1, <2>1
<1>3. q * (g + 1) <= q * e
    BY <1>2, Monotone
<1>4. q * (g + 1) = q * g + q
    BY SMT
<1> QED
    BY <1>1, <1>3, <1>4

(* Part of a word in the place of another. *)
LEMMA PatchIs ==
    ASSUME NEW word \in Word, NEW part \in Word, NEW at \in Nat, NEW bits \in Nat, at + bits <= Bits
    PROVE  Patch(word, part, at, bits) \in Word
<1>0. /\ at \in 0 .. 2 * Bits /\ bits \in 0 .. 2 * Bits /\ at \in 0 .. Bits /\ bits + at <= 2 * Bits
      /\ Bits - (at + bits) \in Nat /\ bits + (Bits - (at + bits)) = Bits - at
      /\ Bits - at <= 2 * Bits /\ Bits - (at + bits) \in 0 .. 2 * Bits
    BY WidthIs
<1>1. PICK p \in Nat, r \in Nat : p = Power[at] /\ r = Power[Bits - at] /\ p > 0 /\ Modulus = p * r
    BY <1>0, Halves
<1>2. PICK q \in Nat, e \in Nat : q = Power[bits] /\ q > 0 /\ e = Power[Bits - (at + bits)]
    BY <1>0, PowerIs
<1>3. r = q * e
    BY <1>0, <1>1, <1>2, PowerSum
<1>4. word \in Nat /\ part \in Nat /\ word \in Int /\ part \in Int /\ word < Modulus
    BY ModulusIs DEF Word
<1>5. PICK h \in Int, t \in Nat : word \div p = h /\ word = p * h + t /\ t < p
    BY <1>1, <1>4, Divided, Zenon
<1>6. h \in Nat
    BY <1>1, <1>4, <1>5, NotNegative, Zenon
<1>7. h < r
    <2> SUFFICES ASSUME h >= r PROVE FALSE
        BY <1>6
    <2>1. p * h >= p * r
        BY <1>1, <1>6, SMT
    <2> QED
        BY <1>1, <1>4, <1>5, <2>1
<1>8. PICK g \in Int, u \in Nat : h \div q = g /\ h % q = u /\ h = q * g + u /\ u < q
    <2>1. h \div q \in Int /\ h % q \in Nat /\ h % q < q /\ h = q * (h \div q) + (h % q)
        BY <1>2, <1>5, Divided, Zenon
    <2>2. PICK g : g = h \div q
        OBVIOUS
    <2>3. PICK u : u = h % q
        OBVIOUS
    <2> QED
        BY <2>1, <2>2, <2>3, Zenon
<1>9. PICK w \in Nat : part % q = w /\ w < q
    BY <1>2, <1>4, Divided, Zenon
<1>10. PICK k \in Int : k = h - u + w
    OBVIOUS
<1>11. k >= 0 /\ k < r
    <2>1. g \in Nat
        BY <1>2, <1>6, <1>8, NotNegative, Zenon
    <2>2. q * g + u < q * e
        BY <1>3, <1>7, <1>8
    <2>3. q * g + w >= 0 /\ q * g + w < q * e
        BY <1>2, <1>8, <1>9, <2>1, <2>2, Inner
    <2>4. PICK c \in Int : c = q * g
        BY <1>2, <2>1, SMT
    <2> QED
        BY <1>3, <1>8, <1>9, <1>10, <2>3, <2>4
<1>12. Patch(word, part, at, bits) = word - p * u + p * w
    BY <1>1, <1>2, <1>5, <1>8, <1>9 DEF Patch
<1>13. word - p * u + p * w = p * k + t
    <2>1. p * k = p * h - p * u + p * w
        BY <1>1, <1>10, SMT
    <2>2. PICK a \in Int, b \in Int, c \in Int : a = p * h /\ b = p * u /\ c = p * w
        BY <1>1, SMT
    <2> QED
        BY <1>5, <2>1, <2>2
<1>14. p * k \in Int /\ p * k >= 0 /\ p * k <= Modulus - p
    <2>1. p * k >= 0
        BY <1>1, <1>11, SMT
    <2>2. p * k <= p * (r - 1)
        BY <1>1, <1>11, SMT
    <2>3. p * (r - 1) = p * r - p
        BY <1>1, SMT
    <2> QED
        BY <1>1, <2>1, <2>2, <2>3, SMT
<1>15. PICK z \in Int : z = p * k
    BY <1>14
<1> QED
    BY <1>5, <1>12, <1>13, <1>14, <1>15, ModulusIs DEF Word

Modes == {"usr", "irq", "abt", "svc", "und"}
Vectors == {"none", "swi", "undefined", "irq", "prefetchAbort", "dataAbort"}
Statuses == [mode : Modes, n : BOOLEAN, z : BOOLEAN, c : BOOLEAN, v : BOOLEAN, q : BOOLEAN,
             t : BOOLEAN, i : BOOLEAN]
Cells == 0 .. Modulus \div 4 - 1
Cpus ==
    [r : [Regs -> Word], cpsr : Statuses, spsr : Statuses,
     bank : [Modes -> [sp : Word, lr : Word, spsr : Statuses]],
     vector : Vectors, far : 0 .. Modulus, at : Word, branched : BOOLEAN,
     mem : [Cells -> Word], mapped : SUBSET Int]

(* The mode, the instruction set and the instruction are those of s. *)
Keeps(s, d) ==
    /\ d \in Cpus
    /\ d.cpsr.mode = s.cpsr.mode /\ d.cpsr.t = s.cpsr.t /\ d.at = s.at

(* So is whether it goes on to the next one. *)
Stays(s, d) == Keeps(s, d) /\ (d.branched <=> s.branched)

(* It goes elsewhere, in the same mode. *)
Goes(s, d) == d \in Cpus /\ d.branched /\ d.cpsr.mode = s.cpsr.mode

(* A register holds a word. *)
LEMMA RegIs ==
    ASSUME NEW s \in Cpus, NEW x \in Regs
    PROVE  s.r[x] \in Word /\ s.r[x] \in Int
BY SignedIs DEF Cpus

(* The status is one, its carry true or false, and the instruction has an  *)
(* address.                                                                *)
LEMMA FlagIs ==
    ASSUME NEW s \in Cpus
    PROVE  s.cpsr.c \in BOOLEAN /\ s.cpsr \in Statuses /\ s.at \in Word /\ s.at \in Int
BY SignedIs DEF Cpus, Statuses

HasSet(s, x, v, d) ==
    /\ Keeps(s, d)
    /\ d.r = [s.r EXCEPT ![x] = v] /\ d.cpsr = s.cpsr /\ d.mem = s.mem /\ d.mapped = s.mapped
    /\ d.branched <=> (s.branched \/ x = 15)

(* What setting a register leaves. *)
LEMMA SetRegIs ==
    ASSUME NEW s \in Cpus, NEW x \in Regs, NEW v \in Word, NEW d, d = SetReg(s, x, v)
    PROVE  HasSet(s, x, v, d)
BY DEF Cpus, SetReg, Keeps, HasSet

(* To set any register but the program counter is no branch. *)
LEMMA SetRegStays ==
    ASSUME NEW s \in Cpus, NEW x \in General, NEW v \in Word
    PROVE  Stays(s, SetReg(s, x, v))
<1>1. PICK d : d = SetReg(s, x, v)
    OBVIOUS
<1>2. x \in Regs /\ x # 15
    BY DEF General
<1> QED
    BY <1>1, <1>2, SetRegIs DEF Stays, HasSet

(* Two steps that stay in the same place are one. *)
LEMMA StaysStays ==
    ASSUME NEW s, NEW c, NEW d, Stays(s, c), Stays(c, d)
    PROVE  Stays(s, d)
BY DEF Stays, Keeps

(* Nothing done is a step that stays. *)
LEMMA SelfStays == ASSUME NEW s \in Cpus PROVE Stays(s, s)
BY DEF Stays, Keeps

(* A register moved outside the account of where the program goes. *)
WithReg(s, x, v) == [s EXCEPT !.r[x] = v]

(* A register replaced and nothing said of it stays in the same place. *)
LEMMA WithRegIs ==
    ASSUME NEW s \in Cpus, NEW x \in Regs, NEW v \in Word
    PROVE  Stays(s, WithReg(s, x, v)) /\ WithReg(s, x, v).r = [s.r EXCEPT ![x] = v]
BY DEF Cpus, WithReg, Stays, Keeps

(* Only flags differ. *)
Flags(s, d) == Stays(s, d) /\ d.r = s.r /\ d.mem = s.mem /\ d.mapped = s.mapped

(* Of the status, the sign and the zero flag may be replaced. *)
LEMMA FlagsNZ ==
    ASSUME NEW s \in Cpus, NEW n \in BOOLEAN, NEW z \in BOOLEAN
    PROVE  Flags(s, [s EXCEPT !.cpsr.n = n, !.cpsr.z = z])
BY DEF Cpus, Flags, Stays, Keeps, Statuses

(* So may the carry. *)
LEMMA FlagC ==
    ASSUME NEW s \in Cpus, NEW c \in BOOLEAN
    PROVE  Flags(s, [s EXCEPT !.cpsr.c = c])
BY DEF Cpus, Flags, Stays, Keeps, Statuses

(* So may the overflow. *)
LEMMA FlagV ==
    ASSUME NEW s \in Cpus, NEW c \in BOOLEAN
    PROVE  Flags(s, [s EXCEPT !.cpsr.v = c])
BY DEF Cpus, Flags, Stays, Keeps, Statuses

(* So may the flag of what saturated. *)
LEMMA FlagQ ==
    ASSUME NEW s \in Cpus, NEW c \in BOOLEAN
    PROVE  Flags(s, [s EXCEPT !.cpsr.q = c])
BY DEF Cpus, Flags, Stays, Keeps, Statuses

(* The core remembers whether something saturated. *)
LEMMA FlagQIs == ASSUME NEW s \in Cpus PROVE s.cpsr.q \in BOOLEAN
BY DEF Cpus, Statuses

(* So may all of them at once, as MSR does. *)
LEMMA FlagsNZCVQ ==
    ASSUME NEW s \in Cpus, NEW n \in BOOLEAN, NEW z \in BOOLEAN, NEW c \in BOOLEAN, NEW v \in BOOLEAN,
           NEW q \in BOOLEAN
    PROVE  Stays(s, [s EXCEPT !.cpsr.n = n, !.cpsr.z = z, !.cpsr.c = c, !.cpsr.v = v, !.cpsr.q = q])
<1>1. PICK d : d = [s EXCEPT !.cpsr.n = n, !.cpsr.z = z]
    OBVIOUS
<1>2. PICK e : e = [d EXCEPT !.cpsr.c = c]
    OBVIOUS
<1>3. PICK f : f = [e EXCEPT !.cpsr.v = v]
    OBVIOUS
<1>4. PICK g : g = [f EXCEPT !.cpsr.q = q]
    OBVIOUS
<1>5. Flags(s, d)
    BY <1>1, FlagsNZ, Zenon
<1>6. d \in Cpus
    BY <1>5 DEF Flags, Stays, Keeps
<1>7. Flags(d, e)
    BY <1>2, <1>6, FlagC, Zenon
<1>8. e \in Cpus
    BY <1>7 DEF Flags, Stays, Keeps
<1>9. Flags(e, f)
    BY <1>3, <1>8, FlagV, Zenon
<1>10. f \in Cpus
    BY <1>9 DEF Flags, Stays, Keeps
<1>11. Flags(f, g)
    BY <1>4, <1>10, FlagQ, Zenon
<1>12. Stays(s, g)
    BY <1>5, <1>7, <1>9, <1>11, StaysStays DEF Flags
<1>13. g = [s EXCEPT !.cpsr.n = n, !.cpsr.z = z, !.cpsr.c = c, !.cpsr.v = v, !.cpsr.q = q]
    BY <1>1, <1>2, <1>3, <1>4, Zenon
<1> QED
    BY <1>12, <1>13, Zenon

(* The flags of a result. *)
LEMMA SetNZIs ==
    ASSUME NEW s \in Cpus, NEW v
    PROVE  Flags(s, SetNZ(s, v))
<1>1. TopBit(v) \in BOOLEAN /\ (v = 0) \in BOOLEAN
    BY BitIs
<1>2. PICK n \in BOOLEAN, z \in BOOLEAN : n = TopBit(v) /\ z = (v = 0)
    BY <1>1, Zenon
<1>3. SetNZ(s, v) = [s EXCEPT !.cpsr.n = n, !.cpsr.z = z]
    BY <1>2, Zenon DEF SetNZ
<1> QED
    BY <1>3, FlagsNZ, Zenon

(* The carry set. *)
LEMMA SetCIs == ASSUME NEW s \in Cpus, NEW c \in BOOLEAN PROVE Flags(s, SetC(s, c))
BY FlagC, Zenon DEF SetC

(* The overflow set. *)
LEMMA SetVIs == ASSUME NEW s \in Cpus, NEW v \in BOOLEAN PROVE Flags(s, SetV(s, v))
BY FlagV, Zenon DEF SetV

(* The flag of what saturated, which only ever goes up. *)
LEMMA SetQIs == ASSUME NEW s \in Cpus, NEW on PROVE Flags(s, SetQ(s, on))
<1>1. PICK q \in BOOLEAN : q = (s.cpsr.q \/ on)
    BY Zenon
<1>2. SetQ(s, on) = [s EXCEPT !.cpsr.q = q]
    BY <1>1, Zenon DEF SetQ
<1> QED
    BY <1>2, FlagQ, Zenon

(* The four flags of a sum. *)
LEMMA SetSumIs ==
    ASSUME NEW s \in Cpus, NEW w, IsSum(w)
    PROVE  Stays(s, SetSum(s, w))
<1>1. PICK a : a = SetNZ(s, w.value)
    OBVIOUS
<1>2. PICK b : b = SetC(a, w.carry)
    OBVIOUS
<1>3. Stays(s, a) /\ a \in Cpus
    BY <1>1, SetNZIs DEF Flags, Stays, Keeps
<1>4. Stays(a, b) /\ b \in Cpus
    BY <1>2, <1>3, SetCIs DEF Flags, Stays, Keeps, IsSum
<1>5. Stays(b, SetV(b, w.overflow))
    BY <1>4, SetVIs DEF Flags, IsSum
<1> QED
    BY <1>1, <1>2, <1>3, <1>4, <1>5, StaysStays DEF SetSum

(* The registers of a mode put away are registers of a mode. *)
LEMMA Banked ==
    ASSUME NEW s \in Cpus, NEW x \in Word, NEW y \in Word, NEW f \in Statuses
    PROVE  [s.bank EXCEPT ![s.cpsr.mode] = [sp |-> x, lr |-> y, spsr |-> f]]
               \in [Modes -> [sp : Word, lr : Word, spsr : Statuses]]
<1>1. s.bank \in [Modes -> [sp : Word, lr : Word, spsr : Statuses]] /\ s.cpsr.mode \in Modes
    BY DEF Cpus, Statuses
<1>2. [sp |-> x, lr |-> y, spsr |-> f] \in [sp : Word, lr : Word, spsr : Statuses]
    OBVIOUS
<1> QED
    BY <1>1, <1>2

HasExchanged(s, m, d) ==
    /\ d \in Cpus /\ d.cpsr = [s.cpsr EXCEPT !.mode = m]
    /\ d.at = s.at /\ d.branched = s.branched

(* The core with other registers of a mode. *)
Rebank(s, b, x, y, f, m) ==
    [s EXCEPT !.bank = b, !.r[13] = x, !.r[14] = y, !.spsr = f, !.cpsr.mode = m]

(* The core with the registers of another mode is a core in that mode. *)
LEMMA Rebanked ==
    ASSUME NEW s \in Cpus, NEW b \in [Modes -> [sp : Word, lr : Word, spsr : Statuses]],
           NEW x \in Word, NEW y \in Word, NEW f \in Statuses, NEW m \in Modes, NEW d,
           d = Rebank(s, b, x, y, f, m)
    PROVE  HasExchanged(s, m, d)
BY WordAssumption DEF Cpus, Statuses, HasExchanged, Rebank

(* A change of mode leaves a core in the other mode. *)
LEMMA ExchangeIs ==
    ASSUME NEW s \in Cpus, NEW m \in Modes, NEW d, d = Exchange(s, m)
    PROVE  HasExchanged(s, m, d)
<1>1. s.r[13] \in Word /\ s.r[14] \in Word /\ s.spsr \in Statuses
    BY WordAssumption DEF Cpus
<1>2. PICK put : put = [s.bank EXCEPT ![s.cpsr.mode] = [sp |-> s.r[13], lr |-> s.r[14], spsr |-> s.spsr]]
    OBVIOUS
<1>3. put \in [Modes -> [sp : Word, lr : Word, spsr : Statuses]]
    BY <1>1, <1>2, Banked
<1>4. put[m].sp \in Word /\ put[m].lr \in Word /\ put[m].spsr \in Statuses
    BY <1>3
<1>5. d = [s EXCEPT !.bank = put, !.r[13] = put[m].sp, !.r[14] = put[m].lr,
                  !.spsr = put[m].spsr, !.cpsr.mode = m]
    BY <1>2 DEF Exchange
<1>6. PICK x \in Word, y \in Word, f \in Statuses :
          x = put[m].sp /\ y = put[m].lr /\ f = put[m].spsr
    BY <1>4, Zenon
<1>7. d = Rebank(s, put, x, y, f, m)
    BY <1>5, <1>6, Zenon DEF Rebank
<1> QED
    BY <1>3, <1>6, <1>7, Rebanked

Raises(s, d, e, lr) ==
    /\ d \in Cpus /\ d.branched
    /\ d.cpsr.mode = TargetOf(e) /\ ~d.cpsr.t /\ d.cpsr.i /\ d.vector = e
    /\ d.spsr.mode = s.cpsr.mode /\ d.spsr.t = s.cpsr.t
    /\ d.r[14] = Wrap(lr)

(* The core at the first instruction of a handler. *)
Entry(c, f, w, e) ==
    [c EXCEPT !.spsr = f, !.r[14] = w, !.cpsr.t = FALSE, !.cpsr.i = TRUE,
              !.vector = e, !.branched = TRUE]

HasEntered(c, f, w, e, d) ==
    /\ d \in Cpus /\ d.cpsr.mode = c.cpsr.mode /\ d.vector = e /\ d.spsr = f /\ d.r[14] = w
    /\ d.branched /\ ~d.cpsr.t /\ d.cpsr.i

(* The fields of a core at the first instruction of a handler. *)
LEMMA Entered ==
    ASSUME NEW c \in Cpus, NEW f \in Statuses, NEW w \in Word, NEW e \in Vectors, NEW d,
           d = Entry(c, f, w, e)
    PROVE  HasEntered(c, f, w, e, d)
<1>1. PICK g : g = [c.cpsr EXCEPT !.t = FALSE, !.i = TRUE]
    OBVIOUS
<1>2. g \in Statuses /\ g.mode = c.cpsr.mode /\ ~g.t /\ g.i
    BY <1>1 DEF Cpus, Statuses
<1>3. PICK r : r = [c.r EXCEPT ![14] = w]
    OBVIOUS
<1>4. r \in [Regs -> Word] /\ r[14] = w
    BY <1>3, WordAssumption DEF Cpus
<1>5. d = [r |-> r, cpsr |-> g, spsr |-> f, bank |-> c.bank, vector |-> e, far |-> c.far,
           at |-> c.at, branched |-> TRUE, mem |-> c.mem, mapped |-> c.mapped]
    BY <1>1, <1>3 DEF Cpus, Statuses, Entry
<1>6. d.branched = TRUE
    BY <1>5
<1>7. PICK b \in BOOLEAN : b = TRUE
    OBVIOUS
<1>8. d = [r |-> r, cpsr |-> g, spsr |-> f, bank |-> c.bank, vector |-> e, far |-> c.far,
           at |-> c.at, branched |-> b, mem |-> c.mem, mapped |-> c.mapped]
    BY <1>5, <1>7, Zenon
<1>9. d \in Cpus
    BY <1>2, <1>4, <1>7, <1>8 DEF Cpus
<1>10. d.cpsr = g /\ d.vector = e /\ d.spsr = f /\ d.r = r
    BY <1>8
<1> QED
    BY <1>2, <1>4, <1>6, <1>9, <1>10 DEF HasEntered

(* An exception is raised: the handler has the status and the way back. *)
LEMMA EnterIs ==
    ASSUME NEW s \in Cpus, NEW e \in Vectors \ {"none"}, NEW lr, Wrap(lr) \in Word, NEW d, d = Enter(s, e, lr)
    PROVE  Raises(s, d, e, lr)
<1>1. TargetOf(e) \in Modes
    BY DEF TargetOf, Vectors, Modes
<1>2. PICK c : c = Exchange(s, TargetOf(e))
    OBVIOUS
<1>3. c \in Cpus /\ c.cpsr = [s.cpsr EXCEPT !.mode = TargetOf(e)]
    BY <1>1, <1>2, ExchangeIs DEF HasExchanged
<1>4. PICK f : f = s.cpsr
    OBVIOUS
<1>5. f \in Statuses
    BY <1>4 DEF Cpus
<1>6. PICK w : w = Wrap(lr)
    OBVIOUS
<1>7. d = Entry(c, f, w, e)
    BY <1>2, <1>4, <1>6 DEF Enter, Entry
<1>8. w \in Word /\ e \in Vectors
    BY <1>6
<1>9. HasEntered(c, f, w, e, d)
    BY <1>3, <1>5, <1>7, <1>8, Entered
<1>10. c.cpsr.mode = TargetOf(e)
    BY <1>3 DEF Cpus, Statuses
<1> QED
    BY <1>3, <1>4, <1>6, <1>9, <1>10 DEF Raises, HasEntered

Aborts(s, d) == Raises(s, d, "dataAbort", s.at + 8)

(* A step that stays and then aborts, aborts. *)
LEMMA StaysAborts ==
    ASSUME NEW s, NEW c, NEW d, Stays(s, c), Aborts(c, d)
    PROVE  Aborts(s, d)
BY DEF Stays, Keeps, Aborts, Raises

(* A step that stays and then goes elsewhere, goes. *)
LEMMA StaysGoes ==
    ASSUME NEW s, NEW c, NEW d, Stays(s, c), Goes(c, d)
    PROVE  Goes(s, d)
BY DEF Stays, Keeps, Goes

(* The address that failed is noted, and no more. *)
LEMMA FarIs ==
    ASSUME NEW s \in Cpus, NEW a \in Word
    PROVE  Stays(s, [s EXCEPT !.far = a]) /\ [s EXCEPT !.far = a].spsr = s.spsr
BY ModulusIs DEF Cpus, Stays, Keeps, Word

(* An access that fails is an abort of its instruction. *)
LEMMA DataAbortIs ==
    ASSUME NEW s \in Cpus, NEW a \in Word
    PROVE  Aborts(s, DataAbort(s, a))
<1>1. PICK c : c = [s EXCEPT !.far = a]
    OBVIOUS
<1>2. Stays(s, c) /\ c \in Cpus
    BY <1>1, FarIs DEF Stays, Keeps
<1>3. PICK lr \in Int : lr = c.at + 8 /\ lr = s.at + 8
    BY <1>2, FlagIs DEF Stays, Keeps
<1>4. Wrap(lr) \in Word /\ "dataAbort" \in Vectors \ {"none"}
    BY WrapIs DEF Vectors
<1>5. Raises(c, Enter(c, "dataAbort", lr), "dataAbort", lr)
    BY <1>2, <1>4, EnterIs
<1>6. DataAbort(s, a) = Enter(c, "dataAbort", lr)
    BY <1>1, <1>3 DEF DataAbort
<1>7. Aborts(c, DataAbort(s, a))
    BY <1>3, <1>5, <1>6 DEF Aborts
<1> QED
    BY <1>2, <1>7, StaysAborts

(* What is no instruction goes to its handler. *)
LEMMA UndefinedIs ==
    ASSUME NEW s \in Cpus
    PROVE  Raises(s, Undefined(s), "undefined", s.at + Width(s))
<1>1. PICK lr : lr = s.at + (IF s.cpsr.t THEN 2 ELSE 4)
    OBVIOUS
<1>2. lr \in Int
    BY <1>1, FlagIs
<1>3. "undefined" \in Vectors \ {"none"} /\ Wrap(lr) \in Word
    BY <1>2, WrapIs DEF Vectors
<1>4. Raises(s, Enter(s, "undefined", lr), "undefined", lr)
    BY <1>3, EnterIs
<1>5. Undefined(s) = Enter(s, "undefined", lr) /\ lr = s.at + Width(s)
    BY <1>1 DEF Undefined, Width
<1> QED
    BY <1>4, <1>5

(* A call goes to its handler. *)
LEMMA CallIs ==
    ASSUME NEW s \in Cpus, NEW n \in Nat
    PROVE  Raises(s, Enter(s, "swi", s.at + n), "swi", s.at + n)
<1>1. PICK lr \in Int : lr = s.at + n
    BY FlagIs
<1>2. "swi" \in Vectors \ {"none"} /\ Wrap(lr) \in Word
    BY WrapIs DEF Vectors
<1>3. Raises(s, Enter(s, "swi", lr), "swi", lr)
    BY <1>2, EnterIs
<1> QED
    BY <1>1, <1>3

(* Where a branch comes out. *)
LEMMA BranchIs ==
    ASSUME NEW s \in Cpus, NEW a \in Int
    PROVE  Goes(s, Branch(s, a))
<1>1. PICK w \in Word : w = Wrap(a)
    BY WrapIs
<1>2. PICK v : v = w - (w % (IF s.cpsr.t THEN 2 ELSE 4))
    OBVIOUS
<1>3. v \in Word
    <2>1. w - (w % 2) \in Word /\ w - (w % 4) \in Word
        BY ModulusIs DEF Word
    <2> QED
        BY <1>2, <2>1
<1>4. Branch(s, a) = SetReg(s, 15, v)
    BY <1>1, <1>2 DEF Branch
<1>5. PICK d : d = SetReg(s, 15, v)
    OBVIOUS
<1>6. 15 \in Regs
    BY WordAssumption
<1>8. HasSet(s, 15, v, d)
    BY <1>3, <1>5, <1>6, SetRegIs
<1>7. Keeps(s, d) /\ d.branched
    BY <1>8 DEF HasSet
<1> QED
    BY <1>4, <1>5, <1>7 DEF Keeps, Goes

(* The instruction set replaced in a core. *)
LEMMA WithThumb ==
    ASSUME NEW s \in Cpus, NEW t \in BOOLEAN
    PROVE  [s EXCEPT !.cpsr.t = t] \in Cpus /\ [s EXCEPT !.cpsr.t = t].cpsr.mode = s.cpsr.mode
BY DEF Cpus, Statuses

(* A branch that may change the instruction set goes elsewhere. *)
LEMMA BranchExchangeIs ==
    ASSUME NEW s \in Cpus, NEW a \in Word
    PROVE  Goes(s, BranchExchange(s, a))
<1>1. PICK t \in BOOLEAN : t = BitOf(a, 0)
    BY BitIs
<1>2. PICK c : c = [s EXCEPT !.cpsr.t = t]
    OBVIOUS
<1>3. c \in Cpus /\ c.cpsr.mode = s.cpsr.mode
    BY <1>2, WithThumb
<1>4. BranchExchange(s, a) = Branch(c, a)
    BY <1>1, <1>2, Zenon DEF BranchExchange
<1>5. Goes(c, Branch(c, a))
    BY <1>3, BranchIs, SignedIs
<1> QED
    BY <1>3, <1>4, <1>5 DEF Goes

-----------------------------------------------------------------------------
(* Memory. *)
Sizes == {"word", "half", "byte"}

(* The word of memory an address is in, and where in it. *)
LEMMA CellIs ==
    ASSUME NEW a \in Word
    PROVE  /\ a \div 4 \in Cells /\ a % 4 \in 0 .. 3 /\ (a % 4) \div 2 \in {0, 1}
BY ModulusIs DEF Word, Cells

(* The bytes and the halves of a word are within it. *)
LEMMA LaneIs ==
    ASSUME NEW k \in 0 .. 3, NEW h \in {0, 1}
    PROVE  /\ ByteBits * k \in 0 .. Bits /\ ByteBits * k \in Nat /\ ByteBits * k + ByteBits <= Bits
           /\ HalfBits * h \in 0 .. Bits /\ HalfBits * h \in Nat /\ HalfBits * h + HalfBits <= Bits
<1>1. k \in {0, 1, 2, 3}
    OBVIOUS
<1>2. /\ ByteBits * 0 = 0 /\ ByteBits * 1 = ByteBits /\ ByteBits * 2 = 2 * ByteBits
      /\ ByteBits * 3 = 3 * ByteBits /\ HalfBits * 0 = 0 /\ HalfBits * 1 = HalfBits
    BY WidthIs
<1> QED
    BY <1>1, <1>2, WidthIs

(* A part of a word is a word. *)
LEMMA PartIs ==
    ASSUME NEW m \in Word, NEW n \in 0 .. Bits, NEW bits \in 0 .. Bits
    PROVE  (m \div Power[n]) % Power[bits] \in Word
<1>0. n \in 0 .. 2 * Bits
    BY WidthIs
<1>1. PICK x \in Int : x = m \div Power[n]
    BY <1>0, QuotientWord, SignedIs
<1>2. PICK q \in Nat, r \in Nat : q = Power[bits] /\ r = Power[Bits - bits] /\ q > 0 /\ r > 0 /\ Modulus = q * r
    BY Halves
<1>3. q <= Modulus
    <2>1. 1 <= r /\ 1 \in Nat
        BY <1>2
    <2>2. q * 1 <= q * r
        BY <2>1, Monotone
    <2> QED
        BY <1>2, <2>2
<1>4. PICK w \in Nat : w = x % q /\ w < q
    BY <1>1, <1>2, Divided, Zenon
<1>5. w \in Word
    BY <1>2, <1>3, <1>4, ModulusIs DEF Word
<1> QED
    BY <1>1, <1>2, <1>4, <1>5

(* What memory holds at an aligned address is a word. *)
LEMMA AlignedIs ==
    ASSUME NEW s \in Cpus, NEW a \in Word
    PROVE  ReadAligned(s, a) \in Word
BY CellIs DEF ReadAligned, Cpus

(* What is read of any size from any address is a word. *)
LEMMA ReadIs ==
    ASSUME NEW s \in Cpus, NEW a \in Word, NEW size \in Sizes
    PROVE  Read(s, a, size) \in Word
<1>1. PICK m \in Word : m = ReadAligned(s, a)
    BY AlignedIs
<1>2. PICK k \in 0 .. 3, h \in {0, 1} : k = a % 4 /\ h = (a % 4) \div 2
    BY CellIs
<1>3. ByteBits \in 0 .. Bits /\ HalfBits \in 0 .. Bits
    BY WidthIs
<1>4. CASE size = "word"
    BY <1>1, <1>2, <1>4, LaneIs, RotateIs DEF Read
<1>5. CASE size = "half"
    <2>1. Read(s, a, size) = (m \div Power[HalfBits * h]) % Power[HalfBits]
        BY <1>1, <1>2, <1>5 DEF Read
    <2> QED
        BY <1>3, <2>1, LaneIs, PartIs, Zenon
<1>6. CASE size = "byte"
    <2>1. Read(s, a, size) = (m \div Power[ByteBits * k]) % Power[ByteBits]
        BY <1>1, <1>2, <1>6 DEF Read
    <2> QED
        BY <1>3, <2>1, LaneIs, PartIs, Zenon
<1> QED
    BY <1>4, <1>5, <1>6 DEF Sizes

(* Only memory differs. *)
Stores(s, d) == Stays(s, d) /\ d.r = s.r /\ d.mapped = s.mapped /\ d.cpsr = s.cpsr

(* One word of memory replaced is all that changes. *)
LEMMA StoresIs ==
    ASSUME NEW s \in Cpus, NEW k \in Cells, NEW w \in Word
    PROVE  Stores(s, [s EXCEPT !.mem[k] = w])
BY DEF Cpus, Stores, Stays, Keeps

(* A store of any size to any address changes memory alone. *)
LEMMA WrittenIs ==
    ASSUME NEW s \in Cpus, NEW a \in Word, NEW size \in Sizes, NEW v \in Word
    PROVE  Stores(s, Written(s, a, size, v))
<1>1. PICK c \in Cells, k \in 0 .. 3, h \in {0, 1} : c = a \div 4 /\ k = a % 4 /\ h = (a % 4) \div 2
    BY CellIs
<1>2. PICK m \in Word : m = s.mem[c]
    BY <1>1 DEF Cpus
<1>3. PICK w : w = CASE size = "word" -> v
                     [] size = "half" -> Patch(m, v, HalfBits * h, HalfBits)
                     [] size = "byte" -> Patch(m, v, ByteBits * k, ByteBits)
    OBVIOUS
<1>4. w \in Word
    <2>0. ByteBits \in Nat /\ HalfBits \in Nat
        BY WidthIs
    <2>1. Patch(m, v, HalfBits * h, HalfBits) \in Word /\ Patch(m, v, ByteBits * k, ByteBits) \in Word
        BY <2>0, LaneIs, PatchIs
    <2>2. CASE size = "word"
        BY <1>3, <2>2
    <2>3. CASE size = "half"
        BY <1>3, <2>1, <2>3
    <2>4. CASE size = "byte"
        BY <1>3, <2>1, <2>4
    <2> QED
        BY <2>2, <2>3, <2>4 DEF Sizes
<1>5. Written(s, a, size, v) = [s EXCEPT !.mem[c] = w]
    BY <1>1, <1>2, <1>3 DEF Written
<1> QED
    BY <1>4, <1>5, StoresIs

(* What becomes of an instruction that is no call: nothing that matters to *)
(* where the program is, a branch, or an abort.                            *)
Outcome(s, d, goesOn) ==
    \/ Stays(s, d)
    \/ Goes(s, d) /\ ~goesOn
    \/ Aborts(s, d)

(* An operand is a word, the program counter ahead of itself or not. *)
LEMMA Read15Is ==
    ASSUME NEW s \in Cpus, NEW x \in Regs, NEW extra \in Nat
    PROVE  Read15(s, x, extra) \in Word
<1>1. 15 \in Regs
    BY WordAssumption
<1>2. s.r[15] + extra \in Int
    BY <1>1, RegIs
<1> QED
    BY <1>2, RegIs, WrapIs DEF Read15

(* The second operand of any form is a word and a carry. *)
LEMMA OperandIs ==
    ASSUME NEW s \in Cpus, NEW by \in Operands
    PROVE  IsShifted(Operand(s, by))
<1>1. CASE by.form = "imm"
    <2>1. by.value \in Word /\ by.turn \in Amounts
        BY <1>1 DEF Operands
    <2>2. by.turn \in 0 .. Bits
        BY <2>1, WidthIs DEF Amounts
    <2>3. PICK v \in Word : v = Rotate(by.value, by.turn)
        BY <2>1, <2>2, RotateIs
    <2>4. Operand(s, by) = IF by.turn = 0 THEN Shifted(by.value, s.cpsr.c) ELSE Shifted(v, TopBit(v))
        BY <1>1, <2>3 DEF Operand
    <2>5. IsShifted(Shifted(by.value, s.cpsr.c)) /\ IsShifted(Shifted(v, TopBit(v)))
        BY <2>1, FlagIs, BitIs, ShiftedIs
    <2> QED
        BY <2>4, <2>5
<1>2. CASE by.form = "shift"
    <2>1. by.rm \in Regs /\ by.kind \in Kinds /\ by.amount \in Amounts
        BY <1>2 DEF Operands
    <2>2. Operand(s, by) = ShiftImmediate(by.kind, s.r[by.rm], by.amount, s.cpsr.c)
        BY <1>2 DEF Operand
    <2> QED
        BY <2>1, <2>2, FlagIs, RegIs, ShiftImmediateIs
<1>3. CASE by.form = "reg"
    <2>1. by.rm \in Regs /\ by.kind \in Kinds /\ by.rs \in Regs
        BY <1>3 DEF Operands
    <2>2. PICK x \in Word, n \in Word : x = Read15(s, by.rm, 4) /\ n = Read15(s, by.rs, 4)
        BY <2>1, Read15Is
    <2>3. n \in Nat
        BY ModulusIs DEF Word
    <2>4. Operand(s, by) = ShiftRegister(by.kind, x, n, s.cpsr.c)
        BY <1>3, <2>2 DEF Operand
    <2> QED
        BY <2>1, <2>3, <2>4, FlagIs, ShiftRegisterIs
<1> QED
    BY <1>1, <1>2, <1>3 DEF Operands

(* The flags a logical instruction sets leave the rest alone. *)
LEMMA SetNZCIs ==
    ASSUME NEW s \in Cpus, NEW v, NEW c \in BOOLEAN
    PROVE  Stays(s, SetC(SetNZ(s, v), c))
<1>1. PICK a : a = SetNZ(s, v)
    OBVIOUS
<1>2. Stays(s, a) /\ a \in Cpus
    BY <1>1, SetNZIs DEF Flags, Stays, Keeps
<1>3. Stays(a, SetC(a, c))
    BY <1>2, SetCIs DEF Flags
<1> QED
    BY <1>1, <1>2, <1>3, StaysStays

(* So do those of a product. *)
LEMMA SetNZStays == ASSUME NEW s \in Cpus, NEW v PROVE Stays(s, SetNZ(s, v))
BY SetNZIs DEF Flags

(* A data processing instruction goes on, or elsewhere if it sets the      *)
(* counter.                                                                *)
LEMMA DataIs ==
    ASSUME NEW s \in Cpus, NEW i \in ArmData, i.rd = 15 /\ i.flags => i.code \in Discards
    PROVE  Outcome(s, DataProcessing(s, i), ArmGoesOn(i))
<1>0. /\ i.op = "data" /\ i.code \in Sums \cup Logics /\ i.rd \in Regs /\ i.rn \in Regs
      /\ i.by \in Operands
    BY DEF ArmData
<1>1. PICK by : by = Operand(s, i.by) /\ IsShifted(by)
    BY <1>0, OperandIs
<1>2. PICK a \in Word : a = Read15(s, i.rn, IF i.by.form = "reg" THEN 4 ELSE 0)
    BY <1>0, Read15Is
<1>3. PICK sum : sum = SumOf(i.code, a, by.value, s.cpsr.c)
    OBVIOUS
<1>4. i.code \in Sums => IsSum(sum)
    BY <1>1, <1>3, SumIs DEF IsShifted
<1>5. PICK value \in Word : value = IF i.code \in Sums THEN sum.value ELSE Logic(i.code, a, by.value)
    BY <1>0, <1>1, <1>4, LogicIs DEF IsShifted, IsSum
<1>6. PICK put : put = IF i.code \in Discards THEN s ELSE SetReg(s, i.rd, value)
    OBVIOUS
<1>7. DataProcessing(s, i) =
        CASE i.rd = 15 /\ i.code \notin Discards ->
                Branch(IF i.flags THEN WriteStatus(s, s.spsr) ELSE s, value)
          [] (i.rd # 15 \/ i.code \in Discards) /\ i.flags ->
                IF i.code \in Sums THEN SetSum(put, sum)
                ELSE SetC(SetNZ(put, value), by.carry)
          [] OTHER -> put
    BY <1>1, <1>2, <1>3, <1>5, <1>6, Zenon DEF DataProcessing
<1>8. CASE i.rd = 15 /\ i.code \notin Discards
    <2>1. DataProcessing(s, i) = Branch(s, value)
        BY <1>7, <1>8
    <2>2. ~ArmGoesOn(i)
        BY <1>0, <1>8 DEF ArmGoesOn
    <2> QED
        BY <2>1, <2>2, BranchIs, SignedIs DEF Outcome
<1>9. CASE i.rd # 15 \/ i.code \in Discards
    <2>1. Stays(s, put) /\ put \in Cpus
        <3>1. CASE i.code \in Discards
            BY <1>6, <3>1, SelfStays
        <3>2. CASE i.code \notin Discards
            <4>1. i.rd \in General
                BY <1>0, <1>9, <3>2 DEF General
            <4> QED
                BY <1>6, <3>2, <4>1, SetRegStays DEF Stays, Keeps
        <3> QED
            BY <3>1, <3>2
    <2>2. CASE i.flags /\ i.code \in Sums
        <3>1. DataProcessing(s, i) = SetSum(put, sum)
            BY <1>7, <1>9, <2>2
        <3>2. Stays(put, SetSum(put, sum))
            BY <1>4, <2>1, <2>2, SetSumIs
        <3> QED
            BY <2>1, <3>1, <3>2, StaysStays DEF Outcome
    <2>3. CASE i.flags /\ i.code \notin Sums
        <3>1. DataProcessing(s, i) = SetC(SetNZ(put, value), by.carry)
            BY <1>7, <1>9, <2>3
        <3>2. Stays(put, SetC(SetNZ(put, value), by.carry))
            BY <1>1, <2>1, SetNZCIs DEF IsShifted
        <3> QED
            BY <2>1, <3>1, <3>2, StaysStays DEF Outcome
    <2>4. CASE ~i.flags
        <3>1. DataProcessing(s, i) = put
            BY <1>7, <1>9, <2>4
        <3> QED
            BY <2>1, <3>1 DEF Outcome
    <2> QED
        BY <2>2, <2>3, <2>4
<1> QED
    BY <1>8, <1>9

(* The flags written from a register are flags. *)
LEMMA WriteFlagsIs ==
    ASSUME NEW s \in Cpus, NEW i
    PROVE  Stays(s, WriteFlags(s, i))
<1>1. PICK v : v = Operand(s, i.by).value
    OBVIOUS
<1>2. PICK n \in BOOLEAN, z \in BOOLEAN, c \in BOOLEAN, o \in BOOLEAN, q \in BOOLEAN :
          /\ n = BitOf(v, Bits - 1) /\ z = BitOf(v, Bits - 2) /\ c = BitOf(v, Bits - 3)
          /\ o = BitOf(v, Bits - 4) /\ q = IF Bits > 4 THEN BitOf(v, Bits - 5) ELSE s.cpsr.q
    <2>1. s.cpsr.q \in BOOLEAN
        BY FlagQIs
    <2>2. (IF Bits > 4 THEN BitOf(v, Bits - 5) ELSE s.cpsr.q) \in BOOLEAN
        BY <2>1, BitIs, Zenon
    <2> QED
        BY <2>2, BitIs, Zenon
<1>3. WriteFlags(s, i) =
          [s EXCEPT !.cpsr.n = n, !.cpsr.z = z, !.cpsr.c = c, !.cpsr.v = o, !.cpsr.q = q]
    BY <1>1, <1>2, Zenon DEF WriteFlags
<1>4. Stays(s, [s EXCEPT !.cpsr.n = n, !.cpsr.z = z, !.cpsr.c = c, !.cpsr.v = o, !.cpsr.q = q])
    BY FlagsNZCVQ, Zenon
<1> QED
    BY <1>3, <1>4, Zenon

-----------------------------------------------------------------------------
(* Products. *)
LEMMA GeneralIs == General \subseteq Regs
BY DEF General

(* A product goes on to the next instruction. *)
LEMMA MultiplyIs ==
    ASSUME NEW s \in Cpus, NEW i, {i.rd, i.rn, i.rm, i.rs} \subseteq General
    PROVE  Stays(s, Multiply(s, i))
<1>1. PICK x \in Int, y \in Int, z \in Int : x = s.r[i.rm] /\ y = s.r[i.rs] /\ z = s.r[i.rn]
    BY GeneralIs, RegIs
<1>2. x * y + (IF i.add THEN z ELSE 0) \in Int
    <2>1. PICK p \in Int : p = x * y
        BY SMT
    <2> QED
        BY <2>1
<1>3. PICK v \in Word : v = Wrap(s.r[i.rm] * s.r[i.rs] + (IF i.add THEN s.r[i.rn] ELSE 0))
    BY <1>1, <1>2, WrapIs
<1>4. PICK put : put = SetReg(s, i.rd, v)
    OBVIOUS
<1>5. Stays(s, put) /\ put \in Cpus
    BY <1>4, SetRegStays DEF Stays, Keeps
<1>6. Multiply(s, i) = IF i.flags THEN SetNZ(put, v) ELSE put
    BY <1>3, <1>4, Zenon DEF Multiply
<1> QED
    BY <1>5, <1>6, SetNZStays, StaysStays

(* Two registers set at once. *)
LEMMA SetDoubleIs ==
    ASSUME NEW s \in Cpus, NEW i, i.rd \in General, i.rn \in General, NEW x \in Int
    PROVE  Stays(s, SetDouble(s, i, x)) /\ SetDouble(s, i, x) \in Cpus
<1>1. PICK low \in Word : low = Wrap(x)
    BY WrapIs
<1>2. x \div Modulus \in Int
    <2>1. PICK m \in Nat : m = Modulus /\ m > 0
        BY ModulusIs
    <2>2. x \div m \in Int
        BY <2>1, Divided, Zenon
    <2> QED
        BY <2>1, <2>2, Zenon
<1>3. PICK high \in Word : high = (x \div Modulus) % Modulus
    BY <1>2, WrapIs, Zenon DEF Wrap
<1>4. PICK c : c = SetReg(s, i.rn, low)
    OBVIOUS
<1>5. Stays(s, c) /\ c \in Cpus
    BY <1>4, SetRegStays DEF Stays, Keeps
<1>6. PICK d : d = SetReg(c, i.rd, high)
    OBVIOUS
<1>7. Stays(c, d) /\ d \in Cpus
    BY <1>5, <1>6, SetRegStays DEF Stays, Keeps
<1>8. SetDouble(s, i, x) = d
    BY <1>1, <1>3, <1>4, <1>6, Zenon DEF SetDouble
<1> QED
    BY <1>5, <1>7, <1>8, StaysStays

(* The two registers a long product is in. *)
LEMMA DoubleIs ==
    ASSUME NEW s \in Cpus, NEW i, i.rd \in General, i.rn \in General
    PROVE  Double(s, i) \in Int
<1>1. PICK x \in Int, y \in Int, m \in Int : x = s.r[i.rd] /\ y = s.r[i.rn] /\ m = Modulus
    BY GeneralIs, RegIs, ModulusIs
<1>2. PICK p \in Int : p = x * m
    BY SMT
<1>3. p + y \in Int
    OBVIOUS
<1> QED
    BY <1>1, <1>2, <1>3 DEF Double

(* What two words can hold is a number. *)
LEMMA WholeIs ==
    ASSUME NEW x \in Int
    PROVE  x % Power[2 * Bits] \in Int
<1>1. 2 * Bits \in 0 .. 2 * Bits
    BY WidthIs
<1>2. PICK p \in Nat : p = Power[2 * Bits] /\ p > 0
    BY <1>1, PowerIs
<1>3. x % p \in Nat
    BY <1>2, Divided, Zenon
<1> QED
    BY <1>2, <1>3

(* A product of two words goes on to the next instruction. *)
LEMMA MultiplyLongIs ==
    ASSUME NEW s \in Cpus, NEW i, {i.rd, i.rn, i.rm, i.rs} \subseteq General
    PROVE  Stays(s, MultiplyLong(s, i))
<1>1. PICK x \in Word, y \in Word : x = s.r[i.rm] /\ y = s.r[i.rs]
    BY GeneralIs, RegIs
<1>2. PICK p \in Int : p = IF i.signed THEN Signed(x) * Signed(y) ELSE x * y
    <2>1. PICK a \in Int, b \in Int : a = Signed(x) /\ b = Signed(y)
        BY SignedIs
    <2>2. x \in Int /\ y \in Int
        BY SignedIs
    <2>3. a * b \in Int /\ x * y \in Int
        BY <2>2, SMT
    <2> QED
        BY <2>1, <2>3
<1>3. PICK q \in Int : q = p + (IF i.add THEN Double(s, i) ELSE 0)
    BY DoubleIs
<1>4. PICK v \in Int : v = q % Power[2 * Bits]
    BY WholeIs
<1>5. PICK put : put = SetDouble(s, i, v)
    OBVIOUS
<1>6. Stays(s, put) /\ put \in Cpus
    BY <1>5, SetDoubleIs
<1>7. PICK n \in BOOLEAN, z \in BOOLEAN : n = BitOf(v, 2 * Bits - 1) /\ z = (v = 0)
    <2>1. (v = 0) \in BOOLEAN
        OBVIOUS
    <2> QED
        BY <2>1, BitIs, Zenon
<1>8. MultiplyLong(s, i) = IF i.flags THEN [put EXCEPT !.cpsr.n = n, !.cpsr.z = z] ELSE put
    <2>1. p = IF i.signed THEN Signed(s.r[i.rm]) * Signed(s.r[i.rs]) ELSE s.r[i.rm] * s.r[i.rs]
        BY <1>1, <1>2, Zenon
    <2>2. MultiplyLong(s, i) =
              IF i.flags
              THEN [put EXCEPT !.cpsr.n = BitOf(v, 2 * Bits - 1), !.cpsr.z = (v = 0)]
              ELSE put
        BY <2>1, <1>3, <1>4, <1>5 DEF MultiplyLong
    <2> QED
        BY <2>2, <1>7, Zenon
<1>9. Stays(put, [put EXCEPT !.cpsr.n = n, !.cpsr.z = z])
    BY <1>6, FlagsNZ, Zenon DEF Flags
<1> QED
    BY <1>6, <1>8, <1>9, StaysStays, Zenon

(* A saturating sum goes on to the next instruction. *)
LEMMA SaturatingIs ==
    ASSUME NEW s \in Cpus, NEW i, {i.rd, i.rn, i.rm} \subseteq General
    PROVE  Stays(s, Saturating(s, i))
<1>1. PICK x \in Int, y \in Int : x = Signed(s.r[i.rn]) /\ y = Signed(s.r[i.rm])
    BY GeneralIs, RegIs, SignedIs
<1>2. PICK n \in Int : n = Signed(s.r[i.rn]) * (IF i.double THEN 2 ELSE 1)
    BY <1>1
<1>3. PICK k \in Int : k = IF i.double THEN Signed(Saturated(n)) ELSE n
    BY SaturatedIs, SignedIs
<1>4. PICK sum \in Int : sum = Signed(s.r[i.rm]) + (IF i.sub THEN -k ELSE k)
    BY <1>1
<1>5. PICK c : c = SetReg(s, i.rd, Saturated(sum))
    OBVIOUS
<1>6. Stays(s, c) /\ c \in Cpus
    BY <1>5, SaturatedIs, SetRegStays DEF Stays, Keeps
<1>7. Saturating(s, i) = SetQ(c, Saturates(sum) \/ Saturates(n))
    BY <1>2, <1>3, <1>4, <1>5, Zenon DEF Saturating
<1>8. Stays(c, SetQ(c, Saturates(sum) \/ Saturates(n)))
    BY <1>6, SetQIs, Zenon DEF Flags
<1> QED
    BY <1>6, <1>7, <1>8, StaysStays, Zenon

(* Half a word taken with its sign is a number. *)
LEMMA HalfIs ==
    ASSUME NEW x \in Word, NEW high
    PROVE  HalfOf(x, high) \in Int
<1>1. HalfBits \in 0 .. 2 * Bits /\ HalfBits \in 0 .. Bits /\ 0 \in 0 .. Bits
    BY WidthIs
<1>2. x \div Power[HalfBits] \in Word
    BY <1>1, QuotientWord
<1>3. x % Power[HalfBits] \in Word
    <2>1. Power[0] = 1
        BY PowerStep
    <2>2. x \div Power[0] = x
        BY <2>1, SignedIs
    <2>3. (x \div Power[0]) % Power[HalfBits] \in Word
        BY <1>1, PartIs, Zenon
    <2> QED
        BY <2>2, <2>3, Zenon
<1>4. PICK h \in Word : h = IF high THEN x \div Power[HalfBits] ELSE x % Power[HalfBits]
    BY <1>2, <1>3
<1>5. SignExtend(h, HalfBits) \in Word
    BY <1>1, SignExtendIs
<1> QED
    BY <1>4, <1>5, SignedIs DEF HalfOf

(* The products of halves go on to the next instruction. *)
LEMMA SignedMultiplyIs ==
    ASSUME NEW s \in Cpus, NEW i, {i.rd, i.rn, i.rm, i.rs} \subseteq General,
           i.code \in {"SMLA", "SMLAW", "SMULW", "SMLAL", "SMUL"}
    PROVE  Stays(s, SignedMultiply(s, i))
<1>1. PICK y \in Int, x \in Int, m \in Int :
          /\ y = HalfOf(s.r[i.rs], i.y) /\ x = HalfOf(s.r[i.rm], i.x) /\ m = Signed(s.r[i.rm])
    BY GeneralIs, RegIs, HalfIs, SignedIs
<1>2. PICK product \in Int, full \in Int : product = x * y /\ full = m * y
    BY SMT
<1>3. PICK p \in Nat : p = Power[HalfBits] /\ p > 0
    <2>1. HalfBits \in 0 .. 2 * Bits
        BY WidthIs
    <2> QED
        BY <2>1, PowerIs
<1>4. PICK wide \in Int : wide = full \div p
    BY <1>3, Divided, Zenon
<1>5. wide = (Signed(s.r[i.rm]) * y) \div Power[HalfBits]
    BY <1>1, <1>2, <1>3, <1>4, Zenon
<1>6. product = HalfOf(s.r[i.rm], i.x) * y
    BY <1>1, <1>2, Zenon
<1>7. \A v \in Int : Stays(s, SetReg(s, i.rd, Wrap(v)))
    BY WrapIs, SetRegStays
<1>8. \A v \in Int : Stays(s, SetQ(SetReg(s, i.rd, Wrap(v + s.r[i.rn])), Saturates(v + Signed(s.r[i.rn]))))
    <2>1. TAKE v \in Int
    <2>2. v + s.r[i.rn] \in Int
        BY GeneralIs, RegIs
    <2>3. PICK c : c = SetReg(s, i.rd, Wrap(v + s.r[i.rn]))
        OBVIOUS
    <2>4. Stays(s, c) /\ c \in Cpus
        BY <1>7, <2>2, <2>3 DEF Stays, Keeps
    <2>5. Stays(c, SetQ(c, Saturates(v + Signed(s.r[i.rn]))))
        BY <2>4, SetQIs, Zenon DEF Flags
    <2> QED
        BY <2>3, <2>4, <2>5, StaysStays, Zenon
<1>9. CASE i.code = "SMLA"
    <2>1. SignedMultiply(s, i) =
              SetQ(SetReg(s, i.rd, Wrap(product + s.r[i.rn])), Saturates(product + Signed(s.r[i.rn])))
        BY <1>1, <1>6, <1>9 DEF SignedMultiply
    <2> QED
        BY <1>8, <2>1, Zenon
<1>10. CASE i.code = "SMLAW"
    <2>1. SignedMultiply(s, i) =
              SetQ(SetReg(s, i.rd, Wrap(wide + s.r[i.rn])), Saturates(wide + Signed(s.r[i.rn])))
        BY <1>1, <1>5, <1>10 DEF SignedMultiply
    <2> QED
        BY <1>8, <2>1, Zenon
<1>11. CASE i.code = "SMULW"
    <2>1. SignedMultiply(s, i) = SetReg(s, i.rd, Wrap(wide))
        BY <1>1, <1>5, <1>11 DEF SignedMultiply
    <2> QED
        BY <1>7, <2>1, Zenon
<1>12. CASE i.code = "SMUL"
    <2>1. SignedMultiply(s, i) = SetReg(s, i.rd, Wrap(product))
        BY <1>1, <1>6, <1>12 DEF SignedMultiply
    <2> QED
        BY <1>7, <2>1, Zenon
<1>13. CASE i.code = "SMLAL"
    <2>1. PICK q \in Int : q = product + Double(s, i)
        BY DoubleIs
    <2>2. PICK v \in Int : v = q % Power[2 * Bits]
        BY WholeIs
    <2>3. SignedMultiply(s, i) = SetDouble(s, i, v)
        BY <1>1, <1>6, <1>13, <2>1, <2>2 DEF SignedMultiply
    <2> QED
        BY <2>3, SetDoubleIs
<1> QED
    BY <1>9, <1>10, <1>11, <1>12, <1>13

(* There is a number of leading zeros, and it is a word. *)
LEMMA CountIs ==
    ASSUME NEW s \in Cpus, NEW i, {i.rd, i.rm} \subseteq General
    PROVE  Stays(s, CountLeadingZeros(s, i))
<1>1. PICK x \in Word : x = s.r[i.rm]
    BY GeneralIs, RegIs
<1>2. Bits \in Nat /\ Bits \in 0 .. 2 * Bits /\ x \in Nat /\ x < Power[Bits]
    BY WidthIs, ModulusIs DEF Word, Modulus
<1> DEFINE Room == {m \in 0 .. Bits : x < Power[m]}
<1>3. PICK m \in Room : \A k \in Room : k >= m
    <2>1. SUFFICES ASSUME \A n \in Room : \E k \in Room : k < n PROVE FALSE
        BY <1>2
    <2>2. Room \in SUBSET Nat
        BY <1>2
    <2>3. Room = {}
        BY <2>1, <2>2, NoFirst
    <2> QED
        BY <1>2, <2>3
<1>4. PICK n \in 0 .. Bits : n = Bits - m
    BY <1>2
<1>5. x < Power[Bits - n]
    BY <1>2, <1>4
<1>6. n < Bits => x >= Power[Bits - n - 1]
    <2>1. SUFFICES ASSUME n < Bits PROVE x >= Power[Bits - n - 1]
        OBVIOUS
    <2>2. PICK k \in 0 .. Bits : k = m - 1 /\ k = Bits - n - 1 /\ k < m /\ k \in 0 .. 2 * Bits
        BY <1>2, <1>4, <2>1
    <2>3. k \notin Room
        BY <1>2, <1>3, <2>2
    <2>4. Power[k] \in Nat
        BY <2>2, PowerIs
    <2> QED
        BY <1>2, <2>2, <2>3, <2>4
<1>7. PICK z : z = CHOOSE k \in 0 .. Bits : /\ s.r[i.rm] < Power[Bits - k]
                                            /\ k < Bits => s.r[i.rm] >= Power[Bits - k - 1]
    OBVIOUS
<1>8. z \in 0 .. Bits
    BY <1>1, <1>5, <1>6, <1>7
<1>9. z \in Word
    BY <1>8, WidthIs, ModulusIs DEF Word
<1>10. CountLeadingZeros(s, i) = SetReg(s, i.rd, z)
    BY <1>7, Zenon DEF CountLeadingZeros
<1> QED
    BY <1>9, <1>10, SetRegStays

-----------------------------------------------------------------------------
(* Transfers. *)
LEMMA LoadIs ==
    ASSUME NEW s \in Cpus, NEW c, Stays(s, c), NEW x \in General, NEW v \in Word
    PROVE  Stays(s, SetReg(c, x, v)) /\ SetReg(c, x, v) \in Cpus
<1>1. c \in Cpus
    BY DEF Stays, Keeps
<1>2. Stays(c, SetReg(c, x, v))
    BY <1>1, SetRegStays
<1>3. Stays(s, SetReg(c, x, v))
    BY <1>2, StaysStays
<1> QED
    BY <1>3 DEF Stays, Keeps

(* A store after steps that stay is one that stays. *)
LEMMA StoreIs ==
    ASSUME NEW s \in Cpus, NEW c, Stays(s, c), NEW a \in Word, NEW size \in Sizes, NEW v \in Word
    PROVE  Stays(s, Written(c, a, size, v)) /\ Written(c, a, size, v) \in Cpus
<1>1. c \in Cpus
    BY DEF Stays, Keeps
<1>2. Stays(c, Written(c, a, size, v))
    BY <1>1, WrittenIs DEF Stores
<1>3. Stays(s, Written(c, a, size, v))
    BY <1>2, StaysStays
<1> QED
    BY <1>3 DEF Stays, Keeps

(* A failure after steps that stay is an abort of the instruction. *)
LEMMA FailIs ==
    ASSUME NEW s \in Cpus, NEW c, Stays(s, c), NEW a \in Word
    PROVE  Aborts(s, DataAbort(c, a))
<1>1. c \in Cpus
    BY DEF Stays, Keeps
<1> QED
    BY <1>1, DataAbortIs, StaysAborts

(* A swap goes on, or aborts with nothing swapped. *)
LEMMA SwapIs ==
    ASSUME NEW s \in Cpus, NEW i, {i.rd, i.rn, i.rm} \subseteq General
    PROVE  Stays(s, Swap(s, i)) \/ Aborts(s, Swap(s, i))
<1>1. PICK a \in Word, v \in Word : a = s.r[i.rn] /\ v = s.r[i.rm]
    BY GeneralIs, RegIs
<1>2. PICK size \in Sizes : size = IF i.byte THEN "byte" ELSE "word"
    BY DEF Sizes
<1>3. PICK c : c = Written(s, a, size, v)
    OBVIOUS
<1>4. Stays(s, c)
    BY <1>3, SelfStays, StoreIs
<1>5. PICK w \in Word : w = Read(s, a, size)
    BY ReadIs
<1>6. Stays(s, SetReg(c, i.rd, w))
    BY <1>4, LoadIs
<1>7. Swap(s, i) = IF Mapped(s, a) THEN SetReg(c, i.rd, w) ELSE DataAbort(s, a)
    BY <1>1, <1>2, <1>3, <1>5 DEF Swap
<1> QED
    BY <1>6, <1>7, DataAbortIs

(* The address a transfer is at, and the one it leaves in its base. *)
LEMMA MovedIs ==
    ASSUME NEW s \in Cpus, NEW i, i.rn \in Regs, NEW offset \in Word
    PROVE  Moved(s, i, offset) \in Word /\ AddressOf(s, i, offset) \in Word
<1>1. s.r[i.rn] + (IF i.up THEN offset ELSE -offset) \in Int
    BY RegIs, SignedIs
<1>2. Moved(s, i, offset) \in Word
    BY <1>1, WrapIs DEF Moved
<1> QED
    BY <1>2, RegIs DEF AddressOf

(* The base written back leaves the core where it is. *)
LEMMA BaseIs ==
    ASSUME NEW s \in Cpus, NEW c, Stays(s, c), NEW x \in Regs, NEW v \in Word
    PROVE  Stays(s, [c EXCEPT !.r[x] = v]) /\ [c EXCEPT !.r[x] = v] \in Cpus
<1>1. c \in Cpus
    BY DEF Stays, Keeps
<1>2. Stays(c, [c EXCEPT !.r[x] = v])
    BY <1>1, WithRegIs DEF WithReg
<1>3. Stays(s, [c EXCEPT !.r[x] = v])
    BY <1>2, StaysStays
<1> QED
    BY <1>3 DEF Stays, Keeps

(* A transfer of a half, a signed byte or two words goes on or aborts. *)
LEMMA ExtraIs ==
    ASSUME NEW s \in Cpus, NEW i, i.rn \in Regs, i.rd \in General, i.by \in Operands,
           i.size \in {"half", "byte", "double"}, i.size = "double" => i.rd + 1 \in General
    PROVE  Stays(s, ExtraTransfer(s, i)) \/ Aborts(s, ExtraTransfer(s, i))
<1>1. PICK offset \in Word : offset = IF i.by.form = "imm" THEN i.by.value ELSE s.r[i.by.rm]
    <2>1. CASE i.by.form = "imm"
        BY <2>1 DEF Operands
    <2>2. CASE i.by.form # "imm"
        <3>1. i.by.rm \in Regs
            BY <2>2 DEF Operands
        <3> QED
            BY <2>2, <3>1, RegIs
    <2> QED
        BY <2>1, <2>2
<1>2. PICK a \in Word : a = AddressOf(s, i, offset)
    BY MovedIs
<1>3. PICK next \in Word : next = Wrap(a + 4)
    <2>1. a + 4 \in Int
        BY SignedIs
    <2> QED
        BY <2>1, WrapIs
<1>4. PICK base \in Word : base = Moved(s, i, offset)
    BY MovedIs
<1>5. PICK v : v = Read(s, a, i.size)
    OBVIOUS
<1>6. i.size # "double" => v \in Word
    BY <1>5, ReadIs DEF Sizes
<1>7. PICK wide \in 0 .. 2 * Bits : wide = IF i.size = "half" THEN HalfBits ELSE ByteBits
    BY WidthIs
<1>8. PICK shown : shown = IF i.signed THEN SignExtend(v, wide) ELSE v
    OBVIOUS
<1>9. i.size # "double" => shown \in Word
    BY <1>6, <1>8, SignExtendIs
<1>10. PICK x \in Word : x = s.r[i.rd]
    BY GeneralIs, RegIs
<1>11. PICK lower \in Word, upper \in Word : lower = Read(s, a, "word") /\ upper = Read(s, next, "word")
    BY ReadIs DEF Sizes
<1>12. PICK y : y = s.r[i.rd + 1]
    OBVIOUS
<1>13. i.size = "double" => y \in Word
    BY <1>12, GeneralIs, RegIs
<1>14. PICK first : first = Written(s, a, "word", x)
    OBVIOUS
<1>15. Stays(s, first) /\ first \in Cpus
    BY <1>14, SelfStays, StoreIs DEF Sizes
<1>16. PICK done : done = CASE i.size # "double" /\ i.load -> SetReg(s, i.rd, shown)
                            [] i.size # "double" /\ ~i.load -> Written(s, a, "half", x)
                            [] i.size = "double" /\ i.load ->
                                   SetReg(SetReg(s, i.rd, lower), i.rd + 1, upper)
                            [] i.size = "double" /\ ~i.load -> Written(first, next, "word", y)
    OBVIOUS
<1>17. Stays(s, done)
    <2>1. CASE i.size # "double" /\ i.load
        <3>1. done = SetReg(s, i.rd, shown)
            BY <1>16, <2>1
        <3> QED
            BY <1>9, <2>1, <3>1, SelfStays, LoadIs
    <2>2. CASE i.size # "double" /\ ~i.load
        <3>1. done = Written(s, a, "half", x)
            BY <1>16, <2>2
        <3> QED
            BY <3>1, SelfStays, StoreIs DEF Sizes
    <2>3. CASE i.size = "double" /\ i.load
        <3>1. done = SetReg(SetReg(s, i.rd, lower), i.rd + 1, upper)
            BY <1>16, <2>3
        <3>2. Stays(s, SetReg(s, i.rd, lower))
            BY SelfStays, LoadIs
        <3> QED
            BY <2>3, <3>1, <3>2, LoadIs
    <2>4. CASE i.size = "double" /\ ~i.load
        <3>1. done = Written(first, next, "word", y)
            BY <1>16, <2>4
        <3> QED
            BY <1>13, <1>15, <2>4, <3>1, StoreIs DEF Sizes
    <2> QED
        BY <2>1, <2>2, <2>3, <2>4
<1>18. ExtraTransfer(s, i) =
          CASE ~Mapped(s, a) -> DataAbort(s, a)
            [] Mapped(s, a) /\ i.size = "double" /\ ~Mapped(s, next) ->
                  DataAbort(IF i.load THEN s ELSE first, next)
            [] OTHER -> IF (i.writeback \/ ~i.pre) /\ i.rn # 15
                        THEN [done EXCEPT !.r[i.rn] = base] ELSE done
    BY <1>1, <1>2, <1>3, <1>4, <1>5, <1>7, <1>8, <1>10, <1>11, <1>12, <1>14, <1>16, Zenon
       DEF ExtraTransfer
<1>19. Aborts(s, DataAbort(s, a)) /\ Aborts(s, DataAbort(IF i.load THEN s ELSE first, next))
    BY <1>15, DataAbortIs, FailIs
<1>20. Stays(s, [done EXCEPT !.r[i.rn] = base])
    BY <1>17, BaseIs
<1> QED
    BY <1>17, <1>18, <1>19, <1>20

(* One of a word or a byte goes on or aborts, or elsewhere if it loads the *)
(* counter.                                                                *)
LEMMA SingleIs ==
    ASSUME NEW s \in Cpus, NEW i, i.rn \in Regs, i.rd \in Regs, i.by \in Operands
    PROVE  \/ Stays(s, SingleTransfer(s, i)) \/ Aborts(s, SingleTransfer(s, i))
           \/ Goes(s, SingleTransfer(s, i)) /\ i.rd = 15
<1>1. PICK offset \in Word : offset = Operand(s, i.by).value
    BY OperandIs DEF IsShifted
<1>2. PICK a \in Word : a = AddressOf(s, i, offset)
    BY MovedIs
<1>3. PICK base \in Word : base = Moved(s, i, offset)
    BY MovedIs
<1>4. PICK size \in Sizes : size = IF i.byte THEN "byte" ELSE "word"
    BY DEF Sizes
<1>5. PICK moved : moved = IF (i.writeback \/ ~i.pre) /\ i.rn # i.rd
                           THEN [s EXCEPT !.r[i.rn] = base] ELSE s
    OBVIOUS
<1>6. Stays(s, moved) /\ moved \in Cpus
    BY <1>5, SelfStays, BaseIs
<1>7. PICK v \in Word : v = Read(s, a, size)
    BY ReadIs
<1>8. PICK x \in Word : x = Read15(s, i.rd, 4)
    BY Read15Is
<1>9. SingleTransfer(s, i) =
          CASE ~Mapped(s, a) -> DataAbort(s, a)
            [] Mapped(s, a) /\ ~i.load -> Written(moved, a, size, x)
            [] Mapped(s, a) /\ i.load /\ i.rd # 15 -> SetReg(moved, i.rd, v)
            [] Mapped(s, a) /\ i.load /\ i.rd = 15 -> BranchExchange(moved, v)
    BY <1>1, <1>2, <1>3, <1>4, <1>5, <1>7, <1>8, Zenon DEF SingleTransfer
<1>10. Aborts(s, DataAbort(s, a)) /\ Stays(s, Written(moved, a, size, x))
    BY <1>6, DataAbortIs, StoreIs
<1>11. i.rd # 15 => Stays(s, SetReg(moved, i.rd, v))
    BY <1>6, LoadIs DEF General
<1>12. Goes(s, BranchExchange(moved, v))
    BY <1>6, BranchExchangeIs, StaysGoes
<1> QED
    BY <1>9, <1>10, <1>11, <1>12

-----------------------------------------------------------------------------
(* Transfers of several registers: what has happened after some of them. *)
Move(load, list, start, k) ==
    [load |-> load, reg |-> list[k], address |-> Wrap(start + 4 * (k - 1))]
Moves(f, s, load, list, start, n) ==
    f = [k \in 0 .. n |-> IF k = 0 THEN s ELSE MoveOne(f[k - 1], Move(load, list, start, k))]

(* There are as many of the moves of a block as are asked for. *)
LEMMA MovesExist ==
    ASSUME NEW s, NEW load, NEW list, NEW start, NEW n \in Nat
    PROVE  \E f : Moves(f, s, load, list, start, n)
<1> DEFINE bad == {k \in Nat : ~\E f : Moves(f, s, load, list, start, k)}
<1>1. ASSUME NEW k \in bad PROVE \E m \in bad : m < k
    <2>1. k \in Nat /\ ~\E f : Moves(f, s, load, list, start, k)
        OBVIOUS
    <2>2. k # 0
        <3>1. Moves([m \in 0 .. 0 |-> s], s, load, list, start, 0)
            BY DEF Moves
        <3> QED
            BY <2>1, <3>1
    <2>3. k - 1 \in Nat /\ k - 1 < k
        BY <2>1, <2>2
    <2>4. SUFFICES ASSUME k - 1 \notin bad PROVE FALSE
        BY <2>3
    <2>5. PICK f : Moves(f, s, load, list, start, k - 1)
        BY <2>3, <2>4
    <2>6. PICK g : g = [m \in 0 .. k |-> IF m = k THEN MoveOne(f[k - 1], Move(load, list, start, k)) ELSE f[m]]
        OBVIOUS
    <2>7. g = [m \in 0 .. k |-> IF m = 0 THEN s ELSE MoveOne(g[m - 1], Move(load, list, start, m))]
        <3>1. ASSUME NEW m \in 0 .. k
              PROVE  g[m] = IF m = 0 THEN s ELSE MoveOne(g[m - 1], Move(load, list, start, m))
            <4>1. CASE m = k
                <5>1. g[m] = MoveOne(f[k - 1], Move(load, list, start, k))
                    BY <2>1, <2>6, <4>1
                <5>2. g[k - 1] = f[k - 1]
                    BY <2>1, <2>2, <2>6
                <5> QED
                    BY <2>2, <4>1, <5>1, <5>2
            <4>2. CASE m # k
                <5>1. m \in 0 .. k - 1 /\ g[m] = f[m]
                    BY <2>1, <2>6, <4>2
                <5>2. f[m] = IF m = 0 THEN s ELSE MoveOne(f[m - 1], Move(load, list, start, m))
                    BY <2>5, <5>1 DEF Moves
                <5>3. m # 0 => g[m - 1] = f[m - 1]
                    BY <2>1, <2>6, <5>1
                <5> QED
                    BY <5>1, <5>2, <5>3
            <4> QED
                BY <4>1, <4>2
        <3> QED
            BY <2>6, <3>1, Zenon
    <2> QED
        BY <2>1, <2>7 DEF Moves
<1>2. bad = {}
    BY <1>1, NoFirst
<1> QED
    BY <1>2

(* Each is made from what the ones before it have left. *)
LEMMA MovesStep ==
    ASSUME NEW s, NEW load, NEW list, NEW start, NEW n \in Nat, NEW f, Moves(f, s, load, list, start, n)
    PROVE  /\ f[0] = s
           /\ \A k \in 1 .. n : f[k] = MoveOne(f[k - 1], Move(load, list, start, k))
BY DEF Moves

(* A block is the last of its moves. *)
LEMMA MoveAllIs ==
    ASSUME NEW s, NEW load, NEW start, NEW set, NEW list \in Seq(set)
    PROVE  \E f : Moves(f, s, load, list, start, Len(list)) /\ MoveAll(s, load, list, start) = f[Len(list)]
<1>1. Len(list) \in Nat
    OBVIOUS
<1>2. \E f : Moves(f, s, load, list, start, Len(list))
    BY <1>1, MovesExist
<1>3. PICK f : f = CHOOSE g : Moves(g, s, load, list, start, Len(list))
    OBVIOUS
<1>4. Moves(f, s, load, list, start, Len(list))
    BY <1>2, <1>3
<1>5. MoveAll(s, load, list, start) = f[Len(list)]
    BY <1>3, Zenon DEF MoveAll, Moves, Move
<1> QED
    BY <1>4, <1>5

(* One move of a block stays or aborts; after an abort none is made. *)
LEMMA MoveOneIs ==
    ASSUME NEW s \in Cpus, NEW c, Stays(s, c) \/ Aborts(s, c), ~s.branched,
           NEW x \in Regs, NEW a \in Word, NEW load \in BOOLEAN, NEW move,
           move = [load |-> load, reg |-> x, address |-> a]
    PROVE  Stays(s, MoveOne(c, move)) \/ Aborts(s, MoveOne(c, move))
<1>0. move.load = load /\ move.reg = x /\ move.address = a
    OBVIOUS
<1>1. CASE Aborts(s, c)
    <2>1. c.branched
        BY <1>1 DEF Aborts, Raises
    <2>2. MoveOne(c, move) = c
        BY <2>1 DEF MoveOne
    <2> QED
        BY <1>1, <2>2
<1>2. CASE Stays(s, c)
    <2>1. c \in Cpus /\ ~c.branched
        BY <1>2 DEF Stays, Keeps
    <2>2. PICK v \in Word, w \in Word : v = ReadAligned(c, a) /\ w = Read15(c, x, 4)
        BY <2>1, AlignedIs, Read15Is
    <2>3. MoveOne(c, move) =
              IF ~Mapped(c, a) THEN DataAbort(c, a)
              ELSE IF load THEN IF x = 15 THEN c ELSE [c EXCEPT !.r[x] = v]
              ELSE Written(c, a, "word", w)
        BY <1>0, <2>1, <2>2 DEF MoveOne
    <2>4. Aborts(s, DataAbort(c, a))
        BY <1>2, FailIs
    <2>5. Stays(s, [c EXCEPT !.r[x] = v]) /\ Stays(s, Written(c, a, "word", w))
        BY <1>2, BaseIs, StoreIs DEF Sizes
    <2> QED
        BY <1>2, <2>3, <2>4, <2>5
<1> QED
    BY <1>1, <1>2

(* So every one of them stays or has aborted. *)
LEMMA MovesAre ==
    ASSUME NEW s \in Cpus, ~s.branched, NEW load \in BOOLEAN, NEW list \in Seq(Regs), NEW start \in Int,
           NEW f, Moves(f, s, load, list, start, Len(list))
    PROVE  \A k \in 0 .. Len(list) : Stays(s, f[k]) \/ Aborts(s, f[k])
<1> DEFINE bad == {k \in 0 .. Len(list) : ~(Stays(s, f[k]) \/ Aborts(s, f[k]))}
<1>0. Len(list) \in Nat
    OBVIOUS
<1>1. ASSUME NEW k \in bad PROVE \E m \in bad : m < k
    <2>0. f[0] = s
        BY <1>0 DEF Moves
    <2>1. k # 0
        BY <2>0, SelfStays
    <2>2. k \in 1 .. Len(list) /\ k - 1 \in 0 .. Len(list) /\ k - 1 < k
        BY <1>0, <2>1
    <2>3. SUFFICES ASSUME k - 1 \notin bad PROVE FALSE
        BY <2>2
    <2>4. Stays(s, f[k - 1]) \/ Aborts(s, f[k - 1])
        BY <2>2, <2>3
    <2>5. f[k] = MoveOne(f[k - 1], Move(load, list, start, k))
        BY <1>0, <2>2, MovesStep
    <2>6. start + 4 * (k - 1) \in Int
        BY <2>2
    <2>7. PICK x \in Regs, a \in Word : x = list[k] /\ a = Wrap(start + 4 * (k - 1))
        BY <2>2, <2>6, WrapIs
    <2>8. PICK c : c = f[k - 1]
        OBVIOUS
    <2>9. Move(load, list, start, k) = [load |-> load, reg |-> x, address |-> a]
        BY <2>7 DEF Move
    <2>10. Stays(s, f[k]) \/ Aborts(s, f[k])
        BY <2>4, <2>5, <2>8, <2>9, MoveOneIs
    <2> QED
        BY <2>10
<1>2. bad \in SUBSET Nat
    BY <1>0
<1>3. bad = {}
    BY <1>1, <1>2, NoFirst
<1> QED
    BY <1>3

(* So does the whole block. *)
LEMMA AllMoved ==
    ASSUME NEW s \in Cpus, ~s.branched, NEW load \in BOOLEAN, NEW list \in Seq(Regs), NEW start \in Int,
           NEW d, d = MoveAll(s, load, list, start)
    PROVE  Stays(s, d) \/ Aborts(s, d)
<1>1. PICK f : Moves(f, s, load, list, start, Len(list)) /\ d = f[Len(list)]
    BY MoveAllIs
<1>2. Len(list) \in 0 .. Len(list)
    OBVIOUS
<1> QED
    BY <1>1, <1>2, MovesAre

(* A block goes on or aborts, or elsewhere if it loads the counter. *)
LEMMA BlockIs ==
    ASSUME NEW s \in Cpus, ~s.branched, NEW i, i.list \in Seq(Regs), i.rn \in General, i.load \in BOOLEAN
    PROVE  \/ Stays(s, BlockTransfer(s, i)) \/ Aborts(s, BlockTransfer(s, i))
           \/ Goes(s, BlockTransfer(s, i)) /\ Listed(15, i.list)
<1>1. PICK size \in Int : size = 4 * Len(i.list)
    BY SMT
<1>2. PICK base \in Int : base = s.r[i.rn]
    BY GeneralIs, RegIs
<1>3. PICK start \in Int : start = CASE i.up -> base + (IF i.pre THEN 4 ELSE 0)
                                     [] ~i.up -> base - size + (IF i.pre THEN 0 ELSE 4)
    OBVIOUS
<1>4. PICK moved : moved = MoveAll(s, i.load, i.list, start)
    OBVIOUS
<1>5. PICK end \in Word : end = Wrap(IF i.up THEN base + size ELSE base - size)
    BY WrapIs
<1>6. PICK based : based = IF i.writeback /\ ~(i.load /\ Listed(i.rn, i.list))
                           THEN [moved EXCEPT !.r[i.rn] = end] ELSE moved
    OBVIOUS
<1>7. PICK v \in Word : v = ReadAligned(s, Wrap(start + size - 4))
    <2>1. start + size - 4 \in Int
        OBVIOUS
    <2> QED
        BY <2>1, WrapIs, AlignedIs
<1>8. BlockTransfer(s, i) =
          CASE moved.branched -> moved
            [] ~moved.branched /\ i.load /\ Listed(15, i.list) -> BranchExchange(based, v)
            [] OTHER -> based
    BY <1>1, <1>2, <1>3, <1>4, <1>5, <1>6, <1>7, Zenon DEF BlockTransfer
<1>9. Stays(s, moved) \/ Aborts(s, moved)
    BY <1>4, AllMoved
<1>10. CASE moved.branched
    BY <1>8, <1>9, <1>10
<1>11. CASE ~moved.branched
    <2>1. Stays(s, moved)
        BY <1>9, <1>11 DEF Aborts, Raises
    <2>2. Stays(s, based) /\ based \in Cpus
        BY <1>6, <2>1, BaseIs, GeneralIs DEF Stays, Keeps
    <2>3. Goes(s, BranchExchange(based, v))
        BY <2>2, BranchExchangeIs, StaysGoes
    <2> QED
        BY <1>8, <1>11, <2>2, <2>3
<1> QED
    BY <1>10, <1>11

(* A branch goes elsewhere. *)
LEMMA ArmBranchIs ==
    ASSUME NEW s \in Cpus, NEW i, i.code \in {"B", "BL", "BX", "BLX", "BLXI"},
           i.code \in {"B", "BL", "BLXI"} => i.offset \in Int,
           i.code \in {"BX", "BLX"} => i.rm \in Regs
    PROVE  Goes(s, ArmBranch(s, i))
<1>1. 15 \in Regs /\ 14 \in Regs
    BY WordAssumption
<1>2. PICK link \in Word : link = Wrap(s.at + 4)
    <2>1. s.at + 4 \in Int
        BY FlagIs
    <2> QED
        BY <2>1, WrapIs
<1>3. PICK linked : linked = [s EXCEPT !.r[14] = link]
    OBVIOUS
<1>4. Stays(s, linked) /\ linked \in Cpus
    BY <1>1, <1>3, SelfStays, BaseIs
<1>5. CASE i.code = "B"
    <2>1. s.r[15] + i.offset \in Int
        BY <1>1, <1>5, RegIs
    <2> QED
        BY <1>5, <2>1, BranchIs DEF ArmBranch
<1>6. CASE i.code = "BL"
    <2>1. s.r[15] + i.offset \in Int
        BY <1>1, <1>6, RegIs
    <2>2. ArmBranch(s, i) = Branch(linked, s.r[15] + i.offset)
        BY <1>2, <1>3, <1>6 DEF ArmBranch
    <2> QED
        BY <1>4, <2>1, <2>2, BranchIs, StaysGoes
<1>7. CASE i.code = "BX"
    BY <1>7, RegIs, BranchExchangeIs DEF ArmBranch
<1>8. CASE i.code = "BLX"
    <2>1. s.r[i.rm] \in Word
        BY <1>8, RegIs
    <2>2. ArmBranch(s, i) = BranchExchange(linked, s.r[i.rm])
        BY <1>2, <1>3, <1>8 DEF ArmBranch
    <2> QED
        BY <1>4, <2>1, <2>2, BranchExchangeIs, StaysGoes
<1>9. CASE i.code = "BLXI"
    <2>1. s.r[15] + i.offset \in Int
        BY <1>1, <1>9, RegIs
    <2>2. PICK c : c = [linked EXCEPT !.cpsr.t = TRUE]
        OBVIOUS
    <2>3. c \in Cpus /\ c.cpsr.mode = linked.cpsr.mode
        BY <1>4, <2>2, WithThumb
    <2>4. c = [s EXCEPT !.r[14] = link, !.cpsr.t = TRUE]
        BY <1>3, <2>2 DEF Cpus
    <2>5. ArmBranch(s, i) = Branch(c, s.r[15] + i.offset)
        BY <1>2, <1>9, <2>4 DEF ArmBranch
    <2>6. Goes(c, Branch(c, s.r[15] + i.offset))
        BY <2>1, <2>3, BranchIs
    <2> QED
        BY <1>4, <2>3, <2>5, <2>6 DEF Goes, Stays, Keeps
<1> QED
    BY <1>5, <1>6, <1>7, <1>8, <1>9

Products == {"multiply", "long", "saturating", "signed", "clz"}
ArmOps ==
    {"data", "msr", "swap", "extra", "single", "block", "branch", "swi", "undefined"} \cup Products

(* The fields of the products of ARM. *)
LEMMA ProductFields ==
    ASSUME NEW i \in ArmProducts
    PROVE  /\ i.op \in Products /\ i.cond \in Conds /\ {i.rd, i.rm} \subseteq General
           /\ i.op \in {"multiply", "long", "signed"} => {i.rd, i.rn, i.rm, i.rs} \subseteq General
           /\ i.op = "saturating" => {i.rd, i.rn, i.rm} \subseteq General
           /\ i.op = "signed" => i.code \in {"SMLA", "SMLAW", "SMULW", "SMLAL", "SMUL"}
BY DEF ArmProducts, Products

(* The fields of its transfers. *)
LEMMA TransferFields ==
    ASSUME NEW i \in ArmTransfers
    PROVE  /\ i.op \in {"swap", "extra", "single", "block"} /\ i.cond \in Conds
           /\ i.op = "swap" => {i.rd, i.rn, i.rm} \subseteq General
           /\ i.op = "extra" =>
                 /\ i.rn \in Regs /\ i.rd \in General /\ i.by \in Operands
                 /\ i.size \in {"half", "byte", "double"}
                 /\ i.size = "double" => i.rd + 1 \in General
           /\ i.op = "single" => i.rn \in Regs /\ i.rd \in Regs /\ i.by \in Operands
           /\ i.op = "block" => i.list \in Seq(Regs) /\ i.rn \in General /\ i.load \in BOOLEAN
BY DEF ArmTransfers

(* The fields of its branches and calls. *)
LEMMA OtherFields ==
    ASSUME NEW i \in ArmOthers
    PROVE  /\ i.op \in {"msr", "branch", "swi", "undefined"} /\ i.cond \in Conds
           /\ i.op = "branch" =>
                 /\ i.code \in {"B", "BL", "BX", "BLX", "BLXI"}
                 /\ i.code \in {"B", "BL", "BLXI"} => i.offset \in Int
                 /\ i.code \in {"BX", "BLX"} => i.rm \in Regs
BY DEF ArmOthers

(* What becomes of any instruction, call or not. *)
Becomes(s, d, i, goesOn) ==
    \/ Outcome(s, d, goesOn)
    \/ i.op \in {"swi", "undefined"} /\ Raises(s, d, i.op, s.at + Width(s))

(* An instruction of ARM becomes what its form says: it goes on, or        *)
(* elsewhere, or aborts, or calls.                                         *)
LEMMA ArmIs ==
    ASSUME NEW s \in Cpus, ~s.branched, NEW i \in ArmInstructions,
           s.cpsr.t => i.op \notin {"swi", "undefined"}
    PROVE  Becomes(s, ExecuteArm(s, i), i, ArmGoesOn(i))
<1>1. CASE ~Passes(s.cpsr, i.cond)
    BY <1>1, SelfStays DEF ExecuteArm, Outcome, Becomes
<1>2. CASE Passes(s.cpsr, i.cond)
    <2>1. CASE i \in ArmData /\ (i.rd = 15 /\ i.flags => i.code \in Discards)
        <3>1. i.op = "data"
            BY <2>1 DEF ArmData
        <3>2. ExecuteArm(s, i) = DataProcessing(s, i)
            BY <1>2, <3>1 DEF ExecuteArm
        <3> QED
            BY <2>1, <3>2, DataIs DEF Becomes
    <2>2. CASE i \in ArmProducts
        <3>1. ExecuteArm(s, i) = CASE i.op = "multiply" -> Multiply(s, i)
                                   [] i.op = "long" -> MultiplyLong(s, i)
                                   [] i.op = "saturating" -> Saturating(s, i)
                                   [] i.op = "signed" -> SignedMultiply(s, i)
                                   [] i.op = "clz" -> CountLeadingZeros(s, i)
            BY <1>2, <2>2, ProductFields DEF ExecuteArm, Products
        <3>2. i.op \in {"multiply", "long"} => Stays(s, Multiply(s, i)) /\ Stays(s, MultiplyLong(s, i))
            BY <2>2, ProductFields, MultiplyIs, MultiplyLongIs
        <3>3. i.op = "saturating" => Stays(s, Saturating(s, i))
            BY <2>2, ProductFields, SaturatingIs
        <3>4. i.op = "signed" => Stays(s, SignedMultiply(s, i))
            BY <2>2, ProductFields, SignedMultiplyIs
        <3>5. Stays(s, CountLeadingZeros(s, i))
            BY <2>2, ProductFields, CountIs
        <3> QED
            BY <2>2, <3>1, <3>2, <3>3, <3>4, <3>5, ProductFields DEF Products, Outcome, Becomes
    <2>3. CASE i \in ArmTransfers
        <3>1. CASE i.op = "swap"
            <4>1. ExecuteArm(s, i) = Swap(s, i)
                BY <1>2, <3>1 DEF ExecuteArm
            <4> QED
                BY <2>3, <3>1, <4>1, TransferFields, SwapIs DEF Outcome, Becomes
        <3>2. CASE i.op = "extra"
            <4>1. ExecuteArm(s, i) = ExtraTransfer(s, i)
                BY <1>2, <3>2 DEF ExecuteArm
            <4> QED
                BY <2>3, <3>2, <4>1, TransferFields, ExtraIs DEF Outcome, Becomes
        <3>3. CASE i.op = "single"
            <4>1. ExecuteArm(s, i) = SingleTransfer(s, i) /\ (i.rd = 15 => ~ArmGoesOn(i))
                BY <1>2, <3>3 DEF ExecuteArm, ArmGoesOn
            <4> QED
                BY <2>3, <3>3, <4>1, TransferFields, SingleIs DEF Outcome, Becomes
        <3>4. CASE i.op = "block"
            <4>1. ExecuteArm(s, i) = BlockTransfer(s, i) /\ (Listed(15, i.list) => ~ArmGoesOn(i))
                BY <1>2, <3>4 DEF ExecuteArm, ArmGoesOn
            <4> QED
                BY <2>3, <3>4, <4>1, TransferFields, BlockIs DEF Outcome, Becomes
        <3> QED
            BY <2>3, <3>1, <3>2, <3>3, <3>4, TransferFields
    <2>4. CASE i \in ArmOthers
        <3>1. CASE i.op = "msr"
            <4>1. ExecuteArm(s, i) = WriteFlags(s, i)
                BY <1>2, <3>1 DEF ExecuteArm
            <4> QED
                BY <4>1, WriteFlagsIs DEF Outcome, Becomes
        <3>2. CASE i.op = "branch"
            <4>1. ExecuteArm(s, i) = ArmBranch(s, i) /\ ~ArmGoesOn(i)
                BY <1>2, <3>2 DEF ExecuteArm, ArmGoesOn
            <4> QED
                BY <2>4, <3>2, <4>1, OtherFields, ArmBranchIs DEF Outcome, Becomes
        <3>3. CASE i.op = "swi"
            <4>1. ExecuteArm(s, i) = Enter(s, "swi", s.at + 4)
                BY <1>2, <3>3 DEF ExecuteArm
            <4>2. Raises(s, Enter(s, "swi", s.at + 4), "swi", s.at + 4)
                BY CallIs
            <4> QED
                BY <3>3, <4>1, <4>2 DEF Becomes, Width
        <3>4. CASE i.op = "undefined"
            <4>1. ExecuteArm(s, i) = Undefined(s)
                BY <1>2, <3>4 DEF ExecuteArm
            <4> QED
                BY <3>4, <4>1, UndefinedIs DEF Becomes
        <3> QED
            BY <2>4, <3>1, <3>2, <3>3, <3>4, OtherFields
    <2> QED
        BY <2>1, <2>2, <2>3, <2>4 DEF ArmInstructions
<1> QED
    BY <1>1, <1>2

(* What AsArm makes is an instruction. *)
LEMMA OperandForms ==
    /\ \A x \in Regs : Register(x) \in Operands
    /\ \A n \in Word : Immediate(n) \in Operands
BY WidthIs DEF Register, Immediate, Operands, Kinds, Amounts

Abbreviates(i, a) ==
    /\ a \in ArmInstructions /\ a.op \notin {"swi", "undefined"}
    /\ ThumbGoesOn(i) => ArmGoesOn(a)

(* A data processing instruction built from fields of their kind is one of *)
(* ARM.                                                                    *)
LEMMA DataForm ==
    ASSUME NEW code \in Sums \cup Logics, NEW rd \in Regs, NEW rn \in Regs, NEW by \in Operands,
           NEW flags \in BOOLEAN, rd = 15 /\ flags => code \in Discards,
           NEW i, NEW d, d = Data(code, rd, rn, by, flags), ThumbGoesOn(i) => rd # 15
    PROVE  Abbreviates(i, d)
<1>1. d \in ArmData /\ d.op = "data" /\ d.rd = rd /\ d.flags = flags /\ d.code = code
    BY DEF Data, ArmData, Conds
<1> QED
    BY <1>1 DEF Abbreviates, ArmInstructions, ArmGoesOn

(* The lower registers are general ones. *)
LEMMA LowerIs == /\ \A x \in Lower : x \in Regs /\ x \in General /\ x # 15
                 /\ {0, 13, 14} \subseteq General /\ General \subseteq Regs /\ 15 \in Regs
BY WordAssumption DEF Lower, General

(* What is scaled to bytes is still a word. *)
LEMMA ScaledIs ==
    \A n \in Scaled : n \in Nat /\ 4 * n \in Word /\ 2 * n \in Word /\ n \in Word
BY ModulusIs DEF Scaled, Word

(* The fields of the instructions of Thumb. *)
LEMMA OnRegistersFields ==
    ASSUME NEW i \in ThumbOnRegisters
    PROVE  /\ i.op \in {"shift", "addSub", "immediate", "alu", "high", "stack", "address"}
           /\ i.op = "shift" =>
                 /\ i.kind \in Kinds /\ i.rd \in Lower /\ i.rs \in Lower /\ i.amount \in Amounts
           /\ i.op = "addSub" =>
                 /\ i.form \in {"imm", "reg"} /\ i.sub \in BOOLEAN
                 /\ i.rd \in Lower /\ i.rs \in Lower /\ i.rn \in Lower /\ i.value \in Word
           /\ i.op = "immediate" =>
                 /\ i.code \in {"MOV", "CMP", "ADD", "SUB"} /\ i.rd \in Lower /\ i.value \in Word
           /\ i.op = "alu" =>
                 /\ i.rd \in Lower /\ i.rs \in Lower
                 /\ i.code \in Kinds \cup {"AND", "EOR", "ADC", "SBC", "TST", "NEG", "CMP", "CMN",
                                          "ORR", "MUL", "BIC", "MVN"}
           /\ i.op = "high" =>
                 /\ i.code \in {"ADD", "CMP", "MOV", "BX", "BLX"} /\ i.rd \in Regs /\ i.rs \in Regs
           /\ i.op = "stack" => i.sub \in BOOLEAN /\ i.value \in Scaled
           /\ i.op = "address" =>
                 /\ i.form = "imm" /\ i.rd \in Lower /\ i.rb \in {13, 15} /\ i.value \in Scaled
BY DEF ThumbOnRegisters

(* The fields of the transfers of Thumb. *)
LEMMA ThumbTransferFields ==
    ASSUME NEW i \in ThumbTransfers
    PROVE  /\ i.op \in {"transfer", "several", "push", "pop"}
           /\ i.op = "transfer" =>
                 /\ i.form \in {"imm", "reg"} /\ i.load \in BOOLEAN /\ i.size \in Sizes
                 /\ i.signed \in BOOLEAN /\ i.rd \in Lower /\ i.rb \in Lower \cup {13, 15}
                 /\ i.value \in Scaled /\ (i.signed => i.load /\ i.size # "word")
                 /\ i.form = "reg" => i.rb \in Lower /\ i.ro \in Lower
           /\ i.op = "several" => i.load \in BOOLEAN /\ i.rb \in Lower /\ i.list \in Seq(Lower)
           /\ i.op = "push" => i.list \in Seq(Lower \cup {14})
           /\ i.op = "pop" => i.list \in Seq(Lower \cup {15})
BY DEF ThumbTransfers, Sizes

(* The fields of its branches and calls. *)
LEMMA ThumbOtherFields ==
    ASSUME NEW i \in ThumbOthers
    PROVE  /\ i.op \in {"jump", "long", "swi", "undefined"}
           /\ i.op = "jump" => i.cond \in Conds /\ i.offset \in Int
           /\ i.op = "long" => i.code \in {"first", "second", "exchange"} /\ i.offset \in Int
BY DEF ThumbOthers

(* The instructions on registers abbreviate instructions of ARM. *)
LEMMA OnRegistersForm ==
    ASSUME NEW i \in ThumbOnRegisters, HasArm(i)
    PROVE  Abbreviates(i, AsArm(i))
<1>1. CASE i.op = "shift"
    <2>1. PICK by : by = [form |-> "shift", rm |-> i.rs, kind |-> i.kind, amount |-> i.amount]
        OBVIOUS
    <2>2. by \in Operands
        BY <1>1, <2>1, OnRegistersFields, LowerIs DEF Operands
    <2>3. AsArm(i) = Data("MOV", i.rd, 0, by, TRUE)
        BY <1>1, <2>1 DEF AsArm
    <2>4. i.rd \in Regs /\ i.rd # 15 /\ 0 \in Regs
        BY <1>1, OnRegistersFields, LowerIs
    <2> QED
        BY <2>2, <2>3, <2>4, DataForm DEF Logics
<1>2. CASE i.op = "addSub"
    <2>1. By(i) \in Operands
        BY <1>2, OnRegistersFields, LowerIs, OperandForms DEF By
    <2>2. PICK code \in Sums : code = IF i.sub THEN "SUB" ELSE "ADD"
        BY DEF Sums
    <2>3. AsArm(i) = Data(code, i.rd, i.rs, By(i), TRUE)
        BY <1>2, <2>2 DEF AsArm
    <2>4. i.rd \in Regs /\ i.rd # 15 /\ i.rs \in Regs
        BY <1>2, OnRegistersFields, LowerIs
    <2> QED
        BY <2>1, <2>2, <2>3, <2>4, DataForm
<1>3. CASE i.op = "immediate"
    <2>1. Immediate(i.value) \in Operands /\ i.rd \in Regs /\ i.rd # 15 /\ i.code \in Sums \cup Logics
        BY <1>3, OnRegistersFields, LowerIs, OperandForms DEF Sums, Logics
    <2>2. AsArm(i) = Data(i.code, i.rd, i.rd, Immediate(i.value), TRUE)
        BY <1>3 DEF AsArm
    <2> QED
        BY <2>1, <2>2, DataForm
<1>4. CASE i.op = "alu"
    <2>1. i.rd \in Regs /\ i.rs \in Regs /\ i.rd # 15 /\ i.rd \in General /\ i.rs \in General
          /\ 0 \in Regs /\ 0 \in General
        BY <1>4, OnRegistersFields, LowerIs
    <2>2. CASE i.code \in Kinds
        <3>1. PICK by : by = [form |-> "reg", rm |-> i.rd, kind |-> i.code, rs |-> i.rs]
            OBVIOUS
        <3>2. by \in Operands
            BY <2>1, <2>2, <3>1 DEF Operands
        <3>3. AsArm(i) = Data("MOV", i.rd, 0, by, TRUE)
            BY <1>4, <2>2, <3>1 DEF AsArm, Kinds
        <3> QED
            BY <2>1, <3>2, <3>3, DataForm DEF Logics
    <2>3. CASE i.code = "NEG"
        <3>1. AsArm(i) = Data("RSB", i.rd, i.rs, Immediate(0), TRUE)
            BY <1>4, <2>3 DEF AsArm
        <3>2. Immediate(0) \in Operands
            BY ZeroIs, OperandForms
        <3> QED
            BY <2>1, <3>1, <3>2, DataForm DEF Sums
    <2>4. CASE i.code = "MUL"
        <3>1. PICK a : a = [op |-> "multiply", cond |-> "AL", add |-> FALSE, flags |-> TRUE,
                            rd |-> i.rd, rn |-> 0, rm |-> i.rd, rs |-> i.rs]
            OBVIOUS
        <3>2. AsArm(i) = a
            BY <1>4, <2>4, <3>1 DEF AsArm
        <3>3. a \in ArmProducts /\ a.op = "multiply"
            BY <2>1, <3>1 DEF ArmProducts, Conds
        <3> QED
            BY <3>2, <3>3 DEF Abbreviates, ArmInstructions, ArmGoesOn
    <2>5. CASE i.code \notin Kinds \cup {"NEG", "MUL"}
        <3>1. AsArm(i) = Data(i.code, i.rd, i.rd, Register(i.rs), TRUE)
            BY <1>4, <2>5 DEF AsArm, Kinds
        <3>2. Register(i.rs) \in Operands
            BY <2>1, OperandForms
        <3>3. i.code \in Sums \cup Logics
            BY <1>4, <2>5, OnRegistersFields DEF Sums, Logics
        <3> QED
            BY <2>1, <3>1, <3>2, <3>3, DataForm
    <2> QED
        BY <2>2, <2>3, <2>4, <2>5
<1>5. CASE i.op = "high"
    <2>1. i.rd \in Regs /\ i.rs \in Regs /\ i.code \in {"ADD", "CMP", "MOV", "BX"}
        BY <1>5, OnRegistersFields DEF HasArm
    <2>2. CASE i.code = "BX"
        <3>1. PICK a : a = [op |-> "branch", cond |-> "AL", code |-> "BX", rm |-> i.rs]
            OBVIOUS
        <3>2. AsArm(i) = a /\ ~ThumbGoesOn(i)
            BY <1>5, <2>2, <3>1 DEF AsArm, ThumbGoesOn
        <3>3. a \in ArmOthers /\ a.op = "branch"
            BY <2>1, <3>1 DEF ArmOthers, Conds
        <3> QED
            BY <3>2, <3>3 DEF Abbreviates, ArmInstructions
    <2>3. CASE i.code # "BX"
        <3>1. PICK flags \in BOOLEAN : flags = (i.code = "CMP")
            BY Zenon
        <3>2. AsArm(i) = Data(i.code, i.rd, i.rd, Register(i.rs), flags)
            BY <1>5, <2>3, <3>1 DEF AsArm
        <3>3. Register(i.rs) \in Operands /\ i.code \in Sums \cup Logics
            BY <2>1, <2>3, OperandForms DEF Sums, Logics
        <3>4. i.rd = 15 /\ flags => i.code \in Discards
            BY <3>1 DEF Discards
        <3>5. ThumbGoesOn(i) => i.rd # 15
            BY <1>5 DEF ThumbGoesOn
        <3> QED
            BY <2>1, <3>2, <3>3, <3>4, <3>5, DataForm
    <2> QED
        BY <2>2, <2>3
<1>6. CASE i.op = "stack"
    <2>1. PICK code \in Sums : code = IF i.sub THEN "SUB" ELSE "ADD"
        BY DEF Sums
    <2>2. PICK x \in Regs, flags \in BOOLEAN : x = 13 /\ flags = FALSE
        BY LowerIs
    <2>3. AsArm(i) = Data(code, x, x, Immediate(4 * i.value), flags)
        BY <1>6, <2>1, <2>2 DEF AsArm
    <2>4. Immediate(4 * i.value) \in Operands
        BY <1>6, OnRegistersFields, ScaledIs, OperandForms
    <2> QED
        BY <2>2, <2>3, <2>4, DataForm
<1>7. CASE i.op = "address"
    <2>1. AsArm(i) = Data("ADD", i.rd, i.rb, Immediate(4 * i.value), FALSE)
        BY <1>7 DEF AsArm
    <2>2. /\ Immediate(4 * i.value) \in Operands /\ i.rd \in Regs /\ i.rd # 15 /\ i.rb \in Regs
        BY <1>7, OnRegistersFields, ScaledIs, OperandForms, LowerIs
    <2> QED
        BY <2>1, <2>2, DataForm DEF Sums
<1> QED
    BY <1>1, <1>2, <1>3, <1>4, <1>5, <1>6, <1>7, OnRegistersFields

(* A block built from fields of their kind is one of ARM. *)
LEMMA BlockForm ==
    ASSUME NEW i, ThumbGoesOn(i) => ~Listed(15, i.list), NEW load \in BOOLEAN, NEW up \in BOOLEAN,
           NEW pre \in BOOLEAN, NEW rn \in General, i.list \in Seq(Regs),
           NEW a, a = Block(load, up, pre, rn, i.list)
    PROVE  Abbreviates(i, a)
<1>1. a \in ArmTransfers /\ a.op = "block" /\ a.list = i.list
    BY DEF Block, ArmTransfers, Conds
<1> QED
    BY <1>1 DEF Abbreviates, ArmInstructions, ArmGoesOn

(* A list of some registers is a list of registers, and names no other. *)
LEMMA ListIs ==
    ASSUME NEW set, set \subseteq Regs, NEW list \in Seq(set)
    PROVE  /\ list \in Seq(Regs)
           /\ \A x : x \notin set => ~Listed(x, list)
BY DEF Listed

(* The transfers abbreviate transfers of ARM. *)
LEMMA TransfersForm ==
    ASSUME NEW i \in ThumbTransfers, HasArm(i)
    PROVE  Abbreviates(i, AsArm(i))
<1>1. CASE i.op = "transfer"
    <2>1. PICK by : by = IF i.form = "imm" THEN Immediate(i.value * Scale(i.size)) ELSE Register(i.ro)
        OBVIOUS
    <2>2. by \in Operands
        <3>1. CASE i.form = "imm"
            <4>1. i.value * Scale(i.size) \in Word
                BY <1>1, ThumbTransferFields, ScaledIs DEF Scale, Sizes
            <4> QED
                BY <2>1, <3>1, <4>1, OperandForms
        <3>2. CASE i.form = "reg"
            BY <1>1, <2>1, <3>2, ThumbTransferFields, LowerIs, OperandForms
        <3> QED
            BY <1>1, <3>1, <3>2, ThumbTransferFields
    <2>3. i.rb \in Regs /\ i.rd \in Regs /\ i.rd \in General /\ i.rd # 15
        BY <1>1, ThumbTransferFields, LowerIs
    <2>4. CASE i.size = "half" \/ i.signed
        <3>1. PICK a : a = Extra(i, by)
            OBVIOUS
        <3>2. AsArm(i) = a
            BY <1>1, <2>1, <2>4, <3>1 DEF AsArm
        <3>3. i.size \in {"half", "byte"} /\ i.load \in BOOLEAN /\ i.signed \in BOOLEAN
            BY <1>1, <2>4, ThumbTransferFields DEF Sizes
        <3>4. a \in ArmTransfers /\ a.op = "extra"
            BY <2>2, <2>3, <3>1, <3>3 DEF Extra, ArmTransfers, Conds
        <3> QED
            BY <3>2, <3>4 DEF Abbreviates, ArmInstructions, ArmGoesOn
    <2>5. CASE ~(i.size = "half" \/ i.signed)
        <3>1. PICK a : a = Single(i, by)
            OBVIOUS
        <3>2. AsArm(i) = a
            BY <1>1, <2>1, <2>5, <3>1 DEF AsArm
        <3>3. i.load \in BOOLEAN
            BY <1>1, ThumbTransferFields
        <3>4. a \in ArmTransfers /\ a.op = "single" /\ a.rd = i.rd
            BY <2>2, <2>3, <3>1, <3>3 DEF Single, ArmTransfers, Conds
        <3> QED
            BY <2>3, <3>2, <3>4 DEF Abbreviates, ArmInstructions, ArmGoesOn
    <2> QED
        BY <2>4, <2>5
<1>2. CASE i.op = "several"
    <2>1. AsArm(i) = Block(i.load, TRUE, FALSE, i.rb, i.list)
        BY <1>2 DEF AsArm
    <2>2. i.list \in Seq(Lower) /\ i.load \in BOOLEAN /\ i.rb \in General
        BY <1>2, ThumbTransferFields, LowerIs
    <2>3. Lower \subseteq Regs /\ 15 \notin Lower
        BY LowerIs
    <2>4. i.list \in Seq(Regs) /\ ~Listed(15, i.list)
        BY <2>2, <2>3, ListIs
    <2> QED
        BY <2>1, <2>2, <2>4, BlockForm
<1>3. CASE i.op = "push"
    <2>1. AsArm(i) = Block(FALSE, FALSE, TRUE, 13, i.list)
        BY <1>3 DEF AsArm
    <2>2. i.list \in Seq(Lower \cup {14}) /\ 13 \in General
        BY <1>3, ThumbTransferFields, LowerIs
    <2>3. Lower \cup {14} \subseteq Regs /\ 15 \notin Lower \cup {14}
        BY LowerIs
    <2>4. i.list \in Seq(Regs) /\ ~Listed(15, i.list)
        BY <2>2, <2>3, ListIs
    <2> QED
        BY <2>1, <2>2, <2>4, BlockForm
<1>4. CASE i.op = "pop"
    <2>1. AsArm(i) = Block(TRUE, TRUE, FALSE, 13, i.list)
        BY <1>4 DEF AsArm
    <2>2. i.list \in Seq(Lower \cup {15}) /\ 13 \in General
        BY <1>4, ThumbTransferFields, LowerIs
    <2>3. Lower \cup {15} \subseteq Regs
        BY LowerIs
    <2>4. i.list \in Seq(Regs)
        BY <2>2, <2>3, ListIs
    <2>5. ThumbGoesOn(i) => ~Listed(15, i.list)
        BY <1>4 DEF ThumbGoesOn
    <2> QED
        BY <2>1, <2>2, <2>4, <2>5, BlockForm
<1> QED
    BY <1>1, <1>2, <1>3, <1>4, ThumbTransferFields

(* The conditional branch abbreviates one of ARM. *)
LEMMA JumpForm ==
    ASSUME NEW i \in ThumbOthers, HasArm(i)
    PROVE  Abbreviates(i, AsArm(i))
<1>1. i.op = "jump" /\ i.cond \in Conds /\ i.offset \in Int
    BY ThumbOtherFields DEF HasArm
<1>2. PICK a : a = [op |-> "branch", cond |-> i.cond, code |-> "B", offset |-> i.offset]
    OBVIOUS
<1>3. AsArm(i) = a /\ ~ThumbGoesOn(i)
    BY <1>1, <1>2 DEF AsArm, ThumbGoesOn
<1>4. a \in ArmOthers /\ a.op = "branch"
    BY <1>1, <1>2 DEF ArmOthers
<1> QED
    BY <1>3, <1>4 DEF Abbreviates, ArmInstructions

(* Every instruction of Thumb with a long form abbreviates one of ARM. *)
LEMMA Forms ==
    ASSUME NEW i \in ThumbInstructions, HasArm(i)
    PROVE  Abbreviates(i, AsArm(i))
BY OnRegistersForm, TransfersForm, JumpForm DEF ThumbInstructions

(* A register read with nothing ahead of it is itself. *)
LEMMA Read0 == ASSUME NEW s \in Cpus, NEW x \in Regs PROVE Read15(s, x, 0) = s.r[x]
<1>1. s.r[15] \in Word /\ s.r[15] + 0 = s.r[15]
    BY RegIs, LowerIs
<1>2. Wrap(s.r[15]) = s.r[15]
    BY <1>1, WrapIs, SignedIs
<1> QED
    BY <1>1, <1>2 DEF Read15

(* The carry set to what it is changes nothing. *)
LEMMA KeptC ==
    ASSUME NEW s \in Cpus, NEW v
    PROVE  SetC(SetNZ(s, v), s.cpsr.c) = SetNZ(s, v)
<1>1. PICK n \in BOOLEAN, z \in BOOLEAN : n = TopBit(v) /\ z = (v = 0)
    <2>1. TopBit(v) \in BOOLEAN /\ (v = 0) \in BOOLEAN
        BY BitIs
    <2> QED
        BY <2>1, Zenon
<1>2. SetNZ(s, v) = [s EXCEPT !.cpsr.n = n, !.cpsr.z = z]
    BY <1>1, Zenon DEF SetNZ
<1>3. [[s EXCEPT !.cpsr.n = n, !.cpsr.z = z] EXCEPT !.cpsr.c = s.cpsr.c]
          = [s EXCEPT !.cpsr.n = n, !.cpsr.z = z]
    BY DEF Cpus, Statuses
<1> QED
    BY <1>2, <1>3, Zenon DEF SetC

(* A register or an immediate as an operand, the carry as it was. *)
LEMMA OperandsAre ==
    ASSUME NEW s \in Cpus
    PROVE  /\ \A x \in Regs : Operand(s, Register(x)) = Shifted(s.r[x], s.cpsr.c)
           /\ \A n \in Word : Operand(s, Immediate(n)) = Shifted(n, s.cpsr.c)
BY DEF Operand, Register, Immediate, ShiftImmediate

(* What an instruction of ARM does that is no branch, its operand shifted. *)
Computed(s, i, v) ==
    LET sum == SumOf(i.code, s.r[i.rn], v.value, s.cpsr.c)
        value == IF i.code \in Sums THEN sum.value ELSE Logic(i.code, s.r[i.rn], v.value)
        put == IF i.code \in Discards THEN s ELSE SetReg(s, i.rd, value)
    IN  IF ~i.flags THEN put
        ELSE IF i.code \in Sums THEN SetSum(put, sum)
        ELSE SetC(SetNZ(put, value), v.carry)

(* What has no condition is executed. *)
LEMMA Always == \A f : Passes(f, "AL")
BY DEF Passes

Computes(i) ==
    /\ i.op = "data" /\ i.cond = "AL" /\ i.rd \in Regs /\ i.rn \in Regs /\ i.by.form # "reg"
    /\ i.rd # 15 \/ i.code \in Discards

(* A data processing instruction that is no branch computes its operand. *)
LEMMA ComputedIs ==
    ASSUME NEW s \in Cpus, NEW i, Computes(i)
    PROVE  ExecuteArm(s, i) = Computed(s, i, Operand(s, i.by))
<1>0. /\ i.op = "data" /\ i.cond = "AL" /\ i.rd \in Regs /\ i.rn \in Regs /\ i.by.form # "reg"
      /\ i.rd # 15 \/ i.code \in Discards
    BY DEF Computes
<1>1. PICK v : v = Operand(s, i.by)
    OBVIOUS
<1>3. ExecuteArm(s, i) = DataProcessing(s, i)
    BY <1>0, Always DEF ExecuteArm
<1>4. PICK a : a = s.r[i.rn] /\ a = Read15(s, i.rn, IF i.by.form = "reg" THEN 4 ELSE 0)
    BY <1>0, Read0
<1>6. PICK sum : sum = SumOf(i.code, a, v.value, s.cpsr.c)
    OBVIOUS
<1>7. PICK value : value = IF i.code \in Sums THEN sum.value ELSE Logic(i.code, a, v.value)
    OBVIOUS
<1>8. PICK put : put = IF i.code \in Discards THEN s ELSE SetReg(s, i.rd, value)
    OBVIOUS
<1>9. DataProcessing(s, i) =
        CASE i.rd = 15 /\ i.code \notin Discards ->
                Branch(IF i.flags THEN WriteStatus(s, s.spsr) ELSE s, value)
          [] (i.rd # 15 \/ i.code \in Discards) /\ i.flags ->
                IF i.code \in Sums THEN SetSum(put, sum) ELSE SetC(SetNZ(put, value), v.carry)
          [] OTHER -> put
    BY <1>1, <1>4, <1>6, <1>7, <1>8, Zenon DEF DataProcessing
<1>10. Computed(s, i, v) =
           IF ~i.flags THEN put
           ELSE IF i.code \in Sums THEN SetSum(put, sum) ELSE SetC(SetNZ(put, value), v.carry)
    BY <1>4, <1>6, <1>7, <1>8, Zenon DEF Computed
<1> QED
    BY <1>0, <1>1, <1>3, <1>9, <1>10

(* Neither form of operand shifts by a register. *)
LEMMA FormsAre ==
    /\ \A x : Register(x).form # "reg"
    /\ \A n : Immediate(n).form # "reg"
BY DEF Register, Immediate

(* One whose operand is a register. *)
LEMMA OnRegister ==
    ASSUME NEW s \in Cpus, NEW i, Computes(i), NEW x \in Regs, i.by = Register(x),
           NEW v, v = Shifted(s.r[x], s.cpsr.c)
    PROVE  ExecuteArm(s, i) = Computed(s, i, v) /\ v.value = s.r[x] /\ v.carry = s.cpsr.c
<1>1. Operand(s, i.by) = v
    BY OperandsAre
<1>2. v.value = s.r[x] /\ v.carry = s.cpsr.c
    BY RegIs, FlagIs, ShiftedIs
<1> QED
    BY <1>1, <1>2, ComputedIs

(* One whose operand is in the instruction. *)
LEMMA OnImmediate ==
    ASSUME NEW s \in Cpus, NEW i, Computes(i), NEW n \in Word, i.by = Immediate(n),
           NEW v, v = Shifted(n, s.cpsr.c)
    PROVE  ExecuteArm(s, i) = Computed(s, i, v) /\ v.value = n /\ v.carry = s.cpsr.c
<1>1. Operand(s, i.by) = v
    BY OperandsAre
<1>2. v.value = n /\ v.carry = s.cpsr.c
    BY FlagIs, ShiftedIs
<1> QED
    BY <1>1, <1>2, ComputedIs

(* The shifts of Thumb are moves of ARM. *)
LEMMA ShiftSame ==
    ASSUME NEW s \in Cpus, NEW i, i.op = "shift", i.kind \in Kinds, i.rd \in Lower, i.rs \in Lower,
           i.amount \in Amounts
    PROVE  ExecuteThumb(s, i) = ExecuteArm(s, AsArm(i))
<1>1. PICK by : by = [form |-> "shift", rm |-> i.rs, kind |-> i.kind, amount |-> i.amount]
    OBVIOUS
<1>2. PICK v : v = ShiftImmediate(i.kind, s.r[i.rs], i.amount, s.cpsr.c)
    OBVIOUS
<1>3. Operand(s, by) = v /\ by.form # "reg"
    BY <1>1, <1>2 DEF Operand
<1>4. i.rs \in Regs /\ i.rd \in Regs /\ i.rd # 15 /\ 0 \in Regs
    BY LowerIs
<1>5. PICK a : a = Data("MOV", i.rd, 0, by, TRUE) /\ a = AsArm(i)
    BY <1>1 DEF AsArm
<1>6. Computes(a) /\ a.by = by /\ a.code = "MOV" /\ a.rd = i.rd /\ a.flags
    BY <1>3, <1>4, <1>5 DEF Data, Computes
<1>7. ExecuteArm(s, a) = Computed(s, a, v)
    BY <1>3, <1>6, ComputedIs
<1>8. Computed(s, a, v) = SetC(SetNZ(SetReg(s, i.rd, v.value), v.value), v.carry)
    BY <1>6 DEF Computed, Sums, Discards, Logic
<1>9. ExecuteThumb(s, i) = SetC(SetNZ(SetReg(s, i.rd, v.value), v.value), v.carry)
    BY <1>2 DEF ExecuteThumb, ThumbShift, SetLogic
<1> QED
    BY <1>5, <1>7, <1>8, <1>9

(* Its sums and differences of three operands are those of ARM. *)
LEMMA AddSubSame ==
    ASSUME NEW s \in Cpus, NEW i, i.op = "addSub", i.form \in {"imm", "reg"},
           i.rd \in Lower, i.rs \in Lower, i.rn \in Lower, i.value \in Word
    PROVE  ExecuteThumb(s, i) = ExecuteArm(s, AsArm(i))
<1>1. PICK b : b = IF i.form = "imm" THEN i.value ELSE s.r[i.rn]
    OBVIOUS
<1>2. PICK code \in {"SUB", "ADD"} : code = IF i.sub THEN "SUB" ELSE "ADD"
    OBVIOUS
<1>3. i.rs \in Regs /\ i.rd \in Regs /\ i.rd # 15 /\ i.rn \in Regs
    BY LowerIs
<1>4. PICK a : a = Data(code, i.rd, i.rs, By(i), TRUE) /\ a = AsArm(i)
    BY <1>2 DEF AsArm
<1>5. By(i).form # "reg"
    BY DEF By, Register, Immediate
<1>6. Computes(a) /\ a.by = By(i) /\ a.code = code /\ a.rd = i.rd /\ a.rn = i.rs /\ a.flags
    BY <1>3, <1>4, <1>5 DEF Data, Computes
<1>7. PICK v : ExecuteArm(s, a) = Computed(s, a, v) /\ v.value = b
    <2>1. CASE i.form = "imm"
        BY <1>1, <1>6, <2>1, OnImmediate DEF By
    <2>2. CASE i.form = "reg"
        BY <1>1, <1>3, <1>6, <2>2, OnRegister DEF By
    <2> QED
        BY <2>1, <2>2
<1>8. PICK sum : sum = SumOf(code, s.r[i.rs], b, s.cpsr.c)
    OBVIOUS
<1>9. Computed(s, a, v) = SetSum(SetReg(s, i.rd, sum.value), sum)
    BY <1>2, <1>6, <1>7, <1>8 DEF Computed, Sums, Discards
<1>10. sum = IF i.sub THEN SubWithBorrow(s.r[i.rs], b, TRUE) ELSE AddWithCarry(s.r[i.rs], b, FALSE)
    BY <1>2, <1>8 DEF SumOf
<1>11. ExecuteThumb(s, i) = SetSum(SetReg(s, i.rd, sum.value), sum)
    BY <1>1, <1>10 DEF ExecuteThumb, ThumbAddSub
<1> QED
    BY <1>4, <1>7, <1>9, <1>11

(* A move, or what is looked at bit by bit, leaves the carry as it is. *)
LEMMA LogicKeepsC ==
    ASSUME NEW s \in Cpus, NEW x \in General, NEW v \in Word
    PROVE  SetC(SetNZ(SetReg(s, x, v), v), s.cpsr.c) = SetNZ(SetReg(s, x, v), v)
<1>1. PICK d : d = SetReg(s, x, v)
    OBVIOUS
<1>2. HasSet(s, x, v, d)
    BY <1>1, SetRegIs, LowerIs
<1>3. d \in Cpus /\ d.cpsr = s.cpsr
    BY <1>2 DEF HasSet, Keeps
<1>4. SetC(SetNZ(d, v), d.cpsr.c) = SetNZ(d, v)
    BY <1>3, KeptC
<1> QED
    BY <1>1, <1>3, <1>4

(* So are its operations on eight bits in the instruction. *)
LEMMA ImmediateSame ==
    ASSUME NEW s \in Cpus, NEW i, i.op = "immediate", i.code \in {"MOV", "CMP", "ADD", "SUB"},
           i.rd \in Lower, i.value \in Word
    PROVE  ExecuteThumb(s, i) = ExecuteArm(s, AsArm(i))
<1>1. i.rd \in Regs /\ i.rd # 15 /\ i.rd \in General
    BY LowerIs
<1>2. PICK a : a = Data(i.code, i.rd, i.rd, Immediate(i.value), TRUE) /\ a = AsArm(i)
    BY DEF AsArm
<1>3. /\ Computes(a) /\ a.by = Immediate(i.value) /\ a.code = i.code /\ a.rd = i.rd
      /\ a.rn = i.rd /\ a.flags
    BY <1>1, <1>2, FormsAre DEF Data, Computes
<1>4. PICK v : ExecuteArm(s, a) = Computed(s, a, v) /\ v.value = i.value /\ v.carry = s.cpsr.c
    BY <1>3, OnImmediate
<1>5. ExecuteThumb(s, i) = ThumbImmediate(s, i)
    BY DEF ExecuteThumb
<1>6. CASE i.code = "MOV"
    <2>1. Computed(s, a, v) = SetC(SetNZ(SetReg(s, i.rd, i.value), i.value), s.cpsr.c)
        BY <1>3, <1>4, <1>6 DEF Computed, Sums, Discards, Logic
    <2>2. ThumbImmediate(s, i) = SetNZ(SetReg(s, i.rd, i.value), i.value)
        BY <1>6 DEF ThumbImmediate, SetLogic
    <2> QED
        BY <1>1, <1>2, <1>4, <1>5, <2>1, <2>2, LogicKeepsC
<1>7. CASE i.code = "CMP"
    <2>1. PICK sum : sum = SubWithBorrow(s.r[i.rd], i.value, TRUE)
        OBVIOUS
    <2>2. Computed(s, a, v) = SetSum(s, sum)
        BY <1>3, <1>4, <1>7, <2>1 DEF Computed, Sums, Discards, SumOf
    <2>3. ThumbImmediate(s, i) = SetSum(s, sum)
        BY <1>7, <2>1 DEF ThumbImmediate
    <2> QED
        BY <1>2, <1>4, <1>5, <2>2, <2>3
<1>8. CASE i.code \in {"ADD", "SUB"}
    <2>1. PICK sum : sum = IF i.code = "ADD" THEN AddWithCarry(s.r[i.rd], i.value, FALSE)
                           ELSE SubWithBorrow(s.r[i.rd], i.value, TRUE)
        OBVIOUS
    <2>2. Computed(s, a, v) = SetSum(SetReg(s, i.rd, sum.value), sum)
        BY <1>3, <1>4, <1>8, <2>1 DEF Computed, Sums, Discards, SumOf
    <2>3. ThumbImmediate(s, i) = SetSum(SetReg(s, i.rd, sum.value), sum)
        BY <1>8, <2>1 DEF ThumbImmediate
    <2> QED
        BY <1>2, <1>4, <1>5, <2>2, <2>3
<1> QED
    BY <1>6, <1>7, <1>8

(* A sum without carry is the sum. *)
LEMMA AddPlain ==
    ASSUME NEW a \in Word, NEW b \in Word
    PROVE  AddWithCarry(a, b, FALSE).value = Wrap(a + b)
<1>1. AddWithCarry(a, b, FALSE).value = Wrap(a + b + ToInt(FALSE))
    BY AddIs, Zenon
<1>2. a + b + ToInt(FALSE) = a + b
    BY SignedIs DEF ToInt
<1> QED
    BY <1>1, <1>2, Zenon

(* Its shifts by a register are moves of ARM. *)
LEMMA AluShiftSame ==
    ASSUME NEW s \in Cpus, NEW i, i.op = "alu", i.rd \in Lower, i.rs \in Lower, i.code \in Kinds
    PROVE  ExecuteThumb(s, i) = ExecuteArm(s, AsArm(i))
<1>1. PICK by : by = [form |-> "reg", rm |-> i.rd, kind |-> i.code, rs |-> i.rs]
    OBVIOUS
<1>2. PICK v : v = ShiftRegister(i.code, s.r[i.rd], s.r[i.rs], s.cpsr.c)
    OBVIOUS
<1>3. i.rs # 15 /\ i.rd \in Regs /\ i.rd # 15
    BY LowerIs
<1>4. Operand(s, by) = v
    BY <1>1, <1>2, <1>3 DEF Operand, Read15
<1>5. PICK a : a = Data("MOV", i.rd, 0, by, TRUE) /\ a = AsArm(i)
    BY <1>1 DEF AsArm, Kinds
<1>6. /\ a.op = "data" /\ a.cond = "AL" /\ a.by = by /\ a.code = "MOV" /\ a.rd = i.rd /\ a.flags
    BY <1>5 DEF Data
<1>7. ExecuteArm(s, a) = DataProcessing(s, a)
    BY <1>6, Always DEF ExecuteArm
<1>8. DataProcessing(s, a) = SetC(SetNZ(SetReg(s, i.rd, v.value), v.value), v.carry)
    BY <1>3, <1>4, <1>6 DEF DataProcessing, Sums, Discards, Logic
<1>9. ExecuteThumb(s, i) = SetC(SetNZ(SetReg(s, i.rd, v.value), v.value), v.carry)
    BY <1>2 DEF ExecuteThumb, ThumbAlu, SetLogic, Kinds
<1> QED
    BY <1>5, <1>7, <1>8, <1>9

(* Its product is the one of ARM, which adds nothing. *)
LEMMA MulSame ==
    ASSUME NEW s \in Cpus, NEW i, i.op = "alu", i.rd \in Lower, i.rs \in Lower, i.code = "MUL"
    PROVE  ExecuteThumb(s, i) = ExecuteArm(s, AsArm(i))
<1>1. PICK a : /\ a = [op |-> "multiply", cond |-> "AL", add |-> FALSE, flags |-> TRUE,
                       rd |-> i.rd, rn |-> 0, rm |-> i.rd, rs |-> i.rs]
               /\ a = AsArm(i)
    BY DEF AsArm
<1>2. a.op = "multiply" /\ a.cond = "AL" /\ ~a.add /\ a.flags /\ a.rd = i.rd /\ a.rm = i.rd /\ a.rs = i.rs
    BY <1>1
<1>3. PICK p \in Int : p = s.r[i.rd] * s.r[i.rs]
    <2>1. PICK x \in Int, y \in Int : x = s.r[i.rd] /\ y = s.r[i.rs]
        BY LowerIs, RegIs
    <2>2. x * y \in Int
        BY SMT
    <2> QED
        BY <2>1, <2>2
<1>4. p + 0 = p
    OBVIOUS
<1>5. PICK v : v = Wrap(p)
    OBVIOUS
<1>6. ExecuteArm(s, a) = Multiply(s, a)
    BY <1>2, Always DEF ExecuteArm
<1>7. Multiply(s, a) = SetNZ(SetReg(s, i.rd, v), v)
    BY <1>2, <1>3, <1>4, <1>5 DEF Multiply
<1>8. ExecuteThumb(s, i) = SetNZ(SetReg(s, i.rd, v), v)
    BY <1>3, <1>5 DEF ExecuteThumb, ThumbAlu, SetLogic
<1> QED
    BY <1>1, <1>6, <1>7, <1>8

(* Its negation is a difference from zero. *)
LEMMA NegSame ==
    ASSUME NEW s \in Cpus, NEW i, i.op = "alu", i.rd \in Lower, i.rs \in Lower, i.code = "NEG"
    PROVE  ExecuteThumb(s, i) = ExecuteArm(s, AsArm(i))
<1>1. i.rd \in Regs /\ i.rd # 15 /\ i.rs \in Regs
    BY LowerIs
<1>2. PICK a : a = Data("RSB", i.rd, i.rs, Immediate(0), TRUE) /\ a = AsArm(i)
    BY DEF AsArm
<1>3. /\ Computes(a) /\ a.by = Immediate(0) /\ a.code = "RSB" /\ a.rd = i.rd /\ a.rn = i.rs /\ a.flags
    BY <1>1, <1>2, FormsAre DEF Data, Computes
<1>4. PICK v : ExecuteArm(s, a) = Computed(s, a, v) /\ v.value = 0
    BY <1>3, ZeroIs, OnImmediate
<1>5. PICK sum : sum = SubWithBorrow(0, s.r[i.rs], TRUE)
    OBVIOUS
<1>6. Computed(s, a, v) = SetSum(SetReg(s, i.rd, sum.value), sum)
    BY <1>3, <1>4, <1>5 DEF Computed, Sums, Discards, SumOf
<1>7. ExecuteThumb(s, i) = SetSum(SetReg(s, i.rd, sum.value), sum)
    BY <1>5 DEF ExecuteThumb, ThumbAlu
<1> QED
    BY <1>2, <1>4, <1>6, <1>7

(* Each of its operations on two registers is one of ARM. *)
LEMMA AluSame ==
    ASSUME NEW s \in Cpus, NEW i, i.op = "alu", i.rd \in Lower, i.rs \in Lower,
           i.code \in {"AND", "EOR", "ADC", "SBC", "TST", "CMP", "CMN", "ORR", "BIC", "MVN"}
    PROVE  ExecuteThumb(s, i) = ExecuteArm(s, AsArm(i))
<1>1. i.rd \in Regs /\ i.rd # 15 /\ i.rs \in Regs /\ i.rd \in General
    BY LowerIs
<1>2. PICK a : a = Data(i.code, i.rd, i.rd, Register(i.rs), TRUE) /\ a = AsArm(i)
    BY DEF AsArm
<1>3. /\ Computes(a) /\ a.by = Register(i.rs) /\ a.code = i.code /\ a.rd = i.rd /\ a.rn = i.rd
      /\ a.flags
    BY <1>1, <1>2, FormsAre DEF Data, Computes
<1>4. PICK v : ExecuteArm(s, a) = Computed(s, a, v) /\ v.value = s.r[i.rs] /\ v.carry = s.cpsr.c
    BY <1>1, <1>3, OnRegister
<1>5. PICK sum : sum = SumOf(i.code, s.r[i.rd], s.r[i.rs], s.cpsr.c)
    OBVIOUS
<1>6. PICK w : w = Logic(i.code, s.r[i.rd], s.r[i.rs])
    OBVIOUS
<1>7. ExecuteThumb(s, i) = ThumbAlu(s, i)
    BY DEF ExecuteThumb
<1>8. CASE i.code \in {"ADC", "SBC"}
    <2>1. Computed(s, a, v) = SetSum(SetReg(s, i.rd, sum.value), sum)
        BY <1>3, <1>4, <1>5, <1>8 DEF Computed, Sums, Discards
    <2>2. ThumbAlu(s, i) = SetSum(SetReg(s, i.rd, sum.value), sum)
        BY <1>5, <1>8 DEF ThumbAlu, SumOf
    <2> QED
        BY <1>2, <1>4, <1>7, <2>1, <2>2
<1>9. CASE i.code \in {"CMP", "CMN"}
    <2>1. Computed(s, a, v) = SetSum(s, sum)
        BY <1>3, <1>4, <1>5, <1>9 DEF Computed, Sums, Discards
    <2>2. ThumbAlu(s, i) = SetSum(s, sum)
        BY <1>5, <1>9 DEF ThumbAlu, SumOf
    <2> QED
        BY <1>2, <1>4, <1>7, <2>1, <2>2
<1>10. CASE i.code = "TST"
    <2>1. Computed(s, a, v) = SetC(SetNZ(s, w), s.cpsr.c)
        BY <1>3, <1>4, <1>6, <1>10 DEF Computed, Sums, Discards
    <2>2. ThumbAlu(s, i) = SetNZ(s, w)
        BY <1>6, <1>10 DEF ThumbAlu
    <2> QED
        BY <1>2, <1>4, <1>7, <2>1, <2>2, KeptC
<1>11. CASE i.code \in {"AND", "EOR", "ORR", "BIC", "MVN"}
    <2>1. Computed(s, a, v) = SetC(SetNZ(SetReg(s, i.rd, w), w), s.cpsr.c)
        BY <1>3, <1>4, <1>6, <1>11 DEF Computed, Sums, Discards
    <2>2. ThumbAlu(s, i) = SetNZ(SetReg(s, i.rd, w), w)
        BY <1>6, <1>11 DEF ThumbAlu, SetLogic
    <2>3. w \in Word
        BY <1>1, <1>6, <1>11, RegIs, LogicIs DEF Logics
    <2> QED
        BY <1>1, <1>2, <1>4, <1>7, <2>1, <2>2, <2>3, LogicKeepsC
<1> QED
    BY <1>8, <1>9, <1>10, <1>11

(* So is each of those on the high registers, and the branch to one. *)
LEMMA HighSame ==
    ASSUME NEW s \in Cpus, NEW i, i.op = "high", i.rd \in Regs, i.rs \in Regs,
           i.code \in {"ADD", "CMP", "MOV", "BX"}
    PROVE  ExecuteThumb(s, i) = ExecuteArm(s, AsArm(i))
<1>1. ExecuteThumb(s, i) = ThumbHighRegister(s, i)
    BY DEF ExecuteThumb
<1>2. CASE i.code = "BX"
    <2>1. PICK a : /\ a = [op |-> "branch", cond |-> "AL", code |-> "BX", rm |-> i.rs]
                   /\ a = AsArm(i)
        BY <1>2 DEF AsArm
    <2>2. ExecuteArm(s, a) = BranchExchange(s, s.r[i.rs])
        BY <2>1, Always DEF ExecuteArm, ArmBranch
    <2>3. ThumbHighRegister(s, i) = BranchExchange(s, s.r[i.rs])
        BY <1>2 DEF ThumbHighRegister
    <2> QED
        BY <1>1, <2>1, <2>2, <2>3
<1>3. CASE i.code = "CMP"
    <2>1. PICK a : a = Data("CMP", i.rd, i.rd, Register(i.rs), TRUE) /\ a = AsArm(i)
        BY <1>3 DEF AsArm
    <2>2. /\ Computes(a) /\ a.by = Register(i.rs) /\ a.code = "CMP" /\ a.rd = i.rd /\ a.rn = i.rd
          /\ a.flags
        BY <2>1, FormsAre DEF Data, Computes, Discards
    <2>3. PICK v : ExecuteArm(s, a) = Computed(s, a, v) /\ v.value = s.r[i.rs]
        BY <2>2, OnRegister
    <2>4. PICK sum : sum = SubWithBorrow(s.r[i.rd], s.r[i.rs], TRUE)
        OBVIOUS
    <2>5. Computed(s, a, v) = SetSum(s, sum)
        BY <2>2, <2>3, <2>4 DEF Computed, Sums, Discards, SumOf
    <2>6. ThumbHighRegister(s, i) = SetSum(s, sum)
        BY <1>3, <2>4 DEF ThumbHighRegister
    <2> QED
        BY <1>1, <2>1, <2>3, <2>5, <2>6
<1>4. CASE i.code \in {"ADD", "MOV"}
    <2>1. PICK a : a = Data(i.code, i.rd, i.rd, Register(i.rs), FALSE) /\ a = AsArm(i)
        BY <1>4 DEF AsArm
    <2>2. /\ a.op = "data" /\ a.cond = "AL" /\ a.by = Register(i.rs) /\ a.code = i.code /\ a.rd = i.rd
          /\ a.rn = i.rd /\ ~a.flags
        BY <2>1 DEF Data
    <2>3. PICK v : v = Operand(s, a.by) /\ v.value = s.r[i.rs]
        BY <2>2, OperandsAre, RegIs, FlagIs, ShiftedIs
    <2>4. PICK w : w = IF i.code = "ADD" THEN Wrap(s.r[i.rd] + s.r[i.rs]) ELSE s.r[i.rs]
        OBVIOUS
    <2>5. s.r[i.rd] = Read15(s, a.rn, IF a.by.form = "reg" THEN 4 ELSE 0)
        BY <2>2, FormsAre, Read0
    <2>6. w = IF a.code \in Sums THEN SumOf(a.code, s.r[i.rd], v.value, s.cpsr.c).value
              ELSE Logic(a.code, s.r[i.rd], v.value)
        <3>1. CASE i.code = "ADD"
            <4>2. AddWithCarry(s.r[i.rd], s.r[i.rs], FALSE).value = Wrap(s.r[i.rd] + s.r[i.rs])
                BY RegIs, AddPlain, Zenon
            <4> QED
                BY <2>2, <2>3, <2>4, <3>1, <4>2 DEF Sums, SumOf
        <3>2. CASE i.code = "MOV"
            BY <2>2, <2>3, <2>4, <3>2 DEF Sums, Logic
        <3> QED
            BY <1>4, <3>1, <3>2
    <2>7. ExecuteArm(s, a) = DataProcessing(s, a)
        BY <2>2, Always DEF ExecuteArm
    <2>8. a.code \notin Discards
        BY <1>4, <2>2 DEF Discards
    <2>9. DataProcessing(s, a) = IF i.rd = 15 THEN Branch(s, w) ELSE SetReg(s, i.rd, w)
        BY <2>2, <2>3, <2>5, <2>6, <2>8 DEF DataProcessing
    <2>10. ThumbHighRegister(s, i) = IF i.rd = 15 THEN Branch(s, w) ELSE SetReg(s, i.rd, w)
        BY <1>4, <2>4 DEF ThumbHighRegister
    <2> QED
        BY <1>1, <2>1, <2>7, <2>9, <2>10
<1> QED
    BY <1>2, <1>3, <1>4

(* The stack pointer is moved as ARM moves it. *)
LEMMA StackSame ==
    ASSUME NEW s \in Cpus, NEW i, i.op = "stack", i.value \in Scaled
    PROVE  ExecuteThumb(s, i) = ExecuteArm(s, AsArm(i))
<1>1. PICK n \in Word : n = 4 * i.value
    BY ScaledIs
<1>2. PICK code \in {"SUB", "ADD"} : code = IF i.sub THEN "SUB" ELSE "ADD"
    OBVIOUS
<1>3. 13 \in Regs /\ 13 # 15
    BY LowerIs
<1>4. PICK a : a = Data(code, 13, 13, Immediate(n), FALSE) /\ a = AsArm(i)
    BY <1>1, <1>2 DEF AsArm
<1>5. /\ Computes(a) /\ a.by = Immediate(n) /\ a.code = code /\ a.rd = 13 /\ a.rn = 13 /\ ~a.flags
    BY <1>3, <1>4, FormsAre DEF Data, Computes
<1>6. PICK v : ExecuteArm(s, a) = Computed(s, a, v) /\ v.value = n
    BY <1>5, OnImmediate
<1>7. PICK w : w = Wrap(IF i.sub THEN s.r[13] - 4 * i.value ELSE s.r[13] + 4 * i.value)
    OBVIOUS
<1>8. SumOf(code, s.r[13], n, s.cpsr.c).value = w
    <2>2. AddWithCarry(s.r[13], n, FALSE).value = Wrap(s.r[13] + n)
        BY <1>3, RegIs, AddPlain, Zenon
    <2>3. SubWithBorrow(s.r[13], n, TRUE).value = Wrap(s.r[13] - n)
        BY <1>3, RegIs, SubIs
    <2> QED
        BY <1>1, <1>2, <1>7, <2>2, <2>3 DEF SumOf
<1>9. Computed(s, a, v) = SetReg(s, 13, w)
    BY <1>2, <1>5, <1>6, <1>8 DEF Computed, Sums, Discards
<1>10. SetReg(s, 13, w) = [s EXCEPT !.r[13] = w]
    <2>1. PICK b \in BOOLEAN : b = (s.branched \/ 13 = 15) /\ b = s.branched
        <3>1. s.branched \in BOOLEAN
            BY DEF Cpus
        <3>2. s.branched = (s.branched \/ 13 = 15)
            BY <3>1
        <3> QED
            BY <3>1, <3>2, Zenon
    <2>2. SetReg(s, 13, w) = [s EXCEPT !.r[13] = w, !.branched = b]
        BY <2>1, Zenon DEF SetReg
    <2>3. [s EXCEPT !.r[13] = w, !.branched = b] = [s EXCEPT !.r[13] = w]
        BY <2>1 DEF Cpus
    <2> QED
        BY <2>2, <2>3, Zenon
<1>11. ExecuteThumb(s, i) = [s EXCEPT !.r[13] = w]
    BY <1>3, <1>7 DEF ExecuteThumb, ThumbMoveStack, Cpus
<1> QED
    BY <1>4, <1>6, <1>9, <1>10, <1>11

(* An address in the stack is a sum. *)
LEMMA AddressSame ==
    ASSUME NEW s \in Cpus, NEW i, i.op = "address", i.rd \in Lower, i.rb = 13, i.value \in Scaled
    PROVE  ExecuteThumb(s, i) = ExecuteArm(s, AsArm(i))
<1>1. PICK n \in Word : n = 4 * i.value
    BY ScaledIs
<1>3. 13 \in Regs /\ i.rd \in Regs /\ i.rd # 15
    BY LowerIs
<1>4. PICK a : a = Data("ADD", i.rd, 13, Immediate(n), FALSE) /\ a = AsArm(i)
    BY <1>1 DEF AsArm
<1>5. /\ Computes(a) /\ a.by = Immediate(n) /\ a.code = "ADD" /\ a.rd = i.rd /\ a.rn = 13 /\ ~a.flags
    BY <1>3, <1>4, FormsAre DEF Data, Computes
<1>6. PICK v : ExecuteArm(s, a) = Computed(s, a, v) /\ v.value = n
    BY <1>5, OnImmediate
<1>8. AddWithCarry(s.r[13], n, FALSE).value = Wrap(s.r[13] + n)
    BY <1>3, RegIs, AddPlain, Zenon
<1>9. Computed(s, a, v) = SetReg(s, i.rd, Wrap(s.r[13] + n))
    BY <1>5, <1>6, <1>8 DEF Computed, Sums, Discards, SumOf
<1>10. ExecuteThumb(s, i) = SetReg(s, i.rd, Wrap(s.r[13] + n))
    BY <1>1 DEF ExecuteThumb, ThumbSetAddress
<1> QED
    BY <1>4, <1>6, <1>9, <1>10

TransferFieldsOf(i) ==
    /\ i.op = "transfer" /\ i.form \in {"imm", "reg"} /\ i.load \in BOOLEAN /\ i.size \in Sizes
    /\ i.signed \in BOOLEAN /\ i.rd \in Lower /\ i.rb \in Lower \cup {13}
    /\ i.value \in Scaled /\ (i.signed => i.load /\ i.size # "word")
    /\ i.form = "reg" => i.rb \in Lower /\ i.ro \in Lower

(* The offset ARM finds is the one Thumb adds. *)
LEMMA OffsetSame ==
    ASSUME NEW s \in Cpus, NEW i, TransferFieldsOf(i), NEW by,
           by = IF i.form = "imm" THEN Immediate(i.value * Scale(i.size)) ELSE Register(i.ro)
    PROVE  /\ Operand(s, by).value \in Word
           /\ ThumbAddress(s, i) = Wrap(s.r[i.rb] + Operand(s, by).value)
<1>1. CASE i.form = "imm"
    <2>1. PICK n \in Word : n = i.value * Scale(i.size)
        BY ScaledIs DEF Scale, Sizes, TransferFieldsOf
    <2>2. Operand(s, by) = Shifted(n, s.cpsr.c)
        BY <1>1, <2>1, OperandsAre
    <2>3. Operand(s, by).value = n
        BY <2>2, FlagIs, ShiftedIs
    <2>4. i.rb # 15
        BY LowerIs DEF TransferFieldsOf
    <2>5. ThumbAddress(s, i) = Wrap(s.r[i.rb] + i.value * Scale(i.size))
        BY <1>1, <2>4 DEF ThumbAddress, Scale
    <2> QED
        BY <2>1, <2>3, <2>5
<1>2. CASE i.form = "reg"
    <2>1. i.ro \in Regs
        BY <1>2, LowerIs DEF TransferFieldsOf
    <2>2. by = Register(i.ro)
        BY <1>2
    <2>3. Operand(s, by).value = s.r[i.ro] /\ s.r[i.ro] \in Word
        BY <2>1, <2>2, OperandsAre, RegIs, FlagIs, ShiftedIs
    <2>4. ThumbAddress(s, i) = Wrap(s.r[i.rb] + s.r[i.ro])
        BY <1>2 DEF ThumbAddress
    <2> QED
        BY <2>3, <2>4
<1> QED
    BY <1>1, <1>2 DEF TransferFieldsOf

(* A transfer of a word or a byte is the one of ARM. *)
LEMMA SingleSame ==
    ASSUME NEW s \in Cpus, NEW i, TransferFieldsOf(i), i.size # "half", ~i.signed
    PROVE  ExecuteThumb(s, i) = ExecuteArm(s, AsArm(i))
<1>0. /\ i.op = "transfer" /\ i.load \in BOOLEAN /\ i.size \in {"word", "byte"}
      /\ i.rd \in Regs /\ i.rd # 15 /\ i.rb \in Regs
    BY LowerIs DEF TransferFieldsOf, Sizes
<1>1. PICK by : by = IF i.form = "imm" THEN Immediate(i.value * Scale(i.size)) ELSE Register(i.ro)
    OBVIOUS
<1>2. PICK a : a = Single(i, by) /\ a = AsArm(i)
    BY <1>0, <1>1 DEF AsArm
<1>3. /\ a.op = "single" /\ a.cond = "AL" /\ (a.load <=> i.load) /\ (a.byte <=> i.size = "byte")
      /\ a.pre /\ a.up /\ ~a.writeback /\ a.rn = i.rb /\ a.rd = i.rd /\ a.by = by
    <2>1. PICK byte \in BOOLEAN : byte = (i.size = "byte")
        BY Zenon
    <2>2. a = [op |-> "single", cond |-> "AL", load |-> i.load, byte |-> byte, pre |-> TRUE, up |-> TRUE,
               writeback |-> FALSE, rn |-> i.rb, rd |-> i.rd, by |-> by]
        BY <1>2, <2>1, Zenon DEF Single
    <2>3. (byte <=> i.size = "byte")
        BY <2>1
    <2> QED
        BY <1>0, <2>2, <2>3
<1>4. PICK n \in Word : n = Operand(s, by).value /\ ThumbAddress(s, i) = Wrap(s.r[i.rb] + n)
    BY <1>1, OffsetSame
<1>5. PICK x : x = Wrap(s.r[i.rb] + n)
    OBVIOUS
<1>6. AddressOf(s, a, n) = x
    BY <1>3, <1>5 DEF AddressOf, Moved
<1>7. i.size = IF a.byte THEN "byte" ELSE "word"
    BY <1>0, <1>3
<1>8. Read15(s, a.rd, 4) = s.r[i.rd]
    BY <1>0, <1>3 DEF Read15
<1>9. SingleTransfer(s, a) =
          CASE ~Mapped(s, x) -> DataAbort(s, x)
            [] Mapped(s, x) /\ ~a.load -> Written(s, x, i.size, s.r[i.rd])
            [] Mapped(s, x) /\ a.load /\ a.rd # 15 -> SetReg(s, a.rd, Read(s, x, i.size))
            [] Mapped(s, x) /\ a.load /\ a.rd = 15 -> BranchExchange(s, Read(s, x, i.size))
    BY <1>3, <1>4, <1>6, <1>7, <1>8 DEF SingleTransfer
<1>10. ExecuteArm(s, a) = SingleTransfer(s, a)
    BY <1>3, Always DEF ExecuteArm
<1>11. ThumbTransfer(s, i) =
          CASE ~Mapped(s, x) -> DataAbort(s, x)
            [] Mapped(s, x) /\ ~i.load -> Written(s, x, i.size, s.r[i.rd])
            [] Mapped(s, x) /\ i.load -> SetReg(s, i.rd, Read(s, x, i.size))
    BY <1>4, <1>5 DEF ThumbTransfer
<1>12. ExecuteThumb(s, i) = ThumbTransfer(s, i)
    BY <1>0 DEF ExecuteThumb
<1> QED
    BY <1>0, <1>2, <1>3, <1>9, <1>10, <1>11, <1>12

(* So is one of a half or a signed byte. *)
LEMMA ExtraSame ==
    ASSUME NEW s \in Cpus, NEW i, TransferFieldsOf(i), i.size = "half" \/ i.signed
    PROVE  ExecuteThumb(s, i) = ExecuteArm(s, AsArm(i))
<1>0. /\ i.op = "transfer" /\ i.load \in BOOLEAN /\ i.size \in {"half", "byte"}
      /\ i.rd \in Regs /\ i.rd # 15 /\ i.rb \in Regs /\ (i.signed => i.load)
    BY LowerIs DEF TransferFieldsOf, Sizes
<1>1. PICK by : by = IF i.form = "imm" THEN Immediate(i.value * Scale(i.size)) ELSE Register(i.ro)
    OBVIOUS
<1>2. PICK a : a = Extra(i, by) /\ a = AsArm(i)
    BY <1>0, <1>1 DEF AsArm
<1>3. /\ a.op = "extra" /\ a.cond = "AL" /\ (a.load <=> i.load) /\ a.size = i.size
      /\ (a.signed <=> i.signed)
      /\ a.pre /\ a.up /\ ~a.writeback /\ a.rn = i.rb /\ a.rd = i.rd /\ a.by = by
    BY <1>0, <1>2 DEF Extra, TransferFieldsOf
<1>4. PICK n \in Word : n = Operand(s, by).value /\ ThumbAddress(s, i) = Wrap(s.r[i.rb] + n)
    BY <1>1, OffsetSame
<1>5. n = IF a.by.form = "imm" THEN a.by.value ELSE s.r[a.by.rm]
    <2>1. CASE i.form = "imm"
        <3>1. PICK m \in Word : m = i.value * Scale(i.size)
            BY ScaledIs DEF Scale, Sizes, TransferFieldsOf
        <3>2. Operand(s, by) = Shifted(m, s.cpsr.c) /\ by = Immediate(m)
            BY <1>1, <2>1, <3>1, OperandsAre
        <3>3. n = m
            BY <1>4, <3>2, FlagIs, ShiftedIs
        <3> QED
            BY <1>3, <3>2, <3>3 DEF Immediate
    <2>2. CASE i.form = "reg"
        <3>1. i.ro \in Regs
            BY <2>2, LowerIs DEF TransferFieldsOf
        <3>2. Operand(s, by) = Shifted(s.r[i.ro], s.cpsr.c) /\ by = Register(i.ro)
            BY <1>1, <2>2, <3>1, OperandsAre
        <3>3. n = s.r[i.ro]
            BY <1>4, <3>1, <3>2, RegIs, FlagIs, ShiftedIs
        <3> QED
            BY <1>3, <3>2, <3>3 DEF Register
    <2> QED
        BY <2>1, <2>2 DEF TransferFieldsOf
<1>6. PICK x : x = Wrap(s.r[i.rb] + n)
    OBVIOUS
<1>7. AddressOf(s, a, n) = x
    BY <1>3, <1>6 DEF AddressOf, Moved
<1>8. PICK w : w = IF i.signed THEN SignExtend(Read(s, x, i.size), IF i.size = "half" THEN HalfBits ELSE ByteBits)
                   ELSE Read(s, x, i.size)
    OBVIOUS
<1>9. ExtraTransfer(s, a) = IF ~Mapped(s, x) THEN DataAbort(s, x)
                            ELSE IF i.load THEN SetReg(s, i.rd, w)
                            ELSE Written(s, x, "half", s.r[i.rd])
    BY <1>0, <1>3, <1>5, <1>7, <1>8 DEF ExtraTransfer
<1>10. ExecuteArm(s, a) = ExtraTransfer(s, a)
    BY <1>3, Always DEF ExecuteArm
<1>11. ThumbTransfer(s, i) = IF ~Mapped(s, x) THEN DataAbort(s, x)
                            ELSE IF i.load THEN SetReg(s, i.rd, w)
                            ELSE Written(s, x, i.size, s.r[i.rd])
    BY <1>0, <1>4, <1>6, <1>8 DEF ThumbTransfer
<1>12. ExecuteThumb(s, i) = ThumbTransfer(s, i)
    BY <1>0 DEF ExecuteThumb
<1> QED
    BY <1>0, <1>2, <1>9, <1>10, <1>11, <1>12

(* So is a conditional branch. *)
LEMMA JumpSame ==
    ASSUME NEW s \in Cpus, NEW i, i.op = "jump"
    PROVE  ExecuteThumb(s, i) = ExecuteArm(s, AsArm(i))
<1>1. PICK a : /\ a = [op |-> "branch", cond |-> i.cond, code |-> "B", offset |-> i.offset]
               /\ a = AsArm(i)
    BY DEF AsArm
<1>2. ExecuteArm(s, a) = IF Passes(s.cpsr, i.cond) THEN Branch(s, s.r[15] + i.offset) ELSE s
    BY <1>1 DEF ExecuteArm, ArmBranch
<1>3. ExecuteThumb(s, i) = IF Passes(s.cpsr, i.cond) THEN Branch(s, s.r[15] + i.offset) ELSE s
    BY DEF ExecuteThumb
<1> QED
    BY <1>1, <1>2, <1>3

(* So is a transfer of several registers. *)
LEMMA SeveralSame ==
    ASSUME NEW s \in Cpus, NEW i, i.op = "several", i.rb \in Lower, i.list \in Seq(Lower),
           i.load \in BOOLEAN
    PROVE  ExecuteThumb(s, i) = ExecuteArm(s, AsArm(i))
<1>1. PICK a : a = Block(i.load, TRUE, FALSE, i.rb, i.list) /\ a = AsArm(i)
    BY DEF AsArm
<1>2. /\ a.op = "block" /\ a.cond = "AL" /\ a.load = i.load /\ a.up /\ ~a.pre /\ a.writeback
      /\ a.rn = i.rb /\ a.list = i.list
    BY <1>1 DEF Block
<1>3. ~Listed(15, i.list)
    BY LowerIs DEF Listed
<1>4. s.r[i.rb] + 0 = s.r[i.rb]
    BY RegIs, LowerIs
<1>5. PICK moved : moved = MoveAll(s, i.load, i.list, s.r[i.rb])
    OBVIOUS
<1>6. PICK size : size = 4 * Len(i.list)
    OBVIOUS
<1>7. PICK end : end = Wrap(s.r[i.rb] + size)
    OBVIOUS
<1>8. BlockTransfer(s, a) =
          IF moved.branched THEN moved
          ELSE IF ~(i.load /\ Listed(i.rb, i.list)) THEN [moved EXCEPT !.r[i.rb] = end] ELSE moved
    BY <1>2, <1>3, <1>4, <1>5, <1>6, <1>7 DEF BlockTransfer
<1>9. ExecuteArm(s, a) = BlockTransfer(s, a)
    BY <1>2, Always DEF ExecuteArm
<1>10. ExecuteThumb(s, i) = IF moved.branched \/ (i.load /\ Listed(i.rb, i.list)) THEN moved
                            ELSE [moved EXCEPT !.r[i.rb] = end]
    BY <1>5, <1>6, <1>7 DEF ExecuteThumb, ThumbBlockTransfer
<1> QED
    BY <1>1, <1>8, <1>9, <1>10

(* So is one from the stack. *)
LEMMA PopSame ==
    ASSUME NEW s \in Cpus, NEW i, i.op = "pop", i.list \in Seq(Lower \cup {15})
    PROVE  ExecuteThumb(s, i) = ExecuteArm(s, AsArm(i))
<1>1. PICK a : a = Block(TRUE, TRUE, FALSE, 13, i.list) /\ a = AsArm(i)
    BY DEF AsArm
<1>2. /\ a.op = "block" /\ a.cond = "AL" /\ a.load = TRUE /\ a.up /\ ~a.pre /\ a.writeback
      /\ a.rn = 13 /\ a.list = i.list
    BY <1>1 DEF Block
<1>3. ~Listed(13, i.list)
    BY DEF Listed, Lower
<1>4. PICK base \in Int : base = s.r[13] /\ base + 0 = base
    BY RegIs, LowerIs
<1>5. PICK moved : moved = MoveAll(s, TRUE, i.list, base)
    OBVIOUS
<1>6. PICK size \in Int : size = 4 * Len(i.list)
    OBVIOUS
<1>7. PICK end \in Word : end = Wrap(base + size)
    BY WrapIs
<1>8. Wrap(end - 4) = Wrap(base + size - 4)
    <2>1. base + size \in Int /\ -4 \in Int
        OBVIOUS
    <2>2. PICK t \in Int, m \in Int : t = base + size /\ m = -4
        BY <2>1
    <2>3. Wrap(Wrap(t) + m) = Wrap(t + m)
        BY WrapSum
    <2>4. t + m = base + size - 4 /\ end + m = end - 4
        BY <2>2, SignedIs
    <2> QED
        BY <1>7, <2>2, <2>3, <2>4
<1>9. PICK v : v = ReadAligned(s, Wrap(end - 4))
    OBVIOUS
<1>10. PICK based : based = [moved EXCEPT !.r[13] = end]
    OBVIOUS
<1>11. BlockTransfer(s, a) =
          IF moved.branched THEN moved
          ELSE IF Listed(15, i.list) THEN BranchExchange(based, v) ELSE based
    BY <1>2, <1>3, <1>4, <1>5, <1>6, <1>7, <1>8, <1>9, <1>10 DEF BlockTransfer
<1>12. ExecuteArm(s, a) = BlockTransfer(s, a)
    BY <1>2, Always DEF ExecuteArm
<1>13. ExecuteThumb(s, i) =
          IF moved.branched THEN moved
          ELSE IF Listed(15, i.list) THEN BranchExchange(based, v) ELSE based
    BY <1>4, <1>5, <1>6, <1>7, <1>9, <1>10 DEF ExecuteThumb, ThumbPop
<1> QED
    BY <1>1, <1>11, <1>12, <1>13

(* A store comes to the same whether r13 has moved before it or moves after. *)
LEMMA PushOne ==
    ASSUME NEW s \in Cpus, ~s.branched, NEW x \in General, x # 13, NEW a \in Word, NEW w \in Word,
           NEW e, e = WithReg(s, 13, w), NEW load \in BOOLEAN, ~load,
           NEW move, move = [load |-> load, reg |-> x, address |-> a]
    PROVE  IF Mapped(s, a)
           THEN /\ MoveOne(e, move) = WithReg(MoveOne(s, move), 13, w)
                /\ Stays(s, MoveOne(s, move))
           ELSE Aborts(s, MoveOne(s, move)) /\ Aborts(e, MoveOne(e, move))
<1>1. move.reg = x /\ move.address = a /\ ~move.load
    OBVIOUS
<1>2. Stays(s, e) /\ e.r = [s.r EXCEPT ![13] = w] /\ e.mapped = s.mapped /\ e.mem = s.mem
    BY WithRegIs, LowerIs DEF WithReg, Cpus
<1>3. e \in Cpus /\ ~e.branched /\ (Mapped(e, a) <=> Mapped(s, a))
    BY <1>2 DEF Stays, Keeps, Mapped
<1>4. CASE ~Mapped(s, a)
    <2>1. MoveOne(s, move) = DataAbort(s, a) /\ MoveOne(e, move) = DataAbort(e, a)
        BY <1>1, <1>3, <1>4 DEF MoveOne
    <2> QED
        BY <1>3, <1>4, <2>1, DataAbortIs
<1>5. CASE Mapped(s, a)
    <2>1. PICK v \in Word : v = s.r[x] /\ v = e.r[x]
        BY <1>2, RegIs, LowerIs DEF Cpus
    <2>2. x # 15
        BY DEF General
    <2>3. MoveOne(s, move) = Written(s, a, "word", v) /\ MoveOne(e, move) = Written(e, a, "word", v)
        BY <1>1, <1>3, <1>5, <2>1, <2>2 DEF MoveOne, Read15
    <2>4. Stays(s, Written(s, a, "word", v))
        BY WrittenIs DEF Sizes, Stores
    <2>5. PICK k : k = a \div 4
        OBVIOUS
    <2>6. Written(s, a, "word", v) = [s EXCEPT !.mem[k] = v] /\ Written(e, a, "word", v) = [e EXCEPT !.mem[k] = v]
        BY <2>5 DEF Written
    <2>7. [e EXCEPT !.mem[k] = v] = WithReg([s EXCEPT !.mem[k] = v], 13, w)
        BY DEF WithReg, Cpus
    <2> QED
        BY <1>5, <2>3, <2>4, <2>6, <2>7
<1> QED
    BY <1>4, <1>5

(* Of the moves of a push, each leaves the same but for the stack pointer, *)
(* which Thumb has moved before and ARM moves after them.                  *)
LEMMA PushesAre ==
    ASSUME NEW s \in Cpus, ~s.branched, NEW list \in Seq(Lower \cup {14}), NEW start \in Int, NEW w \in Word,
           w = Wrap(start), NEW e, e = WithReg(s, 13, w), NEW load \in BOOLEAN, ~load,
           NEW f, Moves(f, s, load, list, start, Len(list)),
           NEW g, Moves(g, e, load, list, w, Len(list))
    PROVE  \A k \in 0 .. Len(list) :
               \/ Stays(s, f[k]) /\ g[k] = WithReg(f[k], 13, w)
               \/ Aborts(s, f[k]) /\ Aborts(s, g[k])
<1> DEFINE P(k) == \/ Stays(s, f[k]) /\ g[k] = WithReg(f[k], 13, w)
                   \/ Aborts(s, f[k]) /\ Aborts(s, g[k])
           bad == {k \in 0 .. Len(list) : ~P(k)}
<1>0. Len(list) \in Nat
    OBVIOUS
<1>1. ASSUME NEW k \in bad PROVE \E m \in bad : m < k
    <2>1. k # 0
        <3>1. f[0] = s /\ g[0] = e
            BY <1>0 DEF Moves
        <3> QED
            BY <3>1, SelfStays
    <2>2. k \in 1 .. Len(list) /\ k - 1 \in 0 .. Len(list) /\ k - 1 < k
        BY <1>0, <2>1
    <2>3. SUFFICES ASSUME k - 1 \notin bad PROVE FALSE
        BY <2>2
    <2>4. P(k - 1)
        BY <2>2, <2>3
    <2>5. f[k] = MoveOne(f[k - 1], Move(load, list, start, k)) /\ g[k] = MoveOne(g[k - 1], Move(load, list, w, k))
        BY <1>0, <2>2, MovesStep
    <2>6. PICK o \in Int : o = 4 * (k - 1)
        BY <2>2
    <2>14. PICK x : x = list[k]
        OBVIOUS
    <2>7. PICK a \in Word : a = Wrap(start + 4 * (k - 1)) /\ a = Wrap(w + 4 * (k - 1))
        <3>1. start + o \in Int
            OBVIOUS
        <3>2. Wrap(start + o) \in Word
            BY <3>1, WrapIs
        <3>3. Wrap(w + o) = Wrap(start + o)
            BY WrapSum
        <3> QED
            BY <2>6, <3>2, <3>3, Zenon
    <2>8. x \in General /\ x # 13
        <3>1. x \in Lower \cup {14}
            BY <2>2, <2>14
        <3>2. 13 \notin Lower
            BY DEF Lower
        <3> QED
            BY <3>1, <3>2, LowerIs
    <2>9. PICK move : move = [load |-> load, reg |-> x, address |-> a]
        OBVIOUS
    <2>10. Move(load, list, start, k) = move /\ Move(load, list, w, k) = move
        BY <2>7, <2>9, <2>14 DEF Move
    <2>11. PICK c, d : c = f[k - 1] /\ d = g[k - 1]
        OBVIOUS
    <2>12. CASE Aborts(s, c) /\ Aborts(s, d)
        <3>1. c.branched /\ d.branched
            BY <2>12 DEF Aborts, Raises
        <3>2. f[k] = c /\ g[k] = d
            BY <2>5, <2>10, <2>11, <3>1 DEF MoveOne
        <3> QED
            BY <2>12, <3>2
    <2>13. CASE Stays(s, c) /\ d = WithReg(c, 13, w)
        <3>1. c \in Cpus /\ ~c.branched
            BY <2>13 DEF Stays, Keeps
        <3>2. Stays(s, d)
            BY <2>13, <3>1, WithRegIs, LowerIs, StaysStays
        <3>3. CASE Mapped(c, a)
            <4>1. g[k] = WithReg(f[k], 13, w) /\ Stays(c, f[k])
                BY <2>5, <2>8, <2>9, <2>10, <2>11, <2>13, <3>1, <3>3, PushOne
            <4> QED
                BY <2>13, <4>1, StaysStays
        <3>4. CASE ~Mapped(c, a)
            <4>1. Aborts(c, f[k]) /\ Aborts(d, g[k])
                BY <2>5, <2>8, <2>9, <2>10, <2>11, <2>13, <3>1, <3>4, PushOne
            <4> QED
                BY <2>13, <3>2, <4>1, StaysAborts
        <3> QED
            BY <3>3, <3>4
    <2> QED
        BY <2>4, <2>11, <2>12, <2>13
<1>2. bad \in SUBSET Nat
    BY <1>0
<1>3. bad = {}
    BY <1>1, <1>2, NoFirst
<1> QED
    BY <1>3

(* So a push comes to the same, unless it fails. *)
LEMMA PushSame ==
    ASSUME NEW s \in Cpus, ~s.branched, NEW i, i.op = "push", i.list \in Seq(Lower \cup {14})
    PROVE  \/ ExecuteThumb(s, i) = ExecuteArm(s, AsArm(i))
           \/ Aborts(s, ExecuteThumb(s, i))
<1>0. PICK no \in BOOLEAN : no = FALSE
    OBVIOUS
<1>1. PICK a : a = Block(no, FALSE, TRUE, 13, i.list) /\ a = AsArm(i)
    BY <1>0 DEF AsArm
<1>2. /\ a.op = "block" /\ a.cond = "AL" /\ a.load = no /\ ~a.up /\ a.pre /\ a.writeback
      /\ a.rn = 13 /\ a.list = i.list
    BY <1>1 DEF Block
<1>3. PICK base \in Int : base = s.r[13]
    BY RegIs, LowerIs
<1>4. PICK start \in Int : start = base - 4 * Len(i.list) /\ start = base - 4 * Len(i.list) + 0
    <2>1. PICK n \in Nat : n = Len(i.list)
        OBVIOUS
    <2>2. base - 4 * n \in Int /\ base - 4 * n = base - 4 * n + 0
        OBVIOUS
    <2> QED
        BY <2>1, <2>2
<1>5. PICK w \in Word : w = Wrap(start)
    BY WrapIs
<1>6. PICK e : e = WithReg(s, 13, w)
    OBVIOUS
<1>7. PICK f : Moves(f, s, no, i.list, start, Len(i.list))
                  /\ MoveAll(s, no, i.list, start) = f[Len(i.list)]
    BY MoveAllIs
<1>8. PICK g : Moves(g, e, no, i.list, w, Len(i.list))
                  /\ MoveAll(e, no, i.list, w) = g[Len(i.list)]
    BY MoveAllIs
<1>9. PICK c, d : c = f[Len(i.list)] /\ d = g[Len(i.list)]
    OBVIOUS
<1>10. \/ Stays(s, c) /\ d = WithReg(c, 13, w)
       \/ Aborts(s, c) /\ Aborts(s, d)
    <2>1. Len(i.list) \in 0 .. Len(i.list)
        OBVIOUS
    <2> QED
        BY <1>0, <1>5, <1>6, <1>7, <1>8, <1>9, <2>1, PushesAre
<1>11. ExecuteThumb(s, i) = d
    BY <1>0, <1>3, <1>4, <1>5, <1>6, <1>8, <1>9 DEF ExecuteThumb, ThumbPush, WithReg
<1>12. BlockTransfer(s, a) = IF c.branched THEN c ELSE WithReg(c, 13, w)
    BY <1>0, <1>2, <1>3, <1>4, <1>5, <1>7, <1>9 DEF BlockTransfer, WithReg
<1>13. ExecuteArm(s, a) = BlockTransfer(s, a)
    BY <1>2, Always DEF ExecuteArm
<1> QED
    BY <1>1, <1>10, <1>11, <1>12, <1>13 DEF Stays, Keeps

(* What Thumb does is what ARM does, but for a push that fails. *)
LEMMA ThumbSame ==
    ASSUME NEW s \in Cpus, ~s.branched, NEW i \in ThumbInstructions, HasArm(i)
    PROVE  \/ ExecuteThumb(s, i) = ExecuteArm(s, AsArm(i))
           \/ i.op = "push" /\ Aborts(s, ExecuteThumb(s, i))
<1>1. CASE i \in ThumbOnRegisters
    <2>1. CASE i.op = "shift"
        BY <1>1, <2>1, OnRegistersFields, ShiftSame
    <2>2. CASE i.op = "addSub"
        BY <1>1, <2>2, OnRegistersFields, AddSubSame
    <2>3. CASE i.op = "immediate"
        BY <1>1, <2>3, OnRegistersFields, ImmediateSame
    <2>4. CASE i.op = "alu"
        <3>1. i.rd \in Lower /\ i.rs \in Lower
            BY <1>1, <2>4, OnRegistersFields
        <3>2. \/ i.code \in Kinds \/ i.code = "MUL" \/ i.code = "NEG"
              \/ i.code \in {"AND", "EOR", "ADC", "SBC", "TST", "CMP", "CMN", "ORR", "BIC", "MVN"}
            BY <1>1, <2>4, OnRegistersFields
        <3> QED
            BY <2>4, <3>1, <3>2, AluShiftSame, MulSame, NegSame, AluSame
    <2>5. CASE i.op = "high"
        <3>1. i.rd \in Regs /\ i.rs \in Regs /\ i.code \in {"ADD", "CMP", "MOV", "BX"}
            BY <1>1, <2>5, OnRegistersFields DEF HasArm
        <3> QED
            BY <2>5, <3>1, HighSame
    <2>6. CASE i.op = "stack"
        BY <1>1, <2>6, OnRegistersFields, StackSame
    <2>7. CASE i.op = "address"
        <3>1. i.rd \in Lower /\ i.rb = 13 /\ i.value \in Scaled
            BY <1>1, <2>7, OnRegistersFields DEF HasArm
        <3> QED
            BY <2>7, <3>1, AddressSame
    <2> QED
        BY <1>1, <2>1, <2>2, <2>3, <2>4, <2>5, <2>6, <2>7, OnRegistersFields
<1>2. CASE i \in ThumbTransfers
    <2>1. CASE i.op = "transfer"
        <3>1. TransferFieldsOf(i)
            BY <1>2, <2>1, ThumbTransferFields DEF HasArm, TransferFieldsOf
        <3> QED
            BY <3>1, SingleSame, ExtraSame
    <2>2. CASE i.op = "several"
        BY <1>2, <2>2, ThumbTransferFields, SeveralSame
    <2>3. CASE i.op = "push"
        BY <1>2, <2>3, ThumbTransferFields, PushSame
    <2>4. CASE i.op = "pop"
        BY <1>2, <2>4, ThumbTransferFields, PopSame
    <2> QED
        BY <1>2, <2>1, <2>2, <2>3, <2>4, ThumbTransferFields
<1>3. CASE i \in ThumbOthers
    <2>1. i.op = "jump"
        BY <1>3, ThumbOtherFields DEF HasArm
    <2> QED
        BY <2>1, JumpSame
<1> QED
    BY <1>1, <1>2, <1>3 DEF ThumbInstructions

(* What abbreviates becomes what the long form becomes. *)
LEMMA ThumbAsArmIs ==
    ASSUME NEW s \in Cpus, ~s.branched, NEW i \in ThumbInstructions, HasArm(i)
    PROVE  Outcome(s, ExecuteThumb(s, i), ThumbGoesOn(i))
<1>1. PICK a : a = AsArm(i) /\ Abbreviates(i, a)
    BY Forms
<1>2. a \in ArmInstructions /\ a.op \notin {"swi", "undefined"} /\ (ThumbGoesOn(i) => ArmGoesOn(a))
    BY <1>1 DEF Abbreviates
<1>3. Becomes(s, ExecuteArm(s, a), a, ArmGoesOn(a))
    BY <1>2, ArmIs
<1>4. Outcome(s, ExecuteArm(s, a), ArmGoesOn(a))
    BY <1>2, <1>3 DEF Becomes
<1>5. Outcome(s, ExecuteArm(s, a), ThumbGoesOn(i))
    BY <1>2, <1>4 DEF Outcome
<1>6. ExecuteThumb(s, i) = ExecuteArm(s, a) \/ Aborts(s, ExecuteThumb(s, i))
    BY <1>1, ThumbSame
<1> QED
    BY <1>5, <1>6 DEF Outcome

(* An even address has its lowest bit to spare. *)
LEMMA LinkIs ==
    ASSUME NEW s \in Cpus, s.at % 2 = 0
    PROVE  Wrap(s.at + 2) + 1 \in Word
<1>1. PICK m \in Nat : m = Modulus /\ m >= 16 /\ m % 4 = 0
    BY ModulusIs
<1>2. PICK a \in 0 .. m - 1 : a = s.at
    BY <1>1, FlagIs DEF Word
<1>3. ((a + 2) % m) + 1 \in 0 .. m - 1
    <2>1. a % 2 = 0
        BY <1>2
    <2>2. CASE a + 2 < m
        <3>1. (a + 2) % m = a + 2
            BY <1>1, <2>2
        <3>2. a + 2 # m - 1
            BY <1>1, <2>1
        <3> QED
            BY <1>1, <2>2, <3>1, <3>2
    <2>3. CASE a + 2 >= m
        <3>1. a + 2 = m
            BY <1>1, <2>1, <2>3
        <3>2. (a + 2) % m = 0
            BY <1>1, <3>1
        <3> QED
            BY <1>1, <3>2
    <2> QED
        BY <2>2, <2>3
<1> QED
    BY <1>1, <1>2, <1>3 DEF Wrap, Word

(* An address after the program counter is a word. *)
LEMMA PlacedIs ==
    ASSUME NEW s \in Cpus, NEW n \in Scaled
    PROVE  Wrap(Aligned(s.r[15]) + 4 * n) \in Word
<1>1. PICK x \in Word : x = s.r[15]
    BY RegIs, LowerIs
<1>2. x - (x % 4) \in Int
    BY SignedIs
<1>3. Aligned(s.r[15]) + 4 * n \in Int
    BY <1>1, <1>2, ScaledIs DEF Aligned
<1> QED
    BY <1>3, WrapIs

(* A load from the code goes on or aborts. *)
LEMMA TransferIs ==
    ASSUME NEW s \in Cpus, NEW i, i.op = "transfer", i.form = "imm", i.rb = 15, i.size = "word",
           ~i.signed, i.rd \in Lower, i.value \in Scaled, i.load \in BOOLEAN
    PROVE  Stays(s, ExecuteThumb(s, i)) \/ Aborts(s, ExecuteThumb(s, i))
<1>1. i.value * 4 = 4 * i.value
    BY ScaledIs
<1>2. PICK a \in Word : a = ThumbAddress(s, i)
    BY <1>1, PlacedIs DEF ThumbAddress
<1>3. PICK v \in Word, x \in Word : v = Read(s, a, "word") /\ x = s.r[i.rd]
    BY ReadIs, RegIs, LowerIs DEF Sizes
<1>4. ThumbTransfer(s, i) = IF ~Mapped(s, a) THEN DataAbort(s, a)
                            ELSE IF i.load THEN SetReg(s, i.rd, v) ELSE Written(s, a, "word", x)
    BY <1>2, <1>3 DEF ThumbTransfer
<1>5. ExecuteThumb(s, i) = ThumbTransfer(s, i)
    BY DEF ExecuteThumb
<1>6. Aborts(s, DataAbort(s, a)) /\ Stays(s, SetReg(s, i.rd, v)) /\ Stays(s, Written(s, a, "word", x))
    BY SelfStays, DataAbortIs, LoadIs, StoreIs, LowerIs DEF Sizes
<1> QED
    BY <1>4, <1>5, <1>6

(* Each half of a long branch goes on or elsewhere. *)
LEMMA LongIs ==
    ASSUME NEW s \in Cpus, s.at % 2 = 0, NEW i, i.op = "long", i.code \in {"first", "second", "exchange"},
           i.offset \in Int
    PROVE  Outcome(s, ExecuteThumb(s, i), ThumbGoesOn(i))
<1>1. PICK target \in Int : target = s.r[14] + i.offset
    BY RegIs, LowerIs
<1>2. PICK linked : linked = [s EXCEPT !.r[14] = Wrap(s.at + 2) + 1]
    OBVIOUS
<1>3. Stays(s, linked) /\ linked \in Cpus
    BY <1>2, LinkIs, SelfStays, BaseIs, LowerIs
<1>4. ExecuteThumb(s, i) = ThumbBranchLink(s, i)
    BY DEF ExecuteThumb
<1>5. CASE i.code = "first"
    <2>1. s.r[15] + i.offset \in Int
        BY RegIs, LowerIs
    <2>2. Stays(s, [s EXCEPT !.r[14] = Wrap(s.r[15] + i.offset)])
        BY <2>1, WrapIs, SelfStays, BaseIs, LowerIs
    <2> QED
        BY <1>4, <1>5, <2>2 DEF ThumbBranchLink, Outcome
<1>6. CASE i.code = "second"
    <2>1. ThumbBranchLink(s, i) = Branch(linked, target)
        BY <1>1, <1>2, <1>6 DEF ThumbBranchLink
    <2> QED
        BY <1>3, <1>4, <1>6, <2>1, BranchIs, StaysGoes DEF Outcome, ThumbGoesOn
<1>7. CASE i.code = "exchange"
    <2>1. PICK t \in BOOLEAN : t = FALSE
        OBVIOUS
    <2>2. PICK c : c = [linked EXCEPT !.cpsr.t = t]
        OBVIOUS
    <2>3. c \in Cpus /\ c.cpsr.mode = linked.cpsr.mode
        BY <1>3, <2>2, WithThumb
    <2>4. ThumbBranchLink(s, i) = Branch(c, target)
        BY <1>1, <1>2, <1>7, <2>1, <2>2 DEF ThumbBranchLink
    <2>5. Goes(c, Branch(c, target))
        BY <2>3, BranchIs
    <2> QED
        BY <1>3, <1>4, <1>7, <2>3, <2>4, <2>5 DEF Goes, Stays, Keeps, Outcome, ThumbGoesOn
<1> QED
    BY <1>5, <1>6, <1>7

(* An instruction of Thumb becomes what its form says. *)
LEMMA ThumbIs ==
    ASSUME NEW s \in Cpus, ~s.branched, s.cpsr.t, s.at % 2 = 0, NEW i \in ThumbInstructions
    PROVE  Becomes(s, ExecuteThumb(s, i), i, ThumbGoesOn(i))
<1>1. CASE HasArm(i)
    BY <1>1, ThumbAsArmIs DEF Becomes
<1>2. CASE ~HasArm(i)
    <2>1. CASE i \in ThumbOnRegisters
        <3>1. CASE i.op = "high"
            <4>1. i.code = "BLX" /\ i.rs \in Regs
                BY <1>2, <2>1, <3>1, OnRegistersFields DEF HasArm
            <4>2. PICK linked : linked = [s EXCEPT !.r[14] = Wrap(s.at + 2) + 1]
                OBVIOUS
            <4>3. Stays(s, linked) /\ linked \in Cpus
                BY <4>2, LinkIs, SelfStays, BaseIs, LowerIs
            <4>4. ExecuteThumb(s, i) = BranchExchange(linked, s.r[i.rs])
                BY <3>1, <4>1, <4>2 DEF ExecuteThumb, ThumbHighRegister
            <4> QED
                BY <3>1, <4>1, <4>3, <4>4, RegIs, BranchExchangeIs, StaysGoes DEF Becomes, Outcome, ThumbGoesOn
        <3>2. CASE i.op = "address"
            <4>1. i.rb = 15 /\ i.rd \in Lower /\ i.value \in Scaled
                BY <1>2, <2>1, <3>2, OnRegistersFields DEF HasArm
            <4>2. ExecuteThumb(s, i) = SetReg(s, i.rd, Wrap(Aligned(s.r[15]) + 4 * i.value))
                BY <3>2, <4>1 DEF ExecuteThumb, ThumbSetAddress
            <4> QED
                BY <4>1, <4>2, PlacedIs, SetRegStays, LowerIs DEF Becomes, Outcome
        <3> QED
            BY <1>2, <2>1, <3>1, <3>2, OnRegistersFields DEF HasArm
    <2>2. CASE i \in ThumbTransfers
        <3>1. i.op = "transfer" /\ i.form = "imm" /\ i.rb = 15
            BY <1>2, <2>2, ThumbTransferFields DEF HasArm
        <3>2. /\ i.size = "word" /\ ~i.signed /\ i.rd \in Lower /\ i.value \in Scaled
              /\ i.load \in BOOLEAN
            <4>1. 15 \notin Lower
                BY LowerIs
            <4>2. i \in [op : {"transfer"}, form : {"imm"}, load : BOOLEAN, size : {"word"},
                         signed : {FALSE}, rd : Lower, rb : {13, 15}, value : Scaled]
                BY <2>2, <3>1, <4>1 DEF ThumbTransfers
            <4>3. i.size = "word" /\ i.signed = FALSE
                BY <4>2
            <4> QED
                BY <2>2, <3>1, <4>3, ThumbTransferFields
        <3> QED
            BY <3>1, <3>2, TransferIs DEF Becomes, Outcome
    <2>3. CASE i \in ThumbOthers
        <3>1. CASE i.op = "long"
            BY <2>3, <3>1, ThumbOtherFields, LongIs DEF Becomes
        <3>2. CASE i.op = "swi"
            <4>1. ExecuteThumb(s, i) = Enter(s, "swi", s.at + 2)
                BY <3>2 DEF ExecuteThumb
            <4>2. Raises(s, Enter(s, "swi", s.at + 2), "swi", s.at + 2)
                BY CallIs
            <4> QED
                BY <3>2, <4>1, <4>2 DEF Becomes, Width
        <3>3. CASE i.op = "undefined"
            <4>1. ExecuteThumb(s, i) = Undefined(s)
                BY <3>3 DEF ExecuteThumb
            <4> QED
                BY <3>3, <4>1, UndefinedIs DEF Becomes
        <3> QED
            BY <1>2, <2>3, <3>1, <3>2, <3>3, ThumbOtherFields DEF HasArm
    <2> QED
        BY <2>1, <2>2, <2>3 DEF ThumbInstructions
<1> QED
    BY <1>1, <1>2

(* What is fetched is executed with the program counter ahead of it. *)
LEMMA FetchedIs ==
    ASSUME NEW s \in Cpus, NEW f, f = Fetched(s)
    PROVE  /\ f \in Cpus /\ f.cpsr = s.cpsr /\ f.spsr = s.spsr /\ f.at = s.r[15] /\ f.branched = FALSE
           /\ f.r[14] = s.r[14]
<1>1. s.r[15] \in Word /\ s.r[15] + 2 * Width(s) \in Int
    BY RegIs, LowerIs DEF Width
<1>2. PICK w \in Word : w = Wrap(s.r[15] + 2 * Width(s))
    BY <1>1, WrapIs
<1>3. PICK no \in BOOLEAN : no = FALSE
    OBVIOUS
<1>4. f = [s EXCEPT !.at = s.r[15], !.branched = no, !.r[15] = w]
    BY <1>2, <1>3 DEF Fetched
<1>5. PICK c : c = [s EXCEPT !.at = s.r[15], !.branched = no]
    OBVIOUS
<1>6. /\ c \in Cpus /\ c.cpsr = s.cpsr /\ c.spsr = s.spsr /\ c.at = s.r[15] /\ c.branched = no
      /\ c.r = s.r
    BY <1>1, <1>5 DEF Cpus
<1>7. f = [c EXCEPT !.r[15] = w]
    BY <1>4, <1>5
<1>8. /\ f \in Cpus /\ f.cpsr = c.cpsr /\ f.spsr = c.spsr /\ f.at = c.at /\ f.branched = c.branched
      /\ f.r = [c.r EXCEPT ![15] = w]
    <2>1. PICK g \in [Regs -> Word] : g = [c.r EXCEPT ![15] = w]
        BY <1>6, LowerIs DEF Cpus
    <2>2. f = [c EXCEPT !.r = g]
        BY <1>7, <2>1
    <2> QED
        BY <1>6, <2>1, <2>2 DEF Cpus
<1>9. f.r[14] = s.r[14]
    BY <1>6, <1>8, LowerIs DEF Cpus
<1> QED
    BY <1>3, <1>6, <1>8, <1>9

(* What one instruction leaves: the next one, something else, an abort or a call. *)
Follows(s, d, i, goesOn) ==
    \/ /\ d \in Cpus /\ d.cpsr.mode = s.cpsr.mode /\ d.cpsr.t = s.cpsr.t
       /\ d.r[15] = Wrap(s.r[15] + Width(s))
    \/ d \in Cpus /\ d.cpsr.mode = s.cpsr.mode /\ ~goesOn
    \/ Raises(s, d, "dataAbort", s.r[15] + 8)
    \/ i.op \in {"swi", "undefined"} /\ Raises(s, d, i.op, s.r[15] + Width(s))

(* What an instruction becomes is what follows it. *)
LEMMA BecomesFollows ==
    ASSUME NEW s \in Cpus, NEW f, f = Fetched(s), NEW e, NEW i, NEW goesOn, Becomes(f, e, i, goesOn),
           NEW d, d = IF e.branched THEN e ELSE [e EXCEPT !.r[15] = Wrap(s.r[15] + Width(s))]
    PROVE  Follows(s, d, i, goesOn)
<1>1. f \in Cpus /\ f.cpsr = s.cpsr /\ f.at = s.r[15] /\ f.branched = FALSE
    BY FetchedIs
<1>2. Width(f) = Width(s)
    BY <1>1 DEF Width
<1>3. CASE Stays(f, e)
    <2>1. e \in Cpus /\ ~e.branched /\ e.cpsr.mode = s.cpsr.mode /\ e.cpsr.t = s.cpsr.t
        BY <1>1, <1>3 DEF Stays, Keeps
    <2>2. s.r[15] + Width(s) \in Int
        BY RegIs, LowerIs DEF Width
    <2>3. PICK w \in Word : w = Wrap(s.r[15] + Width(s))
        BY <2>2, WrapIs
    <2>4. d = WithReg(e, 15, w)
        BY <2>1, <2>3 DEF WithReg
    <2>5. Stays(e, d) /\ d.r = [e.r EXCEPT ![15] = w]
        <3>1. 15 \in Regs
            BY LowerIs
        <3>2. Stays(e, WithReg(e, 15, w)) /\ WithReg(e, 15, w).r = [e.r EXCEPT ![15] = w]
            BY <2>1, <3>1, WithRegIs, Zenon
        <3> QED
            BY <2>4, <3>2
    <2>6. d \in Cpus /\ d.cpsr.mode = s.cpsr.mode /\ d.cpsr.t = s.cpsr.t
        BY <2>1, <2>5 DEF Stays, Keeps
    <2>7. d.r[15] = w
        BY <2>1, <2>5, LowerIs DEF Cpus
    <2> QED
        BY <2>3, <2>6, <2>7 DEF Follows
<1>4. CASE Goes(f, e) /\ ~goesOn
    BY <1>1, <1>4 DEF Goes, Follows
<1>5. CASE Aborts(f, e)
    BY <1>1, <1>5 DEF Aborts, Raises, Follows
<1>6. CASE i.op \in {"swi", "undefined"} /\ Raises(f, e, i.op, f.at + Width(f))
    BY <1>1, <1>2, <1>6 DEF Raises, Follows
<1> QED
    BY <1>3, <1>4, <1>5, <1>6 DEF Becomes, Outcome

(* So every instruction of either set is followed by the next, by another  *)
(* place, by an abort or by a call.                                        *)
LEMMA StepIs ==
    ASSUME NEW s \in Cpus, NEW i, s.cpsr.t => i \in ThumbInstructions /\ s.r[15] % 2 = 0,
           ~s.cpsr.t => i \in ArmInstructions, NEW d, d = Execute(s, i)
    PROVE  Follows(s, d, i, IF s.cpsr.t THEN ThumbGoesOn(i) ELSE ArmGoesOn(i))
<1>1. PICK f : f = Fetched(s)
    OBVIOUS
<1>2. f \in Cpus /\ f.cpsr = s.cpsr /\ f.at = s.r[15] /\ ~f.branched
    BY <1>1, FetchedIs
<1>3. PICK e : e = IF s.cpsr.t THEN ExecuteThumb(f, i) ELSE ExecuteArm(f, i)
    OBVIOUS
<1>4. d = IF e.branched THEN e ELSE [e EXCEPT !.r[15] = Wrap(s.r[15] + Width(s))]
    BY <1>1, <1>3 DEF Execute, Onward
<1>5. CASE s.cpsr.t
    <2>1. Becomes(f, e, i, ThumbGoesOn(i))
        BY <1>2, <1>3, <1>5, ThumbIs
    <2>2. Follows(s, d, i, ThumbGoesOn(i))
        BY <1>1, <1>4, <2>1, BecomesFollows
    <2> QED
        BY <1>5, <2>2
<1>6. CASE ~s.cpsr.t
    <2>1. Becomes(f, e, i, ArmGoesOn(i))
        BY <1>2, <1>3, <1>6, ArmIs
    <2>2. Follows(s, d, i, ArmGoesOn(i))
        BY <1>1, <1>4, <2>1, BecomesFollows
    <2> QED
        BY <1>6, <2>2
<1> QED
    BY <1>5, <1>6

-----------------------------------------------------------------------------
(* The way back from an exception. *)
LEMMA StatusIs ==
    ASSUME NEW s \in Cpus, NEW f \in Statuses, NEW d, d = WriteStatus(s, f)
    PROVE  d \in Cpus /\ d.cpsr = f
<1>1. f.mode \in Modes
    BY DEF Statuses
<1>2. PICK c : c = Exchange(s, f.mode)
    OBVIOUS
<1>3. c \in Cpus
    BY <1>1, <1>2, ExchangeIs DEF HasExchanged
<1>4. d = [c EXCEPT !.cpsr = f]
    BY <1>2 DEF WriteStatus
<1> QED
    BY <1>3, <1>4 DEF Cpus

(* Where a branch comes out. *)
LEMMA BranchTo ==
    ASSUME NEW s \in Cpus, NEW a \in Word, a % Width(s) = 0, NEW d, d = Branch(s, a)
    PROVE  d \in Cpus /\ d.cpsr = s.cpsr /\ d.r[15] = a /\ d.branched
<1>1. Wrap(a) = a /\ a \in Int
    BY WrapIs, SignedIs
<1>2. a - (a % (IF s.cpsr.t THEN 2 ELSE 4)) = a
    BY <1>1 DEF Width
<1>3. d = SetReg(s, 15, a)
    BY <1>1, <1>2 DEF Branch
<1>4. HasSet(s, 15, a, d)
    BY <1>3, SetRegIs, LowerIs
<1> QED
    BY <1>4, LowerIs DEF HasSet, Keeps, Cpus

Behind(e) == CASE e \in {"irq", "prefetchAbort"} -> 4
               [] e = "dataAbort" -> 8
               [] e \in {"swi", "undefined"} -> 0

Returns(s, d, n) ==
    /\ d \in Cpus /\ d.cpsr = s.spsr
    /\ Wrap(s.r[14] - n) % (IF s.spsr.t THEN 2 ELSE 4) = 0 => d.r[15] = Wrap(s.r[14] - n)

(* The return of a handler restores the status, and the counter to the     *)
(* link less what it is ahead.                                             *)
LEMMA GoBackIs ==
    ASSUME NEW s \in Cpus, ~s.cpsr.t, NEW n \in {0, 4, 8}, NEW d, d = Execute(s, GoBack(n))
    PROVE  Returns(s, d, n)
<1>1. PICK f : f = Fetched(s)
    OBVIOUS
<1>2. f \in Cpus /\ f.cpsr = s.cpsr /\ f.spsr = s.spsr /\ f.r[14] = s.r[14]
    BY <1>1, FetchedIs
<1>3. n \in Word
    BY ModulusIs DEF Word
<1>4. PICK i : i = GoBack(n)
    OBVIOUS
<1>5. /\ i.op = "data" /\ i.cond = "AL" /\ i.code = "SUB" /\ i.flags /\ i.rd = 15 /\ i.rn = 14
      /\ i.by = Immediate(n)
    BY <1>4 DEF GoBack, Immediate
<1>6. Operand(f, i.by).value = n
    BY <1>2, <1>3, <1>5, OperandsAre, FlagIs, ShiftedIs
<1>7. Read15(f, 14, IF i.by.form = "reg" THEN 4 ELSE 0) = s.r[14]
    BY <1>2 DEF Read15
<1>8. PICK w \in Word : w = Wrap(s.r[14] - n)
    BY RegIs, LowerIs, WrapIs
<1>9. SubWithBorrow(s.r[14], n, TRUE).value = w
    BY <1>3, <1>8, RegIs, LowerIs, SubIs
<1>10. PICK c : c = WriteStatus(f, f.spsr)
    OBVIOUS
<1>11. c \in Cpus /\ c.cpsr = s.spsr
    <2>1. f.spsr \in Statuses
        BY <1>2 DEF Cpus
    <2> QED
        BY <1>2, <1>10, <2>1, StatusIs
<1>12. DataProcessing(f, i) = Branch(c, w)
    BY <1>5, <1>6, <1>7, <1>9, <1>10 DEF DataProcessing, Sums, Discards, SumOf
<1>13. ExecuteArm(f, i) = Branch(c, w)
    BY <1>5, <1>12, Always DEF ExecuteArm
<1>14. Goes(c, Branch(c, w))
    BY <1>11, BranchIs, SignedIs
<1>15. d = Branch(c, w)
    BY <1>1, <1>4, <1>13, <1>14 DEF Execute, Onward, Goes
<1>16. Width(c) = IF s.spsr.t THEN 2 ELSE 4
    BY <1>11 DEF Width
<1>17. d \in Cpus /\ d.cpsr = c.cpsr
    <2>1. PICK t \in Word : t = Wrap(w)
        BY SignedIs, WrapIs
    <2>2. t - (t % 2) \in Word /\ t - (t % 4) \in Word
        BY ModulusIs DEF Word
    <2>3. PICK v \in Word : v = t - (t % (IF c.cpsr.t THEN 2 ELSE 4))
        BY <2>2
    <2>4. d = SetReg(c, 15, v)
        BY <1>15, <2>1, <2>3 DEF Branch
    <2>5. HasSet(c, 15, v, d)
        BY <1>11, <2>4, SetRegIs, LowerIs
    <2> QED
        BY <2>5 DEF HasSet, Keeps
<1>18. w % Width(c) = 0 => d.r[15] = w
    BY <1>11, <1>15, BranchTo
<1> QED
    BY <1>8, <1>11, <1>16, <1>17, <1>18 DEF Returns

(* What is added and taken away again leaves the word. *)
LEMMA Back ==
    ASSUME NEW x \in Word, NEW n \in Int
    PROVE  Wrap(Wrap(x + n) - n) = x
<1>1. x \in Int /\ x + n \in Int /\ -n \in Int
    BY SignedIs
<1>2. Wrap(Wrap(x + n) + (-n)) = Wrap((x + n) + (-n))
    BY <1>1, WrapSum
<1>3. (x + n) + (-n) = x
    BY <1>1
<1>4. PICK w \in Word : w = Wrap(x + n)
    BY <1>1, WrapIs
<1>5. w + (-n) = w - n
    BY <1>4, SignedIs
<1> QED
    BY <1>1, <1>2, <1>3, <1>4, <1>5, WrapIs

-----------------------------------------------------------------------------
(* Where the core is in its program. *)
Size(t) == IF t THEN 2 ELSE 4

Points(thumb, a, p, n, t) == n > 0 => (thumb <=> t) /\ a = Size(t) * (Len(p) - n)

IsAt(s, p, n, t) ==
    /\ s \in Cpus /\ n \in 0 .. Len(p) /\ IsProgram(p, t)
    /\ s.cpsr.mode = "usr" => Points(s.cpsr.t, s.r[15], p, n, t)
    /\ s.cpsr.mode # "usr" =>
           /\ ~s.cpsr.t /\ s.cpsr.i /\ s.vector # "none" /\ s.spsr.mode = "usr"
           /\ Points(s.spsr.t, Wrap(s.r[14] - Behind(s.vector)), p, n, t)

IInv == \E t \in BOOLEAN : IsAt(cpu, program, left, t)

(* The instructions of a program are of its instruction set, and all but   *)
(* the last go on.                                                         *)
LEMMA ProgramIs ==
    ASSUME NEW p, NEW t \in BOOLEAN, IsProgram(p, t)
    PROVE  /\ Len(p) \in Nat /\ DOMAIN p = 1 .. Len(p)
           /\ \A k \in 1 .. Len(p) :
                 /\ t => p[k] \in ThumbInstructions
                 /\ ~t => p[k] \in ArmInstructions
                 /\ k < Len(p) => IF t THEN ThumbGoesOn(p[k]) ELSE ArmGoesOn(p[k])
           /\ Size(t) * Len(p) <= Modulus
<1>1. PICK S : S = IF t THEN ThumbInstructions ELSE ArmInstructions
    OBVIOUS
<1>2. p \in Seq(S)
    BY <1>1 DEF IsProgram
<1>3. Len(p) \in Nat /\ DOMAIN p = 1 .. Len(p) /\ \A k \in 1 .. Len(p) : p[k] \in S
    BY <1>2
<1>4. \A k \in 1 .. Len(p) : k < Len(p) => k \in 1 .. Len(p) - 1
    BY <1>3
<1> QED
    BY <1>1, <1>3, <1>4 DEF IsProgram, Size

(* Where an instruction of a program is, and where the next. *)
LEMMA PlaceIs ==
    ASSUME NEW p, NEW t \in BOOLEAN, IsProgram(p, t), NEW n \in 1 .. Len(p), NEW a, a = Size(t) * (Len(p) - n)
    PROVE  /\ a \in Word /\ a % Size(t) = 0 /\ a \div Size(t) + 1 = Len(p) - n + 1
           /\ Len(p) - n + 1 \in 1 .. Len(p)
           /\ n - 1 > 0 => Wrap(a + Size(t)) = Size(t) * (Len(p) - (n - 1))
<1>1. PICK l \in Nat : l = Len(p) /\ Size(t) * l <= Modulus
    BY ProgramIs
<1>2. PICK m \in Nat : m = Modulus
    BY ModulusIs
<1>3. PICK k \in Nat : k = l - n /\ k < l
    BY <1>1
<1>4. n \in Nat /\ n > 0
    BY <1>1
<1>5. CASE t
    <2>1. Size(t) = 2 /\ a = 2 * k /\ 2 * l <= m
        BY <1>1, <1>2, <1>3, <1>5 DEF Size
    <2>2. a \in 0 .. m - 1 /\ a % 2 = 0 /\ a \div 2 = k
        BY <1>1, <1>2, <1>3, <2>1
    <2>3. a \in Word
        BY <1>2, <2>2 DEF Word
    <2>4. n - 1 > 0 => a + 2 \in Word /\ a + 2 = 2 * (l - (n - 1))
        BY <1>1, <1>2, <1>3, <1>4, <2>1 DEF Word
    <2>5. a + 2 \in Int
        BY <1>3, <2>1
    <2>6. a + 2 \in Word => Wrap(a + 2) = a + 2
        BY <2>5, WrapIs
    <2> QED
        BY <1>1, <1>3, <1>4, <2>1, <2>2, <2>3, <2>4, <2>6
<1>6. CASE ~t
    <2>1. Size(t) = 4 /\ a = 4 * k /\ 4 * l <= m
        BY <1>1, <1>2, <1>3, <1>6 DEF Size
    <2>2. a \in 0 .. m - 1 /\ a % 4 = 0 /\ a \div 4 = k
        BY <1>1, <1>2, <1>3, <2>1
    <2>3. a \in Word
        BY <1>2, <2>2 DEF Word
    <2>4. n - 1 > 0 => a + 4 \in Word /\ a + 4 = 4 * (l - (n - 1))
        BY <1>1, <1>2, <1>3, <1>4, <2>1 DEF Word
    <2>5. a + 4 \in Int
        BY <1>3, <2>1
    <2>6. a + 4 \in Word => Wrap(a + 4) = a + 4
        BY <2>5, WrapIs
    <2> QED
        BY <1>1, <1>3, <1>4, <2>1, <2>2, <2>3, <2>4, <2>6
<1> QED
    BY <1>5, <1>6

(* In the program, what is next is an instruction of it. *)
LEMMA UserIs ==
    ASSUME NEW s, NEW p, NEW n, NEW t \in BOOLEAN, IsAt(s, p, n, t), s.cpsr.mode = "usr", n # 0,
           NEW i, i = p[s.r[15] \div Width(s) + 1]
    PROVE  /\ n \in 1 .. Len(p) /\ (s.cpsr.t <=> t) /\ Width(s) = Size(t)
           /\ s.r[15] = Size(t) * (Len(p) - n)
           /\ s.r[15] \div Width(s) + 1 \in DOMAIN p
           /\ s.cpsr.t => i \in ThumbInstructions /\ s.r[15] % 2 = 0
           /\ ~s.cpsr.t => i \in ArmInstructions
           /\ n > 1 => IF s.cpsr.t THEN ThumbGoesOn(i) ELSE ArmGoesOn(i)
           /\ n - 1 > 0 => Wrap(s.r[15] + Width(s)) = Size(t) * (Len(p) - (n - 1))
<1>1. Len(p) \in Nat /\ n \in 1 .. Len(p) /\ IsProgram(p, t)
    BY ProgramIs DEF IsAt
<1>2. (s.cpsr.t <=> t) /\ s.r[15] = Size(t) * (Len(p) - n)
    BY <1>1 DEF IsAt, Points
<1>3. Width(s) = Size(t)
    BY <1>2 DEF Width, Size
<1>4. PICK k \in 1 .. Len(p) : k = Len(p) - n + 1 /\ s.r[15] \div Width(s) + 1 = k
    BY <1>1, <1>2, <1>3, PlaceIs
<1>5. i = p[k] /\ k \in DOMAIN p
    BY <1>1, <1>4, ProgramIs
<1>6. n > 1 => k < Len(p)
    BY <1>1, <1>4
<1>7. /\ t => p[k] \in ThumbInstructions
      /\ ~t => p[k] \in ArmInstructions
      /\ k < Len(p) => IF t THEN ThumbGoesOn(p[k]) ELSE ArmGoesOn(p[k])
    BY <1>1, ProgramIs
<1>8. t => s.r[15] % 2 = 0
    BY <1>1, <1>2, PlaceIs DEF Size
<1>9. n - 1 > 0 => Wrap(s.r[15] + Width(s)) = Size(t) * (Len(p) - (n - 1))
    BY <1>1, <1>2, <1>3, PlaceIs
<1> QED
    BY <1>1, <1>2, <1>3, <1>4, <1>5, <1>6, <1>7, <1>8, <1>9

(* An exception between two instructions, or one that leaves its own undone. *)
LEMMA RaisedIs ==
    ASSUME NEW s, NEW p, NEW n, NEW t \in BOOLEAN, IsAt(s, p, n, t), s.cpsr.mode = "usr",
           NEW e \in {"irq", "prefetchAbort", "dataAbort"}, NEW d, Raises(s, d, e, s.r[15] + Behind(e))
    PROVE  IsAt(d, p, n, t)
<1>1. Behind(e) \in Int
    BY DEF Behind
<1>2. s \in Cpus /\ s.r[15] \in Word
    BY RegIs, LowerIs DEF IsAt
<1>3. d.r[14] = Wrap(s.r[15] + Behind(e)) /\ d.vector = e
    BY DEF Raises
<1>4. Wrap(d.r[14] - Behind(d.vector)) = s.r[15]
    BY <1>1, <1>2, <1>3, Back
<1>5. d.cpsr.mode # "usr"
    BY DEF Raises, TargetOf
<1> QED
    BY <1>3, <1>4, <1>5 DEF Raises, IsAt, Points

(* A call goes on after itself. *)
LEMMA CalledIs ==
    ASSUME NEW s, NEW p, NEW n, NEW t \in BOOLEAN, IsAt(s, p, n, t), s.cpsr.mode = "usr", n # 0,
           NEW e \in {"swi", "undefined"}, NEW d, Raises(s, d, e, s.r[15] + Width(s))
    PROVE  IsAt(d, p, n - 1, t)
<1>1. Behind(e) = 0
    BY DEF Behind
<1>2. s \in Cpus /\ s.r[15] \in Int /\ Width(s) \in Int
    BY RegIs, LowerIs DEF IsAt, Width
<1>3. PICK w \in Word : w = Wrap(s.r[15] + Width(s))
    BY <1>2, WrapIs
<1>4. d.r[14] = w /\ d.vector = e
    BY <1>3 DEF Raises
<1>5. Wrap(d.r[14] - Behind(d.vector)) = w
    BY <1>1, <1>3, <1>4, WrapIs, SignedIs
<1>6. d.cpsr.mode # "usr"
    BY DEF Raises, TargetOf
<1>7. Len(p) \in Nat /\ IsProgram(p, t)
    BY ProgramIs DEF IsAt
<1>8. n - 1 \in 0 .. Len(p)
    BY <1>7 DEF IsAt
<1>9. n - 1 > 0 => w = Size(t) * (Len(p) - (n - 1))
    BY <1>3, UserIs
<1>10. n - 1 > 0 => (s.cpsr.t <=> t)
    BY UserIs
<1>11. Points(d.spsr.t, w, p, n - 1, t)
    BY <1>9, <1>10 DEF Points, Raises
<1> QED
    BY <1>4, <1>5, <1>6, <1>7, <1>8, <1>11 DEF Raises, IsAt

(* A step in the program leaves the core at the next instruction, or in a  *)
(* handler that returns to it, or to the same after an abort.              *)
LEMMA SteppedIs ==
    ASSUME NEW s, NEW p, NEW n, NEW t \in BOOLEAN, IsAt(s, p, n, t), s.cpsr.mode = "usr", n # 0,
           NEW i, i = p[s.r[15] \div Width(s) + 1], NEW d, d = Execute(s, i)
    PROVE  IsAt(d, p, IF d.cpsr.mode = "abt" THEN n ELSE n - 1, t)
<1>1. s \in Cpus /\ IsProgram(p, t)
    BY DEF IsAt
<1>2. /\ n \in 1 .. Len(p) /\ (s.cpsr.t <=> t) /\ Width(s) = Size(t)
      /\ s.cpsr.t => i \in ThumbInstructions /\ s.r[15] % 2 = 0
      /\ ~s.cpsr.t => i \in ArmInstructions
      /\ n > 1 => IF s.cpsr.t THEN ThumbGoesOn(i) ELSE ArmGoesOn(i)
      /\ n - 1 > 0 => Wrap(s.r[15] + Width(s)) = Size(t) * (Len(p) - (n - 1))
    BY UserIs
<1>3. Len(p) \in Nat
    BY <1>1, ProgramIs
<1>4. n - 1 \in 0 .. Len(p)
    BY <1>2, <1>3
<1>5. PICK goesOn : goesOn = IF s.cpsr.t THEN ThumbGoesOn(i) ELSE ArmGoesOn(i)
    OBVIOUS
<1>6. Follows(s, d, i, goesOn)
    BY <1>1, <1>2, <1>5, StepIs
<1>7. CASE /\ d \in Cpus /\ d.cpsr.mode = s.cpsr.mode /\ d.cpsr.t = s.cpsr.t
           /\ d.r[15] = Wrap(s.r[15] + Width(s))
    <2>1. Points(d.cpsr.t, d.r[15], p, n - 1, t)
        BY <1>2, <1>7 DEF Points
    <2> QED
        BY <1>1, <1>4, <1>7, <2>1 DEF IsAt
<1>8. CASE d \in Cpus /\ d.cpsr.mode = s.cpsr.mode /\ ~goesOn
    <2>1. n - 1 = 0
        BY <1>2, <1>3, <1>5, <1>8
    <2>2. Points(d.cpsr.t, d.r[15], p, n - 1, t)
        BY <2>1 DEF Points
    <2> QED
        BY <1>1, <1>4, <1>8, <2>2 DEF IsAt
<1>9. CASE Raises(s, d, "dataAbort", s.r[15] + 8)
    <2>1. Behind("dataAbort") = 8
        BY DEF Behind
    <2>2. IsAt(d, p, n, t)
        BY <1>9, <2>1, RaisedIs
    <2>3. d.cpsr.mode = "abt"
        BY <1>9 DEF Raises, TargetOf
    <2> QED
        BY <2>2, <2>3
<1>10. CASE i.op \in {"swi", "undefined"} /\ Raises(s, d, i.op, s.r[15] + Width(s))
    <2>1. IsAt(d, p, n - 1, t)
        BY <1>10, CalledIs
    <2>2. d.cpsr.mode # "abt"
        BY <1>10 DEF Raises, TargetOf
    <2> QED
        BY <2>1, <2>2
<1> QED
    BY <1>6, <1>7, <1>8, <1>9, <1>10 DEF Follows

(* The handler goes back to what was undone, or to what is next. *)
LEMMA ReturnedIs ==
    ASSUME NEW s, NEW p, NEW n, NEW t \in BOOLEAN, IsAt(s, p, n, t), s.cpsr.mode # "usr",
           NEW more \in SUBSET Int, NEW c, c = [s EXCEPT !.mapped = @ \cup more],
           NEW d, d = Execute(c, GoBack(Behind(s.vector)))
    PROVE  IsAt(d, p, n, t)
<1>1. s \in Cpus /\ IsProgram(p, t) /\ n \in 0 .. Len(p)
    BY DEF IsAt
<1>2. /\ c \in Cpus /\ c.cpsr = s.cpsr /\ c.spsr = s.spsr /\ c.r = s.r /\ c.vector = s.vector
    BY <1>1 DEF Cpus
<1>3. Behind(s.vector) \in {0, 4, 8}
    BY <1>1 DEF Cpus, Vectors, IsAt, Behind
<1>4. PICK b \in {0, 4, 8} : b = Behind(s.vector)
    BY <1>3
<1>5. Returns(c, d, b)
    BY <1>2, <1>4, GoBackIs DEF IsAt
<1>6. d \in Cpus /\ d.cpsr = s.spsr /\ d.cpsr.mode = "usr"
    BY <1>2, <1>5 DEF Returns, IsAt
<1>7. Points(s.spsr.t, Wrap(s.r[14] - b), p, n, t)
    BY <1>4 DEF IsAt
<1>8. n > 0 => (s.spsr.t <=> t) /\ Wrap(s.r[14] - b) = Size(t) * (Len(p) - n)
    BY <1>7 DEF Points
<1>9. n > 0 => Wrap(s.r[14] - b) % Size(t) = 0
    <2> SUFFICES ASSUME n > 0 PROVE Wrap(s.r[14] - b) % Size(t) = 0
        OBVIOUS
    <2>1. n \in 1 .. Len(p)
        BY <1>1, ProgramIs
    <2> QED
        BY <1>1, <1>8, <2>1, PlaceIs
<1>10. n > 0 => d.r[15] = Wrap(s.r[14] - b)
    BY <1>2, <1>5, <1>8, <1>9 DEF Returns, Size
<1>11. Points(d.cpsr.t, d.r[15], p, n, t)
    BY <1>6, <1>8, <1>10 DEF Points
<1> QED
    BY <1>1, <1>6, <1>11 DEF IsAt

-----------------------------------------------------------------------------
(* The core is in its program, or in a handler that knows the way back. *)
LEMMA BegunIs ==
    ASSUME NEW thumb \in BOOLEAN, NEW r \in [Regs -> Word], NEW carry \in BOOLEAN,
           NEW m \in SUBSET Int, NEW s, s = Begun(thumb, r, carry, m)
    PROVE  /\ s \in Cpus /\ s.cpsr.mode = "usr" /\ (s.cpsr.t <=> thumb) /\ s.r = r
<1>1. PICK no \in BOOLEAN : no = FALSE
    OBVIOUS
<1>2. User = [mode |-> "usr", n |-> no, z |-> no, c |-> no, v |-> no, q |-> no, t |-> no, i |-> no]
    BY <1>1, Zenon DEF User
<1>3. PICK u : u = User
    OBVIOUS
<1>4. u \in Statuses
    BY <1>2, <1>3 DEF Statuses, Modes
<1>5. PICK f : f = [u EXCEPT !.t = thumb, !.c = carry]
    OBVIOUS
<1>6. f \in Statuses /\ f.mode = "usr" /\ f.t = thumb
    BY <1>2, <1>3, <1>5 DEF Statuses, Modes
<1>7. PICK b : b = [x \in {"usr", "irq", "abt", "svc", "und"} |-> [sp |-> 0, lr |-> 0, spsr |-> u]]
    OBVIOUS
<1>8. b \in [Modes -> [sp : Word, lr : Word, spsr : Statuses]]
    BY <1>4, <1>7, ZeroIs DEF Modes
<1>9. Stored \in [Cells -> Word] /\ NoAddress \in 0 .. Modulus /\ 0 \in Word
    <2>1. Stored \in [Cells -> Word]
        BY WordAssumption, Zenon DEF Cells
    <2>2. NoAddress \in 0 .. Modulus
        BY ModulusIs DEF NoAddress
    <2> QED
        BY <2>1, <2>2, ZeroIs
<1>10. s = [r |-> r, cpsr |-> f, spsr |-> u, bank |-> b, vector |-> "none", far |-> NoAddress,
            at |-> 0, branched |-> no, mem |-> Stored, mapped |-> m]
    BY <1>1, <1>3, <1>5, <1>7, Zenon DEF Begun
<1> QED
    BY <1>4, <1>6, <1>8, <1>9, <1>10 DEF Cpus, Vectors

(* Pages are numbers. *)
LEMMA PagesAre == \A a \in 0 .. Modulus : PageOf(a) \in Int
BY ModulusIs, WordAssumption DEF PageOf

(* So is the page of the code. *)
LEMMA MapsAre == Pages \cup {CodePage} \subseteq Int
<1>1. Pages \subseteq Int
    BY PagesAre, ModulusIs DEF Pages, Word
<1>2. CodePage \in Int
    BY ModulusIs, WordAssumption DEF CodePage
<1> QED
    BY <1>1, <1>2

(* A program begins at its first instruction. *)
LEMMA InitIInv == Init => IInv
<1> SUFFICES ASSUME Init PROVE IInv
    OBVIOUS
<1>1. PICK trial \in Trials : \E p \in trial.programs, r \in trial.registers,
              c \in trial.carries, m \in trial.maps :
          cpu = Begun(trial.thumb, r, c, m) /\ program = p /\ left = Len(p)
    BY DEF Init
<1>2. PICK p \in trial.programs, r \in trial.registers, c \in trial.carries, m \in trial.maps :
          cpu = Begun(trial.thumb, r, c, m) /\ program = p /\ left = Len(p)
    BY <1>1
<1>3. /\ trial.thumb \in BOOLEAN /\ IsProgram(p, trial.thumb) /\ r \in [Regs -> Word] /\ r[15] = 0
      /\ c \in BOOLEAN /\ m \subseteq Pages \cup {CodePage}
    BY TrialsAssumption
<1>4. PICK t \in BOOLEAN : t = trial.thumb
    BY <1>3
<1>5. m \in SUBSET Int
    BY <1>3, MapsAre
<1>6. cpu \in Cpus /\ cpu.cpsr.mode = "usr" /\ (cpu.cpsr.t <=> t) /\ cpu.r = r
    BY <1>2, <1>3, <1>4, <1>5, BegunIs
<1>7. Len(p) \in Nat /\ IsProgram(p, t)
    BY <1>3, <1>4, ProgramIs
<1>8. Size(t) * (Len(p) - left) = 0
    BY <1>2, <1>7 DEF Size
<1>9. Points(cpu.cpsr.t, cpu.r[15], program, left, t)
    BY <1>2, <1>3, <1>6, <1>8 DEF Points
<1>10. IsAt(cpu, program, left, t)
    BY <1>2, <1>6, <1>7, <1>9 DEF IsAt
<1> QED
    BY <1>10 DEF IInv

(* No interrupt, abort, step or return loses the place. *)
LEMMA NextIInv == IInv /\ [Next]_vars => IInv'
<1> SUFFICES ASSUME IInv, [Next]_vars PROVE IInv'
    OBVIOUS
<1>1. PICK t \in BOOLEAN : IsAt(cpu, program, left, t)
    BY DEF IInv
<1>2. ASSUME IsAt(cpu', program', left', t) PROVE IInv'
    BY <1>2 DEF IInv
<1>3. cpu \in Cpus /\ cpu.r[15] \in Int
    BY <1>1, RegIs, LowerIs DEF IsAt
<1>4. ASSUME NEW e \in {"irq", "prefetchAbort"}, InProgram, cpu' = Enter(cpu, e, cpu.r[15] + 4),
             program' = program, left' = left
      PROVE  IInv'
    <2>1. Behind(e) = 4 /\ e \in Vectors \ {"none"}
        BY <1>4 DEF Behind, Vectors
    <2>2. Wrap(cpu.r[15] + 4) \in Word
        BY <1>3, WrapIs
    <2>3. Raises(cpu, cpu', e, cpu.r[15] + Behind(e))
        BY <1>3, <1>4, <2>1, <2>2, EnterIs
    <2>4. IsAt(cpu', program, left, t)
        BY <1>1, <1>4, <2>3, RaisedIs DEF InProgram
    <2> QED
        BY <1>2, <1>4, <2>4
<1>5. CASE UNCHANGED vars
    BY <1>1, <1>2, <1>5 DEF vars
<1>6. CASE LineRises
    BY <1>1, <1>2, <1>6 DEF LineRises
<1>7. CASE TakeInterrupt
    <2>1. InProgram
        BY <1>1, <1>7 DEF TakeInterrupt, IsAt, InProgram
    <2> QED
        BY <1>4, <1>7, <2>1 DEF TakeInterrupt
<1>8. CASE FetchAborts
    BY <1>4, <1>8 DEF FetchAborts, Undisturbed
<1>9. CASE Step
    <2>1. PICK i : i = program[Index]
        OBVIOUS
    <2>2. InProgram /\ left # 0 /\ cpu' = Execute(cpu, i) /\ program' = program
          /\ left' = IF cpu'.cpsr.mode = "abt" THEN left ELSE left - 1
        BY <1>9, <2>1 DEF Step, Undisturbed, Finished
    <2>3. IsAt(cpu', program, IF cpu'.cpsr.mode = "abt" THEN left ELSE left - 1, t)
        BY <1>1, <2>1, <2>2, SteppedIs DEF InProgram, Index
    <2> QED
        BY <1>2, <2>2, <2>3
<1>10. CASE Handle
    <2>1. PICK more : more = CASE cpu.vector = "prefetchAbort" -> {CodePage}
                               [] cpu.vector = "dataAbort" -> {PageOf(cpu.far)}
                               [] OTHER -> {}
        OBVIOUS
    <2>2. PICK c : c = [cpu EXCEPT !.mapped = @ \cup more]
        OBVIOUS
    <2>3. ~InProgram /\ cpu' = Execute(c, GoBack(Behind(cpu.vector))) /\ program' = program /\ left' = left
        BY <1>10, <2>1, <2>2 DEF Handle, Behind
    <2>4. CodePage \in Int /\ PageOf(cpu.far) \in Int
        BY <1>3, MapsAre, PagesAre DEF Cpus
    <2>5. more \in SUBSET Int
        BY <2>1, <2>4
    <2>6. IsAt(cpu', program, left, t)
        BY <1>1, <2>2, <2>3, <2>5, ReturnedIs DEF InProgram
    <2> QED
        BY <1>2, <2>3, <2>6
<1> QED
    BY <1>5, <1>6, <1>7, <1>8, <1>9, <1>10 DEF Next

(* The strengthening is an invariant. *)
LEMMA IInvHolds == Spec => []IInv
<1>1. Init => IInv
    BY InitIInv
<1>2. IInv /\ [Next]_vars => IInv'
    BY NextIInv
<1> QED
    BY <1>1, <1>2, PTL DEF Spec

(* Whatever thumb.rs makes of an instruction that is a short form, arm.rs *)
(* makes of the long form: registers, flags, memory and abort, for words  *)
(* of any width, any program, any memory and whatever comes between.      *)
THEOREM ThumbAlwaysIsArm == Spec => []ThumbIsArm
<1>1. IInv => ThumbIsArm
    <2> SUFFICES ASSUME IInv, Reached, cpu.cpsr.t, HasArm(program[Index]),
                        NEW i, i = program[Index], NEW f, f = Fetched(cpu)
                 PROVE  \/ ExecuteThumb(f, i) = ExecuteArm(f, AsArm(i))
                        \/ i.op = "push" /\ ExecuteThumb(f, i).cpsr.mode = "abt"
        BY DEF ThumbIsArm
    <2>1. PICK t \in BOOLEAN : IsAt(cpu, program, left, t)
        BY DEF IInv
    <2>2. cpu \in Cpus /\ cpu.cpsr.mode = "usr" /\ left # 0
        BY <2>1 DEF IsAt, Reached, InProgram, Finished
    <2>3. i \in ThumbInstructions
        BY <2>1, <2>2, UserIs DEF Index
    <2>4. f \in Cpus /\ ~f.branched
        BY <2>2, FetchedIs
    <2>5. \/ ExecuteThumb(f, i) = ExecuteArm(f, AsArm(i))
          \/ i.op = "push" /\ Aborts(f, ExecuteThumb(f, i))
        BY <2>3, <2>4, ThumbSame
    <2>6. Aborts(f, ExecuteThumb(f, i)) => ExecuteThumb(f, i).cpsr.mode = "abt"
        BY DEF Aborts, Raises, TargetOf
    <2> QED
        BY <2>5, <2>6
<1> QED
    BY <1>1, IInvHolds, PTL

----------------------------------------------------------------------------
(* What compilers build on: comparisons, sums of two words, shifts.        *)

(* What the adder gives, as the numbers it stands for. *)
Added(w, x) ==
    /\ w.value \in Word /\ w.carry \in BOOLEAN /\ w.overflow \in BOOLEAN
    /\ w.carry <=> x >= Modulus
    /\ w.value = IF x >= Modulus THEN x - Modulus ELSE x

(* The adder adds two words and a carry; beyond a word it says so. *)
LEMMA AddsTruly ==
    ASSUME NEW a \in Word, NEW b \in Word, NEW k \in 0 .. 1, NEW c, ToInt(c) = k,
           NEW w, w = AddWithCarry(a, b, c)
    PROVE  /\ Added(w, a + b + k)
           /\ w.overflow <=> (~(TopBit(a) <=> TopBit(w.value)) /\ ~(TopBit(b) <=> TopBit(w.value)))
<1>1. PICK m \in Nat : m = Modulus /\ m >= 16
    BY ModulusIs
<1>2. PICK x \in Nat : x = a + b + k /\ x < 2 * m
    BY <1>1 DEF Word
<1>3. PICK y \in Word : y = IF x >= m THEN x - m ELSE x
    <2>1. CASE x >= m
        <3>1. x - m \in Word
            BY <1>1, <1>2, <2>1 DEF Word
        <3> QED
            BY <2>1, <3>1
    <2>2. CASE ~(x >= m)
        <3>1. x \in Word
            BY <1>1, <1>2, <2>2 DEF Word
        <3> QED
            BY <2>2, <3>1
    <2> QED
        BY <2>1, <2>2
<1>4. Wrap(x) = y
    <2>1. CASE x >= m
        <3>1. x = y + 1 * m /\ y \in Int /\ 1 \in Int
            BY <1>1, <1>3, <2>1, SignedIs
        <3>2. Wrap(y + 1 * Modulus) = Wrap(y)
            BY <3>1, WrapSame, Zenon
        <3>3. Wrap(y) = y
            BY <3>1, WrapIs
        <3> QED
            BY <1>1, <3>1, <3>2, <3>3
    <2>2. CASE ~(x >= m)
        BY <1>3, <2>2, WrapIs
    <2> QED
        BY <2>1, <2>2
<1>5. PICK e \in BOOLEAN : e = (x >= m)
    <2>1. (x >= m) \in BOOLEAN
        BY <1>1, <1>2
    <2> QED
        BY <2>1, Zenon
<1>6. PICK o \in BOOLEAN : o = (TopBit(a) # TopBit(y) /\ TopBit(b) # TopBit(y))
    BY Zenon
<1>7. a + b + ToInt(c) = x
    BY <1>2
<1>8. w = [value |-> y, carry |-> e, overflow |-> o]
    BY <1>1, <1>4, <1>5, <1>6, <1>7, Zenon DEF AddWithCarry
<1>9. w.value = y /\ w.carry = e /\ w.overflow = o
    BY <1>8
<1>10. o <=> (~(TopBit(a) <=> TopBit(y)) /\ ~(TopBit(b) <=> TopBit(y)))
    BY <1>6, BitIs, Zenon
<1> QED
    BY <1>1, <1>2, <1>3, <1>5, <1>9, <1>10 DEF Added

(* What a subtraction leaves for the conditions: whether anything was      *)
(* borrowed, and whether the signed result went out of a word.             *)
Compared(w, a, b) ==
    /\ w.value \in Word /\ w.carry \in BOOLEAN /\ w.overflow \in BOOLEAN
    /\ w.carry <=> a >= b
    /\ w.value = IF a >= b THEN a - b ELSE a - b + Modulus
    /\ w.overflow <=> Saturates(Signed(a) - Signed(b))

(* Every subtraction of words does leave that. *)
LEMMA ComparedIs ==
    ASSUME NEW a \in Word, NEW b \in Word, NEW w, w = SubWithBorrow(a, b, TRUE)
    PROVE  Compared(w, a, b)
<1>1. PICK h \in Nat : h = Power[Bits - 1] /\ Modulus = 2 * h /\ h >= 8
    BY ModulusIs
<1>2. PICK d \in Word : d = Complement(b) /\ d = Modulus - 1 - b
    BY ComplementIs DEF Complement
<1>3. PICK c \in BOOLEAN : c = TRUE
    OBVIOUS
<1>4. w = AddWithCarry(a, d, c) /\ ToInt(c) = 1 /\ 1 \in 0 .. 1
    BY <1>2, <1>3 DEF SubWithBorrow, ToInt
<1>5. /\ Added(w, a + d + 1)
      /\ w.overflow <=> (~(TopBit(a) <=> TopBit(w.value)) /\ ~(TopBit(d) <=> TopBit(w.value)))
    BY <1>4, AddsTruly, Zenon
<1>6. a \in 0 .. 2 * h - 1 /\ b \in 0 .. 2 * h - 1 /\ d = 2 * h - 1 - b
    BY <1>1, <1>2 DEF Word
<1>7. PICK v \in Word, o \in BOOLEAN, e \in BOOLEAN :
          v = w.value /\ o = w.overflow /\ e = w.carry
    BY <1>5 DEF Added
<1>8. /\ v = IF a >= b THEN a - b ELSE a - b + 2 * h
      /\ e <=> a >= b
    <2>1. PICK x \in Int : x = a + d + 1 /\ x = a - b + 2 * h
        BY <1>6
    <2>2. /\ e <=> x >= 2 * h
          /\ v = IF x >= 2 * h THEN x - 2 * h ELSE x
        BY <1>1, <1>5, <1>7, <2>1 DEF Added
    <2>3. x >= 2 * h <=> a >= b
        BY <1>6, <2>1
    <2> QED
        BY <1>6, <2>1, <2>2, <2>3
<1>9. v \in 0 .. 2 * h - 1
    BY <1>6, <1>8
<1>10. /\ TopBit(a) <=> a >= h
       /\ TopBit(v) <=> v >= h
       /\ TopBit(d) <=> ~(b >= h)
    BY <1>1, <1>6, <1>9 DEF TopBit
<1>11. /\ Signed(a) = IF a >= h THEN a - 2 * h ELSE a
       /\ Signed(b) = IF b >= h THEN b - 2 * h ELSE b
    BY <1>1, <1>6 DEF Signed, TopBit
<1>12. Saturates(Signed(a) - Signed(b)) <=>
          ~(Signed(a) - Signed(b) >= -h /\ Signed(a) - Signed(b) <= h - 1)
    BY <1>1, <1>6, <1>11 DEF Saturates
<1>13. o <=> (~(a >= h <=> v >= h) /\ ~(~(b >= h) <=> v >= h))
    BY <1>5, <1>7, <1>10
<1>14. o <=> Saturates(Signed(a) - Signed(b))
    <2>1. CASE a >= h /\ b >= h
        BY <1>6, <1>8, <1>11, <1>12, <1>13, <2>1
    <2>2. CASE a >= h /\ ~(b >= h)
        BY <1>6, <1>8, <1>11, <1>12, <1>13, <2>2
    <2>3. CASE ~(a >= h) /\ b >= h
        BY <1>6, <1>8, <1>11, <1>12, <1>13, <2>3
    <2>4. CASE ~(a >= h) /\ ~(b >= h)
        BY <1>6, <1>8, <1>11, <1>12, <1>13, <2>4
    <2> QED
        BY <2>1, <2>2, <2>3, <2>4
<1> QED
    BY <1>1, <1>7, <1>8, <1>14 DEF Compared

(* The four flags of a comparison. *)
FlagsOf(f, w) ==
    /\ f.n \in BOOLEAN /\ f.z \in BOOLEAN /\ f.c \in BOOLEAN /\ f.v \in BOOLEAN
    /\ f.n <=> TopBit(w.value)
    /\ f.z <=> w.value = 0
    /\ f.c <=> w.carry
    /\ f.v <=> w.overflow

(* What is true when something else is, and not otherwise, is the same. *)
LEMMA SameTruth ==
    ASSUME NEW p \in BOOLEAN, NEW q \in BOOLEAN, p <=> q
    PROVE  p = q
OBVIOUS

(* Sign and overflow agree if the difference is not negative. *)
LEMMA SignsAgree ==
    ASSUME NEW h \in Nat, NEW a \in 0 .. 2 * h - 1, NEW b \in 0 .. 2 * h - 1,
           NEW x \in Int, x = IF a >= h THEN a - 2 * h ELSE a,
           NEW y \in Int, y = IF b >= h THEN b - 2 * h ELSE b,
           NEW u \in Int, u = IF a >= b THEN a - b ELSE a - b + 2 * h,
           NEW n \in BOOLEAN, n <=> u >= h,
           NEW v \in BOOLEAN, v <=> ~(x - y >= -h /\ x - y <= h - 1)
    PROVE  ((n <=> v) <=> x >= y) /\ (a = b <=> x = y)
<1>1. CASE a >= h /\ b >= h
    <2>1. x = a - 2 * h /\ y = b - 2 * h /\ v = FALSE
        BY <1>1
    <2> QED
        BY <1>1, <2>1
<1>2. CASE a >= h /\ ~(b >= h)
    <2>1. x = a - 2 * h /\ y = b /\ u = a - b
        BY <1>2
    <2> QED
        BY <1>2, <2>1
<1>3. CASE ~(a >= h) /\ b >= h
    <2>1. x = a /\ y = b - 2 * h /\ u = a - b + 2 * h
        BY <1>3
    <2> QED
        BY <1>3, <2>1
<1>4. CASE ~(a >= h) /\ ~(b >= h)
    <2>1. x = a /\ y = b /\ v = FALSE
        BY <1>4
    <2> QED
        BY <1>4, <2>1
<1> QED
    BY <1>1, <1>2, <1>3, <1>4

(* Every condition after a comparison says of the two words what it means. *)
LEMMA TellsTruly ==
    ASSUME NEW a \in Word, NEW b \in Word, NEW w, Compared(w, a, b), NEW f, FlagsOf(f, w),
           NEW cond \in Conditions
    PROVE  Passes(f, cond) = Tells(cond, a, b)
<1>1. PICK h \in Nat : h = Power[Bits - 1] /\ Modulus = 2 * h /\ h >= 8
    BY ModulusIs
<1>2. a \in 0 .. 2 * h - 1 /\ b \in 0 .. 2 * h - 1
    BY <1>1 DEF Word
<1>3. PICK n \in BOOLEAN, z \in BOOLEAN, c \in BOOLEAN, v \in BOOLEAN :
          n = f.n /\ z = f.z /\ c = f.c /\ v = f.v
    BY DEF FlagsOf
<1>4. PICK x \in Int, y \in Int :
          /\ x = Signed(a) /\ y = Signed(b)
          /\ x = IF a >= h THEN a - 2 * h ELSE a
          /\ y = IF b >= h THEN b - 2 * h ELSE b
    <2>1. /\ Signed(a) = IF a >= h THEN a - 2 * h ELSE a
          /\ Signed(b) = IF b >= h THEN b - 2 * h ELSE b
        BY <1>1, <1>2 DEF Signed, TopBit
    <2>2. PICK x \in Int, y \in Int : x = Signed(a) /\ y = Signed(b)
        BY SignedIs
    <2>3. x = (IF a >= h THEN a - 2 * h ELSE a) /\ y = IF b >= h THEN b - 2 * h ELSE b
        BY <2>1, <2>2
    <2> QED
        BY <2>2, <2>3
<1>5. PICK u \in Word : u = w.value /\ u = IF a >= b THEN a - b ELSE a - b + 2 * h
    BY <1>1 DEF Compared
<1>6. Wrap(a - b) = u
    <2>1. a - b \in Int /\ u \in Int /\ 1 \in Int
        BY <1>2, SignedIs
    <2>2. CASE a >= b
        BY <1>5, <2>1, <2>2, WrapIs
    <2>3. CASE ~(a >= b)
        <3>1. u = (a - b) + 1 * Modulus
            BY <1>1, <1>2, <1>5, <2>3
        <3>2. Wrap((a - b) + 1 * Modulus) = Wrap(a - b)
            BY <2>1, WrapSame, Zenon
        <3> QED
            BY <2>1, <3>1, <3>2, WrapIs
    <2> QED
        BY <2>2, <2>3
<1>7. /\ n <=> u >= h
      /\ z <=> a = b
      /\ c <=> a >= b
      /\ v <=> ~(x - y >= -h /\ x - y <= h - 1)
    <2>1. z <=> u = 0
        BY <1>3, <1>5 DEF FlagsOf
    <2>2. u = 0 <=> a = b
        BY <1>2, <1>5
    <2>3. n <=> u >= h
        BY <1>1, <1>3, <1>5 DEF FlagsOf, TopBit
    <2>4. c <=> a >= b
        BY <1>3 DEF FlagsOf, Compared
    <2>5. v <=> Saturates(x - y)
        BY <1>3, <1>4 DEF FlagsOf, Compared
    <2> QED
        BY <1>1, <1>4, <2>1, <2>2, <2>3, <2>4, <2>5 DEF Saturates
<1>8. ((n <=> v) <=> x >= y) /\ (a = b <=> x = y)
    <2>1. u \in Int /\ u = IF a >= b THEN a - b ELSE a - b + 2 * h
        BY <1>5, SignedIs
    <2> QED
        BY <1>2, <1>4, <1>7, <2>1, SignsAgree
<1>9. /\ z <=> a = b
      /\ c <=> a >= b
      /\ n <=> TopBit(Wrap(a - b))
      /\ v <=> Saturates(x - y)
    BY <1>1, <1>3, <1>4, <1>5, <1>6, <1>7 DEF TopBit, FlagsOf, Compared
<1>13. /\ (c /\ ~z) <=> a > b
       /\ (~z /\ (n <=> v)) <=> x > y
    <2>1. (a >= b /\ ~(a = b)) <=> a > b
        BY <1>2
    <2>2. (~(a = b) /\ x >= y) <=> x > y
        BY <1>8
    <2> QED
        BY <1>7, <1>8, <2>1, <2>2, Zenon
<1>10. Passes(f, cond) = Tells(cond, a, b)
    <2>1. /\ a <= b <=> ~(a > b)
          /\ a < b <=> ~(a >= b)
          /\ x <= y <=> ~(x > y)
          /\ x < y <=> ~(x >= y)
        BY <1>2
    <2>2. CASE cond = "EQ"
        <3>1. Passes(f, cond) = (f.z)
            BY <2>2 DEF Passes
        <3>2. Tells(cond, a, b) = (a = b)
            BY <1>4, <2>2 DEF Tells
        <3>3. Passes(f, cond) <=> Tells(cond, a, b)
            BY <1>3, <1>9, <1>8, <1>13, <2>1, <3>1, <3>2, Zenon
        <3>4. Passes(f, cond) \in BOOLEAN
            BY <1>3, <3>1, Zenon
        <3>5. Tells(cond, a, b) \in BOOLEAN
            BY <1>2, <3>2 DEF TopBit, Saturates
        <3> QED
            BY <3>3, <3>4, <3>5, SameTruth, Zenon
    <2>3. CASE cond = "NE"
        <3>1. Passes(f, cond) = (~f.z)
            BY <2>3 DEF Passes
        <3>2. Tells(cond, a, b) = (a # b)
            BY <1>4, <2>3 DEF Tells
        <3>3. Passes(f, cond) <=> Tells(cond, a, b)
            BY <1>3, <1>9, <1>8, <1>13, <2>1, <3>1, <3>2, Zenon
        <3>4. Passes(f, cond) \in BOOLEAN
            BY <1>3, <3>1, Zenon
        <3>5. Tells(cond, a, b) \in BOOLEAN
            BY <1>2, <3>2 DEF TopBit, Saturates
        <3> QED
            BY <3>3, <3>4, <3>5, SameTruth, Zenon
    <2>4. CASE cond = "CS"
        <3>1. Passes(f, cond) = (f.c)
            BY <2>4 DEF Passes
        <3>2. Tells(cond, a, b) = (a >= b)
            BY <1>4, <2>4 DEF Tells
        <3>3. Passes(f, cond) <=> Tells(cond, a, b)
            BY <1>3, <1>9, <1>8, <1>13, <2>1, <3>1, <3>2, Zenon
        <3>4. Passes(f, cond) \in BOOLEAN
            BY <1>3, <3>1, Zenon
        <3>5. Tells(cond, a, b) \in BOOLEAN
            BY <1>2, <3>2 DEF TopBit, Saturates
        <3> QED
            BY <3>3, <3>4, <3>5, SameTruth, Zenon
    <2>5. CASE cond = "CC"
        <3>1. Passes(f, cond) = (~f.c)
            BY <2>5 DEF Passes
        <3>2. Tells(cond, a, b) = (a < b)
            BY <1>4, <2>5 DEF Tells
        <3>3. Passes(f, cond) <=> Tells(cond, a, b)
            BY <1>3, <1>9, <1>8, <1>13, <2>1, <3>1, <3>2, Zenon
        <3>4. Passes(f, cond) \in BOOLEAN
            BY <1>3, <3>1, Zenon
        <3>5. Tells(cond, a, b) \in BOOLEAN
            BY <1>2, <3>2 DEF TopBit, Saturates
        <3> QED
            BY <3>3, <3>4, <3>5, SameTruth, Zenon
    <2>6. CASE cond = "MI"
        <3>1. Passes(f, cond) = (f.n)
            BY <2>6 DEF Passes
        <3>2. Tells(cond, a, b) = (TopBit(Wrap(a - b)))
            BY <1>4, <2>6 DEF Tells
        <3>3. Passes(f, cond) <=> Tells(cond, a, b)
            BY <1>3, <1>9, <1>8, <1>13, <2>1, <3>1, <3>2, Zenon
        <3>4. Passes(f, cond) \in BOOLEAN
            BY <1>3, <3>1, Zenon
        <3>5. Tells(cond, a, b) \in BOOLEAN
            BY <1>2, <3>2 DEF TopBit, Saturates
        <3> QED
            BY <3>3, <3>4, <3>5, SameTruth, Zenon
    <2>7. CASE cond = "PL"
        <3>1. Passes(f, cond) = (~f.n)
            BY <2>7 DEF Passes
        <3>2. Tells(cond, a, b) = (~TopBit(Wrap(a - b)))
            BY <1>4, <2>7 DEF Tells
        <3>3. Passes(f, cond) <=> Tells(cond, a, b)
            BY <1>3, <1>9, <1>8, <1>13, <2>1, <3>1, <3>2, Zenon
        <3>4. Passes(f, cond) \in BOOLEAN
            BY <1>3, <3>1, Zenon
        <3>5. Tells(cond, a, b) \in BOOLEAN
            BY <1>2, <3>2 DEF TopBit, Saturates
        <3> QED
            BY <3>3, <3>4, <3>5, SameTruth, Zenon
    <2>8. CASE cond = "VS"
        <3>1. Passes(f, cond) = (f.v)
            BY <2>8 DEF Passes
        <3>2. Tells(cond, a, b) = (Saturates(x - y))
            BY <1>4, <2>8 DEF Tells
        <3>3. Passes(f, cond) <=> Tells(cond, a, b)
            BY <1>3, <1>9, <1>8, <1>13, <2>1, <3>1, <3>2, Zenon
        <3>4. Passes(f, cond) \in BOOLEAN
            BY <1>3, <3>1, Zenon
        <3>5. Tells(cond, a, b) \in BOOLEAN
            BY <1>2, <3>2 DEF TopBit, Saturates
        <3> QED
            BY <3>3, <3>4, <3>5, SameTruth, Zenon
    <2>9. CASE cond = "VC"
        <3>1. Passes(f, cond) = (~f.v)
            BY <2>9 DEF Passes
        <3>2. Tells(cond, a, b) = (~Saturates(x - y))
            BY <1>4, <2>9 DEF Tells
        <3>3. Passes(f, cond) <=> Tells(cond, a, b)
            BY <1>3, <1>9, <1>8, <1>13, <2>1, <3>1, <3>2, Zenon
        <3>4. Passes(f, cond) \in BOOLEAN
            BY <1>3, <3>1, Zenon
        <3>5. Tells(cond, a, b) \in BOOLEAN
            BY <1>2, <3>2 DEF TopBit, Saturates
        <3> QED
            BY <3>3, <3>4, <3>5, SameTruth, Zenon
    <2>10. CASE cond = "HI"
        <3>1. Passes(f, cond) = (f.c /\ ~f.z)
            BY <2>10 DEF Passes
        <3>2. Tells(cond, a, b) = (a > b)
            BY <1>4, <2>10 DEF Tells
        <3>3. Passes(f, cond) <=> Tells(cond, a, b)
            BY <1>3, <1>9, <1>8, <1>13, <2>1, <3>1, <3>2, Zenon
        <3>4. Passes(f, cond) \in BOOLEAN
            BY <1>3, <3>1, Zenon
        <3>5. Tells(cond, a, b) \in BOOLEAN
            BY <1>2, <3>2 DEF TopBit, Saturates
        <3> QED
            BY <3>3, <3>4, <3>5, SameTruth, Zenon
    <2>11. CASE cond = "LS"
        <3>1. Passes(f, cond) = (~f.c \/ f.z)
            BY <2>11 DEF Passes
        <3>2. Tells(cond, a, b) = (a <= b)
            BY <1>4, <2>11 DEF Tells
        <3>3. Passes(f, cond) <=> Tells(cond, a, b)
            BY <1>3, <1>9, <1>8, <1>13, <2>1, <3>1, <3>2, Zenon
        <3>4. Passes(f, cond) \in BOOLEAN
            BY <1>3, <3>1, Zenon
        <3>5. Tells(cond, a, b) \in BOOLEAN
            BY <1>2, <3>2 DEF TopBit, Saturates
        <3> QED
            BY <3>3, <3>4, <3>5, SameTruth, Zenon
    <2>12. CASE cond = "GE"
        <3>1. Passes(f, cond) = (f.n = f.v)
            BY <2>12 DEF Passes
        <3>2. Tells(cond, a, b) = (x >= y)
            BY <1>4, <2>12 DEF Tells
        <3>3. Passes(f, cond) <=> Tells(cond, a, b)
            BY <1>3, <1>9, <1>8, <1>13, <2>1, <3>1, <3>2, Zenon
        <3>4. Passes(f, cond) \in BOOLEAN
            BY <1>3, <3>1, Zenon
        <3>5. Tells(cond, a, b) \in BOOLEAN
            BY <1>2, <3>2 DEF TopBit, Saturates
        <3> QED
            BY <3>3, <3>4, <3>5, SameTruth, Zenon
    <2>13. CASE cond = "LT"
        <3>1. Passes(f, cond) = (f.n # f.v)
            BY <2>13 DEF Passes
        <3>2. Tells(cond, a, b) = (x < y)
            BY <1>4, <2>13 DEF Tells
        <3>3. Passes(f, cond) <=> Tells(cond, a, b)
            BY <1>3, <1>9, <1>8, <1>13, <2>1, <3>1, <3>2, Zenon
        <3>4. Passes(f, cond) \in BOOLEAN
            BY <1>3, <3>1, Zenon
        <3>5. Tells(cond, a, b) \in BOOLEAN
            BY <1>2, <3>2 DEF TopBit, Saturates
        <3> QED
            BY <3>3, <3>4, <3>5, SameTruth, Zenon
    <2>14. CASE cond = "GT"
        <3>1. Passes(f, cond) = (~f.z /\ f.n = f.v)
            BY <2>14 DEF Passes
        <3>2. Tells(cond, a, b) = (x > y)
            BY <1>4, <2>14 DEF Tells
        <3>3. Passes(f, cond) <=> Tells(cond, a, b)
            BY <1>3, <1>9, <1>8, <1>13, <2>1, <3>1, <3>2, Zenon
        <3>4. Passes(f, cond) \in BOOLEAN
            BY <1>3, <3>1, Zenon
        <3>5. Tells(cond, a, b) \in BOOLEAN
            BY <1>2, <3>2 DEF TopBit, Saturates
        <3> QED
            BY <3>3, <3>4, <3>5, SameTruth, Zenon
    <2>15. CASE cond = "LE"
        <3>1. Passes(f, cond) = (f.z \/ f.n # f.v)
            BY <2>15 DEF Passes
        <3>2. Tells(cond, a, b) = (x <= y)
            BY <1>4, <2>15 DEF Tells
        <3>3. Passes(f, cond) <=> Tells(cond, a, b)
            BY <1>3, <1>9, <1>8, <1>13, <2>1, <3>1, <3>2, Zenon
        <3>4. Passes(f, cond) \in BOOLEAN
            BY <1>3, <3>1, Zenon
        <3>5. Tells(cond, a, b) \in BOOLEAN
            BY <1>2, <3>2 DEF TopBit, Saturates
        <3> QED
            BY <3>3, <3>4, <3>5, SameTruth, Zenon
    <2> QED
        BY <2>2, <2>3, <2>4, <2>5, <2>6, <2>7, <2>8, <2>9, <2>10, <2>11, <2>12, <2>13, <2>14, <2>15 DEF Conditions
<1> QED
    BY <1>10

(* The registers but the program counter are those of s, x but for v. *)
Puts(s, d, x, v) == \A y \in General : d.r[y] = IF y = x THEN v ELSE s.r[y]
Leaves(s, d) == \A y \in General : d.r[y] = s.r[y]

(* What sums leave: a word in one register unless it is discarded, the     *)
(* flags if they are asked for, and ARM's instructions.                    *)
SumsUp(s, i, d, w) ==
    /\ d \in Cpus /\ ~d.cpsr.t
    /\ IF i.code \in Discards THEN Leaves(s, d) ELSE Puts(s, d, i.rd, w.value)
    /\ i.flags => FlagsOf(d.cpsr, w)
    /\ ~i.flags => d.cpsr = s.cpsr

(* The flags of a sum. *)
LEMMA SetSumFlags ==
    ASSUME NEW s \in Cpus, NEW w, IsSum(w), NEW d, d = SetSum(s, w)
    PROVE  Stays(s, d) /\ d.r = s.r /\ FlagsOf(d.cpsr, w)
<1>1. PICK a : a = SetNZ(s, w.value)
    OBVIOUS
<1>2. PICK n \in BOOLEAN, z \in BOOLEAN, c \in BOOLEAN, v \in BOOLEAN :
          n = TopBit(w.value) /\ z = (w.value = 0) /\ c = w.carry /\ v = w.overflow
    BY BitIs, Zenon DEF IsSum
<1>3. a = [s EXCEPT !.cpsr.n = n, !.cpsr.z = z]
    BY <1>1, <1>2, Zenon DEF SetNZ
<1>4. a \in Cpus /\ a.r = s.r /\ a.cpsr = [s.cpsr EXCEPT !.n = n, !.z = z] /\ a.cpsr \in Statuses
    BY <1>3 DEF Cpus, Statuses
<1>5. PICK b : b = SetC(a, c)
    OBVIOUS
<1>6. b = [a EXCEPT !.cpsr.c = c]
    BY <1>5, Zenon DEF SetC
<1>7. b \in Cpus /\ b.r = s.r /\ b.cpsr = [a.cpsr EXCEPT !.c = c] /\ b.cpsr \in Statuses
    BY <1>4, <1>6 DEF Cpus, Statuses
<1>8. d = [b EXCEPT !.cpsr.v = v]
    BY <1>1, <1>2, <1>5, Zenon DEF SetSum, SetV
<1>9. d.r = s.r /\ d.cpsr = [b.cpsr EXCEPT !.v = v]
    BY <1>7, <1>8 DEF Cpus, Statuses
<1>10. d.cpsr.n = n /\ d.cpsr.z = z /\ d.cpsr.c = c /\ d.cpsr.v = v
    BY <1>4, <1>7, <1>9 DEF Statuses
<1>11. FlagsOf(d.cpsr, w)
    BY <1>2, <1>10, Zenon DEF FlagsOf
<1> QED
    BY <1>9, <1>11, SetSumIs

(* What becomes of the registers when the instruction is fetched and when  *)
(* the core goes on from it.                                               *)
LEMMA FetchLeaves ==
    ASSUME NEW s \in Cpus, NEW f, f = Fetched(s)
    PROVE  Leaves(s, f)
<1>1. s.r \in [Regs -> Word]
    BY DEF Cpus
<1>2. PICK w : w = Wrap(s.r[15] + 2 * Width(s))
    OBVIOUS
<1>3. f.r = [s.r EXCEPT ![15] = w]
    BY <1>2 DEF Fetched, Cpus
<1> QED
    BY <1>1, <1>3 DEF Leaves, General

(* Going on moves nothing but the program counter. *)
LEMMA OnwardLeaves ==
    ASSUME NEW s \in Cpus, NEW e \in Cpus, ~e.branched, NEW d, d = Onward(s, e)
    PROVE  d \in Cpus /\ d.cpsr = e.cpsr /\ Leaves(e, d)
<1>1. PICK w \in Word : w = Wrap(s.r[15] + Width(s))
    <2>1. s.r[15] + Width(s) \in Int
        BY RegIs, LowerIs DEF Width
    <2> QED
        BY <2>1, WrapIs
<1>2. d = [e EXCEPT !.r[15] = w]
    BY <1>1 DEF Onward
<1>3. d \in Cpus /\ d.r = [e.r EXCEPT ![15] = w] /\ d.cpsr = e.cpsr /\ e.r \in [Regs -> Word]
    BY <1>2, LowerIs DEF Cpus
<1> QED
    BY <1>3 DEF Leaves, General

(* A shift by no place is the word in the register. *)
LEMMA RegisterIs ==
    ASSUME NEW s \in Cpus, NEW x \in General, NEW by, by = Register(x)
    PROVE  /\ by.form = "shift" /\ by.rm = x
           /\ Operand(s, by) = Shifted(s.r[x], s.cpsr.c)
BY DEF Register, Operand, ShiftImmediate

(* Sums of two registers. *)
LEMMA SumsUpIs ==
    ASSUME NEW s \in Cpus, ~s.cpsr.t, NEW i, NEW codes, codes \subseteq Sums, OnRegisters(i, codes),
           NEW d, d = Execute(s, i), NEW w, w = SumOf(i.code, s.r[i.rn], s.r[i.by.rm], s.cpsr.c)
    PROVE  SumsUp(s, i, d, w)
<1>1. PICK x \in General : i.by = Register(x)
    BY DEF OnRegisters
<1>2. /\ i.op = "data" /\ i.cond = "AL" /\ i.code \in Sums /\ i.rd \in General /\ i.rn \in General
      /\ i.by.form = "shift" /\ i.by.rm = x /\ x \in Regs /\ i.rd \in Regs /\ i.rn \in Regs
      /\ i.rd # 15 /\ i.rn # 15
    BY <1>1, RegisterIs, GeneralIs DEF OnRegisters, General
<1>3. PICK f : f = Fetched(s)
    OBVIOUS
<1>4. f \in Cpus /\ f.cpsr = s.cpsr /\ ~f.branched /\ Leaves(s, f)
    BY <1>3, FetchedIs, FetchLeaves
<1>5. f.r[i.rn] = s.r[i.rn] /\ f.r[x] = s.r[x]
    BY <1>2, <1>4 DEF Leaves
<1>6. PICK by : by = Operand(f, i.by) /\ by = Shifted(s.r[x], s.cpsr.c)
    BY <1>1, <1>4, <1>5, RegisterIs
<1>7. by.value = s.r[x]
    BY <1>6 DEF Shifted
<1>8. w = SumOf(i.code, s.r[i.rn], by.value, s.cpsr.c) /\ IsSum(w)
    BY <1>2, <1>7, RegIs, SumIs
<1>9. Read15(f, i.rn, IF i.by.form = "reg" THEN 4 ELSE 0) = s.r[i.rn]
    BY <1>2, <1>5 DEF Read15
<1>10. PICK put : put = IF i.code \in Discards THEN f ELSE SetReg(f, i.rd, w.value)
    OBVIOUS
<1>11. PICK e : e = ExecuteArm(f, i)
    OBVIOUS
<1>12. e = DataProcessing(f, i)
    BY <1>2, <1>11 DEF ExecuteArm, Passes
<1>13. e = IF i.flags THEN SetSum(put, w) ELSE put
    <2>1. DataProcessing(f, i) =
            CASE i.rd = 15 /\ i.code \notin Discards ->
                    Branch(IF i.flags THEN WriteStatus(f, f.spsr) ELSE f, w.value)
              [] (i.rd # 15 \/ i.code \in Discards) /\ i.flags ->
                    IF i.code \in Sums THEN SetSum(put, w)
                    ELSE SetC(SetNZ(put, w.value), by.carry)
              [] OTHER -> put
        BY <1>2, <1>4, <1>6, <1>8, <1>9, <1>10 DEF DataProcessing
    <2> QED
        BY <1>2, <1>12, <2>1
<1>14. /\ put \in Cpus /\ ~put.branched /\ put.cpsr = s.cpsr
       /\ IF i.code \in Discards THEN Leaves(s, put) ELSE Puts(s, put, i.rd, w.value)
    <2>1. CASE i.code \in Discards
        BY <1>4, <1>10, <2>1
    <2>2. CASE i.code \notin Discards
        <3>1. HasSet(f, i.rd, w.value, put)
            BY <1>2, <1>4, <1>8, <1>10, <2>2, SetRegIs DEF IsSum
        <3>2. put \in Cpus /\ put.r = [f.r EXCEPT ![i.rd] = w.value] /\ put.cpsr = s.cpsr /\ ~put.branched
            BY <1>2, <1>4, <3>1 DEF HasSet, Keeps
        <3>3. Puts(s, put, i.rd, w.value)
            BY <1>2, <1>4, <3>2, GeneralIs DEF Puts, Leaves, Cpus
        <3> QED
            BY <2>2, <3>2, <3>3
    <2> QED
        BY <2>1, <2>2
<1>15. /\ e \in Cpus /\ ~e.branched /\ e.r = put.r /\ ~e.cpsr.t
       /\ i.flags => FlagsOf(e.cpsr, w)
       /\ ~i.flags => e.cpsr = s.cpsr
    <2>1. CASE i.flags
        <3>1. Stays(put, e) /\ e.r = put.r /\ FlagsOf(e.cpsr, w)
            BY <1>8, <1>13, <1>14, <2>1, SetSumFlags
        <3> QED
            BY <1>14, <2>1, <3>1 DEF Stays, Keeps
    <2>2. CASE ~i.flags
        BY <1>13, <1>14, <2>2
    <2> QED
        BY <2>1, <2>2
<1>16. d = Onward(s, e)
    BY <1>3, <1>11 DEF Execute
<1>17. d \in Cpus /\ d.cpsr = e.cpsr /\ Leaves(e, d)
    BY <1>15, <1>16, OnwardLeaves
<1>18. IF i.code \in Discards THEN Leaves(s, d) ELSE Puts(s, d, i.rd, w.value)
    BY <1>14, <1>15, <1>17 DEF Leaves, Puts
<1> QED
    BY <1>15, <1>17, <1>18 DEF SumsUp

(* Comparisons are true. *)
LEMMA ComparesAreTrue ==
    ASSUME NEW s \in Cpus, ~s.cpsr.t, NEW i
    PROVE  ComparesTruly(s, i)
<1> SUFFICES ASSUME OnRegisters(i, {"CMP"}), i.flags, NEW cond \in Conditions
             PROVE  Passes(Execute(s, i).cpsr, cond) = Tells(cond, s.r[i.rn], s.r[i.by.rm])
    BY DEF ComparesTruly
<1>1. i.code = "CMP" /\ {"CMP"} \subseteq Sums
    BY DEF OnRegisters, Sums
<1>2. PICK x \in General : i.by = Register(x)
    BY DEF OnRegisters
<1>3. i.rn \in Regs /\ i.by.rm \in Regs
    BY <1>2, RegisterIs, GeneralIs DEF OnRegisters
<1>4. PICK w : w = SumOf(i.code, s.r[i.rn], s.r[i.by.rm], s.cpsr.c)
    OBVIOUS
<1>5. w = SubWithBorrow(s.r[i.rn], s.r[i.by.rm], TRUE)
    BY <1>1, <1>4 DEF SumOf
<1>6. s.r[i.rn] \in Word /\ s.r[i.by.rm] \in Word
    BY <1>3, RegIs
<1>7. Compared(w, s.r[i.rn], s.r[i.by.rm])
    BY <1>5, <1>6, ComparedIs
<1>8. PICK d : d = Execute(s, i)
    OBVIOUS
<1>9. SumsUp(s, i, d, w)
    BY <1>1, <1>4, <1>8, SumsUpIs
<1>10. FlagsOf(d.cpsr, w)
    BY <1>9 DEF SumsUp
<1> QED
    BY <1>6, <1>7, <1>8, <1>10, TellsTruly

(* There is one quotient and one remainder. *)
LEMMA QuotientIs ==
    ASSUME NEW x \in Int, NEW m \in Nat, m > 0, NEW q \in Int, NEW e \in 0 .. m - 1, x = m * q + e
    PROVE  x \div m = q /\ x % m = e
<1>1. PICK p \in Int, t \in Nat : p = x \div m /\ t = x % m /\ x = m * p + t /\ t < m
    <2>1. x \div m \in Int /\ x % m \in Nat /\ x % m < m /\ x = m * (x \div m) + (x % m)
        BY Divided, Zenon
    <2>2. PICK p : p = x \div m
        OBVIOUS
    <2>3. PICK t : t = x % m
        OBVIOUS
    <2> QED
        BY <2>1, <2>2, <2>3, Zenon
<1>2. PICK d \in Int : d = p - q
    OBVIOUS
<1>3. m * d = e - t
    <2>1. PICK a \in Int, b \in Int, c \in Int : a = m * p /\ b = m * q /\ c = m * d
        <3>1. m * p \in Int /\ m * q \in Int /\ m * d \in Int
            BY SMT
        <3> QED
            BY <3>1, Zenon
    <2>2. c = a - b
        <3>1. m * d = m * p - m * q
            BY <1>2, SMT
        <3> QED
            BY <2>1, <3>1
    <2>3. a + t = b + e
        BY <1>1, <2>1
    <2> QED
        BY <2>1, <2>2, <2>3
<1>4. d = 0
    <2>1. ASSUME d >= 1 PROVE FALSE
        <3>1. m * d >= m
            BY <2>1, SMT
        <3> QED
            BY <1>1, <1>3, <3>1
    <2>2. ASSUME d <= -1 PROVE FALSE
        <3>1. m * d <= -m
            BY <2>2, SMT
        <3> QED
            BY <1>1, <1>3, <3>1
    <2> QED
        BY <2>1, <2>2
<1>5. p = q
    BY <1>2, <1>4
<1>6. t = e
    BY <1>1, <1>5
<1> QED
    BY <1>1, <1>5, <1>6

(* Two words are as many bits again. *)
LEMMA TwoWords == Power[2 * Bits] = Modulus * Modulus
<1>1. Bits \in Nat /\ Bits + Bits = 2 * Bits /\ Bits + Bits <= 2 * Bits
    BY WidthIs
<1>2. Power[Bits + Bits] = Power[Bits] * Power[Bits]
    BY <1>1, PowerSum
<1> QED
    BY <1>1, <1>2 DEF Modulus

(* A sum is less by a word where it carries. *)
LEMMA SumSplit ==
    ASSUME NEW w, NEW x \in Int, Added(w, x)
    PROVE  \E l \in 0 .. 1, u \in Nat :
               l = ToInt(w.carry) /\ u = w.value /\ u < Modulus /\ u = x - Modulus * l
<1>1. PICK m \in Nat : m = Modulus
    BY ModulusIs
<1>2. PICK u \in 0 .. m - 1 : u = w.value /\ u = IF x >= m THEN x - m ELSE x
    BY <1>1 DEF Added, Word
<1>3. m * 1 = m /\ m * 0 = 0 /\ u \in Nat /\ u < m
    BY <1>2
<1>4. CASE w.carry
    <2>1. ToInt(w.carry) = 1 /\ 1 \in 0 .. 1
        BY <1>4 DEF ToInt
    <2>2. x >= m
        BY <1>1, <1>4 DEF Added
    <2>3. u = x - m * 1
        BY <1>2, <1>3, <2>2
    <2> QED
        BY <1>1, <1>2, <1>3, <2>1, <2>3, Zenon
<1>5. CASE ~w.carry
    <2>1. ToInt(w.carry) = 0 /\ 0 \in 0 .. 1
        BY <1>5 DEF ToInt
    <2>2. ~(x >= m)
        BY <1>1, <1>5 DEF Added
    <2>3. u = x - m * 0
        BY <1>2, <1>3, <2>2
    <2> QED
        BY <1>1, <1>2, <1>3, <2>1, <2>3, Zenon
<1> QED
    BY <1>4, <1>5

(* What is below a word, and a word times what is below one, is below its  *)
(* square.                                                                 *)
LEMMA BelowSquare ==
    ASSUME NEW m \in Nat, m > 0, NEW u \in 0 .. m - 1, NEW v \in 0 .. m - 1
    PROVE  \E mm \in Nat : mm = m * m /\ mm > 0 /\ u + m * v \in 0 .. mm - 1
<1>1. PICK mm \in Nat : mm = m * m /\ mm > 0
    <2>1. m * m \in Nat /\ m * m > 0
        BY SMT
    <2> QED
        BY <2>1, Zenon
<1>2. v \in Nat /\ m - 1 \in Nat /\ v <= m - 1 /\ 0 \in Nat /\ 0 <= v
    OBVIOUS
<1>3. PICK mv \in Nat : mv = m * v /\ mv <= m * (m - 1)
    <2>1. m * v \in Nat /\ m * v <= m * (m - 1)
        BY <1>2, Monotone
    <2> QED
        BY <2>1, Zenon
<1>4. m * (m - 1) = m * m - m
    BY SMT
<1>5. mv <= mm - m
    BY <1>1, <1>3, <1>4
<1>6. u + mv \in 0 .. mm - 1
    BY <1>5
<1> QED
    BY <1>1, <1>3, <1>6, Zenon

(* A sum of two words and a carry, that of two more and of what it carries *)
(* over, and what the words left stand for.                                *)
Chained(m, a, b, c, d, k, j, l, u, v) ==
    /\ m \in Nat /\ m > 0 /\ {a, b, c, d, k} \subseteq Int /\ {j, l} \subseteq 0 .. 1
    /\ {u, v} \subseteq 0 .. m - 1
    /\ u = (a + b + k) - m * j /\ v = (c + d + j) - m * l
InChain(a, b, c, d, k, low, high) ==
    /\ {a, b, c, d} \subseteq Word /\ k \in 0 .. 1
    /\ Added(low, a + b + k) /\ Added(high, c + d + ToInt(low.carry))

(* The carry of the lower word added into the upper makes them one sum,    *)
(* whatever multiple of two words it is short of.                          *)
LEMMA ChainSum ==
    ASSUME NEW m, NEW a, NEW b, NEW c, NEW d, NEW k, NEW j, NEW l, NEW u, NEW v,
           Chained(m, a, b, c, d, k, j, l, u, v), NEW e \in Int
    PROVE  u + m * v = ((a + m * c) + (b + m * d) + k + e * (m * m)) % (m * m)
<1>0. /\ m \in Nat /\ m > 0 /\ a \in Int /\ b \in Int /\ c \in Int /\ d \in Int /\ k \in Int
      /\ j \in 0 .. 1 /\ l \in 0 .. 1 /\ u \in 0 .. m - 1 /\ v \in 0 .. m - 1
      /\ u = (a + b + k) - m * j /\ v = (c + d + j) - m * l
    BY DEF Chained
<1>1. PICK mm \in Nat : mm = m * m /\ mm > 0 /\ u + m * v \in 0 .. mm - 1
    BY <1>0, BelowSquare
<1>2. PICK x \in 0 .. mm - 1 : x = u + m * v
    BY <1>1, Zenon
<1>3. PICK mc \in Int, md \in Int, mj \in Int, mv \in Int, em \in Int, lm \in Int :
          /\ mc = m * c /\ md = m * d /\ mj = m * j /\ mv = m * v
          /\ em = e * mm /\ lm = l * mm
    <2>1. /\ m * c \in Int /\ m * d \in Int /\ m * j \in Int /\ m * v \in Int
          /\ e * mm \in Int /\ l * mm \in Int
        BY <1>0, <1>1, SMT
    <2> QED
        BY <2>1, Zenon
<1>4. mv = mc + md + mj - lm
    <2>1. m * (c + d + j - m * l) = m * c + m * d + m * j - l * (m * m)
        BY <1>0, SMT
    <2>2. m * v = m * c + m * d + m * j - l * mm
        BY <1>0, <1>1, <2>1
    <2> QED
        BY <1>3, <2>2
<1>5. u = (a + b + k) - mj
    BY <1>0, <1>3
<1>6. PICK y \in Int : y = (a + mc) + (b + md) + k + em
    BY <1>0, <1>3
<1>7. y = mm * (e + l) + x
    <2>1. mm * (e + l) = e * mm + l * mm
        BY <1>0, <1>1, SMT
    <2>2. mm * (e + l) = em + lm
        BY <1>3, <2>1
    <2>3. x = u + mv
        BY <1>0, <1>2, <1>3
    <2> QED
        BY <1>0, <1>3, <1>4, <1>5, <1>6, <2>2, <2>3
<1>8. y % mm = x
    <2>1. e + l \in Int
        BY <1>0
    <2> QED
        BY <1>1, <1>7, <2>1, QuotientIs, Zenon
<1> QED
    BY <1>1, <1>2, <1>3, <1>6, <1>8, Zenon

(* What two words stand for, the lower and the upper. *)
StandFor(low, high, y) == low.value + Modulus * high.value = y % Power[2 * Bits]

(* Two sums in a chain are one of two words. *)
LEMMA ChainIs ==
    ASSUME NEW a, NEW b, NEW c, NEW d, NEW k, NEW low, NEW high,
           InChain(a, b, c, d, k, low, high), NEW e \in Int
    PROVE  StandFor(low, high, (a + Modulus * c) + (b + Modulus * d) + k + e * (Modulus * Modulus))
<1>1. PICK m \in Nat : m = Modulus /\ m > 0
    BY ModulusIs
<1>2. a \in Int /\ b \in Int /\ c \in Int /\ d \in Int /\ k \in Int
    BY SignedIs DEF InChain
<1>3. PICK j \in 0 .. 1, u \in Nat :
          j = ToInt(low.carry) /\ u = low.value /\ u < Modulus /\ u = (a + b + k) - Modulus * j
    <2>1. a + b + k \in Int
        BY <1>2
    <2> QED
        BY <2>1, SumSplit, Zenon DEF InChain
<1>4. PICK l \in 0 .. 1, v \in Nat :
          l = ToInt(high.carry) /\ v = high.value /\ v < Modulus /\ v = (c + d + j) - Modulus * l
    <2>1. c + d + j \in Int
        BY <1>2
    <2>2. Added(high, c + d + j)
        BY <1>3, Zenon DEF InChain
    <2> QED
        BY <2>1, <2>2, SumSplit, Zenon
<1>5. u \in 0 .. Modulus - 1 /\ v \in 0 .. Modulus - 1 /\ Modulus \in Nat /\ Modulus > 0
    BY <1>1, <1>3, <1>4
<1>6. u + Modulus * v =
          ((a + Modulus * c) + (b + Modulus * d) + k + e * (Modulus * Modulus)) % (Modulus * Modulus)
    <2>1. Chained(Modulus, a, b, c, d, k, j, l, u, v)
        <3>1. {a, b, c, d, k} \subseteq Int /\ {j, l} \subseteq 0 .. 1 /\ {u, v} \subseteq 0 .. Modulus - 1
            BY <1>2, <1>5
        <3>2. u = (a + b + k) - Modulus * j /\ v = (c + d + j) - Modulus * l
            BY <1>3, <1>4, Zenon
        <3> QED
            BY <1>5, <3>1, <3>2, Zenon DEF Chained
    <2> QED
        BY <2>1, ChainSum
<1>7. low.value + Modulus * high.value = u + Modulus * v
    BY <1>3, <1>4, Zenon
<1> QED
    BY <1>6, <1>7, TwoWords, Zenon DEF StandFor

(* The carry of a chain is a number. *)
LEMMA CarryIs == ASSUME NEW c \in BOOLEAN PROVE ToInt(c) \in 0 .. 1
BY DEF ToInt

(* What is added in a chain. *)
LEMMA AddsUp ==
    ASSUME NEW a \in Word, NEW b \in Word, NEW f \in Word, NEW g \in Word,
           NEW low, low = AddWithCarry(a, b, FALSE), NEW high, high = AddWithCarry(f, g, low.carry)
    PROVE  StandFor(low, high, (a + Modulus * f) + (b + Modulus * g))
<1>1. PICK c \in BOOLEAN : c = FALSE
    OBVIOUS
<1>2. PICK k \in 0 .. 1, e \in Int : k = 0 /\ k = ToInt(c) /\ e = 0
    BY <1>1 DEF ToInt
<1>3. low = AddWithCarry(a, b, c)
    BY <1>1
<1>4. Added(low, a + b + k)
    BY <1>2, <1>3, AddsTruly, Zenon
<1>5. ToInt(low.carry) \in 0 .. 1
    BY <1>4, CarryIs DEF Added
<1>6. Added(high, f + g + ToInt(low.carry))
    BY <1>5, AddsTruly, Zenon
<1>7. StandFor(low, high, (a + Modulus * f) + (b + Modulus * g) + k + e * (Modulus * Modulus))
    <2>1. InChain(a, b, f, g, k, low, high)
        BY <1>4, <1>6 DEF InChain
    <2> QED
        BY <2>1, ChainIs, Zenon
<1>8. (a + Modulus * f) + (b + Modulus * g) + k + e * (Modulus * Modulus)
      = (a + Modulus * f) + (b + Modulus * g)
    <2>1. a \in Int /\ b \in Int /\ f \in Int /\ g \in Int /\ Modulus \in Int
        BY SignedIs, ModulusIs
    <2>2. PICK p \in Int, q \in Int, r \in Int :
              p = Modulus * f /\ q = Modulus * g /\ r = Modulus * Modulus
        <3>1. Modulus * f \in Int /\ Modulus * g \in Int /\ Modulus * Modulus \in Int
            BY <2>1, SMT
        <3> QED
            BY <3>1, Zenon
    <2>3. e * r = 0
        BY <1>2
    <2>4. (a + p) + (b + q) + k + e * r = (a + p) + (b + q)
        BY <1>2, <2>1, <2>3
    <2> QED
        BY <2>2, <2>4, Zenon
<1> QED
    BY <1>7, <1>8, Zenon

(* What is taken away in a chain: the complements are added, and one more  *)
(* where nothing was borrowed before.                                      *)
LEMMA TakesAway ==
    ASSUME NEW a \in Word, NEW b \in Word, NEW f \in Word, NEW g \in Word,
           NEW low, low = SubWithBorrow(a, b, TRUE), NEW high, high = SubWithBorrow(f, g, low.carry)
    PROVE  StandFor(low, high, (a + Modulus * f) - (b + Modulus * g))
<1>1. PICK c \in BOOLEAN : c = TRUE
    OBVIOUS
<1>2. PICK k \in 0 .. 1, e \in Int : k = 1 /\ k = ToInt(c) /\ e = -1
    BY <1>1 DEF ToInt
<1>3. PICK x \in Word, y \in Word : x = Complement(b) /\ y = Complement(g)
    BY ComplementIs
<1>4. low = AddWithCarry(a, x, c)
    BY <1>1, <1>3 DEF SubWithBorrow
<1>5. Added(low, a + x + k)
    BY <1>2, <1>4, AddsTruly, Zenon
<1>6. ToInt(low.carry) \in 0 .. 1
    BY <1>5, CarryIs DEF Added
<1>7. high = AddWithCarry(f, y, low.carry)
    BY <1>3 DEF SubWithBorrow
<1>8. Added(high, f + y + ToInt(low.carry))
    BY <1>6, <1>7, AddsTruly, Zenon
<1>9. StandFor(low, high, (a + Modulus * f) + (x + Modulus * y) + k + e * (Modulus * Modulus))
    <2>1. InChain(a, x, f, y, k, low, high)
        BY <1>5, <1>8 DEF InChain
    <2> QED
        BY <2>1, ChainIs, Zenon
<1>10. (a + Modulus * f) + (x + Modulus * y) + k + e * (Modulus * Modulus)
       = (a + Modulus * f) - (b + Modulus * g)
    <2>1. a \in Int /\ b \in Int /\ f \in Int /\ g \in Int /\ x \in Int /\ y \in Int
        BY SignedIs
    <2>2. PICK m \in Int : m = Modulus
        BY ModulusIs
    <2>3. x = m - 1 - b /\ y = m - 1 - g
        BY <1>3, <2>2 DEF Complement
    <2>4. PICK p \in Int, q \in Int, r \in Int : p = m * f /\ q = m * g /\ r = m * m
        <3>1. m * f \in Int /\ m * g \in Int /\ m * m \in Int
            BY <2>1, SMT
        <3> QED
            BY <3>1, Zenon
    <2>5. m * y = r - m - q
        <3>1. m * (m - 1 - g) = m * m - m - m * g
            BY <2>1, SMT
        <3> QED
            BY <2>3, <2>4, <3>1
    <2>6. e * r = -r
        BY <1>2
    <2>7. (a + p) + (x + (r - m - q)) + k + e * r = (a + p) - (b + q)
        BY <1>2, <2>1, <2>3, <2>6
    <2> QED
        BY <2>2, <2>4, <2>5, <2>7, Zenon
<1> QED
    BY <1>9, <1>10, Zenon

(* Two sums in a row, the second of the carry the first left.              *)
LEMMA SumsInARow ==
    ASSUME NEW s \in Cpus, ~s.cpsr.t,
           NEW low, OnRegisters(low, {"ADD", "SUB", "RSB"}), low.flags,
           NEW high, OnRegisters(high, {"ADC", "SBC", "RSC"}),
           low.rd \notin {high.rd, high.rn, high.by.rm},
           NEW d, d = Execute(s, low), NEW e, e = Execute(d, high),
           NEW w, w = SumOf(low.code, s.r[low.rn], s.r[low.by.rm], s.cpsr.c),
           NEW v, v = SumOf(high.code, s.r[high.rn], s.r[high.by.rm], w.carry)
    PROVE  e.r[low.rd] = w.value /\ e.r[high.rd] = v.value
<1>1. PICK p \in General : low.by = Register(p) /\ low.by.rm = p
    BY RegisterIs DEF OnRegisters
<1>2. PICK q \in General : high.by = Register(q) /\ high.by.rm = q
    BY RegisterIs DEF OnRegisters
<1>3. /\ low.code \in Sums /\ low.code \notin Discards
      /\ high.code \in Sums /\ high.code \notin Discards
      /\ {"ADD", "SUB", "RSB"} \subseteq Sums /\ {"ADC", "SBC", "RSC"} \subseteq Sums
    BY DEF OnRegisters, Sums, Discards
<1>4. /\ low.rd \in General /\ high.rd \in General /\ high.rn \in General
      /\ low.rn \in General
    BY DEF OnRegisters
<1>5. SumsUp(s, low, d, w)
    BY <1>3, SumsUpIs
<1>6. d \in Cpus /\ ~d.cpsr.t /\ Puts(s, d, low.rd, w.value) /\ FlagsOf(d.cpsr, w)
    BY <1>3, <1>5 DEF SumsUp
<1>7. d.r[high.rn] = s.r[high.rn] /\ d.r[high.by.rm] = s.r[high.by.rm] /\ d.r[low.rd] = w.value
    BY <1>2, <1>4, <1>6 DEF Puts
<1>8. s.r[low.rn] \in Word /\ s.r[low.by.rm] \in Word
    BY <1>1, <1>4, GeneralIs, RegIs
<1>9. w.carry \in BOOLEAN
    BY <1>3, <1>8, SumIs DEF IsSum
<1>10. d.cpsr.c = w.carry
    <2>1. d.cpsr.c \in BOOLEAN /\ (d.cpsr.c <=> w.carry)
        BY <1>6 DEF FlagsOf
    <2> QED
        BY <1>9, <2>1, SameTruth, Zenon
<1>11. v = SumOf(high.code, d.r[high.rn], d.r[high.by.rm], d.cpsr.c)
    BY <1>7, <1>10, Zenon
<1>12. SumsUp(d, high, e, v)
    BY <1>3, <1>6, <1>11, SumsUpIs
<1>13. Puts(d, e, high.rd, v.value)
    BY <1>3, <1>12 DEF SumsUp
<1> QED
    BY <1>4, <1>7, <1>13 DEF Puts

(* Sums of two words each are true. *)
LEMMA CarriesAreTrue ==
    ASSUME NEW s \in Cpus, ~s.cpsr.t, NEW low, NEW high
    PROVE  CarriesTruly(s, low, high)
<1> SUFFICES ASSUME OnRegisters(low, {"ADD", "SUB", "RSB"}), low.flags,
                    OnRegisters(high, {"ADC", "SBC", "RSC"}), <<low.code, high.code>> \in InTwo,
                    low.rd \notin {high.rd, high.rn, high.by.rm}
             PROVE  Pair(Execute(Execute(s, low), high), low.rd, high.rd) =
                        (CASE low.code = "ADD" -> Pair(s, low.rn, high.rn) + Pair(s, low.by.rm, high.by.rm)
                           [] low.code = "SUB" -> Pair(s, low.rn, high.rn) - Pair(s, low.by.rm, high.by.rm)
                           [] low.code = "RSB" -> Pair(s, low.by.rm, high.by.rm) - Pair(s, low.rn, high.rn))
                        % Power[2 * Bits]
    BY Zenon DEF CarriesTruly
<1>1. /\ low.rn \in Regs /\ low.by.rm \in Regs
      /\ high.rn \in Regs /\ high.by.rm \in Regs
    <2>1. low.by.rm \in General /\ high.by.rm \in General
        BY RegisterIs DEF OnRegisters
    <2> QED
        BY <2>1, GeneralIs DEF OnRegisters
<1>2. PICK a \in Word, b \in Word, f \in Word, g \in Word :
          /\ a = s.r[low.rn] /\ b = s.r[low.by.rm] /\ f = s.r[high.rn] /\ g = s.r[high.by.rm]
    BY <1>1, RegIs, Zenon
<1>3. PICK d : d = Execute(s, low)
    OBVIOUS
<1>4. PICK e : e = Execute(d, high)
    OBVIOUS
<1>5. PICK w : w = SumOf(low.code, s.r[low.rn], s.r[low.by.rm], s.cpsr.c)
    OBVIOUS
<1>6. PICK v : v = SumOf(high.code, s.r[high.rn], s.r[high.by.rm], w.carry)
    OBVIOUS
<1>7. e.r[low.rd] = w.value /\ e.r[high.rd] = v.value
    BY <1>3, <1>4, <1>5, <1>6, SumsInARow
<1>8. Pair(e, low.rd, high.rd) = w.value + Modulus * v.value
    BY <1>7, Zenon DEF Pair
<1>9. /\ Pair(s, low.rn, high.rn) = a + Modulus * f
      /\ Pair(s, low.by.rm, high.by.rm) = b + Modulus * g
    BY <1>2, Zenon DEF Pair
<1>10. CASE low.code = "ADD"
    <2>1. high.code = "ADC"
        BY <1>10 DEF InTwo
    <2>2. w = AddWithCarry(a, b, FALSE) /\ v = AddWithCarry(f, g, w.carry)
        BY <1>2, <1>5, <1>6, <1>10, <2>1 DEF SumOf
    <2>3. StandFor(w, v, (a + Modulus * f) + (b + Modulus * g))
        BY <2>2, AddsUp, Zenon
    <2> QED
        BY <1>3, <1>4, <1>8, <1>9, <1>10, <2>3 DEF StandFor
<1>11. CASE low.code = "SUB"
    <2>1. high.code = "SBC"
        BY <1>11 DEF InTwo
    <2>2. w = SubWithBorrow(a, b, TRUE) /\ v = SubWithBorrow(f, g, w.carry)
        BY <1>2, <1>5, <1>6, <1>11, <2>1 DEF SumOf
    <2>3. StandFor(w, v, (a + Modulus * f) - (b + Modulus * g))
        BY <2>2, TakesAway, Zenon
    <2> QED
        BY <1>3, <1>4, <1>8, <1>9, <1>11, <2>3 DEF StandFor
<1>12. CASE low.code = "RSB"
    <2>1. high.code = "RSC"
        BY <1>12 DEF InTwo
    <2>2. w = SubWithBorrow(b, a, TRUE) /\ v = SubWithBorrow(g, f, w.carry)
        BY <1>2, <1>5, <1>6, <1>12, <2>1 DEF SumOf
    <2>3. StandFor(w, v, (b + Modulus * g) - (a + Modulus * f))
        BY <2>2, TakesAway, Zenon
    <2> QED
        BY <1>3, <1>4, <1>8, <1>9, <1>12, <2>3 DEF StandFor
<1> QED
    BY <1>10, <1>11, <1>12 DEF OnRegisters

(* A number taken apart at a place, and at the one above it: what is above *)
(* both, the bit between them and what is below.                           *)
Placed(x, p, g, b, t) ==
    /\ x = p * (2 * g + b) + t /\ x = (2 * p) * g + (p * b + t)
    /\ x \div p = 2 * g + b /\ (x \div p) % 2 = b
    /\ x \div (2 * p) = g /\ p * b + t \in 0 .. 2 * p - 1
    /\ (x >= 0 => g >= 0)

(* Every number can be taken apart so. *)
LEMMA PlacesIs ==
    ASSUME NEW x \in Int, NEW p \in Nat, p > 0
    PROVE  \E g \in Int, b \in 0 .. 1, t \in 0 .. p - 1 : Placed(x, p, g, b, t)
<1>1. PICK q \in Int, t \in 0 .. p - 1 : q = x \div p /\ x = p * q + t
    <2>1. x \div p \in Int /\ x % p \in Nat /\ x % p < p /\ x = p * (x \div p) + (x % p)
        BY Divided, Zenon
    <2>2. x % p \in 0 .. p - 1
        BY <2>1
    <2> QED
        BY <2>1, <2>2, Zenon
<1>2. PICK g \in Int, b \in 0 .. 1 : q = 2 * g + b /\ q % 2 = b
    <2>1. q \div 2 \in Int /\ q % 2 \in 0 .. 1 /\ q = 2 * (q \div 2) + (q % 2)
        OBVIOUS
    <2> QED
        BY <2>1, Zenon
<1>3. PICK pb \in Int : pb = p * b /\ pb \in {0, p}
    <2>1. p * 0 = 0 /\ p * 1 = p
        OBVIOUS
    <2>2. p * b \in {0, p}
        <3>1. CASE b = 0
            BY <2>1, <3>1
        <3>2. CASE b = 1
            BY <2>1, <3>2
        <3> QED
            BY <3>1, <3>2
    <2> QED
        BY <2>2
<1>4. pb + t \in 0 .. 2 * p - 1
    BY <1>3
<1>5. x = (2 * p) * g + (pb + t)
    <2>1. p * (2 * g + b) = (2 * p) * g + p * b
        BY SMT
    <2>2. PICK u \in Int : u = (2 * p) * g
        <3>1. (2 * p) * g \in Int
            BY SMT
        <3> QED
            BY <3>1, Zenon
    <2>3. p * q = u + pb
        BY <1>2, <1>3, <2>1, <2>2
    <2> QED
        BY <1>1, <2>2, <2>3
<1>6. x \div (2 * p) = g
    <2>1. PICK n \in Nat : n = 2 * p /\ n > 0
        OBVIOUS
    <2>2. PICK e \in 0 .. n - 1 : e = pb + t
        BY <1>4, <2>1
    <2>3. x = n * g + e
        BY <1>5, <2>1, <2>2
    <2>4. x \div n = g
        BY <2>1, <2>3, QuotientIs, Zenon
    <2> QED
        BY <2>1, <2>4
<1>7. x >= 0 => g >= 0
    <2> SUFFICES ASSUME x >= 0 PROVE g >= 0
        OBVIOUS
    <2>1. x \in Nat
        OBVIOUS
    <2>2. x \div p \in Nat
        BY <2>1, NotNegative, Zenon
    <2> QED
        BY <1>1, <1>2, <2>2
<1> QED
    <2>1. Placed(x, p, g, b, t)
        BY <1>1, <1>2, <1>3, <1>4, <1>5, <1>6, <1>7 DEF Placed
    <2> QED
        BY <2>1, Zenon

(* The powers about a place, down from it and up to the width. *)
LEMMA PlacePowers ==
    ASSUME NEW m \in 0 .. Bits - 1
    PROVE  \E p \in Nat, r \in Nat :
               /\ p = Power[m] /\ r = Power[Bits - m - 1] /\ p > 0 /\ r > 0
               /\ Power[m + 1] = 2 * p /\ Power[Bits - m] = 2 * r
               /\ Power[Bits - 1] = p * r /\ Modulus = 2 * (p * r)
<1>1. /\ m \in Nat /\ Bits - m - 1 \in Nat /\ m + (Bits - m - 1) = Bits - 1
      /\ m + (Bits - m - 1) <= 2 * Bits
      /\ m \in 0 .. 2 * Bits /\ Bits - m - 1 \in 0 .. 2 * Bits
      /\ m + 1 \in 1 .. 2 * Bits /\ (m + 1) - 1 = m
      /\ Bits - m \in 1 .. 2 * Bits /\ (Bits - m) - 1 = Bits - m - 1
    BY WidthIs
<1>2. PICK p \in Nat, r \in Nat : p = Power[m] /\ r = Power[Bits - m - 1] /\ p > 0 /\ r > 0
    <2>1. /\ Power[m] \in Nat /\ Power[m] > m
          /\ Power[Bits - m - 1] \in Nat /\ Power[Bits - m - 1] > Bits - m - 1
        BY <1>1, PowerIs, Zenon
    <2> QED
        BY <1>1, <2>1
<1>3. Power[m + (Bits - m - 1)] = Power[m] * Power[Bits - m - 1]
    BY <1>1, PowerSum, Zenon
<1>4. Power[m + 1] = 2 * Power[(m + 1) - 1] /\ Power[Bits - m] = 2 * Power[(Bits - m) - 1]
    BY <1>1, PowerStep, Zenon
<1>5. Power[Bits - 1] = p * r
    BY <1>1, <1>2, <1>3
<1>6. Modulus = 2 * (p * r)
    BY <1>5, ModulusIs
<1> QED
    BY <1>1, <1>2, <1>4, <1>5, <1>6

(* The lowest bit is what makes a number odd. *)
LEMMA LowestIs == ASSUME NEW x \in Int PROVE BitOf(x, 0) <=> x % 2 = 1
<1>1. Power[0] = 1
    BY PowerStep
<1>2. x \div 1 = x
    OBVIOUS
<1> QED
    BY <1>1, <1>2 DEF BitOf

(* The topmost bit is the sign. *)
LEMMA TopmostIs == ASSUME NEW x \in Word PROVE TopBit(x) <=> BitOf(x, Bits - 1)
<1>1. PICK h \in Nat : h = Power[Bits - 1] /\ Modulus = 2 * h /\ h >= 8
    BY ModulusIs
<1>2. x \in 0 .. 2 * h - 1
    BY <1>1 DEF Word
<1>3. CASE x >= h
    <2>1. x = h * 1 + (x - h) /\ x - h \in 0 .. h - 1 /\ 1 \in Int /\ x \in Int /\ h > 0
        BY <1>1, <1>2, <1>3
    <2>2. x \div h = 1
        BY <2>1, QuotientIs, Zenon
    <2>3. 1 % 2 = 1
        OBVIOUS
    <2> QED
        BY <1>1, <1>3, <2>2, <2>3 DEF TopBit, BitOf
<1>4. CASE ~(x >= h)
    <2>1. x = h * 0 + x /\ x \in 0 .. h - 1 /\ 0 \in Int /\ x \in Int /\ h > 0
        BY <1>1, <1>2, <1>4
    <2>2. x \div h = 0
        BY <2>1, QuotientIs, Zenon
    <2>3. 0 % 2 = 0
        OBVIOUS
    <2> QED
        BY <1>1, <1>4, <2>2, <2>3 DEF TopBit, BitOf
<1> QED
    BY <1>3, <1>4

(* A word to the left by one more place. *)
LEMMA LeftOnce ==
    ASSUME NEW x \in Word, NEW m \in 0 .. Bits - 1, NEW v, v = Wrap(x * Power[m])
    PROVE  /\ v \in Word /\ Wrap(v * Power[1]) = Wrap(x * Power[m + 1])
           /\ BitOf(v, Bits - 1) <=> BitOf(x, Bits - (m + 1))
<1>1. PICK p \in Nat, r \in Nat :
          /\ p = Power[m] /\ r = Power[Bits - m - 1] /\ p > 0 /\ r > 0
          /\ Power[m + 1] = 2 * p /\ Power[Bits - m] = 2 * r
          /\ Power[Bits - 1] = p * r /\ Modulus = 2 * (p * r)
    BY PlacePowers
<1>2. x \in Int
    BY SignedIs
<1>3. PICK g \in Int, b \in 0 .. 1, t \in 0 .. r - 1 :
          /\ x = (2 * r) * g + (r * b + t) /\ x \div r = 2 * g + b /\ (x \div r) % 2 = b
    <2>1. PICK g \in Int, b \in 0 .. 1, t \in 0 .. r - 1 : Placed(x, r, g, b, t)
        BY <1>1, <1>2, PlacesIs, Zenon
    <2> QED
        BY <2>1, Zenon DEF Placed
<1>4. PICK h \in Int : h = p * r /\ Power[Bits - 1] = h /\ Modulus = 2 * h /\ h > 0
    <2>1. p * r \in Int
        BY SMT
    <2> QED
        BY <1>1, <2>1, ModulusIs
<1>5. PICK pt \in Int, hb \in Int : pt = p * t /\ hb = h * b /\ pt \in 0 .. h - 1 /\ hb \in {0, h}
    <2>1. t \in Nat /\ r - 1 \in Nat /\ t <= r - 1 /\ 0 \in Nat /\ 0 <= t
        BY <1>1
    <2>2. p * t \in Nat /\ p * t <= p * (r - 1)
        BY <2>1, Monotone
    <2>3. p * (r - 1) = p * r - p
        BY SMT
    <2>4. p * t \in 0 .. h - 1
        BY <1>1, <1>4, <2>2, <2>3
    <2>5. h * 0 = 0 /\ h * 1 = h
        OBVIOUS
    <2>6. h * b \in {0, h}
        <3>1. CASE b = 0
            BY <2>5, <3>1
        <3>2. CASE b = 1
            BY <2>5, <3>2
        <3> QED
            BY <3>1, <3>2
    <2> QED
        BY <1>4, <2>4, <2>6
<1>6. PICK y \in Int : y = x * p
    <2>1. x * p \in Int
        BY <1>2, SMT
    <2> QED
        BY <2>1, Zenon
<1>7. y = (hb + pt) + g * Modulus
    <2>1. x * p = ((2 * r) * g + (r * b + t)) * p
        BY <1>3
    <2>2. ((2 * r) * g + (r * b + t)) * p = g * (2 * (p * r)) + (p * r) * b + p * t
        BY <1>1, SMT
    <2>3. x * p = g * (2 * h) + h * b + p * t
        BY <1>4, <2>1, <2>2
    <2>4. PICK z \in Int : z = g * (2 * h)
        <3>1. g * (2 * h) \in Int
            BY <1>4, SMT
        <3> QED
            BY <3>1, Zenon
    <2> QED
        BY <1>4, <1>5, <1>6, <2>3, <2>4
<1>8. v = hb + pt /\ v \in Word
    <2>1. hb + pt \in Int /\ hb + pt \in Word
        BY <1>4, <1>5 DEF Word
    <2>2. Wrap((hb + pt) + g * Modulus) = Wrap(hb + pt)
        BY <2>1, WrapSame, Zenon
    <2>3. Wrap(hb + pt) = hb + pt
        BY <2>1, WrapIs
    <2> QED
        BY <1>1, <1>6, <1>7, <2>1, <2>2, <2>3
<1>9. Wrap(v * Power[1]) = Wrap(x * Power[m + 1])
    <2>1. Power[1] = 2
        <3>1. 1 \in 1 .. 2 * Bits /\ 1 - 1 = 0
            BY WidthIs
        <3>2. Power[1] = 2 * Power[1 - 1] /\ Power[0] = 1
            BY <3>1, PowerStep, Zenon
        <3> QED
            BY <3>1, <3>2
    <2>2. PICK k \in Int : k = 2 * g
        OBVIOUS
    <2>3. x * (2 * p) = 2 * (x * p)
        BY <1>2, SMT
    <2>4. k * Modulus = 2 * (g * Modulus)
        BY <2>2, ModulusIs, SMT
    <2>5. PICK z \in Int : z = g * Modulus
        <3>1. g * Modulus \in Int
            BY ModulusIs, SMT
        <3> QED
            BY <3>1, Zenon
    <2>6. x * (2 * p) = 2 * v + k * Modulus
        BY <1>5, <1>6, <1>7, <1>8, <2>3, <2>4, <2>5
    <2>7. 2 * v \in Int
        BY <1>8, SignedIs
    <2>8. Wrap(2 * v + k * Modulus) = Wrap(2 * v)
        BY <2>7, WrapSame, Zenon
    <2>9. v * 2 = 2 * v
        BY <1>8, SignedIs
    <2> QED
        BY <1>1, <2>1, <2>6, <2>8, <2>9, Zenon
<1>10. v \div h = b
    <2>1. PICK z \in Int : z = v
        BY <1>8, SignedIs
    <2>2. z = h * b + pt /\ h \in Nat /\ h > 0 /\ b \in Int /\ pt \in 0 .. h - 1
        BY <1>4, <1>5, <1>8, <2>1
    <2>3. z \div h = b
        BY <2>2, QuotientIs
    <2> QED
        BY <2>1, <2>3
<1>11. b % 2 = b
    OBVIOUS
<1>12. Bits - (m + 1) = Bits - m - 1
    BY WidthIs
<1> QED
    BY <1>1, <1>3, <1>4, <1>8, <1>9, <1>10, <1>11, <1>12 DEF BitOf

(* A word to the right by one more place. *)
LEMMA RightOnce ==
    ASSUME NEW x \in Int, NEW m \in 0 .. Bits - 1, NEW v, v = x \div Power[m]
    PROVE  /\ v \in Int /\ v \div 2 = x \div Power[m + 1]
           /\ BitOf(v, 0) <=> BitOf(x, m)
<1>1. PICK p \in Nat : p = Power[m] /\ p > 0 /\ Power[m + 1] = 2 * p
    BY PlacePowers
<1>2. PICK g \in Int, b \in 0 .. 1 :
          x \div p = 2 * g + b /\ (x \div p) % 2 = b /\ x \div (2 * p) = g
    <2>1. PICK g \in Int, b \in 0 .. 1, t \in 0 .. p - 1 : Placed(x, p, g, b, t)
        BY <1>1, PlacesIs, Zenon
    <2> QED
        BY <2>1, Zenon DEF Placed
<1>3. v \in Int /\ v = 2 * g + b
    BY <1>1, <1>2
<1>4. v \div 2 = g
    BY <1>2, <1>3
<1>5. BitOf(v, 0) <=> v % 2 = 1
    BY <1>3, LowestIs, Zenon
<1> QED
    BY <1>1, <1>2, <1>3, <1>4, <1>5 DEF BitOf

(* Shifted by as many places as there are, nothing is left of a word but   *)
(* its sign.                                                               *)
LEMMA RightGone ==
    ASSUME NEW x \in Word
    PROVE  /\ x \div Power[Bits] = 0
           /\ Signed(x) \div Power[Bits] = IF TopBit(x) THEN -1 ELSE 0
<1>1. PICK h \in Nat, m \in Nat : h = Power[Bits - 1] /\ m = 2 * h /\ m = Modulus /\ h >= 8 /\ m = Power[Bits]
    BY ModulusIs DEF Modulus
<1>2. x \in 0 .. m - 1 /\ x \in Int /\ m > 0
    BY <1>1 DEF Word
<1>3. x \div m = 0
    <2>1. x = m * 0 + x /\ 0 \in Int
        BY <1>2
    <2> QED
        BY <1>2, <2>1, QuotientIs, Zenon
<1>4. CASE TopBit(x)
    <2>1. PICK y \in Int : y = x - m /\ y = Signed(x) /\ y >= -m /\ y < 0
        BY <1>1, <1>2, <1>4 DEF Signed
    <2>2. PICK t \in 0 .. m - 1 : t = y + m
        BY <1>2, <2>1
    <2>3. y = m * (-1) + t /\ -1 \in Int
        BY <1>2, <2>1, <2>2
    <2>4. y \div m = -1
        BY <1>2, <2>3, QuotientIs, Zenon
    <2> QED
        BY <1>1, <1>3, <1>4, <2>1, <2>4
<1>5. CASE ~TopBit(x)
    <2>1. Signed(x) = x
        BY <1>5 DEF Signed
    <2> QED
        BY <1>1, <1>3, <1>5, <2>1
<1> QED
    BY <1>4, <1>5

(* What is between the least and the largest signed word is its own sign. *)
LEMMA SignedBack ==
    ASSUME NEW x \in Word, NEW h, h = Power[Bits - 1]
    PROVE  /\ Signed(x) \in -h .. h - 1
           /\ \A y \in -h .. h - 1 : Signed(Wrap(y)) = y
<1>1. h \in Nat /\ Modulus = 2 * h /\ h >= 8
    BY ModulusIs
<1>2. Signed(x) \in -h .. h - 1
    BY <1>1 DEF Signed, TopBit, Word
<1>3. ASSUME NEW y \in -h .. h - 1 PROVE Signed(Wrap(y)) = y
    <2>1. CASE y >= 0
        <3>1. y \in Word /\ y \in Int
            BY <1>1, <2>1 DEF Word
        <3>2. Wrap(y) = y
            BY <3>1, WrapIs
        <3> QED
            BY <1>1, <2>1, <3>2 DEF Signed, TopBit
    <2>2. CASE ~(y >= 0)
        <3>1. PICK u \in Word : u = y + 1 * Modulus
            BY <1>1, <2>2 DEF Word
        <3>2. y \in Int /\ u \in Int /\ 1 \in Int
            BY <1>1, SignedIs
        <3>3. Wrap(y) = u
            <4>1. Wrap(y + 1 * Modulus) = Wrap(y)
                BY <3>2, WrapSame, Zenon
            <4>2. Wrap(u) = u
                BY <3>2, WrapIs
            <4> QED
                BY <3>1, <4>1, <4>2
        <3>4. u >= h /\ u - Modulus = y
            BY <1>1, <2>2, <3>1
        <3> QED
            BY <3>3, <3>4 DEF Signed, TopBit
    <2> QED
        BY <1>1, <2>1, <2>2
<1> QED
    BY <1>2, <1>3

(* A signed number is not enlarged by a shift to the right. *)
LEMMA RightStays ==
    ASSUME NEW h \in Nat, NEW y \in -h .. h - 1, NEW p \in Nat, p > 0
    PROVE  y \div p \in -h .. h - 1
<1>1. PICK q \in Int, t \in Nat : q = y \div p /\ y = p * q + t /\ t < p
    <2>0. y \in Int
        OBVIOUS
    <2>1. y \div p \in Int /\ y % p \in Nat /\ y % p < p /\ y = p * (y \div p) + (y % p)
        BY <2>0, Divided, Zenon
    <2> QED
        BY <2>1, Zenon
<1>2. PICK a \in Int : a = p * q
    <2>1. p * q \in Int
        BY SMT
    <2> QED
        BY <2>1, Zenon
<1>3. ASSUME q < -h PROVE FALSE
    <2>1. PICK d \in Nat : d = -h - 1 - q
        BY <1>3
    <2>2. p * q = -(p * h) - p - p * d
        BY <2>1, SMT
    <2>3. p * h >= h /\ p * d >= 0 /\ p * h \in Int /\ p * d \in Int
        BY <2>1, SMT
    <2> QED
        BY <1>1, <1>2, <2>2, <2>3
<1>4. ASSUME q > h - 1 PROVE FALSE
    <2>1. PICK d \in Nat : d = q - h
        BY <1>4
    <2>2. p * q = p * h + p * d
        BY <2>1, SMT
    <2>3. p * h >= h /\ p * d >= 0 /\ p * h \in Int /\ p * d \in Int
        BY <2>1, SMT
    <2> QED
        BY <1>1, <1>2, <2>2, <2>3
<1> QED
    BY <1>1, <1>3, <1>4

(* The bits of a word are those of the number it stands for. *)
LEMMA SameBit ==
    ASSUME NEW x \in Word, NEW m \in 0 .. Bits - 1
    PROVE  BitOf(Signed(x), m) <=> BitOf(x, m)
<1>1. PICK p \in Nat, r \in Nat : p = Power[m] /\ p > 0 /\ Modulus = 2 * (p * r)
    BY PlacePowers
<1>2. CASE TopBit(x)
    <2>1. PICK g \in Int, b \in 0 .. 1, t \in 0 .. p - 1 :
              x = p * (2 * g + b) + t /\ (x \div p) % 2 = b
        <3>1. x \in Int
            BY SignedIs
        <3>2. PICK g \in Int, b \in 0 .. 1, t \in 0 .. p - 1 : Placed(x, p, g, b, t)
            BY <1>1, <3>1, PlacesIs, Zenon
        <3> QED
            BY <3>2, Zenon DEF Placed
    <2>2. PICK y \in Int : y = Signed(x) /\ y = x - Modulus
        BY <1>2, SignedIs DEF Signed
    <2>3. PICK k \in Int : k = 2 * (g - r) + b
        OBVIOUS
    <2>4. y = p * k + t
        <3>1. p * k = p * (2 * g + b) - 2 * (p * r)
            BY <2>3, SMT
        <3>2. PICK u \in Int, w \in Int : u = p * (2 * g + b) /\ w = p * r
            <4>1. p * (2 * g + b) \in Int /\ p * r \in Int
                BY SMT
            <4> QED
                BY <4>1, Zenon
        <3> QED
            BY <1>1, <2>1, <2>2, <3>1, <3>2
    <2>5. y \div p = k
        BY <1>1, <2>4, QuotientIs, Zenon
    <2>6. k % 2 = b
        BY <2>3
    <2> QED
        BY <1>1, <2>1, <2>2, <2>5, <2>6 DEF BitOf
<1>3. CASE ~TopBit(x)
    BY <1>3 DEF Signed
<1> QED
    BY <1>2, <1>3

(* A word keeps its lowest bit when it is cut. *)
LEMMA SameLowest ==
    ASSUME NEW y \in Int
    PROVE  BitOf(Wrap(y), 0) <=> BitOf(y, 0)
<1>1. PICK h \in Nat : Modulus = 2 * h /\ h >= 8
    BY ModulusIs
<1>2. PICK w \in Int, k \in Int : w = Wrap(y) /\ y = Modulus * k + w
    <2>1. Modulus \in Nat /\ Modulus > 0
        BY ModulusIs
    <2>2. y \div Modulus \in Int /\ y % Modulus \in Nat /\ y = Modulus * (y \div Modulus) + (y % Modulus)
        BY <2>1, Divided, Zenon
    <2>3. y % Modulus \in Int
        BY <2>2
    <2> QED
        BY <2>2, <2>3, Zenon DEF Wrap
<1>3. PICK j \in Int : j = h * k
    <2>1. h * k \in Int
        BY SMT
    <2> QED
        BY <2>1, Zenon
<1>4. Modulus * k = 2 * j
    BY <1>1, <1>3, SMT
<1>5. y = 2 * j + w
    BY <1>2, <1>4
<1>6. y % 2 = w % 2
    BY <1>5
<1> QED
    BY <1>2, <1>6, LowestIs

(* A signed word to the right by one more place. *)
LEMMA SignedOnce ==
    ASSUME NEW x \in Word, NEW m \in 0 .. Bits - 1, NEW v, v = Wrap(Signed(x) \div Power[m])
    PROVE  /\ v \in Word /\ Wrap(Signed(v) \div Power[1]) = Wrap(Signed(x) \div Power[m + 1])
           /\ BitOf(v, 0) <=> BitOf(x, m)
<1>1. PICK h \in Nat : h = Power[Bits - 1]
    BY ModulusIs
<1>2. PICK y \in -h .. h - 1 : y = Signed(x)
    BY <1>1, SignedBack
<1>3. PICK p \in Nat : p = Power[m] /\ p > 0 /\ m \in 0 .. 2 * Bits
    BY PlacePowers, WidthIs
<1>4. PICK q \in -h .. h - 1 : q = y \div p
    BY <1>3, RightStays
<1>5. Signed(Wrap(q)) = q
    BY <1>1, SignedBack
<1>6. v = Wrap(q) /\ v \in Word
    BY <1>2, <1>3, <1>4, WrapIs
<1>7. q \div 2 = y \div Power[m + 1] /\ (BitOf(q, 0) <=> BitOf(y, m))
    <2>1. y \in Int /\ q = y \div Power[m]
        BY <1>3, <1>4
    <2> QED
        BY <2>1, RightOnce, Zenon
<1>8. Power[1] = 2
    <2>1. 1 \in 1 .. 2 * Bits /\ 1 - 1 = 0
        BY WidthIs
    <2>2. Power[1] = 2 * Power[1 - 1] /\ Power[0] = 1
        BY <2>1, PowerStep, Zenon
    <2> QED
        BY <2>1, <2>2
<1>9. BitOf(v, 0) <=> BitOf(q, 0)
    BY <1>6, SameLowest
<1>10. BitOf(y, m) <=> BitOf(x, m)
    BY <1>2, SameBit
<1> QED
    BY <1>2, <1>5, <1>6, <1>7, <1>8, <1>9, <1>10, Zenon

(* A word in two parts, and the powers they are apart. *)
Parted(x, m, p, r, q, t) ==
    /\ x \in Word /\ m \in 0 .. Bits /\ p = Power[m] /\ r = Power[Bits - m]
    /\ q \in Nat /\ t \in 0 .. p - 1 /\ x = p * q + t

(* A rotation swaps the two parts of a word. *)
LEMMA RotateParts ==
    ASSUME NEW x, NEW m, NEW p, NEW r, NEW q, NEW t, Parted(x, m, p, r, q, t)
    PROVE  Rotate(x, m) = q + r * t
<1>0. /\ x \in Word /\ m \in 0 .. Bits /\ p = Power[m] /\ r = Power[Bits - m]
      /\ q \in Nat /\ t \in 0 .. p - 1 /\ x = p * q + t
    BY DEF Parted
<1>1. p \in Nat /\ r \in Nat /\ p > 0 /\ r > 0 /\ Modulus = p * r
    BY <1>0, Halves
<1>2. x \div p = q
    <2>1. x \in Int /\ q \in Int
        BY <1>0, SignedIs
    <2> QED
        BY <1>0, <1>1, <2>1, QuotientIs, Zenon
<1>3. PICK n \in Nat : n = p * r /\ n = Modulus
    BY <1>1, ModulusIs
<1>4. PICK rt \in Nat : rt = r * t /\ rt < n
    <2>1. t \in Nat /\ p - 1 \in Nat /\ t <= p - 1
        BY <1>0, <1>1
    <2>2. r * t \in Nat /\ r * t <= r * (p - 1)
        BY <1>1, <2>1, Monotone
    <2>3. r * (p - 1) = p * r - r
        BY <1>1, SMT
    <2>4. r * t < n
        BY <1>1, <1>3, <2>2, <2>3
    <2> QED
        BY <2>2, <2>4, Zenon
<1>5. x * r = rt + q * Modulus
    <2>1. (p * q + t) * r = r * t + q * (p * r)
        BY <1>0, <1>1, SMT
    <2> QED
        BY <1>0, <1>3, <1>4, <2>1
<1>6. rt \in Word /\ rt \in Int /\ q \in Int
    BY <1>0, <1>3, <1>4 DEF Word
<1>7. Wrap(rt + q * Modulus) = Wrap(rt)
    BY <1>6, WrapSame, Zenon
<1>8. Wrap(rt) = rt
    BY <1>6, WrapIs
<1> QED
    BY <1>0, <1>2, <1>4, <1>5, <1>7, <1>8, Zenon DEF Rotate

(* The second power. *)
LEMMA TwoIs == Power[0] = 1 /\ Power[1] = 2
<1>1. 1 \in 1 .. 2 * Bits /\ 1 - 1 = 0
    BY WidthIs
<1>2. Power[1] = 2 * Power[1 - 1] /\ Power[0] = 1
    BY <1>1, PowerStep, Zenon
<1> QED
    BY <1>1, <1>2

(* A word turned by one more place. *)
LEMMA TurnOnce ==
    ASSUME NEW x \in Word, NEW m \in 0 .. Bits - 1, NEW v, v = Rotate(x, m)
    PROVE  Rotate(v, 1) = Rotate(x, m + 1) /\ (BitOf(v, 0) <=> BitOf(x, m))
<1>1. PICK p \in Nat, r \in Nat :
          /\ p = Power[m] /\ r = Power[Bits - m - 1] /\ p > 0 /\ r > 0
          /\ Power[m + 1] = 2 * p /\ Power[Bits - m] = 2 * r
          /\ Power[Bits - 1] = p * r /\ Modulus = 2 * (p * r)
    BY PlacePowers
<1>2. /\ x \in Int /\ m \in 0 .. Bits /\ m + 1 \in 0 .. Bits /\ 1 \in 0 .. Bits
      /\ Bits - (m + 1) = Bits - m - 1
    BY SignedIs, WidthIs
<1>3. PICK g \in Int, b \in 0 .. 1, t \in 0 .. p - 1 : Placed(x, p, g, b, t)
    BY <1>1, <1>2, PlacesIs, Zenon
<1>4. /\ x = p * (2 * g + b) + t /\ x = (2 * p) * g + (p * b + t)
      /\ x \div p = 2 * g + b /\ (x \div p) % 2 = b /\ p * b + t \in 0 .. 2 * p - 1
    BY <1>3, Zenon DEF Placed
<1>5. g \in Nat
    <2>1. x >= 0
        BY ModulusIs DEF Word
    <2> QED
        BY <1>3, <2>1 DEF Placed
<1>6. PICK h \in Nat : h = p * r /\ h = Power[Bits - 1]
    <2>1. p * r \in Nat
        BY SMT
    <2> QED
        BY <1>1, <2>1, Zenon
<1>7. PICK rt \in Nat : rt = r * t
    <2>1. r * t \in Nat
        BY SMT
    <2> QED
        BY <2>1, Zenon
<1>8. v = 2 * (g + rt) + b /\ v \in Word
    <2>1. PICK q \in Nat, k \in Nat : q = 2 * g + b /\ k = 2 * r
        BY <1>5
    <2>2. k = Power[Bits - m] /\ x = p * q + t
        BY <1>1, <1>4, <2>1, Zenon
    <2>3. Rotate(x, m) = q + k * t
        <3>1. Parted(x, m, p, k, q, t)
            BY <1>1, <1>2, <2>2 DEF Parted
        <3> QED
            BY <3>1, RotateParts
    <2>4. k * t = 2 * rt
        <3>1. (2 * r) * t = 2 * (r * t)
            BY SMT
        <3> QED
            BY <1>7, <2>1, <3>1
    <2>5. Rotate(x, m) \in Word
        BY <1>2, RotateIs, WidthIs
    <2> QED
        BY <2>1, <2>3, <2>4, <2>5
<1>9. Rotate(v, 1) = (g + rt) + h * b
    <2>1. PICK q \in Nat, d \in Nat : q = g + rt /\ d = 2 /\ d = Power[1]
        BY <1>5, TwoIs
    <2>2. b \in 0 .. d - 1 /\ v = d * q + b /\ h = Power[Bits - 1]
        BY <1>6, <1>8, <2>1
    <2>3. Parted(v, 1, d, h, q, b)
        BY <1>2, <1>8, <2>1, <2>2 DEF Parted
    <2>4. Rotate(v, 1) = q + h * b
        BY <2>3, RotateParts
    <2> QED
        BY <2>1, <2>4, Zenon
<1>10. Rotate(x, m + 1) = g + r * (p * b + t)
    <2>1. PICK d \in Nat : d = 2 * p
        OBVIOUS
    <2>2. PICK e \in 0 .. d - 1 : e = p * b + t
        BY <1>4, <2>1
    <2>3. d = Power[m + 1] /\ r = Power[Bits - (m + 1)] /\ x = d * g + e
        BY <1>1, <1>2, <1>4, <2>1, <2>2
    <2>4. Parted(x, m + 1, d, r, g, e)
        BY <1>2, <1>5, <2>2, <2>3 DEF Parted
    <2>5. Rotate(x, m + 1) = g + r * e
        BY <2>4, RotateParts
    <2> QED
        BY <2>2, <2>5, Zenon
<1>11. r * (p * b + t) = h * b + rt
    <2>1. r * (p * b + t) = (p * r) * b + r * t
        BY SMT
    <2> QED
        BY <1>6, <1>7, <2>1
<1>12. Rotate(v, 1) = Rotate(x, m + 1)
    <2>1. PICK z \in Int : z = h * b
        <3>1. h * b \in Int
            BY SMT
        <3> QED
            BY <3>1, Zenon
    <2> QED
        BY <1>5, <1>9, <1>10, <1>11, <2>1
<1>13. BitOf(v, 0) <=> b = 1
    <2>1. v \in Int
        BY <1>8, SignedIs
    <2>2. PICK q \in Nat : q = g + rt
        BY <1>5
    <2>3. v % 2 = b
        BY <1>8, <2>1, <2>2
    <2>4. BitOf(v, 0) <=> v % 2 = 1
        BY <2>1, LowestIs, Zenon
    <2> QED
        BY <2>3, <2>4
<1>14. BitOf(x, m) <=> b = 1
    BY <1>1, <1>4 DEF BitOf
<1> QED
    BY <1>12, <1>13, <1>14

(* All the way round is where it was. *)
LEMMA TurnAll == ASSUME NEW x \in Word PROVE Rotate(x, Bits) = x
<1>1. PICK p \in Nat, r \in Nat, q \in Nat :
          p = Modulus /\ p = Power[Bits] /\ r = 1 /\ r = Power[Bits - Bits] /\ q = 0
    <2>1. Bits - Bits = 0
        BY WidthIs
    <2> QED
        BY <2>1, ModulusIs, TwoIs DEF Modulus
<1>2. PICK t \in 0 .. p - 1 : t = x
    BY <1>1 DEF Word
<1>3. p * 0 = 0 /\ Bits \in 0 .. Bits
    BY WidthIs
<1>4. x = p * q + t
    BY <1>1, <1>2, <1>3
<1>5. Rotate(x, Bits) = q + r * t
    <2>1. Parted(x, Bits, p, r, q, t)
        BY <1>1, <1>3, <1>4 DEF Parted
    <2> QED
        BY <2>1, RotateParts
<1>6. r * t = t
    BY <1>1
<1> QED
    BY <1>1, <1>2, <1>5, <1>6

(* The same word and the same carry is the same shift. *)
LEMMA SameShift ==
    ASSUME NEW v, NEW w, v = w, NEW c \in BOOLEAN, NEW d \in BOOLEAN, c <=> d
    PROVE  Shifted(v, c) = Shifted(w, d)
<1>1. c = d
    BY SameTruth, Zenon
<1> QED
    BY <1>1, Zenon

(* A shift by what a byte says. *)
ShiftByte(kind, x, n, c) ==
    CASE n = 0 -> Shifted(x, c)
      [] n # 0 /\ kind = "ROR" ->
            IF n % Bits = 0 THEN Shifted(x, TopBit(x)) ELSE ShiftWithin(kind, x, n % Bits)
      [] n \in 1 .. Bits - 1 /\ kind # "ROR" -> ShiftWithin(kind, x, n)
      [] n >= Bits /\ kind = "ASR" -> Filled(x)
      [] n >= Bits /\ kind = "LSL" -> Shifted(0, n = Bits /\ BitOf(x, 0))
      [] n >= Bits /\ kind = "LSR" -> Shifted(0, n = Bits /\ TopBit(x))

(* Of an amount the lowest byte counts. *)
LEMMA AmountIs ==
    ASSUME NEW kind, NEW x, NEW a \in Nat, NEW c
    PROVE  /\ a % 256 \in 0 .. 255
           /\ ShiftRegister(kind, x, a, c) = ShiftRegister(kind, x, a % 256, c)
<1>1. PICK n \in 0 .. 255 : n = a % 256 /\ n % 256 = n
    OBVIOUS
<1>2. ShiftRegister(kind, x, a, c) = ShiftByte(kind, x, a % 256, c)
    BY Zenon DEF ShiftRegister, ShiftByte
<1>3. ShiftRegister(kind, x, n, c) = ShiftByte(kind, x, n % 256, c)
    BY Zenon DEF ShiftRegister, ShiftByte
<1> QED
    BY <1>1, <1>2, <1>3, Zenon

(* A shift by nothing. *)
LEMMA NoneIs ==
    ASSUME NEW kind, NEW x, NEW c
    PROVE  ShiftRegister(kind, x, 0, c) = Shifted(x, c)
<1>1. 0 % 256 = 0 /\ 0 \notin 1 .. Bits - 1 /\ ~(0 >= Bits)
    BY WidthIs
<1> QED
    BY <1>1, Zenon DEF ShiftRegister

(* A shift by less than a word. *)
LEMMA ShortIs ==
    ASSUME NEW kind \in Kinds, kind # "ROR", NEW x, NEW n \in 1 .. Bits - 1, NEW c
    PROVE  ShiftRegister(kind, x, n, c) = ShiftWithin(kind, x, n)
<1>1. n % 256 = n /\ n # 0 /\ ~(n >= Bits)
    BY WordAssumption
<1> QED
    BY <1>1, Zenon DEF ShiftRegister

(* To the left by a word or more a carry is left at exactly a word, bit 0. *)
LEMMA LongLeft ==
    ASSUME NEW kind, kind = "LSL", NEW x, NEW n \in Bits .. 255, NEW c,
           NEW d \in BOOLEAN, d <=> n = Bits /\ BitOf(x, 0)
    PROVE  ShiftRegister(kind, x, n, c) = Shifted(0, d)
<1>1. n % 256 = n /\ n # 0 /\ n >= Bits /\ n \notin 1 .. Bits - 1
    BY WordAssumption
<1>2. (n = Bits /\ BitOf(x, 0)) \in BOOLEAN
    BY BitIs, Zenon
<1>3. (n = Bits /\ BitOf(x, 0)) = d
    BY <1>2, Zenon
<1> QED
    BY <1>1, <1>3, Zenon DEF ShiftRegister

(* To the right a carry is left at exactly a word, the topmost bit. *)
LEMMA LongRight ==
    ASSUME NEW kind, kind = "LSR", NEW x, NEW n \in Bits .. 255, NEW c,
           NEW d \in BOOLEAN, d <=> n = Bits /\ TopBit(x)
    PROVE  ShiftRegister(kind, x, n, c) = Shifted(0, d)
<1>1. n % 256 = n /\ n # 0 /\ n >= Bits /\ n \notin 1 .. Bits - 1
    BY WordAssumption
<1>2. (n = Bits /\ TopBit(x)) \in BOOLEAN
    BY BitIs, Zenon
<1>3. (n = Bits /\ TopBit(x)) = d
    BY <1>2, Zenon
<1> QED
    BY <1>1, <1>3, Zenon DEF ShiftRegister

(* By sign nothing but the sign is left. *)
LEMMA LongSign ==
    ASSUME NEW kind, kind = "ASR", NEW x, NEW n \in Bits .. 255, NEW c
    PROVE  ShiftRegister(kind, x, n, c) = Filled(x)
<1>1. n % 256 = n /\ n # 0 /\ n >= Bits /\ n \notin 1 .. Bits - 1
    BY WordAssumption
<1> QED
    BY <1>1, Zenon DEF ShiftRegister

(* A rotation by anything but nothing. *)
LEMMA TurnIs ==
    ASSUME NEW x, NEW n \in 1 .. 255, NEW c
    PROVE  ShiftRegister("ROR", x, n, c) =
               IF n % Bits = 0 THEN Shifted(x, TopBit(x)) ELSE ShiftWithin("ROR", x, n % Bits)
<1>1. n % 256 = n /\ n # 0
    OBVIOUS
<1> QED
    BY <1>1, Zenon DEF ShiftRegister

(* A shift by one. *)
LEMMA OnceIs ==
    ASSUME NEW kind \in Kinds, NEW x, NEW c
    PROVE  ShiftRegister(kind, x, 1, c) = ShiftWithin(kind, x, 1)
<1>1. 1 \in 1 .. Bits - 1 /\ 1 \in 1 .. 255 /\ 1 % Bits = 1
    BY WidthIs
<1>2. CASE kind # "ROR"
    BY <1>1, <1>2, ShortIs, Zenon
<1>3. CASE kind = "ROR"
    <2>1. ShiftRegister("ROR", x, 1, c) =
              IF 1 % Bits = 0 THEN Shifted(x, TopBit(x)) ELSE ShiftWithin("ROR", x, 1 % Bits)
        BY <1>1, TurnIs, Zenon
    <2>2. 1 # 0
        OBVIOUS
    <2> QED
        BY <1>1, <1>3, <2>1, <2>2, Zenon
<1> QED
    BY <1>2, <1>3

(* What shifts by less than a word make, kind by kind. *)
WithinValue(kind, x, n) ==
    CASE kind = "LSL" -> Wrap(x * Power[n])
      [] kind = "LSR" -> x \div Power[n]
      [] kind = "ASR" -> Wrap(Signed(x) \div Power[n])
      [] kind = "ROR" -> Rotate(x, n)
WithinCarry(kind, x, n) == IF kind = "LSL" THEN BitOf(x, Bits - n) ELSE BitOf(x, n - 1)

(* That is what they make. *)
LEMMA WithinIs ==
    ASSUME NEW kind \in Kinds, NEW x, NEW n, NEW v, v = WithinValue(kind, x, n),
           NEW d \in BOOLEAN, d <=> WithinCarry(kind, x, n)
    PROVE  ShiftWithin(kind, x, n) = Shifted(v, d)
<1>1. WithinCarry(kind, x, n) \in BOOLEAN
    BY BitIs, Zenon DEF WithinCarry
<1>2. WithinCarry(kind, x, n) = d
    BY <1>1, SameTruth, Zenon
<1>3. CASE kind = "LSL"
    <2>1. v = Wrap(x * Power[n]) /\ BitOf(x, Bits - n) = d
        BY <1>2, <1>3 DEF WithinValue, WithinCarry
    <2> QED
        BY <1>3, <2>1, Zenon DEF ShiftWithin
<1>4. CASE kind = "LSR"
    <2>1. v = x \div Power[n] /\ BitOf(x, n - 1) = d
        BY <1>2, <1>4 DEF WithinValue, WithinCarry
    <2> QED
        BY <1>4, <2>1, Zenon DEF ShiftWithin
<1>5. CASE kind = "ASR"
    <2>1. v = Wrap(Signed(x) \div Power[n]) /\ BitOf(x, n - 1) = d
        BY <1>2, <1>5 DEF WithinValue, WithinCarry
    <2> QED
        BY <1>5, <2>1, Zenon DEF ShiftWithin
<1>6. CASE kind = "ROR"
    <2>1. v = Rotate(x, n) /\ BitOf(x, n - 1) = d
        BY <1>2, <1>6 DEF WithinValue, WithinCarry
    <2> QED
        BY <1>6, <2>1, Zenon DEF ShiftWithin
<1> QED
    BY <1>3, <1>4, <1>5, <1>6 DEF Kinds

(* The value and the carry of a shift. *)
LEMMA FieldsIs ==
    ASSUME NEW v, NEW c
    PROVE  Shifted(v, c).value = v /\ Shifted(v, c).carry = c
BY DEF Shifted

(* Zero has no bits. *)
LEMMA NoBits ==
    /\ \A n \in 0 .. 2 * Bits : ~BitOf(0, n)
    /\ Wrap(0) = 0 /\ 0 \div Power[1] = 0 /\ ~TopBit(0) /\ Signed(0) = 0
<1>1. ASSUME NEW n \in 0 .. 2 * Bits PROVE ~BitOf(0, n)
    <2>1. PICK p \in Nat, z \in Nat : p = Power[n] /\ p > 0 /\ z = 0
        BY PowerIs
    <2>2. p * 0 = 0
        OBVIOUS
    <2>3. z = p * z + z /\ z \in 0 .. p - 1 /\ z \in Int
        BY <2>1, <2>2
    <2>4. z \div p = z
        BY <2>1, <2>3, QuotientIs
    <2>5. 0 % 2 = 0
        OBVIOUS
    <2> QED
        BY <2>1, <2>4, <2>5 DEF BitOf
<1>2. Wrap(0) = 0
    BY ZeroIs, WrapIs
<1>3. 0 \div Power[1] = 0
    BY TwoIs
<1>4. ~TopBit(0) /\ Signed(0) = 0
    BY ModulusIs DEF TopBit, Signed
<1> QED
    BY <1>1, <1>2, <1>3, <1>4

(* One more place is one more shift of what came out. *)
OnceMore(kind, x, m, c, v) ==
    ShiftRegister(kind, x, m + 1, c) = ShiftWithin(kind, v, 1)

(* One more place to the left is one more shift. *)
LEMMA LeftStep ==
    ASSUME NEW x \in Word, NEW m \in 1 .. 254, NEW c \in BOOLEAN, NEW kind, kind = "LSL",
           NEW v, v = ShiftRegister(kind, x, m, c).value
    PROVE  OnceMore(kind, x, m, c, v)
<1> SUFFICES ShiftRegister(kind, x, m + 1, c) = ShiftWithin(kind, v, 1)
    BY Zenon DEF OnceMore
<1>0. kind \in Kinds /\ kind # "ROR" /\ m + 1 - 1 = m /\ Bits \in Nat /\ Bits >= 4
    BY WidthIs DEF Kinds
<1>1. PICK d \in BOOLEAN : d = BitOf(v, Bits - 1)
    BY BitIs, Zenon
<1>2. PICK w : w = Wrap(v * Power[1]) /\ d = BitOf(v, Bits - 1)
    BY <1>1, Zenon
<1>3. ShiftWithin(kind, v, 1) = Shifted(w, d)
    <2>1. w = WithinValue(kind, v, 1) /\ (d <=> WithinCarry(kind, v, 1))
        BY <1>2 DEF WithinValue, WithinCarry
    <2> QED
        BY <1>0, <2>1, WithinIs
<1>4. CASE m <= Bits - 1
    <2>1. m \in 1 .. Bits - 1 /\ m \in 0 .. Bits - 1
        BY <1>0, <1>4
    <2>2. v = Wrap(x * Power[m])
        <3>0. PICK e \in BOOLEAN : e = BitOf(x, Bits - m)
            BY BitIs, Zenon
        <3>1. PICK y : y = Wrap(x * Power[m]) /\ e = BitOf(x, Bits - m)
            BY <3>0, Zenon
        <3>2. y = WithinValue(kind, x, m) /\ (e <=> WithinCarry(kind, x, m))
            BY <3>1 DEF WithinValue, WithinCarry
        <3>3. ShiftWithin(kind, x, m) = Shifted(y, e)
            BY <1>0, <3>2, WithinIs
        <3>4. v = Shifted(y, e).value
            BY <1>0, <2>1, <3>3, ShortIs, Zenon
        <3> QED
            BY <3>1, <3>4, FieldsIs, Zenon
    <2>3. w = Wrap(x * Power[m + 1]) /\ (d <=> BitOf(x, Bits - (m + 1)))
        BY <1>2, <2>1, <2>2, LeftOnce, Zenon
    <2>4. CASE m < Bits - 1
        <3>1. m + 1 \in 1 .. Bits - 1
            BY <1>0, <2>4
        <3>2. ShiftRegister(kind, x, m + 1, c) = ShiftWithin(kind, x, m + 1)
            BY <1>0, <3>1, ShortIs, Zenon
        <3>3. w = WithinValue(kind, x, m + 1) /\ (d <=> WithinCarry(kind, x, m + 1))
            BY <2>3 DEF WithinValue, WithinCarry
        <3>4. ShiftWithin(kind, x, m + 1) = Shifted(w, d)
            BY <1>0, <3>3, WithinIs
        <3> QED
            BY <1>3, <3>2, <3>4, Zenon
    <2>5. CASE m = Bits - 1
        <3>1. m + 1 = Bits /\ m + 1 \in Bits .. 255 /\ Bits - (m + 1) = 0
            BY <1>0, <2>5
        <3>2. w = 0
            <4>1. x \in Int /\ 0 \in Int /\ Modulus \in Nat
                BY SignedIs, ModulusIs
            <4>2. Wrap(0 + x * Modulus) = Wrap(0)
                BY <4>1, WrapSame, Zenon
            <4>3. 0 + x * Modulus = x * Modulus
                <5>1. x * Modulus \in Int
                    BY <4>1, SMT
                <5> QED
                    BY <5>1
            <4>4. Wrap(x * Modulus) = 0
                BY <4>2, <4>3, NoBits, Zenon
            <4> QED
                BY <2>3, <3>1, <4>4, Zenon DEF Modulus
        <3>3. d <=> m + 1 = Bits /\ BitOf(x, 0)
            BY <2>3, <3>1, Zenon
        <3>4. ShiftRegister(kind, x, m + 1, c) = Shifted(0, d)
            BY <3>1, <3>3, LongLeft, Zenon
        <3> QED
            BY <1>3, <3>2, <3>4, Zenon
    <2> QED
        BY <1>0, <1>4, <2>4, <2>5
<1>5. CASE ~(m <= Bits - 1)
    <2>1. m \in Bits .. 255 /\ m + 1 \in Bits .. 255 /\ m + 1 # Bits /\ Bits - 1 \in 0 .. 2 * Bits
        BY <1>0, <1>5
    <2>2. v = 0
        <3>1. PICK e \in BOOLEAN : e <=> m = Bits /\ BitOf(x, 0)
            BY Zenon
        <3>2. v = Shifted(0, e).value
            BY <2>1, <3>1, LongLeft, Zenon
        <3> QED
            BY <3>2, FieldsIs, Zenon
    <2>3. w = 0
        BY <1>2, <2>2, NoBits, TwoIs
    <2>4. d <=> m + 1 = Bits /\ BitOf(x, 0)
        BY <1>2, <2>1, <2>2, NoBits, Zenon
    <2>5. ShiftRegister(kind, x, m + 1, c) = Shifted(0, d)
        BY <2>1, <2>4, LongLeft, Zenon
    <2> QED
        BY <1>3, <2>3, <2>5, Zenon
<1> QED
    BY <1>4, <1>5

(* One more place to the right is one more shift. *)
LEMMA RightStep ==
    ASSUME NEW x \in Word, NEW m \in 1 .. 254, NEW c \in BOOLEAN, NEW kind, kind = "LSR",
           NEW v, v = ShiftRegister(kind, x, m, c).value
    PROVE  OnceMore(kind, x, m, c, v)
<1> SUFFICES ShiftRegister(kind, x, m + 1, c) = ShiftWithin(kind, v, 1)
    BY Zenon DEF OnceMore
<1>0. kind \in Kinds /\ kind # "ROR" /\ m + 1 - 1 = m /\ Bits \in Nat /\ Bits >= 4 /\ x \in Int
    BY WidthIs, SignedIs DEF Kinds
<1>1. PICK d \in BOOLEAN : d = BitOf(v, 0)
    BY BitIs, Zenon
<1>2. PICK w : w = v \div Power[1] /\ d = BitOf(v, 0)
    BY <1>1, Zenon
<1>3. ShiftWithin(kind, v, 1) = Shifted(w, d)
    <2>1. 1 - 1 = 0
        OBVIOUS
    <2>2. w = WithinValue(kind, v, 1) /\ (d <=> WithinCarry(kind, v, 1))
        BY <1>2, <2>1 DEF WithinValue, WithinCarry
    <2> QED
        BY <1>0, <2>2, WithinIs
<1>4. CASE m <= Bits - 1
    <2>1. m \in 1 .. Bits - 1 /\ m \in 0 .. Bits - 1
        BY <1>0, <1>4
    <2>2. v = x \div Power[m]
        <3>1. PICK e \in BOOLEAN : e = BitOf(x, m - 1)
            BY BitIs, Zenon
        <3>2. PICK y : y = x \div Power[m] /\ e = BitOf(x, m - 1)
            BY <3>1, Zenon
        <3>3. y = WithinValue(kind, x, m) /\ (e <=> WithinCarry(kind, x, m))
            BY <3>2 DEF WithinValue, WithinCarry
        <3>4. ShiftWithin(kind, x, m) = Shifted(y, e)
            BY <1>0, <3>3, WithinIs
        <3>5. v = Shifted(y, e).value
            BY <1>0, <2>1, <3>4, ShortIs, Zenon
        <3> QED
            BY <3>2, <3>5, FieldsIs, Zenon
    <2>3. w = x \div Power[m + 1] /\ (d <=> BitOf(x, m))
        <3>1. v \div 2 = x \div Power[m + 1] /\ (BitOf(v, 0) <=> BitOf(x, m))
            BY <1>0, <2>1, <2>2, RightOnce, Zenon
        <3> QED
            BY <1>2, <3>1, TwoIs, Zenon
    <2>4. CASE m < Bits - 1
        <3>1. m + 1 \in 1 .. Bits - 1
            BY <1>0, <2>4
        <3>2. ShiftRegister(kind, x, m + 1, c) = ShiftWithin(kind, x, m + 1)
            BY <1>0, <3>1, ShortIs, Zenon
        <3>3. w = WithinValue(kind, x, m + 1) /\ (d <=> WithinCarry(kind, x, m + 1))
            BY <1>0, <2>3 DEF WithinValue, WithinCarry
        <3>4. ShiftWithin(kind, x, m + 1) = Shifted(w, d)
            BY <1>0, <3>3, WithinIs
        <3> QED
            BY <1>3, <3>2, <3>4, Zenon
    <2>5. CASE m = Bits - 1
        <3>1. m + 1 = Bits /\ m + 1 \in Bits .. 255
            BY <1>0, <2>5
        <3>2. w = 0
            BY <2>3, <3>1, RightGone, Zenon
        <3>3. d <=> m + 1 = Bits /\ TopBit(x)
            BY <2>3, <2>5, <3>1, TopmostIs, Zenon
        <3>4. ShiftRegister(kind, x, m + 1, c) = Shifted(0, d)
            BY <3>1, <3>3, LongRight, Zenon
        <3> QED
            BY <1>3, <3>2, <3>4, Zenon
    <2> QED
        BY <1>0, <1>4, <2>4, <2>5
<1>5. CASE ~(m <= Bits - 1)
    <2>1. m \in Bits .. 255 /\ m + 1 \in Bits .. 255 /\ m + 1 # Bits /\ 0 \in 0 .. 2 * Bits
        BY <1>0, <1>5
    <2>2. v = 0
        <3>1. PICK e \in BOOLEAN : e <=> m = Bits /\ TopBit(x)
            BY Zenon
        <3>2. v = Shifted(0, e).value
            BY <2>1, <3>1, LongRight, Zenon
        <3> QED
            BY <3>2, FieldsIs, Zenon
    <2>3. w = 0
        BY <1>2, <2>2, NoBits, TwoIs
    <2>4. d <=> m + 1 = Bits /\ TopBit(x)
        BY <1>2, <2>1, <2>2, NoBits, Zenon
    <2>5. ShiftRegister(kind, x, m + 1, c) = Shifted(0, d)
        BY <2>1, <2>4, LongRight, Zenon
    <2> QED
        BY <1>3, <2>3, <2>5, Zenon
<1> QED
    BY <1>4, <1>5

(* A word of nothing but ones is less than nothing by one, and its half is. *)
LEMMA OnesAre ==
    ASSUME NEW v, v = Modulus - 1
    PROVE  Wrap(Signed(v) \div Power[1]) = v /\ BitOf(v, 0) /\ TopBit(v) /\ v = Wrap(-1)
<1>1. PICK h \in Nat : h = Power[Bits - 1] /\ Modulus = 2 * h /\ h >= 8
    BY ModulusIs
<1>2. v \in Word /\ v \in Int /\ v = 2 * h - 1
    BY <1>1 DEF Word
<1>3. TopBit(v) /\ Signed(v) = -1
    BY <1>1, <1>2 DEF TopBit, Signed
<1>4. (-1) \div 2 = -1
    <2>1. PICK y \in Int, q \in Int, z \in Nat : y = -1 /\ q = -1 /\ z = 2 /\ z > 0
        OBVIOUS
    <2>2. PICK e \in 0 .. z - 1 : e = 1
        BY <2>1
    <2>3. y = z * q + e
        BY <2>1, <2>2
    <2>4. y \div z = q
        BY <2>1, <2>3, QuotientIs, Zenon
    <2> QED
        BY <2>1, <2>4, Zenon
<1>5. Wrap(-1) = v
    <2>1. PICK y \in Int, k \in Int : y = -1 /\ k = 1
        OBVIOUS
    <2>2. y + k * Modulus = v
        BY <1>1, <1>2, <2>1
    <2>3. Wrap(y + k * Modulus) = Wrap(y)
        BY WrapSame, Zenon
    <2>4. Wrap(v) = v
        BY <1>2, WrapIs
    <2> QED
        BY <2>1, <2>2, <2>3, <2>4
<1>6. BitOf(v, 0)
    <2>1. v % 2 = 1
        BY <1>1, <1>2
    <2> QED
        BY <1>2, <2>1, LowestIs
<1> QED
    BY <1>3, <1>4, <1>5, <1>6, TwoIs

(* The sign filled in is the sign shifted all the way. *)
LEMMA FillsIs ==
    ASSUME NEW x \in Word, NEW d \in BOOLEAN, d <=> TopBit(x),
           NEW v, v = IF d THEN Modulus - 1 ELSE 0
    PROVE  /\ Filled(x) = Shifted(v, d) /\ v = Wrap(Signed(x) \div Power[Bits])
           /\ Wrap(Signed(v) \div Power[1]) = v /\ (BitOf(v, 0) <=> d)
<1>1. TopBit(x) = d
    BY BitIs, SameTruth, Zenon
<1>2. Filled(x) = Shifted(v, d)
    BY <1>1, Zenon DEF Filled
<1>3. CASE d
    <2>1. v = Modulus - 1
        BY <1>3
    <2>2. Signed(x) \div Power[Bits] = -1
        BY <1>1, <1>3, RightGone
    <2> QED
        BY <1>2, <1>3, <2>1, <2>2, OnesAre
<1>4. CASE ~d
    <2>1. v = 0 /\ 0 \in 0 .. 2 * Bits
        BY <1>4, WidthIs
    <2>2. Signed(x) \div Power[Bits] = 0
        BY <1>1, <1>4, RightGone
    <2> QED
        BY <1>2, <1>4, <2>1, <2>2, NoBits
<1> QED
    BY <1>3, <1>4

(* One more place to the right, by sign, is one more shift. *)
LEMMA SignStep ==
    ASSUME NEW x \in Word, NEW m \in 1 .. 254, NEW c \in BOOLEAN, NEW kind, kind = "ASR",
           NEW v, v = ShiftRegister(kind, x, m, c).value
    PROVE  OnceMore(kind, x, m, c, v)
<1> SUFFICES ShiftRegister(kind, x, m + 1, c) = ShiftWithin(kind, v, 1)
    BY Zenon DEF OnceMore
<1>0. kind \in Kinds /\ kind # "ROR" /\ m + 1 - 1 = m /\ Bits \in Nat /\ Bits >= 4 /\ x \in Int
    BY WidthIs, SignedIs DEF Kinds
<1>1. PICK d \in BOOLEAN : d = BitOf(v, 0)
    BY BitIs, Zenon
<1>2. PICK w : w = Wrap(Signed(v) \div Power[1]) /\ d = BitOf(v, 0)
    BY <1>1, Zenon
<1>3. ShiftWithin(kind, v, 1) = Shifted(w, d)
    <2>1. 1 - 1 = 0
        OBVIOUS
    <2>2. w = WithinValue(kind, v, 1) /\ (d <=> WithinCarry(kind, v, 1))
        BY <1>2, <2>1 DEF WithinValue, WithinCarry
    <2> QED
        BY <1>0, <2>2, WithinIs
<1>4. PICK b \in BOOLEAN : b <=> TopBit(x)
    BY Zenon
<1>5. PICK f : f = IF b THEN Modulus - 1 ELSE 0
    OBVIOUS
<1>6. /\ Filled(x) = Shifted(f, b) /\ f = Wrap(Signed(x) \div Power[Bits])
      /\ Wrap(Signed(f) \div Power[1]) = f /\ (BitOf(f, 0) <=> b)
    BY <1>4, <1>5, FillsIs, Zenon
<1>7. CASE m <= Bits - 1
    <2>1. m \in 1 .. Bits - 1 /\ m \in 0 .. Bits - 1
        BY <1>0, <1>7
    <2>2. v = Wrap(Signed(x) \div Power[m])
        <3>1. PICK e \in BOOLEAN : e = BitOf(x, m - 1)
            BY BitIs, Zenon
        <3>2. PICK y : y = Wrap(Signed(x) \div Power[m]) /\ e = BitOf(x, m - 1)
            BY <3>1, Zenon
        <3>3. y = WithinValue(kind, x, m) /\ (e <=> WithinCarry(kind, x, m))
            BY <3>2 DEF WithinValue, WithinCarry
        <3>4. ShiftWithin(kind, x, m) = Shifted(y, e)
            BY <1>0, <3>3, WithinIs
        <3>5. v = Shifted(y, e).value
            BY <1>0, <2>1, <3>4, ShortIs, Zenon
        <3> QED
            BY <3>2, <3>5, FieldsIs, Zenon
    <2>3. w = Wrap(Signed(x) \div Power[m + 1]) /\ (d <=> BitOf(x, m))
        BY <1>2, <2>1, <2>2, SignedOnce, Zenon
    <2>4. CASE m < Bits - 1
        <3>1. m + 1 \in 1 .. Bits - 1
            BY <1>0, <2>4
        <3>2. ShiftRegister(kind, x, m + 1, c) = ShiftWithin(kind, x, m + 1)
            BY <1>0, <3>1, ShortIs, Zenon
        <3>3. w = WithinValue(kind, x, m + 1) /\ (d <=> WithinCarry(kind, x, m + 1))
            BY <1>0, <2>3 DEF WithinValue, WithinCarry
        <3>4. ShiftWithin(kind, x, m + 1) = Shifted(w, d)
            BY <1>0, <3>3, WithinIs
        <3> QED
            BY <1>3, <3>2, <3>4, Zenon
    <2>5. CASE m = Bits - 1
        <3>1. m + 1 = Bits /\ m + 1 \in Bits .. 255
            BY <1>0, <2>5
        <3>2. w = f
            BY <1>6, <2>3, <3>1, Zenon
        <3>3. d = b
            <4>1. d <=> b
                BY <1>4, <2>3, <2>5, TopmostIs, Zenon
            <4> QED
                BY <4>1, SameTruth, Zenon
        <3>4. ShiftRegister(kind, x, m + 1, c) = Filled(x)
            BY <3>1, LongSign, Zenon
        <3> QED
            BY <1>3, <1>6, <3>2, <3>3, <3>4, Zenon
    <2> QED
        BY <1>0, <1>7, <2>4, <2>5
<1>8. CASE ~(m <= Bits - 1)
    <2>1. m \in Bits .. 255 /\ m + 1 \in Bits .. 255
        BY <1>0, <1>8
    <2>2. v = f
        <3>1. v = Shifted(f, b).value
            BY <1>6, <2>1, LongSign, Zenon
        <3> QED
            BY <3>1, FieldsIs, Zenon
    <2>3. w = f
        BY <1>2, <1>6, <2>2, Zenon
    <2>4. d = b
        <3>1. d <=> b
            BY <1>2, <1>6, <2>2, Zenon
        <3> QED
            BY <3>1, SameTruth, Zenon
    <2>5. ShiftRegister(kind, x, m + 1, c) = Filled(x)
        BY <2>1, LongSign, Zenon
    <2> QED
        BY <1>3, <1>6, <2>3, <2>4, <2>5, Zenon
<1> QED
    BY <1>7, <1>8

(* Where one more place leads on a circle of a word. *)
LEMMA NextPlace ==
    ASSUME NEW m \in Nat, NEW k, k = m % Bits
    PROVE  /\ k \in 0 .. Bits - 1
           /\ k < Bits - 1 => (m + 1) % Bits = k + 1
           /\ k = Bits - 1 => (m + 1) % Bits = 0
<1>1. PICK n \in Nat : n = Bits /\ n >= 4
    BY WidthIs
<1>2. PICK q \in Int, e \in Nat : q = m \div n /\ e = m % n /\ e < n /\ m = n * q + e
    <2>1. m \in Int /\ n > 0
        BY <1>1
    <2>2. m \div n \in Int /\ m % n \in Nat /\ m % n < n /\ m = n * (m \div n) + (m % n)
        BY <1>1, <2>1, Divided, Zenon
    <2> QED
        BY <2>2, Zenon
<1>3. k = e
    BY <1>1, <1>2
<1>4. PICK nq \in Int : nq = n * q
    <2>1. n * q \in Int
        BY SMT
    <2> QED
        BY <2>1, Zenon
<1>5. PICK z \in Int : z = m + 1
    OBVIOUS
<1>6. ASSUME e < n - 1 PROVE z % n = e + 1
    <2>1. PICK f \in 0 .. n - 1 : f = e + 1
        BY <1>6
    <2>2. z = n * q + f /\ n > 0
        BY <1>1, <1>2, <1>4, <1>5, <2>1
    <2> QED
        BY <2>1, <2>2, QuotientIs, Zenon
<1>7. ASSUME e = n - 1 PROVE z % n = 0
    <2>1. PICK f \in 0 .. n - 1, p \in Int : f = 0 /\ p = q + 1
        BY <1>1
    <2>2. n * p = n * q + n
        BY <2>1, SMT
    <2>3. z = n * p + f /\ n > 0
        BY <1>1, <1>2, <1>4, <1>5, <1>7, <2>1, <2>2
    <2> QED
        BY <2>1, <2>3, QuotientIs, Zenon
<1> QED
    BY <1>1, <1>2, <1>3, <1>5, <1>6, <1>7

(* A word not turned at all. *)
LEMMA TurnNone == ASSUME NEW x \in Word PROVE Rotate(x, 0) = x
<1>1. PICK p \in Nat, r \in Nat, t \in Nat :
          p = 1 /\ p = Power[0] /\ r = Modulus /\ r = Power[Bits - 0] /\ t = 0
    <2>1. Bits - 0 = Bits
        BY WidthIs
    <2> QED
        BY <2>1, ModulusIs, TwoIs DEF Modulus
<1>2. PICK q \in Nat : q = x
    BY ModulusIs DEF Word
<1>3. 0 \in 0 .. Bits /\ t \in 0 .. p - 1 /\ x = p * q + t
    BY <1>1, <1>2, WidthIs
<1>4. Rotate(x, 0) = q + r * t
    <2>1. Parted(x, 0, p, r, q, t)
        BY <1>1, <1>2, <1>3 DEF Parted
    <2> QED
        BY <2>1, RotateParts
<1>5. r * t = 0
    BY <1>1
<1> QED
    BY <1>1, <1>2, <1>4, <1>5

(* What a rotation makes, by where on the circle it ends. *)
LEMMA TurnedIs ==
    ASSUME NEW x \in Word, NEW n \in 1 .. 255, NEW c, NEW kind, kind = "ROR",
           NEW k, k = n % Bits
    PROVE  /\ ShiftRegister(kind, x, n, c).value = Rotate(x, k)
           /\ k = 0 => ShiftRegister(kind, x, n, c) = Shifted(x, TopBit(x))
           /\ k # 0 => ShiftRegister(kind, x, n, c) = ShiftWithin(kind, x, k)
<1>1. ShiftRegister(kind, x, n, c) =
          IF k = 0 THEN Shifted(x, TopBit(x)) ELSE ShiftWithin(kind, x, k)
    BY TurnIs, Zenon
<1>2. CASE k = 0
    <2>1. ShiftRegister(kind, x, n, c) = Shifted(x, TopBit(x))
        BY <1>1, <1>2, Zenon
    <2>2. PICK d \in BOOLEAN : d = TopBit(x)
        BY BitIs, Zenon
    <2>3. ShiftRegister(kind, x, n, c).value = x
        <3>1. Shifted(x, d).value = x
            BY FieldsIs, Zenon
        <3> QED
            BY <2>1, <2>2, <3>1, Zenon
    <2>4. Rotate(x, k) = x
        BY <1>2, TurnNone, Zenon
    <2> QED
        BY <1>2, <2>1, <2>3, <2>4, Zenon
<1>3. CASE k # 0
    <2>1. ShiftRegister(kind, x, n, c) = ShiftWithin(kind, x, k)
        BY <1>1, <1>3, Zenon
    <2>2. PICK d \in BOOLEAN : d = BitOf(x, k - 1)
        BY BitIs, Zenon
    <2>3. PICK w : w = Rotate(x, k) /\ d = BitOf(x, k - 1)
        BY <2>2, Zenon
    <2>4. kind \in Kinds /\ w = WithinValue(kind, x, k) /\ (d <=> WithinCarry(kind, x, k))
        BY <2>3 DEF Kinds, WithinValue, WithinCarry
    <2>5. ShiftWithin(kind, x, k) = Shifted(w, d)
        BY <2>4, WithinIs
    <2>6. ShiftRegister(kind, x, n, c).value = w
        <3>1. Shifted(w, d).value = w
            BY FieldsIs, Zenon
        <3> QED
            BY <2>1, <2>5, <3>1, Zenon
    <2> QED
        BY <1>3, <2>1, <2>3, <2>6, Zenon
<1> QED
    BY <1>2, <1>3, Zenon

(* A rotation by one more place is one more rotation. *)
LEMMA TurnStep ==
    ASSUME NEW x \in Word, NEW m \in 1 .. 254, NEW c \in BOOLEAN, NEW kind, kind = "ROR",
           NEW v, v = ShiftRegister(kind, x, m, c).value
    PROVE  OnceMore(kind, x, m, c, v)
<1> SUFFICES ShiftRegister(kind, x, m + 1, c) = ShiftWithin(kind, v, 1)
    BY Zenon DEF OnceMore
<1>0. /\ kind \in Kinds /\ m \in Nat /\ m \in 1 .. 255 /\ m + 1 \in 1 .. 255
      /\ Bits \in Nat /\ Bits >= 4
    BY WidthIs DEF Kinds
<1>1. PICK k : k = m % Bits
    OBVIOUS
<1>2. /\ k \in 0 .. Bits - 1
      /\ k < Bits - 1 => (m + 1) % Bits = k + 1
      /\ k = Bits - 1 => (m + 1) % Bits = 0
    BY <1>0, <1>1, NextPlace, Zenon
<1>3. v = Rotate(x, k)
    BY <1>0, <1>1, TurnedIs, Zenon
<1>4. Rotate(v, 1) = Rotate(x, k + 1) /\ (BitOf(v, 0) <=> BitOf(x, k))
    BY <1>2, <1>3, TurnOnce, Zenon
<1>5. PICK d \in BOOLEAN : d = BitOf(v, 0)
    BY BitIs, Zenon
<1>6. PICK w : w = Rotate(v, 1) /\ d = BitOf(v, 0)
    BY <1>5, Zenon
<1>7. ShiftWithin(kind, v, 1) = Shifted(w, d)
    <2>1. 1 - 1 = 0
        OBVIOUS
    <2>2. w = WithinValue(kind, v, 1) /\ (d <=> WithinCarry(kind, v, 1))
        BY <1>6, <2>1 DEF WithinValue, WithinCarry
    <2> QED
        BY <1>0, <2>2, WithinIs
<1>8. CASE k < Bits - 1
    <2>1. k + 1 # 0 /\ k + 1 - 1 = k /\ (m + 1) % Bits = k + 1
        BY <1>2, <1>8, <1>0
    <2>2. PICK n \in 1 .. 255, j \in Nat : n = m + 1 /\ j = k + 1 /\ j = n % Bits
        <3>1. k + 1 \in Nat
            BY <1>0, <1>2
        <3> QED
            BY <1>0, <2>1, <3>1, Zenon
    <2>3. ShiftRegister(kind, x, n, c) = ShiftWithin(kind, x, j)
        <3>0. j = k + 1
            BY <2>2, Zenon
        <3>1. j # 0
            BY <2>1, <3>0, Zenon
        <3>2. j # 0 => ShiftRegister(kind, x, n, c) = ShiftWithin(kind, x, j)
            <4>1. j = n % Bits
                BY <2>2, Zenon
            <4> QED
                BY <4>1, TurnedIs
        <3> QED
            BY <3>1, <3>2, Zenon
    <2>4. w = WithinValue(kind, x, j) /\ (d <=> WithinCarry(kind, x, j))
        <3>1. j - 1 = k /\ kind # "LSL"
            BY <1>2, <2>2
        <3>2. w = Rotate(x, j) /\ (d <=> BitOf(x, j - 1))
            BY <1>4, <1>6, <2>2, <3>1, Zenon
        <3> QED
            BY <3>1, <3>2 DEF WithinValue, WithinCarry
    <2>5. ShiftWithin(kind, x, j) = Shifted(w, d)
        BY <1>0, <2>4, WithinIs
    <2> QED
        BY <1>7, <2>2, <2>3, <2>5, Zenon
<1>9. CASE k = Bits - 1
    <2>1. k + 1 = Bits /\ (m + 1) % Bits = 0
        BY <1>2, <1>9, <1>0
    <2>2. ShiftRegister(kind, x, m + 1, c) = Shifted(x, TopBit(x))
        BY <1>0, <2>1, TurnedIs, Zenon
    <2>3. w = x
        BY <1>4, <1>6, <2>1, TurnAll, Zenon
    <2>4. d = TopBit(x)
        <3>1. d <=> TopBit(x)
            BY <1>4, <1>6, <1>9, TopmostIs, Zenon
        <3>2. TopBit(x) \in BOOLEAN
            BY BitIs, Zenon
        <3> QED
            BY <3>1, <3>2, SameTruth, Zenon
    <2> QED
        BY <1>7, <2>2, <2>3, <2>4, Zenon
<1> QED
    BY <1>0, <1>2, <1>8, <1>9

(* A shift of any kind by one more place is one more shift. *)
LEMMA OneMore ==
    ASSUME NEW x \in Word, NEW m \in 0 .. 254, NEW c \in BOOLEAN, NEW kind \in Kinds
    PROVE  LET by == ShiftRegister(kind, x, m, c)
           IN  ShiftRegister(kind, x, m + 1, c) = ShiftRegister(kind, by.value, 1, by.carry)
<1> DEFINE by == ShiftRegister(kind, x, m, c)
<1>1. ShiftRegister(kind, by.value, 1, by.carry) = ShiftWithin(kind, by.value, 1)
    BY OnceIs, Zenon
<1>2. CASE m = 0
    <2>1. m + 1 = 1
        BY <1>2
    <2>2. by = Shifted(x, c)
        BY <1>2, NoneIs, Zenon
    <2>3. by.value = x
        BY <2>2, FieldsIs, Zenon
    <2> QED
        BY <1>1, <2>1, <2>3, OnceIs, Zenon
<1>3. CASE m # 0
    <2>1. m \in 1 .. 254
        BY <1>3
    <2>2. PICK v : v = by.value
        OBVIOUS
    <2>3. v = ShiftRegister(kind, x, m, c).value
        BY <2>2, Zenon
    <2>4. OnceMore(kind, x, m, c, v)
        <3>1. CASE kind = "LSL"
            BY <2>1, <2>3, <3>1, LeftStep, Zenon
        <3>2. CASE kind = "LSR"
            BY <2>1, <2>3, <3>2, RightStep, Zenon
        <3>3. CASE kind = "ASR"
            BY <2>1, <2>3, <3>3, SignStep, Zenon
        <3>4. CASE kind = "ROR"
            BY <2>1, <2>3, <3>4, TurnStep, Zenon
        <3> QED
            BY <3>1, <3>2, <3>3, <3>4 DEF Kinds
    <2>5. ShiftRegister(kind, x, m + 1, c) = ShiftWithin(kind, v, 1)
        BY <2>4, Zenon DEF OnceMore
    <2> QED
        BY <1>1, <2>2, <2>5, Zenon
<1> QED
    BY <1>2, <1>3

(* By what a register says, one more is one more shift. *)
LEMMA OneMoreIs ==
    ASSUME NEW x \in Word, NEW n \in Nat, n % 256 # 255, NEW c \in BOOLEAN, NEW kind \in Kinds
    PROVE  LET by == ShiftRegister(kind, x, n, c)
           IN  ShiftRegister(kind, x, n + 1, c) = ShiftRegister(kind, by.value, 1, by.carry)
<1>1. PICK m \in 0 .. 255 : m = n % 256
    OBVIOUS
<1>2. m \in 0 .. 254 /\ (n + 1) % 256 = m + 1 /\ (m + 1) % 256 = m + 1
    BY <1>1
<1>3. ShiftRegister(kind, x, n, c) = ShiftRegister(kind, x, m, c)
    <2>1. ShiftRegister(kind, x, n, c) = ShiftRegister(kind, x, n % 256, c)
        BY AmountIs
    <2> QED
        BY <1>1, <2>1, Zenon
<1>4. ShiftRegister(kind, x, n + 1, c) = ShiftRegister(kind, x, m + 1, c)
    <2>1. PICK a \in Nat : a = n + 1
        OBVIOUS
    <2>2. ShiftRegister(kind, x, a, c) = ShiftRegister(kind, x, a % 256, c)
        BY AmountIs
    <2>3. a % 256 = m + 1
        BY <1>2, <2>1, Zenon
    <2> QED
        BY <2>1, <2>2, <2>3, Zenon
<1>5. ShiftRegister(kind, x, m + 1, c) =
          ShiftRegister(kind, ShiftRegister(kind, x, m, c).value, 1,
                        ShiftRegister(kind, x, m, c).carry)
    BY <1>2, OneMore, Zenon
<1> QED
    BY <1>3, <1>4, <1>5, Zenon

(* A shift with another value. *)
LEMMA OtherValue ==
    ASSUME NEW w, NEW d, NEW y
    PROVE  [Shifted(w, d) EXCEPT !.value = y] = Shifted(y, d)
BY DEF Shifted

(* A shift by what the instruction says, of less than a word. *)
LEMMA ImmediateShort ==
    ASSUME NEW x, NEW n \in 1 .. Bits - 1, NEW c, NEW kind \in Kinds
    PROVE  ShiftImmediate(kind, x, n, c) = ShiftRegister(kind, x, n, c)
<1>1. n # 0 /\ n \in 1 .. 255 /\ n % Bits = n
    <2>1. PICK b \in Nat, q \in Int, z \in Int : b = Bits /\ b > 0 /\ q = 0 /\ z = n
        BY WidthIs
    <2>2. PICK e \in 0 .. b - 1 : e = n
        BY <2>1
    <2>3. b * q = 0
        BY <2>1
    <2>4. z = b * q + e
        BY <2>1, <2>2, <2>3
    <2>5. z % b = e
        BY <2>1, <2>4, QuotientIs, Zenon
    <2>6. n # 0 /\ n \in 1 .. 255
        BY WordAssumption
    <2> QED
        BY <2>1, <2>2, <2>5, <2>6, Zenon
<1>2. ShiftImmediate(kind, x, n, c) = ShiftWithin(kind, x, n)
    BY <1>1, Zenon DEF ShiftImmediate
<1>3. CASE kind # "ROR"
    BY <1>2, <1>3, ShortIs, Zenon
<1>4. CASE kind = "ROR"
    <2>1. ShiftRegister("ROR", x, n, c) =
              IF n % Bits = 0 THEN Shifted(x, TopBit(x)) ELSE ShiftWithin("ROR", x, n % Bits)
        BY <1>1, TurnIs, Zenon
    <2>2. ShiftRegister("ROR", x, n, c) = ShiftWithin("ROR", x, n)
        BY <1>1, <2>1, Zenon
    <2> QED
        BY <1>2, <1>4, <2>2, Zenon
<1> QED
    BY <1>3, <1>4

(* One by 0 is one by a whole word, and for a rotation one by one place    *)
(* with the carry moved in.                                                *)
LEMMA ImmediateNone ==
    ASSUME NEW x \in Word, NEW c \in BOOLEAN, NEW kind \in Kinds
    PROVE  /\ kind = "LSL" => ShiftImmediate(kind, x, 0, c) = ShiftRegister(kind, x, 0, c)
           /\ kind \in {"LSR", "ASR"} =>
                 ShiftImmediate(kind, x, 0, c) = ShiftRegister(kind, x, Bits, c)
           /\ kind = "ROR" =>
                 ShiftImmediate(kind, x, 0, c) =
                     [ShiftRegister(kind, x, 1, c) EXCEPT
                         !.value = (x \div 2) + Power[Bits - 1] * ToInt(c)]
<1>0. Bits \in Bits .. 255 /\ 1 - 1 = 0
    BY WordAssumption
<1>1. ASSUME kind = "LSL" PROVE ShiftImmediate(kind, x, 0, c) = ShiftRegister(kind, x, 0, c)
    <2>1. ShiftImmediate(kind, x, 0, c) = Shifted(x, c)
        BY <1>1 DEF ShiftImmediate
    <2> QED
        BY <2>1, NoneIs, Zenon
<1>2. ASSUME kind = "LSR" PROVE ShiftImmediate(kind, x, 0, c) = ShiftRegister(kind, x, Bits, c)
    <2>1. PICK d \in BOOLEAN : d = TopBit(x)
        BY BitIs, Zenon
    <2>2. ShiftImmediate(kind, x, 0, c) = Shifted(0, d)
        <3>1. ShiftImmediate(kind, x, 0, c) = Shifted(0, TopBit(x))
            BY <1>2 DEF ShiftImmediate
        <3> QED
            BY <2>1, <3>1, Zenon
    <2>3. d <=> Bits = Bits /\ TopBit(x)
        BY <2>1, Zenon
    <2>4. ShiftRegister(kind, x, Bits, c) = Shifted(0, d)
        BY <1>0, <1>2, <2>3, LongRight, Zenon
    <2> QED
        BY <2>2, <2>4, Zenon
<1>3. ASSUME kind = "ASR" PROVE ShiftImmediate(kind, x, 0, c) = ShiftRegister(kind, x, Bits, c)
    <2>1. ShiftImmediate(kind, x, 0, c) = Filled(x)
        BY <1>3 DEF ShiftImmediate
    <2>2. ShiftRegister(kind, x, Bits, c) = Filled(x)
        BY <1>0, <1>3, LongSign, Zenon
    <2> QED
        BY <2>1, <2>2, Zenon
<1>4. ASSUME kind = "ROR", NEW y, y = (x \div 2) + Power[Bits - 1] * ToInt(c)
      PROVE  ShiftImmediate(kind, x, 0, c) = [ShiftRegister(kind, x, 1, c) EXCEPT !.value = y]
    <2>1. PICK d \in BOOLEAN : d = BitOf(x, 0)
        BY BitIs, Zenon
    <2>2. PICK w : w = Rotate(x, 1) /\ d = BitOf(x, 0)
        BY <2>1, Zenon
    <2>3. w = WithinValue(kind, x, 1) /\ (d <=> WithinCarry(kind, x, 1))
        BY <1>0, <1>4, <2>2 DEF WithinValue, WithinCarry
    <2>4. ShiftRegister(kind, x, 1, c) = Shifted(w, d)
        BY <2>3, OnceIs, WithinIs
    <2>5. ShiftImmediate(kind, x, 0, c) = Shifted(y, d)
        <3>1. ShiftImmediate(kind, x, 0, c) =
                  Shifted((x \div 2) + Power[Bits - 1] * ToInt(c), BitOf(x, 0))
            BY <1>4 DEF ShiftImmediate
        <3> QED
            BY <1>4, <2>2, <3>1, Zenon
    <2>6. [Shifted(w, d) EXCEPT !.value = y] = Shifted(y, d)
        BY OtherValue, Zenon
    <2> QED
        BY <2>4, <2>5, <2>6, Zenon
<1> QED
    BY <1>1, <1>2, <1>3, <1>4, Zenon

(* By how much an instruction says is by how much a register would. *)
ByImmediate(kind, x, n, c) ==
    ShiftImmediate(kind, x, n, c) =
        CASE n # 0 \/ kind = "LSL" -> ShiftRegister(kind, x, n, c)
          [] n = 0 /\ kind \in {"LSR", "ASR"} -> ShiftRegister(kind, x, Bits, c)
          [] n = 0 /\ kind = "ROR" ->
                 [ShiftRegister(kind, x, 1, c) EXCEPT
                     !.value = (x \div 2) + Power[Bits - 1] * ToInt(c)]

(* So it is for every word, carry and kind. *)
LEMMA ImmediateIs ==
    ASSUME NEW x \in Word, NEW n \in 0 .. Bits - 1, NEW c \in BOOLEAN, NEW kind \in Kinds
    PROVE  ByImmediate(kind, x, n, c)
<1>1. CASE n # 0
    <2>1. n \in 1 .. Bits - 1
        BY <1>1, WidthIs
    <2>2. ShiftImmediate(kind, x, n, c) = ShiftRegister(kind, x, n, c)
        BY <2>1, ImmediateShort, Zenon
    <2> QED
        BY <1>1, <2>2, Zenon DEF ByImmediate
<1>2. CASE n = 0 /\ kind = "LSL"
    <2>1. ShiftImmediate(kind, x, 0, c) = ShiftRegister(kind, x, 0, c)
        BY <1>2, ImmediateNone, Zenon
    <2> QED
        BY <1>2, <2>1, Zenon DEF ByImmediate
<1>3. CASE n = 0 /\ kind \in {"LSR", "ASR"}
    <2>1. ShiftImmediate(kind, x, 0, c) = ShiftRegister(kind, x, Bits, c)
        BY <1>3, ImmediateNone, Zenon
    <2> QED
        BY <1>3, <2>1, Zenon DEF ByImmediate
<1>4. CASE n = 0 /\ kind = "ROR"
    <2>1. ShiftImmediate(kind, x, 0, c) =
              [ShiftRegister(kind, x, 1, c) EXCEPT
                  !.value = (x \div 2) + Power[Bits - 1] * ToInt(c)]
        BY <1>4, ImmediateNone, Zenon
    <2> QED
        BY <1>4, <2>1, Zenon DEF ByImmediate
<1> QED
    BY <1>1, <1>2, <1>3, <1>4 DEF Kinds

(* One place more than a register says is one shift more. *)
ByOneMore(kind, x, n, c) ==
    n % 256 # 255 =>
        LET by == ShiftRegister(kind, x, n, c)
        IN  ShiftRegister(kind, x, n + 1, c) = ShiftRegister(kind, by.value, 1, by.carry)

(* A shift by a register, of what the registers hold, is that many shifts. *)
LEMMA ShiftsAreTrue ==
    ASSUME NEW s \in Cpus, NEW i \in ArmInstructions
    PROVE  ShiftsTruly(s, i)
<1> SUFFICES ASSUME i.op = "data", i.by.form = "reg", {i.by.rm, i.by.rs} \subseteq General
             PROVE  ShiftsTruly(s, i)
    BY Zenon DEF ShiftsTruly
<1>1. i.by \in [form : {"reg"}, rm : Regs, kind : Kinds, rs : Regs]
    <2>1. i \in ArmData
        BY ProductFields, TransferFields, OtherFields DEF ArmInstructions, Products
    <2>2. i.by \in Operands
        BY <2>1 DEF ArmData
    <2> QED
        BY <2>2 DEF Operands
<1>2. i.by.kind \in Kinds /\ i.by.rm \in Regs /\ i.by.rs \in Regs /\ i.by.rm # 15 /\ i.by.rs # 15
    BY <1>1 DEF General
<1>3. PICK x \in Word, n \in Word, c \in BOOLEAN, kind \in Kinds :
          x = s.r[i.by.rm] /\ n = s.r[i.by.rs] /\ c = s.cpsr.c /\ kind = i.by.kind
    <2>1. s.r[i.by.rm] \in Word /\ s.r[i.by.rs] \in Word
        BY <1>2, RegIs
    <2>2. s.cpsr.c \in BOOLEAN
        BY DEF Cpus, Statuses
    <2> QED
        BY <1>2, <2>1, <2>2, Zenon
<1>4. Operand(s, i.by) = ShiftRegister(kind, x, n, c)
    <2>1. Operand(s, i.by) =
              ShiftRegister(i.by.kind, Read15(s, i.by.rm, 4), Read15(s, i.by.rs, 4), s.cpsr.c)
        BY DEF Operand
    <2>2. Read15(s, i.by.rm, 4) = x /\ Read15(s, i.by.rs, 4) = n
        BY <1>2, <1>3, Zenon DEF Read15
    <2> QED
        BY <1>3, <2>1, <2>2, Zenon
<1>5. n \in Nat
    BY ModulusIs DEF Word
<1>6. ByOneMore(kind, x, n, c)
    BY <1>5, OneMoreIs, Zenon DEF ByOneMore
<1>7. n < Bits => ByImmediate(kind, x, n, c)
    <2>1. ASSUME n < Bits PROVE n \in 0 .. Bits - 1
        BY <1>5, <2>1, WidthIs
    <2> QED
        BY <2>1, ImmediateIs, Zenon
<1>8. /\ Operand(s, i.by) = ShiftRegister(i.by.kind, s.r[i.by.rm], s.r[i.by.rs], s.cpsr.c)
      /\ ByOneMore(i.by.kind, s.r[i.by.rm], s.r[i.by.rs], s.cpsr.c)
      /\ s.r[i.by.rs] < Bits =>
             ByImmediate(i.by.kind, s.r[i.by.rm], s.r[i.by.rs], s.cpsr.c)
    BY <1>3, <1>4, <1>6, <1>7
<1> QED
    BY <1>8, Zenon DEF ShiftsTruly, ByOneMore, ByImmediate

(* On every word that a byte counts the bits of, what compilers build on   *)
(* holds: conditions say of words what they are named for, a carry between *)
(* words makes them one number, and a shift is as many shifts by one.      *)
THEOREM ArithmeticAlwaysTrue == Spec => []ArithmeticIsTrue
<1>1. IInv => ArithmeticIsTrue
    <2> SUFFICES ASSUME IInv, Reached, ~cpu.cpsr.t, NEW i, i = program[Index]
                 PROVE  /\ ComparesTruly(cpu, i) /\ ShiftsTruly(cpu, i)
                        /\ Index < Len(program) => CarriesTruly(cpu, i, program[Index + 1])
        BY DEF ArithmeticIsTrue
    <2>1. PICK t \in BOOLEAN : IsAt(cpu, program, left, t)
        BY DEF IInv
    <2>2. cpu \in Cpus /\ cpu.cpsr.mode = "usr" /\ left # 0
        BY <2>1 DEF IsAt, Reached, InProgram, Finished
    <2>3. i \in ArmInstructions
        BY <2>1, <2>2, UserIs DEF Index
    <2> QED
        BY <2>2, <2>3, ComparesAreTrue, ShiftsAreTrue, CarriesAreTrue
<1> QED
    BY <1>1, IInvHolds, PTL
=============================================================================
