-------------------------- MODULE BraCrc32cProofs --------------------------
(***************************************************************************)
(* What the sums of BraCrc32c are, for data of every length.               *)
(***************************************************************************)
EXTENDS BraCrc32c, TLAPS, WellFoundedInduction, FiniteSetTheorems

----------------------------------------------------------------------------
(* Bits. *)
LEMMA XorIn ==
  ASSUME NEW a, NEW b, NEW x
  PROVE  x \in Xor(a, b) <=> ~(x \in a <=> x \in b)
BY DEF Xor

LEMMA SameBits ==
  ASSUME NEW a, NEW b, \A x : x \in a <=> x \in b
  PROVE  a = b
OBVIOUS

LEMMA ShiftIn ==
  ASSUME NEW w \in SUBSET Nat, NEW n \in Nat, NEW x
  PROVE  x \in ShiftRight(w, n) <=> x \in Nat /\ x + n \in w
<1>1. ASSUME x \in ShiftRight(w, n) PROVE x \in Nat /\ x + n \in w
  <2>1. PICK b \in w : b >= n /\ x = b - n
    BY <1>1 DEF ShiftRight
  <2>2. b \in Nat /\ x \in Nat /\ x + n = b
    BY <2>1
  <2> QED
    BY <2>1, <2>2
<1>2. ASSUME x \in Nat, x + n \in w PROVE x \in ShiftRight(w, n)
  <2>1. x + n >= n /\ (x + n) - n = x
    BY <1>2
  <2> QED
    BY <1>2, <2>1 DEF ShiftRight
<1> QED
  BY <1>1, <1>2

LEMMA ShiftNat ==
  ASSUME NEW w \in SUBSET Nat, NEW n \in Nat
  PROVE  ShiftRight(w, n) \in SUBSET Nat
BY ShiftIn

(* What a step of the division does to each bit. *)
LEMMA BitStepIn ==
  ASSUME NEW w \in SUBSET Nat, NEW x
  PROVE  x \in BitStep(w) <=> ~((x \in Nat /\ x + 1 \in w) <=> (0 \in w /\ x \in BRA_CRC32C_POLY))
<1>1. x \in ShiftRight(w, 1) <=> x \in Nat /\ x + 1 \in w
  BY ShiftIn
<1>2. x \in Xor(ShiftRight(w, 1), BRA_CRC32C_POLY)
        <=> ~(x \in ShiftRight(w, 1) <=> x \in BRA_CRC32C_POLY)
  BY XorIn
<1> QED
  BY <1>1, <1>2 DEF BitStep

LEMMA BitStepNat ==
  ASSUME NEW w \in SUBSET Nat
  PROVE  BitStep(w) \in SUBSET Nat
<1>1. BRA_CRC32C_POLY \subseteq Nat
  BY DEF BRA_CRC32C_POLY
<1> QED
  BY <1>1, BitStepIn

LEMMA XorNat ==
  ASSUME NEW a \in SUBSET Nat, NEW b \in SUBSET Nat
  PROVE  Xor(a, b) \in SUBSET Nat
BY DEF Xor

LEMMA BitStepLinear ==
  ASSUME NEW a \in SUBSET Nat, NEW b \in SUBSET Nat
  PROVE  BitStep(Xor(a, b)) = Xor(BitStep(a), BitStep(b))
<1>1. Xor(a, b) \in SUBSET Nat
  BY XorNat
<1>2. ASSUME NEW x PROVE x \in BitStep(Xor(a, b)) <=> x \in Xor(BitStep(a), BitStep(b))
  <2>1. /\ x \in BitStep(Xor(a, b)) <=> ~((x \in Nat /\ x + 1 \in Xor(a, b))
                                            <=> (0 \in Xor(a, b) /\ x \in BRA_CRC32C_POLY))
        /\ x \in BitStep(a) <=> ~((x \in Nat /\ x + 1 \in a) <=> (0 \in a /\ x \in BRA_CRC32C_POLY))
        /\ x \in BitStep(b) <=> ~((x \in Nat /\ x + 1 \in b) <=> (0 \in b /\ x \in BRA_CRC32C_POLY))
    BY <1>1, BitStepIn
  <2>2. /\ x + 1 \in Xor(a, b) <=> ~(x + 1 \in a <=> x + 1 \in b)
        /\ 0 \in Xor(a, b) <=> ~(0 \in a <=> 0 \in b)
        /\ x \in Xor(BitStep(a), BitStep(b)) <=> ~(x \in BitStep(a) <=> x \in BitStep(b))
    BY XorIn
  <2> QED
    BY <2>1, <2>2
<1> QED
  BY <1>2, SameBits

(* A word without a low bit is only shifted. *)
LEMMA BitStepShift ==
  ASSUME NEW w \in SUBSET Nat, NEW n \in Nat, n \notin w
  PROVE  BitStep(ShiftRight(w, n)) = ShiftRight(w, n + 1)
<1>1. ShiftRight(w, n) \in SUBSET Nat
  BY ShiftNat
<1>2. 0 \notin ShiftRight(w, n)
  <2>1. 0 \in ShiftRight(w, n) <=> 0 \in Nat /\ 0 + n \in w
    BY ShiftIn
  <2> QED
    BY <2>1
<1>3. ASSUME NEW x PROVE x \in BitStep(ShiftRight(w, n)) <=> x \in ShiftRight(w, n + 1)
  <2>1. x \in BitStep(ShiftRight(w, n)) <=> x \in Nat /\ x + 1 \in ShiftRight(w, n)
    BY <1>1, <1>2, BitStepIn
  <2>2. x + 1 \in ShiftRight(w, n) <=> x + 1 \in Nat /\ (x + 1) + n \in w
    BY ShiftIn
  <2>3. x \in ShiftRight(w, n + 1) <=> x \in Nat /\ x + (n + 1) \in w
    BY ShiftIn
  <2>4. x \in Nat => (x + 1) + n = x + (n + 1) /\ x + 1 \in Nat
    OBVIOUS
  <2> QED
    BY <2>1, <2>2, <2>3, <2>4
<1> QED
  BY <1>3, SameBits

----------------------------------------------------------------------------
(* Loops.  The provers have no induction over data, so what a loop does to *)
(* its state is argued with the least round at which it fails.             *)
LEMMA LeastNat ==
  ASSUME NEW T, T \subseteq Nat, T # {}
  PROVE  \E m \in T : \A k \in T : m <= k
<1>1. PICK m \in T : \A k \in T : ~(<<k, m>> \in OpToRel(<, Nat))
  <2>1. IsWellFoundedOn(OpToRel(<, Nat), Nat)
    BY NatLessThanWellFounded
  <2> QED
    BY <2>1, WFMin
<1>2. \A k \in T : m \in Nat /\ k \in Nat /\ ~(k < m)
  BY <1>1 DEF OpToRel
<1>3. \A k \in T : m <= k
  BY <1>2
<1> QED
  BY <1>3

(* A loop of n rounds, the i-th of which applies F[i]. *)
Loop(F, w, n, f) == f = [i \in 0 .. n |-> IF i = 0 THEN w ELSE F[i][f[i - 1]]]

LEMMA LoopStays ==
  ASSUME NEW S, NEW n \in Nat, NEW F \in [1 .. n -> [S -> S]], NEW w \in S,
         NEW f, Loop(F, w, n, f)
  PROVE  f \in [0 .. n -> S]
<1> DEFINE Bad == {i \in 0 .. n : f[i] \notin S}
<1>1. \A i \in 0 .. n : f[i] = IF i = 0 THEN w ELSE F[i][f[i - 1]]
  BY DEF Loop
<1>2. SUFFICES ASSUME Bad # {} PROVE FALSE
  <2>1. f = [i \in 0 .. n |-> f[i]]
    BY DEF Loop
  <2> QED
    BY <2>1
<1>3. PICK m \in Bad : \A i \in Bad : m <= i
  <2>1. Bad \subseteq Nat
    OBVIOUS
  <2> HIDE DEF Bad
  <2> QED
    BY <2>1, <1>2, LeastNat
<1>4. m # 0
  BY <1>1, <1>3
<1>5. m \in 1 .. n /\ m - 1 \in 0 .. n /\ ~(m <= m - 1)
  BY <1>3, <1>4
<1>6. f[m - 1] \in S
  <2> HIDE DEF Bad
  <2>1. m - 1 \notin Bad
    BY <1>3, <1>5
  <2> QED
    BY <2>1, <1>5 DEF Bad
<1>7. f[m] \in S
  BY <1>1, <1>4, <1>5, <1>6
<1> QED
  BY <1>3, <1>7

LEMMA LoopExists ==
  ASSUME NEW S, NEW n \in Nat, NEW F \in [1 .. n -> [S -> S]], NEW w \in S
  PROVE  \E f : Loop(F, w, n, f)
<1> DEFINE Bad == {k \in Nat : ~\E f : Loop(F, w, k, f)}
<1>1. SUFFICES ASSUME Bad # {} PROVE FALSE
  OBVIOUS
<1>2. PICK m \in Bad : \A k \in Bad : m <= k
  <2>1. Bad \subseteq Nat
    OBVIOUS
  <2> HIDE DEF Bad
  <2> QED
    BY <2>1, <1>1, LeastNat
<1>3. CASE m = 0
  <2>1. Loop(F, w, 0, [i \in 0 .. 0 |-> w])
    BY DEF Loop
  <2> QED
    BY <2>1, <1>2, <1>3
<1>4. CASE m # 0
  <2>1. m \in Nat \ {0} /\ m - 1 \in Nat /\ ~(m <= m - 1)
    BY <1>2, <1>4
  <2>2. PICK g : Loop(F, w, m - 1, g)
    <3>1. m - 1 \notin Bad
      <4> HIDE DEF Bad
      <4> QED
        BY <1>2, <2>1
    <3> QED
      BY <3>1, <2>1
  <2> DEFINE h == [i \in 0 .. m |-> IF i = 0 THEN w ELSE F[i][g[i - 1]]]
  <2>3. \A i \in 0 .. m - 1 : h[i] = g[i]
    <3>1. \A i \in 0 .. m - 1 : g[i] = IF i = 0 THEN w ELSE F[i][g[i - 1]]
      BY <2>2 DEF Loop
    <3> QED
      BY <3>1, <2>1
  <2>4. \A i \in 1 .. m : i - 1 \in 0 .. m - 1
    BY <2>1
  <2>5. \A i \in 0 .. m : h[i] = IF i = 0 THEN w ELSE F[i][h[i - 1]]
    <3>1. \A i \in 0 .. m : i = 0 \/ i \in 1 .. m
      BY <2>1
    <3>2. \A i \in 1 .. m : h[i - 1] = g[i - 1]
      <4> HIDE DEF h
      <4> QED
        BY <2>3, <2>4
    <3>3. \A i \in 0 .. m : h[i] = IF i = 0 THEN w ELSE F[i][g[i - 1]]
      OBVIOUS
    <3> HIDE DEF h
    <3> QED
      BY <3>1, <3>2, <3>3
  <2>6. Loop(F, w, m, h)
    <3>1. h = [i \in 0 .. m |-> h[i]]
      OBVIOUS
    <3> HIDE DEF h
    <3> QED
      BY <3>1, <2>5 DEF Loop
  <2> QED
    BY <2>6, <1>2
<1> QED
  BY <1>3, <1>4

----------------------------------------------------------------------------
(* Eight steps of the division. *)
Two(w) == BitStep(BitStep(w))
Four(w) == Two(Two(w))
Eight(w) == Four(Four(w))

LEMMA BitStepsEight ==
  ASSUME NEW w \in SUBSET Nat
  PROVE  BitSteps(w, 8) = Eight(w)
<1> DEFINE Rounds(a) == a = [k \in 0 .. 8 |-> IF k = 0 THEN w ELSE BitStep(a[k - 1])]
           after == CHOOSE a : Rounds(a)
           F == [i \in 1 .. 8 |-> [v \in SUBSET Nat |-> BitStep(v)]]
<1>1. F \in [1 .. 8 -> [SUBSET Nat -> SUBSET Nat]]
  BY BitStepNat
<1>2. PICK f : Loop(F, w, 8, f)
  BY <1>1, LoopExists
<1>3. f \in [0 .. 8 -> SUBSET Nat]
  BY <1>1, <1>2, LoopStays
<1>4. Rounds(f)
  <2>1. \A k \in 1 .. 8 : k - 1 \in 0 .. 8 /\ f[k - 1] \in SUBSET Nat
    BY <1>3
  <2>2. \A k \in 0 .. 8 : f[k] = IF k = 0 THEN w ELSE F[k][f[k - 1]]
    BY <1>2 DEF Loop
  <2>3. \A k \in 0 .. 8 : k = 0 \/ k \in 1 .. 8
    OBVIOUS
  <2>4. \A k \in 0 .. 8 : f[k] = IF k = 0 THEN w ELSE BitStep(f[k - 1])
    BY <2>1, <2>2, <2>3
  <2>5. f = [k \in 0 .. 8 |-> f[k]]
    BY <1>3
  <2> HIDE DEF F
  <2> QED
    BY <2>4, <2>5
<1>5. Rounds(after)
  BY <1>4
<1>6. BitSteps(w, 8) = after[8]
  BY DEF BitSteps
<1> HIDE DEF after
<1>7. \A k \in 0 .. 8 : after[k] = IF k = 0 THEN w ELSE BitStep(after[k - 1])
  BY <1>5
<1>8. /\ after[0] = w
      /\ after[1] = BitStep(after[0]) /\ after[2] = BitStep(after[1])
      /\ after[3] = BitStep(after[2]) /\ after[4] = BitStep(after[3])
      /\ after[5] = BitStep(after[4]) /\ after[6] = BitStep(after[5])
      /\ after[7] = BitStep(after[6]) /\ after[8] = BitStep(after[7])
  <2> HIDE DEF Rounds
  <2> QED
    BY <1>7
<1>9. after[2] = Two(w) /\ after[4] = Two(after[2]) /\ after[6] = Two(after[4]) /\ after[8] = Two(after[6])
  BY <1>8 DEF Two
<1> QED
  BY <1>6, <1>9 DEF Four, Eight

LEMMA EightNat ==
  ASSUME NEW w \in SUBSET Nat
  PROVE  Two(w) \in SUBSET Nat /\ Four(w) \in SUBSET Nat /\ Eight(w) \in SUBSET Nat
<1>1. \A v \in SUBSET Nat : Two(v) \in SUBSET Nat
  BY BitStepNat DEF Two
<1>2. \A v \in SUBSET Nat : Four(v) \in SUBSET Nat
  BY <1>1 DEF Four
<1> QED
  BY <1>1, <1>2 DEF Eight

LEMMA EightLinear ==
  ASSUME NEW a \in SUBSET Nat, NEW b \in SUBSET Nat
  PROVE  Eight(Xor(a, b)) = Xor(Eight(a), Eight(b))
<1>1. \A c, d \in SUBSET Nat : Two(Xor(c, d)) = Xor(Two(c), Two(d))
  BY BitStepNat, BitStepLinear DEF Two
<1>2. \A c, d \in SUBSET Nat : Four(Xor(c, d)) = Xor(Four(c), Four(d))
  BY <1>1, EightNat DEF Four
<1> QED
  BY <1>2, EightNat DEF Eight

(* Eight steps shift out eight zeros. *)
LEMMA EightShift ==
  ASSUME NEW w \in SUBSET Nat, w \intersect (0 .. 7) = {}
  PROVE  Eight(w) = ShiftRight(w, 8)
<1>1. \A n \in 0 .. 7 : BitStep(ShiftRight(w, n)) = ShiftRight(w, n + 1)
  BY BitStepShift
<1>2. ShiftRight(w, 0) = w
  <2>1. \A x : x \in ShiftRight(w, 0) <=> x \in Nat /\ x + 0 \in w
    BY ShiftIn
  <2>2. \A x \in Nat : x + 0 = x
    OBVIOUS
  <2>3. \A x : x \in ShiftRight(w, 0) <=> x \in w
    BY <2>1, <2>2
  <2> HIDE DEF ShiftRight
  <2> QED
    BY <2>3, SameBits
<1>3. /\ BitStep(w) = ShiftRight(w, 1) /\ BitStep(ShiftRight(w, 1)) = ShiftRight(w, 2)
      /\ BitStep(ShiftRight(w, 2)) = ShiftRight(w, 3) /\ BitStep(ShiftRight(w, 3)) = ShiftRight(w, 4)
      /\ BitStep(ShiftRight(w, 4)) = ShiftRight(w, 5) /\ BitStep(ShiftRight(w, 5)) = ShiftRight(w, 6)
      /\ BitStep(ShiftRight(w, 6)) = ShiftRight(w, 7) /\ BitStep(ShiftRight(w, 7)) = ShiftRight(w, 8)
  BY <1>1, <1>2
<1> QED
  BY <1>3 DEF Two, Four, Eight

(* The table has what eight steps make of an octet, and the rest of the    *)
(* word only moves: so looking up divides.                                 *)
LEMMA LookupDivides ==
  ASSUME NEW r \in SUBSET Nat
  PROVE  Xor(crc32c_table[r \intersect (0 .. 7)], ShiftRight(r, 8)) = Eight(r)
<1> DEFINE low == r \intersect (0 .. 7)
           high == r \ (0 .. 7)
<1>1. low \in SUBSET Nat /\ high \in SUBSET Nat /\ low \in OctetWords
      /\ high \intersect (0 .. 7) = {} /\ r = Xor(low, high)
  BY DEF OctetWords, Xor
<1>2. crc32c_table[low] = Eight(low)
  <2>1. crc32c_table[low] = BitSteps(low, 8)
    BY <1>1 DEF crc32c_table
  <2> QED
    BY <1>1, <2>1, BitStepsEight
<1>3. Eight(high) = ShiftRight(r, 8)
  <2>1. \A x : x \in ShiftRight(high, 8) <=> x \in Nat /\ x + 8 \in high
    BY <1>1, ShiftIn
  <2>2. \A x : x \in ShiftRight(r, 8) <=> x \in Nat /\ x + 8 \in r
    BY ShiftIn
  <2>3. \A x \in Nat : x + 8 \notin 0 .. 7
    OBVIOUS
  <2>4. ShiftRight(high, 8) = ShiftRight(r, 8)
    BY <2>1, <2>2, <2>3
  <2> QED
    BY <1>1, <2>4, EightShift
<1> HIDE DEF low, high
<1>4. Eight(r) = Xor(Eight(low), Eight(high))
  BY <1>1, EightLinear
<1> QED
  BY <1>2, <1>3, <1>4 DEF low

----------------------------------------------------------------------------
(* A round of the table-driven loop, and of the division. *)
LEMMA WordsNat ==
  /\ Words \subseteq SUBSET Nat
  /\ OctetWords \subseteq Words
  /\ \A a, b \in Words : Xor(a, b) \in Words
  /\ \A a \in Words : Not(a) \in Words
BY DEF Words, OctetWords, Bits, GF2_DIM, Xor, Not

LEMMA BitStepWord ==
  ASSUME NEW v \in Words
  PROVE  BitStep(v) \in Words
<1>1. BRA_CRC32C_POLY \in Words
  BY DEF BRA_CRC32C_POLY, Words, Bits, GF2_DIM
<1>2. ShiftRight(v, 1) \in Words
  <2>1. \A x : x \in ShiftRight(v, 1) => x \in Nat /\ x + 1 \in 0 .. 31
    BY ShiftIn, WordsNat DEF Words, Bits, GF2_DIM
  <2> QED
    BY <2>1 DEF Words, Bits, GF2_DIM
<1> QED
  BY <1>1, <1>2, WordsNat DEF BitStep

LEMMA EightWord ==
  ASSUME NEW w \in Words
  PROVE  Eight(w) \in Words
  BY BitStepWord DEF Two, Four, Eight

LEMMA TableStepDivides ==
  ASSUME NEW crc \in Words, NEW octet \in OctetWords
  PROVE  /\ TableStep(crc, octet) = Eight(Xor(crc, octet))
         /\ BitSteps(Xor(crc, octet), 8) = Eight(Xor(crc, octet))
         /\ Eight(Xor(crc, octet)) \in Words
<1> DEFINE r == Xor(crc, octet)
<1>1. r \in Words /\ r \in SUBSET Nat /\ crc \in SUBSET Nat
  BY WordsNat
<1>2. ShiftRight(r, 8) = ShiftRight(crc, 8)
  <2>1. \A x : x \in ShiftRight(r, 8) <=> x \in Nat /\ x + 8 \in r
    BY <1>1, ShiftIn
  <2>2. \A x : x \in ShiftRight(crc, 8) <=> x \in Nat /\ x + 8 \in crc
    BY <1>1, ShiftIn
  <2>3. \A x \in Nat : x + 8 \notin octet
    BY DEF OctetWords
  <2>4. \A x \in Nat : x + 8 \in r <=> x + 8 \in crc
    BY <2>3 DEF Xor
  <2>5. \A x : x \in ShiftRight(r, 8) <=> x \in ShiftRight(crc, 8)
    BY <2>1, <2>2, <2>4
  <2> QED
    BY <2>5, SameBits
<1> HIDE DEF r
<1>3. TableStep(crc, octet) = Eight(r)
  BY <1>1, <1>2, LookupDivides DEF TableStep, r
<1> QED
  BY <1>1, <1>3, BitStepsEight, EightWord DEF r

(* The rounds of both loops, as functions. *)
Rounds(data) == [i \in 1 .. Len(data) |-> [w \in Words |-> Eight(Xor(w, data[i]))]]

LEMMA RoundsType ==
  ASSUME NEW data \in Seq(OctetWords)
  PROVE  /\ Rounds(data) \in [1 .. Len(data) -> [Words -> Words]]
         /\ \A i \in 1 .. Len(data) : data[i] \in OctetWords
         /\ Len(data) \in Nat
<1>1. Len(data) \in Nat /\ \A i \in 1 .. Len(data) : data[i] \in OctetWords
  OBVIOUS
<1>2. \A i \in 1 .. Len(data) : \A w \in Words : Eight(Xor(w, data[i])) \in Words
  BY <1>1, TableStepDivides
<1> QED
  BY <1>1, <1>2 DEF Rounds

(* Two functions that agree at 0, and at each place if at the one before.  *)
Upto(n, f) == f = [i \in 0 .. n |-> f[i]]

LEMMA StepByStep ==
  ASSUME NEW n \in Nat, NEW f, NEW g, f[0] = g[0], Upto(n, f), Upto(n, g),
         \A i \in 1 .. n : f[i - 1] = g[i - 1] => f[i] = g[i]
  PROVE  f = g
<1> DEFINE Bad == {i \in 0 .. n : f[i] # g[i]}
<1>1. SUFFICES ASSUME Bad # {} PROVE FALSE
  <2>1. Bad = {} => \A i \in 0 .. n : f[i] = g[i]
    OBVIOUS
  <2>2. (\A i \in 0 .. n : f[i] = g[i]) => f = g
    <3> SUFFICES ASSUME \A i \in 0 .. n : f[i] = g[i] PROVE f = g
      OBVIOUS
    <3>1. [i \in 0 .. n |-> f[i]] = [i \in 0 .. n |-> g[i]]
      OBVIOUS
    <3> QED
      BY <3>1 DEF Upto
  <2> QED
    BY <2>1, <2>2
<1>2. PICK m \in Bad : \A i \in Bad : m <= i
  <2>1. Bad \subseteq Nat
    OBVIOUS
  <2> HIDE DEF Bad
  <2> QED
    BY <2>1, <1>1, LeastNat
<1>3. m \in 1 .. n /\ m - 1 \in 0 .. n /\ ~(m <= m - 1)
  <2>1. m # 0 /\ m \in 0 .. n
    BY <1>2
  <2> QED
    BY <2>1
<1>4. f[m - 1] = g[m - 1]
  <2> HIDE DEF Bad
  <2>1. m - 1 \notin Bad
    BY <1>2, <1>3
  <2> QED
    BY <2>1, <1>3 DEF Bad
<1> QED
  BY <1>2, <1>3, <1>4

(* A function that the loop of either sum defines is a run of the rounds.  *)
LEMMA SumLoop ==
  ASSUME NEW data \in Seq(OctetWords), NEW w \in Words
  PROVE  LET t == CHOOSE c : c = [i \in 0 .. Len(data) |->
                                    IF i = 0 THEN w ELSE TableStep(c[i - 1], data[i])]
             d == CHOOSE c : c = [i \in 0 .. Len(data) |->
                                    IF i = 0 THEN w ELSE BitSteps(Xor(c[i - 1], data[i]), 8)]
         IN  Loop(Rounds(data), w, Len(data), t) /\ d = t
<1> DEFINE Table(c) == c = [i \in 0 .. Len(data) |-> IF i = 0 THEN w ELSE TableStep(c[i - 1], data[i])]
           Divides(c) == c = [i \in 0 .. Len(data) |->
                                IF i = 0 THEN w ELSE BitSteps(Xor(c[i - 1], data[i]), 8)]
           n == Len(data)
<1>1. n \in Nat /\ Rounds(data) \in [1 .. n -> [Words -> Words]]
  BY RoundsType
<1>2. PICK f : Loop(Rounds(data), w, n, f)
  BY <1>1, LoopExists
<1>3. f \in [0 .. n -> Words]
  BY <1>1, <1>2, LoopStays
<1>4. \A i \in 1 .. n : /\ f[i] = TableStep(f[i - 1], data[i])
                        /\ f[i] = BitSteps(Xor(f[i - 1], data[i]), 8)
  <2> SUFFICES ASSUME NEW i \in 1 .. n
               PROVE  /\ f[i] = TableStep(f[i - 1], data[i])
                      /\ f[i] = BitSteps(Xor(f[i - 1], data[i]), 8)
    OBVIOUS
  <2>1. i - 1 \in 0 .. n /\ i \in 0 .. n /\ i # 0
    BY <1>1
  <2>2. f[i - 1] \in Words /\ data[i] \in OctetWords
    BY <2>1, <1>3, RoundsType
  <2>3. Rounds(data)[i][f[i - 1]] = Eight(Xor(f[i - 1], data[i]))
    BY <2>2 DEF Rounds
  <2>4. f[i] = Rounds(data)[i][f[i - 1]]
    BY <1>2, <2>1 DEF Loop
  <2> QED
    BY <2>2, <2>3, <2>4, TableStepDivides
<1>5. f[0] = w
  BY <1>1, <1>2 DEF Loop
<1>6. f = [i \in 0 .. n |-> f[i]]
  BY <1>3
<1>7. \A i \in 0 .. n : i = 0 \/ i \in 1 .. n
  BY <1>1
<1>8. Table(f) /\ Divides(f)
  <2>1. \A i \in 0 .. n : f[i] = IF i = 0 THEN w ELSE TableStep(f[i - 1], data[i])
    BY <1>4, <1>5, <1>7
  <2>2. \A i \in 0 .. n : f[i] = IF i = 0 THEN w ELSE BitSteps(Xor(f[i - 1], data[i]), 8)
    BY <1>4, <1>5, <1>7
  <2> QED
    BY <1>6, <2>1, <2>2
<1>9. ASSUME NEW c, Table(c) \/ Divides(c) PROVE c = f
  <2>1. /\ c = [i \in 0 .. n |-> c[i]]
        /\ c[0] = w
        /\ \/ \A i \in 1 .. n : c[i] = TableStep(c[i - 1], data[i])
           \/ \A i \in 1 .. n : c[i] = BitSteps(Xor(c[i - 1], data[i]), 8)
    <3>0. 0 \in 0 .. n /\ \A i \in 1 .. n : i \in 0 .. n /\ i # 0
      BY <1>1
    <3>1. CASE Table(c)
      <4>1. /\ c = [i \in 0 .. n |-> c[i]]
            /\ \A i \in 0 .. n : c[i] = IF i = 0 THEN w ELSE TableStep(c[i - 1], data[i])
        BY ONLY <3>1
      <4> QED
        BY <3>0, <4>1
    <3>2. CASE Divides(c)
      <4>1. /\ c = [i \in 0 .. n |-> c[i]]
            /\ \A i \in 0 .. n : c[i] = IF i = 0 THEN w ELSE BitSteps(Xor(c[i - 1], data[i]), 8)
        BY ONLY <3>2
      <4> QED
        BY <3>0, <4>1
    <3> QED
      BY <1>9, <3>1, <3>2
  <2>2. \A i \in 1 .. n : c[i - 1] = f[i - 1] => c[i] = f[i]
    BY <1>4, <2>1
  <2> HIDE DEF n, Table, Divides
  <2>3. n \in Nat /\ c[0] = f[0] /\ Upto(n, c) /\ Upto(n, f)
    BY <1>1, <1>5, <1>6, <2>1 DEF Upto
  <2> QED
    BY ONLY <2>2, <2>3, StepByStep
<1> DEFINE t == CHOOSE c : Table(c)
           d == CHOOSE c : Divides(c)
<1>10. Table(t) /\ Divides(d)
  BY <1>8
<1>11. t = f /\ d = f
  <2> HIDE DEF t, d, Table, Divides
  <2> QED
    BY <1>9, <1>10
<1> QED
  BY <1>2, <1>11

(* Whatever the data and its length, the table gives the remainder of the  *)
(* division by the polynomial of CRC-32C.                                  *)
THEOREM TableDivides ==
  ASSUME NEW data \in Seq(OctetWords), NEW previous_crc \in Words
  PROVE  bra_crc32c_table(data, previous_crc) = Divided(data, previous_crc)
<1>1. Not(previous_crc) \in Words
  BY WordsNat
<1> QED
  BY <1>1, SumLoop DEF bra_crc32c_table, Divided

----------------------------------------------------------------------------
(* An instruction takes several octets at once.  After k of them the       *)
(* register holds the sum so far and, above it, the octets to come.        *)
ToCome(data, at, n, k) == ShiftRight(Operand(data, at, n), 8 * k)

LEMMA ToComeIn ==
  ASSUME NEW data, NEW at \in Nat, NEW n \in Nat, NEW k \in Nat, NEW x
  PROVE  x \in ToCome(data, at, n, k) <=>
           x \in Nat /\ x + 8 * k < 8 * n /\ (x % 8) \in data[at + k + (x \div 8)]
<1>1. Operand(data, at, n) \in SUBSET Nat
  BY DEF Operand
<1>2. x \in ToCome(data, at, n, k) <=> x \in Nat /\ x + 8 * k \in Operand(data, at, n)
  BY <1>1, ShiftIn DEF ToCome
<1>3. ASSUME x \in Nat
      PROVE  x + 8 * k \in Operand(data, at, n) <=>
               x + 8 * k < 8 * n /\ (x % 8) \in data[at + k + (x \div 8)]
  <2>1. (x + 8 * k) % 8 = x % 8 /\ at + ((x + 8 * k) \div 8) = at + k + (x \div 8)
    BY <1>3
  <2>2. x + 8 * k \in 0 .. 8 * n - 1 <=> x + 8 * k < 8 * n
    BY <1>3
  <2> QED
    BY <2>1, <2>2 DEF Operand
<1> QED
  BY <1>2, <1>3

LEMMA NextOctet ==
  ASSUME NEW data \in Seq(OctetWords), NEW at \in Nat, NEW n \in Nat, NEW k \in 0 .. n - 1,
         at >= 1, at + n - 1 <= Len(data), NEW crc \in Words
  PROVE  /\ ToCome(data, at, n, k) \in SUBSET Nat
         /\ Eight(Xor(crc, ToCome(data, at, n, k)))
              = Xor(Eight(Xor(crc, data[at + k])), ToCome(data, at, n, k + 1))
<1> DEFINE rest == ToCome(data, at, n, k)
           high == rest \ (0 .. 7)
           octet == data[at + k]
<1>1. at + k \in 1 .. Len(data) /\ octet \in OctetWords /\ k \in Nat /\ k < n
  OBVIOUS
<1>2. \A x : x \in rest <=> x \in Nat /\ x + 8 * k < 8 * n /\ (x % 8) \in data[at + k + (x \div 8)]
  BY <1>1, ToComeIn
<1>3. \A x \in 0 .. 7 : x \in rest <=> x \in octet
  <2>1. \A x \in 0 .. 7 : x % 8 = x /\ at + k + (x \div 8) = at + k /\ x + 8 * k < 8 * n /\ x \in Nat
    BY <1>1
  <2> QED
    BY <1>2, <2>1
<1>4. rest \in SUBSET Nat
  BY <1>2
<1> HIDE DEF rest
<1>5. Xor(crc, rest) = Xor(Xor(crc, octet), high)
  <2>1. octet \subseteq 0 .. 7
    BY <1>1 DEF OctetWords
  <2>2. \A x : x \in Xor(crc, rest) <=> x \in Xor(Xor(crc, octet), high)
    BY <1>3, <2>1 DEF Xor
  <2> QED
    BY <2>2, SameBits
<1>6. ShiftRight(high, 8) = ToCome(data, at, n, k + 1)
  <2>1. \A x : x \in ShiftRight(high, 8) <=> x \in Nat /\ x + 8 \in high
    BY <1>4, ShiftIn
  <2>2. \A x \in Nat : x + 8 \notin 0 .. 7
    OBVIOUS
  <2>3. \A x : x \in ToCome(data, at, n, k + 1)
          <=> x \in Nat /\ x + 8 * (k + 1) < 8 * n /\ (x % 8) \in data[at + (k + 1) + (x \div 8)]
    <3>1. k + 1 \in Nat
      BY <1>1
    <3> QED
      BY <3>1, ToComeIn
  <2>4. \A x \in Nat : /\ (x + 8) + 8 * k = x + 8 * (k + 1)
                       /\ (x + 8) % 8 = x % 8
                       /\ at + k + ((x + 8) \div 8) = at + (k + 1) + (x \div 8)
    BY <1>1
  <2>5. \A x \in Nat : x + 8 \in rest
          <=> x + 8 * (k + 1) < 8 * n /\ (x % 8) \in data[at + (k + 1) + (x \div 8)]
    <3> TAKE x \in Nat
    <3>1. x + 8 \in Nat
      OBVIOUS
    <3>2. x + 8 \in rest <=> (x + 8) + 8 * k < 8 * n
                                /\ ((x + 8) % 8) \in data[at + k + ((x + 8) \div 8)]
      BY <1>2, <3>1
    <3>3. /\ (x + 8) + 8 * k = x + 8 * (k + 1)
          /\ (x + 8) % 8 = x % 8
          /\ at + k + ((x + 8) \div 8) = at + (k + 1) + (x \div 8)
      BY <2>4
    <3> QED
      BY <3>2, <3>3
  <2>6. \A x : x \in ShiftRight(high, 8) <=> x \in ToCome(data, at, n, k + 1)
    BY <2>1, <2>2, <2>3, <2>5
  <2> QED
    BY <2>6, SameBits
<1>7. Eight(high) = ShiftRight(high, 8)
  BY <1>4, EightShift
<1>8. Xor(crc, octet) \in SUBSET Nat /\ high \in SUBSET Nat
  BY <1>1, <1>4, WordsNat
<1> HIDE DEF high
<1>9. Eight(Xor(Xor(crc, octet), high)) = Xor(Eight(Xor(crc, octet)), Eight(high))
  BY <1>8, EightLinear
<1> QED
  BY <1>4, <1>5, <1>6, <1>7, <1>9 DEF rest

(* The sums of the first octets, up to all of them. *)
Sums(data, w, t) == Loop(Rounds(data), w, Len(data), t)

LEMMA SumsStep ==
  ASSUME NEW data \in Seq(OctetWords), NEW w \in Words, NEW t, Sums(data, w, t)
  PROVE  /\ t \in [0 .. Len(data) -> Words]
         /\ t[0] = w
         /\ \A i \in 1 .. Len(data) : t[i] = Eight(Xor(t[i - 1], data[i]))
<1>1. t \in [0 .. Len(data) -> Words]
  BY RoundsType, LoopStays DEF Sums
<1>2. t[0] = w
  BY RoundsType DEF Sums, Loop
<1>3. ASSUME NEW i \in 1 .. Len(data) PROVE t[i] = Eight(Xor(t[i - 1], data[i]))
  <2>1. i \in 0 .. Len(data) /\ i # 0 /\ i - 1 \in 0 .. Len(data)
    BY RoundsType
  <2>2. t[i] = Rounds(data)[i][t[i - 1]]
    BY <2>1 DEF Sums, Loop
  <2> QED
    BY <1>1, <2>1, <2>2 DEF Rounds
<1> QED
  BY <1>1, <1>2, <1>3

LEMMA Instruction ==
  ASSUME NEW data \in Seq(OctetWords), NEW w \in Words, NEW t, Sums(data, w, t),
         NEW at \in Nat, NEW n \in Nat, at >= 1, at + n - 1 <= Len(data)
  PROVE  mm_crc32(t[at - 1], Operand(data, at, n), n) = t[at + n - 1]
<1> DEFINE register == Xor(t[at - 1], Operand(data, at, n))
           Steps(a) == a = [k \in 0 .. n |-> IF k = 0 THEN register ELSE OctetStep(a[k - 1])]
           F == [i \in 1 .. n |-> [v \in SUBSET Nat |-> Eight(v)]]
           g == [k \in 0 .. n |-> Xor(t[at - 1 + k], ToCome(data, at, n, k))]
<1>1. /\ t \in [0 .. Len(data) -> Words]
      /\ \A i \in 1 .. Len(data) : t[i] = Eight(Xor(t[i - 1], data[i]))
      /\ Len(data) \in Nat
  BY SumsStep, RoundsType
<1>2. \A k \in 0 .. n : at - 1 + k \in 0 .. Len(data) /\ t[at - 1 + k] \in Words
  BY <1>1
<1>3. \A v \in SUBSET Nat : OctetStep(v) = Eight(v) /\ Eight(v) \in SUBSET Nat
  BY LookupDivides, EightNat DEF OctetStep
<1>4. ToCome(data, at, n, 0) = Operand(data, at, n)
  <2>1. Operand(data, at, n) \in SUBSET Nat
    BY DEF Operand
  <2>2. \A x : x \in ToCome(data, at, n, 0) <=> x \in Nat /\ x + 8 * 0 \in Operand(data, at, n)
    BY <2>1, ShiftIn DEF ToCome
  <2>3. \A x \in Nat : x + 8 * 0 = x
    OBVIOUS
  <2>4. \A x : x \in ToCome(data, at, n, 0) <=> x \in Operand(data, at, n)
    BY <2>1, <2>2, <2>3
  <2> QED
    BY <2>4, SameBits
<1>5. g[0] = register
  <2>1. at - 1 + 0 = at - 1 /\ 0 \in 0 .. n
    OBVIOUS
  <2> QED
    BY <1>4, <2>1
<1>6. \A k \in 1 .. n : g[k] = OctetStep(g[k - 1])
  <2> SUFFICES ASSUME NEW k \in 1 .. n PROVE g[k] = OctetStep(g[k - 1])
    OBVIOUS
  <2>1. /\ k - 1 \in 0 .. n - 1 /\ k - 1 \in 0 .. n /\ k \in 0 .. n
        /\ at + (k - 1) = at - 1 + k /\ (k - 1) + 1 = k
        /\ at - 1 + (k - 1) = (at - 1 + k) - 1
        /\ at - 1 + k \in 1 .. Len(data)
    BY <1>1
  <2> DEFINE crc == t[at - 1 + (k - 1)]
  <2>2. crc \in Words
    BY <1>2, <2>1
  <2>3. g[k - 1] = Xor(crc, ToCome(data, at, n, k - 1))
    BY <2>1
  <2>4. t[at - 1 + k] = Eight(Xor(crc, data[at - 1 + k]))
    BY <1>1, <2>1
  <2>5. g[k] = Xor(t[at - 1 + k], ToCome(data, at, n, k))
    BY <2>1
  <2> HIDE DEF g, crc
  <2>6. /\ ToCome(data, at, n, k - 1) \in SUBSET Nat
        /\ Eight(Xor(crc, ToCome(data, at, n, k - 1)))
             = Xor(Eight(Xor(crc, data[at + (k - 1)])), ToCome(data, at, n, (k - 1) + 1))
    BY <2>1, <2>2, NextOctet
  <2>7. g[k] = Eight(g[k - 1])
    BY <2>1, <2>3, <2>4, <2>5, <2>6
  <2>8. g[k - 1] \in SUBSET Nat
    BY <2>2, <2>3, <2>6, WordsNat, XorNat
  <2> QED
    BY <1>3, <2>7, <2>8
<1>7. g = [k \in 0 .. n |-> g[k]]
  OBVIOUS
<1> HIDE DEF g
<1>8. Steps(g)
  <2>1. \A k \in 0 .. n : k = 0 \/ k \in 1 .. n
    OBVIOUS
  <2>2. \A k \in 0 .. n : g[k] = IF k = 0 THEN register ELSE OctetStep(g[k - 1])
    BY <1>5, <1>6, <2>1
  <2> QED
    BY <1>7, <2>2
<1> DEFINE after == CHOOSE a : Steps(a)
<1>9. Steps(after)
  BY <1>8
<1>10. mm_crc32(t[at - 1], Operand(data, at, n), n) = after[n]
  BY DEF mm_crc32
<1>11. after = g
  <2>1. \A a : Steps(a) => /\ Upto(n, a) /\ a[0] = register
                           /\ \A k \in 1 .. n : a[k] = OctetStep(a[k - 1])
    <3> SUFFICES ASSUME NEW a, Steps(a)
                 PROVE  /\ Upto(n, a) /\ a[0] = register
                        /\ \A k \in 1 .. n : a[k] = OctetStep(a[k - 1])
      OBVIOUS
    <3>1. 0 \in 0 .. n /\ \A k \in 1 .. n : k \in 0 .. n /\ k # 0
      OBVIOUS
    <3>2. \A k \in 0 .. n : a[k] = IF k = 0 THEN register ELSE OctetStep(a[k - 1])
      OBVIOUS
    <3>3. Upto(n, a)
      BY DEF Upto
    <3> HIDE DEF Steps
    <3> QED
      BY <3>1, <3>2, <3>3
  <2> HIDE DEF after, Steps
  <2>2. Upto(n, after) /\ Upto(n, g) /\ after[0] = g[0]
    BY <1>5, <1>7, <1>9, <2>1 DEF Upto
  <2>3. \A k \in 1 .. n : after[k - 1] = g[k - 1] => after[k] = g[k]
    BY <1>6, <1>9, <2>1
  <2> QED
    BY ONLY n \in Nat, <2>2, <2>3, StepByStep
<1>12. ToCome(data, at, n, n) = {}
  <2>1. \A x : x \in ToCome(data, at, n, n) => x \in Nat /\ x + 8 * n < 8 * n
    BY ToComeIn
  <2> QED
    BY <2>1
<1>13. g[n] = t[at - 1 + n]
  <2>1. \A v : Xor(v, {}) = v
    BY DEF Xor
  <2>2. n \in 0 .. n
    OBVIOUS
  <2>3. g[n] = Xor(t[at - 1 + n], ToCome(data, at, n, n))
    BY <2>2 DEF g
  <2> QED
    BY <1>12, <2>1, <2>3
<1> HIDE DEF after
<1> QED
  BY <1>10, <1>11, <1>13
----------------------------------------------------------------------------
(* Pieces one behind the other, from behind octet a up to octet b. *)
PieceSet == [at : Nat \ {0}, n : Nat]

EndOf(P, a, i) == IF i = 0 THEN a ELSE P[i].at + P[i].n - 1

Covers(P, a, b) ==
  /\ P \in Seq(PieceSet) /\ EndOf(P, a, Len(P)) = b
  /\ \A i \in 1 .. Len(P) : P[i].at = EndOf(P, a, i - 1) + 1 /\ EndOf(P, a, i) <= b

LEMMA PieceOf ==
  ASSUME NEW P, NEW a, NEW b, Covers(P, a, b), NEW i \in 1 .. Len(P)
  PROVE  P[i].at \in Nat \ {0} /\ P[i].n \in Nat
<1>1. P \in Seq(PieceSet)
  BY DEF Covers
<1>2. P[i] \in PieceSet
  BY <1>1
<1> QED
  BY <1>2 DEF PieceSet

LEMMA PiecesJoined ==
  ASSUME NEW a \in Nat, NEW b \in Nat, NEW c \in Nat, NEW P, NEW Q,
         Covers(P, a, b), Covers(Q, b, c)
  PROVE  Covers(P \o Q, a, c)
<1> DEFINE R == P \o Q
<1>1. P \in Seq(PieceSet) /\ Q \in Seq(PieceSet)
  BY DEF Covers
<1>2. /\ R \in Seq(PieceSet) /\ Len(R) = Len(P) + Len(Q)
      /\ Len(P) \in Nat /\ Len(Q) \in Nat
      /\ \A i \in 1 .. Len(P) : R[i] = P[i] /\ P[i] \in PieceSet
      /\ \A i \in 1 .. Len(Q) : R[Len(P) + i] = Q[i] /\ Q[i] \in PieceSet
  BY <1>1
<1> HIDE DEF R
<1>3. \A i \in 0 .. Len(P) : EndOf(R, a, i) = EndOf(P, a, i)
  BY <1>2 DEF EndOf
<1>4. \A i \in 0 .. Len(Q) : EndOf(R, a, Len(P) + i) = EndOf(Q, b, i)
  <2> SUFFICES ASSUME NEW i \in 0 .. Len(Q) PROVE EndOf(R, a, Len(P) + i) = EndOf(Q, b, i)
    OBVIOUS
  <2>1. CASE i = 0
    <3>1. Len(P) + i = Len(P) /\ Len(P) \in 0 .. Len(P)
      BY <1>2, <2>1
    <3>2. EndOf(P, a, Len(P)) = b /\ EndOf(Q, b, i) = b
      BY <2>1 DEF Covers, EndOf
    <3> QED
      BY <1>3, <3>1, <3>2
  <2>2. CASE i # 0
    <3>1. i \in 1 .. Len(Q) /\ Len(P) + i # 0
      BY <1>2, <2>2
    <3> QED
      BY <1>2, <2>2, <3>1 DEF EndOf
  <2> QED
    BY <2>1, <2>2
<1>5. b <= c
  <2>1. CASE Len(Q) = 0
    BY <2>1 DEF Covers, EndOf
  <2>2. CASE Len(Q) # 0
    <3>1. 1 \in 1 .. Len(Q) /\ Q[1] \in PieceSet
      BY <1>2, <2>2
    <3>2. Q[1].at = b + 1 /\ Q[1].at + Q[1].n - 1 <= c
      BY <3>1 DEF Covers, EndOf
    <3> QED
      BY <3>1, <3>2 DEF PieceSet
  <2> QED
    BY <2>1, <2>2
<1>6. ASSUME NEW i \in 1 .. Len(R)
      PROVE  R[i].at = EndOf(R, a, i - 1) + 1 /\ EndOf(R, a, i) <= c
  <2>1. CASE i \in 1 .. Len(P)
    <3>1. i - 1 \in 0 .. Len(P) /\ i \in 0 .. Len(P) /\ R[i] = P[i] /\ P[i] \in PieceSet
      BY <1>2, <2>1
    <3>2. P[i].at = EndOf(P, a, i - 1) + 1 /\ EndOf(P, a, i) <= b
      BY <2>1 DEF Covers
    <3>3. EndOf(P, a, i) \in Int
      BY <2>1, <3>1 DEF EndOf, PieceSet
    <3> QED
      BY <1>3, <1>5, <3>1, <3>2, <3>3
  <2>2. CASE i \notin 1 .. Len(P)
    <3> DEFINE k == i - Len(P)
    <3>1. k \in 1 .. Len(Q) /\ k - 1 \in 0 .. Len(Q) /\ k \in 0 .. Len(Q)
          /\ Len(P) + k = i /\ Len(P) + (k - 1) = i - 1
      BY <1>2, <2>2
    <3> HIDE DEF k
    <3>2. Q[k].at = EndOf(Q, b, k - 1) + 1 /\ EndOf(Q, b, k) <= c
      BY <3>1 DEF Covers
    <3>3. R[i] = Q[k] /\ EndOf(R, a, i - 1) = EndOf(Q, b, k - 1) /\ EndOf(R, a, i) = EndOf(Q, b, k)
      BY <1>2, <1>4, <3>1
    <3> QED
      BY <3>2, <3>3
  <2> QED
    BY <2>1, <2>2
<1>7. EndOf(R, a, Len(R)) = c
  <2>1. Len(Q) \in 0 .. Len(Q) /\ EndOf(Q, b, Len(Q)) = c
    BY <1>2 DEF Covers
  <2> QED
    BY <1>2, <1>4, <2>1
<1> QED
  BY <1>2, <1>6, <1>7 DEF Covers, R

(* m pieces of the same length. *)
LEMMA Block ==
  ASSUME NEW m \in Nat, NEW n \in {1, 2, 4, 8}, NEW a \in Nat,
         NEW P, P = [k \in 1 .. m |-> [at |-> a + n * (k - 1) + 1, n |-> n]]
  PROVE  Covers(P, a, a + n * m)
<1>1. n \in Nat /\ \A k \in 1 .. m : n * (k - 1) \in Nat /\ n * (k - 1) + n = n * k /\ n * k <= n * m
  OBVIOUS
<1>2. P \in Seq(PieceSet) /\ Len(P) = m
  <2>1. \A k \in 1 .. m : [at |-> a + n * (k - 1) + 1, n |-> n] \in PieceSet
    <3> SUFFICES ASSUME NEW k \in 1 .. m PROVE [at |-> a + n * (k - 1) + 1, n |-> n] \in PieceSet
      OBVIOUS
    <3>1. n * (k - 1) \in Nat
      BY <1>1
    <3>2. a + n * (k - 1) + 1 \in Nat \ {0}
      BY ONLY <3>1, a \in Nat
    <3> QED
      BY <1>1, <3>2 DEF PieceSet
  <2>2. P \in [1 .. m -> PieceSet]
    BY ONLY <2>1, P = [k \in 1 .. m |-> [at |-> a + n * (k - 1) + 1, n |-> n]]
  <2> QED
    BY ONLY <2>2, m \in Nat
<1>3. \A k \in 1 .. m : P[k].at = a + n * (k - 1) + 1 /\ P[k].n = n
  OBVIOUS
<1>4. \A k \in 0 .. m : EndOf(P, a, k) = a + n * k
  <2> SUFFICES ASSUME NEW k \in 0 .. m PROVE EndOf(P, a, k) = a + n * k
    OBVIOUS
  <2>1. CASE k = 0
    BY <1>1, <2>1 DEF EndOf
  <2>2. CASE k # 0
    <3>1. k \in 1 .. m
      BY <2>2
    <3>2. EndOf(P, a, k) = (a + n * (k - 1) + 1) + n - 1
      BY <1>3, <2>2, <3>1 DEF EndOf
    <3>3. n \in Nat /\ n * (k - 1) \in Nat /\ n * k = n * (k - 1) + n
      BY <1>1, <3>1
    <3> QED
      BY ONLY <3>2, <3>3, a \in Nat
  <2> QED
    BY <2>1, <2>2
<1>5. ASSUME NEW k \in 1 .. m
      PROVE  P[k].at = EndOf(P, a, k - 1) + 1 /\ EndOf(P, a, k) <= a + n * m
  <2>1. k - 1 \in 0 .. m /\ k \in 0 .. m
    OBVIOUS
  <2>2. EndOf(P, a, k - 1) = a + n * (k - 1) /\ EndOf(P, a, k) = a + n * k
    BY <1>4, <2>1
  <2>3. n * k <= n * m /\ n * k \in Int /\ n * m \in Int
    BY <1>1
  <2>4. a + n * k <= a + n * m
    BY ONLY <2>3, a \in Nat
  <2> QED
    BY <1>3, <2>2, <2>4
<1>6. EndOf(P, a, Len(P)) = a + n * m
  BY <1>2, <1>4
<1> QED
  BY <1>2, <1>5, <1>6 DEF Covers

LEMMA BeforeRange ==
  ASSUME NEW align \in {4, 8}, NEW addr \in Nat, NEW length \in Nat
  PROVE  Before(align, addr, length) \in 0 .. length
<1> DEFINE x == (align - (addr % align)) % align
<1>1. x \in Nat
  OBVIOUS
<1> HIDE DEF x
<1>2. \E y \in {length, x} : \A z \in {length, x} : y <= z
  BY <1>1
<1>3. Min({length, x}) \in {length, x} /\ \A z \in {length, x} : Min({length, x}) <= z
  BY <1>2 DEF Min
<1> QED
  BY <1>1, <1>3 DEF Before, x

(* The pieces of the instructions leave out nothing and take nothing      *)
(* twice.                                                                  *)
LEMMA PiecesCover ==
  ASSUME NEW align \in {4, 8}, NEW addr \in Nat, NEW length \in Nat,
         align = 8 \/ length - Before(align, addr, length) <= 7
  PROVE  Covers(Pieces(align, addr, length), 0, length)
<1> DEFINE before == Before(align, addr, length)
           eights == Eights(align, length - before)
           left == length - before - 8 * eights
           fours == IF left >= 4 THEN 1 ELSE 0
           twos == IF left - 4 * fours >= 2 THEN 1 ELSE 0
           ones == IF left - 4 * fours - 2 * twos = 1 THEN 1 ELSE 0
           at == length - left
           P1 == [k \in 1 .. before |-> [at |-> k, n |-> 1]]
           P2 == [k \in 1 .. eights |-> [at |-> before + 8 * (k - 1) + 1, n |-> 8]]
           P3 == [k \in 1 .. fours |-> [at |-> at + 1, n |-> 4]]
           P4 == [k \in 1 .. twos |-> [at |-> at + 4 * fours + 1, n |-> 2]]
           P5 == [k \in 1 .. ones |-> [at |-> at + 4 * fours + 2 * twos + 1, n |-> 1]]
<1>1. Pieces(align, addr, length) = P1 \o P2 \o P3 \o P4 \o P5
  BY DEF Pieces
<1>2. before \in 0 .. length
  BY BeforeRange
<1> HIDE DEF before
<1>3. eights \in Nat /\ left \in 0 .. 7
  <2>1. CASE align = 8
    BY <1>2, <2>1 DEF Eights
  <2>2. CASE align = 4
    BY <1>2, <2>2 DEF Eights, before
  <2> QED
    BY <2>1, <2>2
<1>4. at = before + 8 * eights /\ at \in Nat
  BY <1>2, <1>3
<1> HIDE DEF eights
<1>5. /\ fours \in {0, 1} /\ twos \in {0, 1} /\ ones \in {0, 1}
      /\ left = 4 * fours + 2 * twos + ones
  BY <1>3
<1>6. at + left = length
  BY <1>2, <1>3
<1> HIDE DEF left, fours, twos, ones, at
<1>7. Covers(P1, 0, before)
  <2>1. \A k \in 1 .. before : 0 + 1 * (k - 1) + 1 = k
    OBVIOUS
  <2>2. P1 = [k \in 1 .. before |-> [at |-> 0 + 1 * (k - 1) + 1, n |-> 1]]
    BY <2>1
  <2>3. before \in Nat /\ 0 + 1 * before = before
    BY <1>2
  <2> HIDE DEF P1
  <2>4. Covers(P1, 0, 0 + 1 * before)
    BY <2>2, <2>3, Block
  <2> QED
    BY <2>3, <2>4
<1>8. Covers(P2, before, at)
  <2> HIDE DEF P2
  <2>1. P2 = [k \in 1 .. eights |-> [at |-> before + 8 * (k - 1) + 1, n |-> 8]]
    BY DEF P2
  <2>2. before \in Nat
    BY <1>2
  <2>3. Covers(P2, before, before + 8 * eights)
    BY ONLY <1>3, <2>1, <2>2, Block
  <2> QED
    BY <1>4, <2>3
<1>9. ASSUME NEW m \in {0, 1}, NEW n \in {1, 2, 4}, NEW a \in Nat,
             NEW P, P = [k \in 1 .. m |-> [at |-> a + 1, n |-> n]]
      PROVE  Covers(P, a, a + n * m)
  <2>1. \A k \in 1 .. m : a + n * (k - 1) + 1 = a + 1
    OBVIOUS
  <2>2. P = [k \in 1 .. m |-> [at |-> a + n * (k - 1) + 1, n |-> n]]
    BY <1>9, <2>1
  <2>3. m \in Nat /\ n \in {1, 2, 4, 8}
    OBVIOUS
  <2> QED
    BY ONLY <2>2, <2>3, a \in Nat, Block
<1>10. Covers(P3, at, at + 4 * fours)
  BY <1>4, <1>5, <1>9
<1>11. at + 4 * fours \in Nat /\ at + 4 * fours + 2 * twos \in Nat /\ before \in Nat
  BY <1>2, <1>4, <1>5
<1>12. Covers(P4, at + 4 * fours, at + 4 * fours + 2 * twos)
  BY <1>5, <1>9, <1>11
<1>13. Covers(P5, at + 4 * fours + 2 * twos, length)
  <2>1. at + 4 * fours + 2 * twos + 1 * ones = length
    BY <1>4, <1>5, <1>6
  <2>2. Covers(P5, at + 4 * fours + 2 * twos, at + 4 * fours + 2 * twos + 1 * ones)
    BY <1>5, <1>9, <1>11
  <2> QED
    BY <2>1, <2>2
<1> HIDE DEF P1, P2, P3, P4, P5
<1>14. Covers(P1 \o P2, 0, at)
  BY <1>4, <1>7, <1>8, <1>11, PiecesJoined
<1>15. Covers(P1 \o P2 \o P3, 0, at + 4 * fours)
  BY <1>4, <1>10, <1>11, <1>14, PiecesJoined
<1>16. Covers(P1 \o P2 \o P3 \o P4, 0, at + 4 * fours + 2 * twos)
  BY <1>11, <1>12, <1>15, PiecesJoined
<1>17. Covers(P1 \o P2 \o P3 \o P4 \o P5, 0, length)
  BY <1>11, <1>13, <1>16, PiecesJoined
<1> QED
  BY <1>1, <1>17

(* Whatever the data, its length and its address, the instructions give    *)
(* the same sum as the table, the remainder of the division: an archive    *)
(* made on one machine is accepted on the other.  In a 32-bit build this   *)
(* holds for up to seven octets behind the aligned address only.           *)
THEOREM InstructionsDivide ==
  ASSUME NEW data \in Seq(OctetWords), NEW previous_crc \in Words,
         NEW align \in {4, 8}, NEW addr \in Nat,
         align = 8 \/ Len(data) - Before(align, addr, Len(data)) <= 7
  PROVE  bra_crc32c_sse42(data, addr, align, previous_crc) = Divided(data, previous_crc)
<1> DEFINE w == Not(previous_crc)
           P == Pieces(align, addr, Len(data))
           n == Len(P)
           Pass(c, i) == mm_crc32(c[i - 1], Operand(data, P[i].at, P[i].n), P[i].n)
           Whole(c) == c = [i \in 0 .. n |-> IF i = 0 THEN w ELSE Pass(c, i)]
           crc == CHOOSE c : Whole(c)
           Divides(c) == c = [i \in 0 .. Len(data) |->
                                IF i = 0 THEN w ELSE BitSteps(Xor(c[i - 1], data[i]), 8)]
           t == CHOOSE c : Divides(c)
<1>1. w \in Words /\ Len(data) \in Nat
  BY WordsNat, RoundsType
<1>2. Covers(P, 0, Len(data))
  BY <1>1, PiecesCover
<1>3. bra_crc32c_sse42(data, addr, align, previous_crc) = Not(crc[n])
  BY DEF bra_crc32c_sse42
<1>4. Divided(data, previous_crc) = Not(t[Len(data)])
  BY DEF Divided
<1>5. Sums(data, w, t)
  <2> HIDE DEF w
  <2> QED
    BY <1>1, SumLoop DEF Sums
<1> HIDE DEF w, P, t, crc
<1>6. n \in Nat /\ \A i \in 1 .. n : P[i].at \in Nat \ {0} /\ P[i].n \in Nat
  <2>1. P \in Seq(PieceSet)
    BY <1>2 DEF Covers
  <2>2. n \in Nat
    BY <2>1
  <2>3. \A i \in 1 .. n : P[i].at \in Nat \ {0} /\ P[i].n \in Nat
    BY <1>2, PieceOf
  <2> QED
    BY <2>2, <2>3
<1> DEFINE g == [i \in 0 .. n |-> t[EndOf(P, 0, i)]]
<1>7. g[0] = w
  <2>1. 0 \in 0 .. n /\ EndOf(P, 0, 0) = 0 /\ t[0] = w
    BY <1>1, <1>5, <1>6, SumsStep DEF EndOf
  <2> QED
    BY <2>1
<1>8. \A i \in 1 .. n : g[i] = Pass(g, i)
  <2> SUFFICES ASSUME NEW i \in 1 .. n PROVE g[i] = Pass(g, i)
    OBVIOUS
  <2> DEFINE at == P[i].at
             octets == P[i].n
  <2>1. i \in 0 .. n /\ i - 1 \in 0 .. n /\ i # 0
    BY <1>6
  <2>2. at = EndOf(P, 0, i - 1) + 1 /\ EndOf(P, 0, i) <= Len(data)
        /\ EndOf(P, 0, i) = at + octets - 1
    BY <1>2, <2>1 DEF Covers, EndOf
  <2>3. at \in Nat /\ octets \in Nat
    BY <1>6
  <2>4. at >= 1
    BY <1>6
  <2>5. at + octets - 1 <= Len(data) /\ EndOf(P, 0, i - 1) = at - 1
    <3>1. EndOf(P, 0, i - 1) \in Int
      BY <1>6, <2>1 DEF EndOf
    <3> QED
      BY <2>2, <2>3, <3>1
  <2>6. g[i] = t[at + octets - 1] /\ g[i - 1] = t[at - 1]
    BY <2>1, <2>2, <2>5
  <2> HIDE DEF g, at, octets
  <2>7. mm_crc32(t[at - 1], Operand(data, at, octets), octets) = t[at + octets - 1]
    BY <1>1, <1>5, <2>3, <2>4, <2>5, Instruction
  <2> QED
    BY <2>6, <2>7 DEF at, octets
<1>9. g = [i \in 0 .. n |-> g[i]]
  OBVIOUS
<1> HIDE DEF g, n
<1>10. Whole(g)
  <2>1. \A i \in 0 .. n : i = 0 \/ i \in 1 .. n
    BY <1>6
  <2>2. \A i \in 0 .. n : g[i] = IF i = 0 THEN w ELSE Pass(g, i)
    BY <1>7, <1>8, <2>1
  <2> QED
    BY <1>9, <2>2
<1>11. Whole(crc)
  BY <1>10 DEF crc
<1>12. crc = g
  <2>1. \A c : Whole(c) => /\ Upto(n, c) /\ c[0] = w
                           /\ \A i \in 1 .. n : c[i] = Pass(c, i)
    <3> SUFFICES ASSUME NEW c, Whole(c)
                 PROVE  Upto(n, c) /\ c[0] = w /\ \A i \in 1 .. n : c[i] = Pass(c, i)
      OBVIOUS
    <3>1. 0 \in 0 .. n /\ \A i \in 1 .. n : i \in 0 .. n /\ i # 0
      BY <1>6
    <3>2. \A i \in 0 .. n : c[i] = IF i = 0 THEN w ELSE Pass(c, i)
      OBVIOUS
    <3>3. Upto(n, c)
      BY DEF Upto
    <3> HIDE DEF Whole, Pass
    <3> QED
      BY <3>1, <3>2, <3>3
  <2>2. \A i \in 1 .. n : crc[i - 1] = g[i - 1] => crc[i] = g[i]
    <3>1. \A i \in 1 .. n : crc[i - 1] = g[i - 1] => Pass(crc, i) = Pass(g, i)
      OBVIOUS
    <3> HIDE DEF Whole, Pass
    <3> QED
      BY <1>8, <1>11, <2>1, <3>1
  <2> HIDE DEF Whole, Pass
  <2>3. Upto(n, crc) /\ Upto(n, g) /\ crc[0] = g[0]
    BY <1>7, <1>9, <1>11, <2>1 DEF Upto
  <2> QED
    BY ONLY <1>6, <2>2, <2>3, StepByStep
<1>13. g[n] = t[Len(data)]
  <2>1. n \in 0 .. n /\ EndOf(P, 0, n) = Len(data)
    BY <1>2, <1>6 DEF Covers, n
  <2> QED
    BY <2>1 DEF g
<1> QED
  BY <1>3, <1>4, <1>12, <1>13

----------------------------------------------------------------------------
(* A set of rounds that begins with 0 and has each next one has them all.  *)
LEMMA AllRounds ==
  ASSUME NEW T, 0 \in T, \A n \in Nat : n \in T => n + 1 \in T
  PROVE  \A n \in Nat : n \in T
<1> DEFINE Bad == {n \in Nat : n \notin T}
<1>1. SUFFICES ASSUME Bad # {} PROVE FALSE
  OBVIOUS
<1>2. PICK m \in Bad : \A k \in Bad : m <= k
  <2>1. Bad \subseteq Nat
    OBVIOUS
  <2> HIDE DEF Bad
  <2> QED
    BY <2>1, <1>1, LeastNat
<1>3. m \in Nat /\ m # 0 /\ m \notin T
  BY <1>2
<1>4. m - 1 \in Nat /\ ~(m <= m - 1) /\ (m - 1) + 1 = m
  BY <1>3
<1>5. m - 1 \in T
  <2> HIDE DEF Bad
  <2>1. m - 1 \notin Bad
    BY <1>2, <1>4
  <2> QED
    BY <2>1, <1>4 DEF Bad
<1> QED
  BY <1>3, <1>4, <1>5

LEMMA XorLaws ==
  ASSUME NEW a, NEW b, NEW c
  PROVE  /\ Xor(a, b) = Xor(b, a)
         /\ Xor(Xor(a, b), c) = Xor(a, Xor(b, c))
         /\ Xor(a, {}) = a /\ Xor(a, a) = {}
         /\ Xor(Xor(a, c), Xor(b, c)) = Xor(a, b)
BY DEF Xor

(* m zero bytes. *)
Zeros(m) == [i \in 1 .. m |-> [v \in Words |-> Eight(v)]]
Zero(w, m) == (CHOOSE f : Loop(Zeros(m), w, m, f))[m]

LEMMA ZeroLoop ==
  ASSUME NEW w \in Words, NEW m \in Nat
  PROVE  \E f : Loop(Zeros(m), w, m, f)
<1>1. Zeros(m) \in [1 .. m -> [Words -> Words]]
  BY EightWord DEF Zeros
<1> QED
  BY <1>1, LoopExists

LEMMA ZeroRun ==
  ASSUME NEW w \in Words, NEW m \in Nat, NEW f, Loop(Zeros(m), w, m, f)
  PROVE  /\ f \in [0 .. m -> Words] /\ f[0] = w
         /\ \A i \in 1 .. m : f[i] = Eight(f[i - 1])
<1>1. Zeros(m) \in [1 .. m -> [Words -> Words]]
  BY EightWord DEF Zeros
<1>2. f \in [0 .. m -> Words]
  BY <1>1, LoopStays
<1>3. f[0] = w
  BY DEF Loop
<1>4. ASSUME NEW i \in 1 .. m PROVE f[i] = Eight(f[i - 1])
  <2>1. i \in 0 .. m /\ i # 0 /\ i - 1 \in 0 .. m
    OBVIOUS
  <2>2. f[i] = Zeros(m)[i][f[i - 1]]
    BY <2>1 DEF Loop
  <2> QED
    BY <1>2, <2>1, <2>2 DEF Zeros
<1> QED
  BY <1>2, <1>3, <1>4

LEMMA ZeroSteps ==
  ASSUME NEW w \in Words, NEW m \in Nat
  PROVE  /\ Zero(w, m) \in Words
         /\ Zero(w, 0) = w
         /\ Zero(w, m + 1) = Eight(Zero(w, m))
<1> DEFINE Run(n) == CHOOSE f : Loop(Zeros(n), w, n, f)
<1>1. ASSUME NEW n \in Nat
      PROVE  /\ Run(n) \in [0 .. n -> Words] /\ Run(n)[0] = w
             /\ \A i \in 1 .. n : Run(n)[i] = Eight(Run(n)[i - 1])
  <2>1. Loop(Zeros(n), w, n, Run(n))
    BY ZeroLoop
  <2> HIDE DEF Run
  <2> QED
    BY <2>1, ZeroRun
<1>2. \A n \in Nat : Zero(w, n) = Run(n)[n]
  BY DEF Zero
<1> HIDE DEF Run
<1>3. Zero(w, m) \in Words
  BY <1>1, <1>2
<1>4. Zero(w, 0) = w
  BY <1>1, <1>2
<1>5. Zero(w, m + 1) = Eight(Run(m + 1)[m])
  <2>1. m + 1 \in Nat /\ m + 1 \in 1 .. m + 1 /\ (m + 1) - 1 = m
    OBVIOUS
  <2> QED
    BY <2>1, <1>1, <1>2
<1>6. Run(m + 1)[m] = Run(m)[m]
  <2> DEFINE g == [i \in 0 .. m |-> Run(m + 1)[i]]
  <2>1. m + 1 \in Nat /\ \A i \in 1 .. m : i \in 1 .. m + 1 /\ i - 1 \in 0 .. m /\ i \in 0 .. m
    OBVIOUS
  <2>2. g[0] = Run(m)[0]
    BY <2>1, <1>1
  <2>3. \A i \in 1 .. m : g[i] = Eight(g[i - 1]) /\ Run(m)[i] = Eight(Run(m)[i - 1])
    BY <2>1, <1>1
  <2>4. Upto(m, g) /\ Upto(m, Run(m))
    BY <1>1 DEF Upto
  <2>5. g[m] = Run(m + 1)[m]
    OBVIOUS
  <2> HIDE DEF g
  <2>6. g = Run(m)
    BY <2>2, <2>3, <2>4, StepByStep
  <2> QED
    BY <2>5, <2>6
<1> QED
  BY <1>2, <1>3, <1>4, <1>5, <1>6

LEMMA ZeroSum ==
  ASSUME NEW w \in Words, NEW m \in Nat, NEW n \in Nat
  PROVE  Zero(w, m + n) = Zero(Zero(w, m), n)
<1> DEFINE T == {k \in Nat : Zero(w, m + k) = Zero(Zero(w, m), k)}
<1>1. Zero(w, m) \in Words
  BY ZeroSteps
<1>2. 0 \in T
  <2>1. m + 0 = m
    OBVIOUS
  <2> QED
    BY <1>1, <2>1, ZeroSteps
<1>3. ASSUME NEW k \in Nat, k \in T PROVE k + 1 \in T
  <2>1. m + (k + 1) = (m + k) + 1 /\ m + k \in Nat /\ k + 1 \in Nat
    OBVIOUS
  <2>2. Zero(w, m + (k + 1)) = Eight(Zero(w, m + k))
    BY <2>1, ZeroSteps
  <2>3. Zero(Zero(w, m), k + 1) = Eight(Zero(Zero(w, m), k))
    BY <1>1, ZeroSteps
  <2> QED
    BY <1>3, <2>1, <2>2, <2>3
<1> HIDE DEF T
<1>4. n \in T
  BY <1>2, <1>3, AllRounds
<1> QED
  BY <1>4 DEF T

LEMMA ZeroLinear ==
  ASSUME NEW v \in Words, NEW w \in Words, NEW n \in Nat
  PROVE  Zero(Xor(v, w), n) = Xor(Zero(v, n), Zero(w, n))
<1> DEFINE T == {k \in Nat : Zero(Xor(v, w), k) = Xor(Zero(v, k), Zero(w, k))}
<1>1. Xor(v, w) \in Words
  BY WordsNat
<1>2. 0 \in T
  BY <1>1, ZeroSteps
<1>3. ASSUME NEW k \in Nat, k \in T PROVE k + 1 \in T
  <2>1. /\ Zero(Xor(v, w), k + 1) = Eight(Zero(Xor(v, w), k))
        /\ Zero(v, k + 1) = Eight(Zero(v, k)) /\ Zero(w, k + 1) = Eight(Zero(w, k))
    BY <1>1, ZeroSteps
  <2>2. Zero(v, k) \in SUBSET Nat /\ Zero(w, k) \in SUBSET Nat
    BY ZeroSteps, WordsNat
  <2>3. Eight(Xor(Zero(v, k), Zero(w, k))) = Xor(Eight(Zero(v, k)), Eight(Zero(w, k)))
    BY <2>2, EightLinear
  <2> QED
    BY <1>3, <2>1, <2>3
<1> HIDE DEF T
<1>4. n \in T
  BY <1>2, <1>3, AllRounds
<1> QED
  BY <1>4 DEF T

----------------------------------------------------------------------------
(* The sum of two pieces of data goes on from that of the first.           *)
LEMMA SumsJoined ==
  ASSUME NEW a \in Seq(OctetWords), NEW b \in Seq(OctetWords), NEW w \in Words,
         NEW t, Sums(a \o b, w, t), NEW r, Sums(a, w, r),
         NEW s, Sums(b, r[Len(a)], s)
  PROVE  t[Len(a \o b)] = s[Len(b)] /\ r[Len(a)] \in Words
<1> DEFINE m == Len(a)
           n == Len(b)
<1>1. /\ m \in Nat /\ n \in Nat /\ a \o b \in Seq(OctetWords) /\ Len(a \o b) = m + n
      /\ \A i \in 1 .. m : (a \o b)[i] = a[i]
      /\ \A i \in 1 .. n : (a \o b)[m + i] = b[i]
  OBVIOUS
<1>2. /\ r \in [0 .. m -> Words] /\ r[0] = w
      /\ \A i \in 1 .. m : r[i] = Eight(Xor(r[i - 1], a[i]))
  BY SumsStep
<1>3. r[m] \in Words
  BY <1>1, <1>2
<1>4. /\ s \in [0 .. n -> Words] /\ s[0] = r[m]
      /\ \A i \in 1 .. n : s[i] = Eight(Xor(s[i - 1], b[i]))
  BY <1>3, SumsStep
<1>5. /\ t[0] = w
      /\ \A i \in 1 .. m + n : t[i] = Eight(Xor(t[i - 1], (a \o b)[i]))
  <2> DEFINE d == a \o b
  <2>1. d \in Seq(OctetWords) /\ Sums(d, w, t) /\ Len(d) = m + n
    BY <1>1
  <2> HIDE DEF d, m, n
  <2>2. t[0] = w /\ \A i \in 1 .. Len(d) : t[i] = Eight(Xor(t[i - 1], d[i]))
    BY <2>1, SumsStep
  <2> QED
    BY <2>1, <2>2 DEF d
<1> HIDE DEF m, n
<1> DEFINE first == [i \in 0 .. m |-> t[i]]
           second == [i \in 0 .. n |-> t[m + i]]
<1>6. first = r
  <2>1. \A i \in 1 .. m : i \in 1 .. m + n /\ i \in 0 .. m /\ i - 1 \in 0 .. m
    BY <1>1
  <2>2. \A i \in 1 .. m : first[i] = Eight(Xor(first[i - 1], a[i]))
    BY <1>1, <1>5, <2>1
  <2>3. first[0] = r[0] /\ Upto(m, first) /\ Upto(m, r)
    BY <1>1, <1>2, <1>5 DEF Upto
  <2> HIDE DEF first
  <2>4. \A i \in 1 .. m : first[i - 1] = r[i - 1] => first[i] = r[i]
    BY <1>2, <2>2
  <2> QED
    BY <1>1, <2>3, <2>4, StepByStep
<1>7. t[m] = r[m]
  <2>1. first[m] = t[m]
    BY <1>1
  <2> HIDE DEF first
  <2> QED
    BY <1>6, <2>1
<1>8. second = s
  <2>1. \A i \in 1 .. n : /\ m + i \in 1 .. m + n /\ i \in 0 .. n /\ i - 1 \in 0 .. n
                          /\ (m + i) - 1 = m + (i - 1)
    BY <1>1
  <2>2. \A i \in 1 .. n : second[i] = Eight(Xor(second[i - 1], b[i]))
    <3> SUFFICES ASSUME NEW i \in 1 .. n PROVE second[i] = Eight(Xor(second[i - 1], b[i]))
      OBVIOUS
    <3>1. t[m + i] = Eight(Xor(t[(m + i) - 1], (a \o b)[m + i]))
      BY <1>5, <2>1
    <3>2. second[i] = t[m + i] /\ second[i - 1] = t[(m + i) - 1]
      BY <2>1
    <3> HIDE DEF second
    <3> QED
      BY <1>1, <3>1, <3>2
  <2>3. second[0] = s[0]
    <3>1. second[0] = t[m]
      BY <1>1
    <3> HIDE DEF second
    <3> QED
      BY <1>4, <1>7, <3>1
  <2>4. Upto(n, second) /\ Upto(n, s)
    BY <1>1, <1>4 DEF Upto
  <2> HIDE DEF second
  <2>5. \A i \in 1 .. n : second[i - 1] = s[i - 1] => second[i] = s[i]
    BY <1>4, <2>2
  <2> QED
    BY <1>1, <2>3, <2>4, <2>5, StepByStep
<1>9. t[m + n] = s[n]
  <2>1. second[n] = t[m + n]
    BY <1>1
  <2> HIDE DEF second
  <2> QED
    BY <1>8, <2>1
<1> QED
  BY <1>1, <1>3, <1>9 DEF m, n

(* Two sums of the same data differ by what zeros make of the difference.  *)
LEMMA SumsApart ==
  ASSUME NEW data \in Seq(OctetWords), NEW v \in Words, NEW w \in Words,
         NEW s, Sums(data, v, s), NEW t, Sums(data, w, t)
  PROVE  Xor(s[Len(data)], t[Len(data)]) = Zero(Xor(v, w), Len(data))
<1> DEFINE n == Len(data)
           T == {k \in Nat : k <= n => Xor(s[k], t[k]) = Zero(Xor(v, w), k)}
<1>1. n \in Nat /\ \A i \in 1 .. n : data[i] \in OctetWords
  BY RoundsType
<1>2. /\ s \in [0 .. n -> Words] /\ s[0] = v
      /\ \A i \in 1 .. n : s[i] = Eight(Xor(s[i - 1], data[i]))
  BY SumsStep
<1>3. /\ t \in [0 .. n -> Words] /\ t[0] = w
      /\ \A i \in 1 .. n : t[i] = Eight(Xor(t[i - 1], data[i]))
  BY SumsStep
<1>4. Xor(v, w) \in Words
  BY WordsNat
<1> HIDE DEF n
<1>5. 0 \in T
  BY <1>2, <1>3, <1>4, ZeroSteps
<1>6. ASSUME NEW k \in Nat, k \in T, k + 1 <= n
      PROVE  Xor(s[k + 1], t[k + 1]) = Zero(Xor(v, w), k + 1)
  <2>1. k + 1 \in 1 .. n /\ (k + 1) - 1 = k /\ k \in 0 .. n /\ k <= n
    BY <1>1, <1>6
  <2>2. s[k] \in Words /\ t[k] \in Words /\ data[k + 1] \in Words
    BY <1>1, <1>2, <1>3, <2>1, WordsNat
  <2>3. s[k + 1] = Eight(Xor(s[k], data[k + 1])) /\ t[k + 1] = Eight(Xor(t[k], data[k + 1]))
    BY <1>2, <1>3, <2>1
  <2>4. Xor(s[k + 1], t[k + 1]) = Eight(Xor(Xor(s[k], data[k + 1]), Xor(t[k], data[k + 1])))
    <3>1. Xor(s[k], data[k + 1]) \in SUBSET Nat /\ Xor(t[k], data[k + 1]) \in SUBSET Nat
      BY <2>2, WordsNat
    <3> QED
      BY <2>3, <3>1, EightLinear
  <2>5. Xor(s[k + 1], t[k + 1]) = Eight(Xor(s[k], t[k]))
    BY <2>4, XorLaws
  <2>6. Xor(s[k], t[k]) = Zero(Xor(v, w), k)
    BY <1>6, <2>1
  <2> QED
    BY <1>4, <2>5, <2>6, ZeroSteps
<1>7. \A k \in Nat : k \in T => k + 1 \in T
  BY <1>6
<1> HIDE DEF T
<1>8. n \in T
  BY <1>1, <1>5, <1>7, AllRounds
<1> QED
  BY <1>1, <1>8 DEF T, n

LEMMA TableSums ==
  ASSUME NEW data \in Seq(OctetWords), NEW previous_crc \in Words
  PROVE  \E t : /\ Sums(data, Not(previous_crc), t)
                /\ bra_crc32c_table(data, previous_crc) = Not(t[Len(data)])
<1>1. Not(previous_crc) \in Words
  BY WordsNat
<1> QED
  BY <1>1, SumLoop DEF bra_crc32c_table, Sums

(* What putting two sums together has to give. *)
LEMMA TableJoined ==
  ASSUME NEW a \in Seq(OctetWords), NEW b \in Seq(OctetWords)
  PROVE  LET crc32a == bra_crc32c_table(a, BRA_CRC32C_INIT)
             crc32b == bra_crc32c_table(b, BRA_CRC32C_INIT)
         IN  /\ bra_crc32c_table(a \o b, BRA_CRC32C_INIT) = Xor(Zero(crc32a, Len(b)), crc32b)
             /\ crc32a \in Words /\ crc32b \in Words
<1> DEFINE crc32a == bra_crc32c_table(a, BRA_CRC32C_INIT)
           crc32b == bra_crc32c_table(b, BRA_CRC32C_INIT)
<1>1. /\ BRA_CRC32C_INIT \in Words /\ Not(BRA_CRC32C_INIT) = Bits /\ Bits \in Words
      /\ a \o b \in Seq(OctetWords) /\ Len(a) \in Nat /\ Len(b) \in Nat
  BY DEF BRA_CRC32C_INIT, Words, Not
<1>2. PICK r : Sums(a, Bits, r) /\ crc32a = Not(r[Len(a)])
  BY <1>1, TableSums
<1>3. PICK q : Sums(b, Bits, q) /\ crc32b = Not(q[Len(b)])
  BY <1>1, TableSums
<1>4. PICK t : Sums(a \o b, Bits, t) /\ bra_crc32c_table(a \o b, BRA_CRC32C_INIT) = Not(t[Len(a \o b)])
  BY <1>1, TableSums
<1>5. r[Len(a)] \in Words /\ q[Len(b)] \in Words
  <2>1. r \in [0 .. Len(a) -> Words] /\ q \in [0 .. Len(b) -> Words]
    BY <1>1, <1>2, <1>3, SumsStep
  <2> QED
    BY <1>1, <2>1
<1>6. PICK s : Sums(b, r[Len(a)], s)
  BY <1>5, RoundsType, LoopExists DEF Sums
<1>7. t[Len(a \o b)] = s[Len(b)]
  BY <1>1, <1>2, <1>4, <1>6, SumsJoined
<1>8. Xor(s[Len(b)], q[Len(b)]) = Zero(Xor(r[Len(a)], Bits), Len(b))
  BY <1>1, <1>3, <1>5, <1>6, SumsApart
<1>9. crc32a \in Words /\ crc32b \in Words
  BY <1>2, <1>3, <1>5, WordsNat
<1>10. s[Len(b)] \in Words
  <2>1. s \in [0 .. Len(b) -> Words]
    BY <1>5, <1>6, SumsStep
  <2> QED
    BY <1>1, <2>1
<1> HIDE DEF crc32a, crc32b
<1>11. \A w \in Words : Not(w) = Xor(w, Bits)
  BY DEF Words, Not, Xor
<1>12. Zero(crc32a, Len(b)) = Xor(s[Len(b)], q[Len(b)])
  BY <1>2, <1>5, <1>8, <1>11
<1>13. Not(s[Len(b)]) = Xor(Zero(crc32a, Len(b)), crc32b)
  BY <1>3, <1>5, <1>10, <1>11, <1>12, XorLaws DEF Xor
<1> QED
  BY <1>4, <1>7, <1>9, <1>13 DEF crc32a, crc32b

----------------------------------------------------------------------------
(* Matrices stand for linear maps of words.                                *)
LEMMA OddXor ==
  ASSUME NEW A \in SUBSET Bits, NEW B \in SUBSET Bits
  PROVE  Odd(Xor(A, B)) <=> ~(Odd(A) <=> Odd(B))
<1>1. IsFiniteSet(A) /\ IsFiniteSet(B)
  <2>1. \A j, k \in Int : IsFiniteSet(j .. k)
    BY FS_Interval
  <2>2. 0 \in Int /\ GF2_DIM - 1 \in Int
    BY DEF GF2_DIM
  <2>3. IsFiniteSet(Bits)
    BY <2>1, <2>2 DEF Bits
  <2> QED
    BY <2>3, FS_Subset
<1> DEFINE a == Cardinality(A)
           b == Cardinality(B)
           c == Cardinality(A \cap B)
           d == Cardinality(Xor(A, B))
<1>2. /\ IsFiniteSet(A \ B) /\ Cardinality(A \ B) = a - c
      /\ IsFiniteSet(B \ A) /\ Cardinality(B \ A) = b - c
  <2>1. B \cap A = A \cap B
    OBVIOUS
  <2> QED
    BY <1>1, <2>1, FS_Difference, ZenonT(40)
<1>3. a \in Nat /\ b \in Nat /\ c \in Nat
  BY <1>1, FS_CardinalityType, FS_Intersection
<1>4. d = (b - c) + (a - c)
  <2>1. (B \ A) \cap (A \ B) = {}
    OBVIOUS
  <2>2. Cardinality((B \ A) \cap (A \ B)) = 0
    BY <2>1, FS_EmptySet
  <2>3. Cardinality((B \ A) \union (A \ B)) = (b - c) + (a - c) - 0
    BY <1>2, <2>2, FS_Union
  <2>4. Xor(A, B) = (B \ A) \union (A \ B)
    BY DEF Xor
  <2>5. d = (b - c) + (a - c) - 0
    BY <2>3, <2>4
  <2> HIDE DEF a, b, c, d
  <2> QED
    BY <1>3, <2>5
<1> HIDE DEF a, b, c, d
<1>5. d % 2 = 1 <=> ~(a % 2 = 1 <=> b % 2 = 1)
  <2>1. d = (a + b) - 2 * c
    BY <1>3, <1>4
  <2>2. d % 2 = (a + b) % 2
    BY <1>3, <2>1
  <2> QED
    BY <1>3, <2>2
<1> QED
  BY <1>5 DEF Odd, a, b, d

LEMMA TimesLinear ==
  ASSUME NEW mat, NEW u \in Words, NEW v \in Words
  PROVE  /\ gf2_matrix_times(mat, Xor(u, v))
              = Xor(gf2_matrix_times(mat, u), gf2_matrix_times(mat, v))
         /\ gf2_matrix_times(mat, u) \in Words
<1>1. \A w : gf2_matrix_times(mat, w) \in Words
  BY DEF gf2_matrix_times, Words
<1>2. ASSUME NEW b
      PROVE  b \in gf2_matrix_times(mat, Xor(u, v))
               <=> b \in Xor(gf2_matrix_times(mat, u), gf2_matrix_times(mat, v))
  <2> DEFINE ones(w) == {n \in w : <<n, b>> \in mat}
  <2>1. ones(Xor(u, v)) = Xor(ones(u), ones(v))
    BY DEF Xor
  <2>2. ones(u) \in SUBSET Bits /\ ones(v) \in SUBSET Bits
    BY DEF Words
  <2>3. \A w : b \in gf2_matrix_times(mat, w) <=> b \in Bits /\ Odd(ones(w))
    BY DEF gf2_matrix_times
  <2> HIDE DEF ones
  <2>4. Odd(ones(Xor(u, v))) <=> ~(Odd(ones(u)) <=> Odd(ones(v)))
    BY <2>1, <2>2, OddXor
  <2> QED
    BY <2>3, <2>4, XorIn
<1> QED
  BY <1>1, <1>2, SameBits

LEMMA TimesBit ==
  ASSUME NEW mat, NEW n \in Bits
  PROVE  gf2_matrix_times(mat, {n}) = {b \in Bits : <<n, b>> \in mat}
<1>1. Odd({n}) /\ ~Odd({})
  <2>1. Cardinality({n}) = 1 /\ Cardinality({}) = 0
    BY FS_Singleton, FS_EmptySet
  <2> QED
    BY <2>1 DEF Odd
<1>2. ASSUME NEW b \in Bits
      PROVE  Odd({m \in {n} : <<m, b>> \in mat}) <=> <<n, b>> \in mat
  <2>1. CASE <<n, b>> \in mat
    <3>1. {m \in {n} : <<m, b>> \in mat} = {n}
      BY <2>1
    <3> QED
      BY <1>1, <2>1, <3>1
  <2>2. CASE <<n, b>> \notin mat
    <3>1. {m \in {n} : <<m, b>> \in mat} = {}
      BY <2>2
    <3> QED
      BY <1>1, <2>2, <3>1
  <2> QED
    BY <2>1, <2>2
<1> QED
  BY <1>2 DEF gf2_matrix_times

Linear(F) == F \in [Words -> Words] /\ \A u, v \in Words : F[Xor(u, v)] = Xor(F[u], F[v])

(* A linear map is known from what it does to each bit. *)
LEMMA KnownFromBits ==
  ASSUME NEW F, NEW G, Linear(F), Linear(G), \A n \in Bits : F[{n}] = G[{n}]
  PROVE  \A w \in Words : F[w] = G[w]
<1> SUFFICES ASSUME NEW w \in Words PROVE F[w] = G[w]
  OBVIOUS
<1> DEFINE low(k) == w \cap {n \in Nat : n < k}
           T == {k \in Nat : k <= 32 => F[low(k)] = G[low(k)]}
<1>1. {} \in Words /\ \A k \in Nat : low(k) \in Words
  BY DEF Words
<1>2. \A H : Linear(H) => H[{}] = {}
  <2> SUFFICES ASSUME NEW H, Linear(H) PROVE H[{}] = {}
    OBVIOUS
  <2>1. H[Xor({}, {})] = Xor(H[{}], H[{}])
    BY <1>1 DEF Linear
  <2>2. Xor({}, {}) = {}
    BY XorLaws
  <2> QED
    BY <2>1, <2>2, XorLaws
<1>3. low(0) = {} /\ low(32) = w
  <2>1. \A n \in Nat : ~(n < 0)
    OBVIOUS
  <2>2. \A n \in w : n \in Nat /\ n < 32
    BY DEF Words, Bits, GF2_DIM
  <2> QED
    BY <2>1, <2>2
<1>4. ASSUME NEW k \in Nat, k + 1 <= 32, F[low(k)] = G[low(k)]
      PROVE  F[low(k + 1)] = G[low(k + 1)]
  <2>1. k \in Bits /\ {k} \in Words
    BY <1>4 DEF Bits, GF2_DIM, Words
  <2>2. \A n \in Nat : n < k + 1 <=> n < k \/ n = k
    OBVIOUS
  <2>3. CASE k \in w
    <3>1. low(k + 1) = Xor(low(k), {k})
      BY <2>2, <2>3 DEF Xor
    <3>2. low(k) \in Words
      BY <1>1
    <3> HIDE DEF low
    <3>3. F[low(k + 1)] = Xor(F[low(k)], F[{k}]) /\ G[low(k + 1)] = Xor(G[low(k)], G[{k}])
      BY <2>1, <3>1, <3>2 DEF Linear
    <3> QED
      BY <1>4, <2>1, <3>3
  <2>4. CASE k \notin w
    <3>1. low(k + 1) = low(k)
      BY <2>2, <2>4
    <3> QED
      BY <1>4, <3>1
  <2> QED
    BY <2>3, <2>4
<1> HIDE DEF low
<1>5. 0 \in T
  BY <1>2, <1>3
<1>6. \A k \in Nat : k \in T => k + 1 \in T
  BY <1>4
<1> HIDE DEF T
<1>7. 32 \in T
  <2>1. 32 \in Nat
    OBVIOUS
  <2> QED
    BY ONLY <2>1, <1>5, <1>6, AllRounds
<1> QED
  BY <1>3, <1>7 DEF T

Represents(mat, F) ==
  Linear(F) /\ \A n, b \in Bits : <<n, b>> \in mat <=> b \in F[{n}]

LEMMA TimesApplies ==
  ASSUME NEW mat, NEW F, Represents(mat, F), NEW w \in Words
  PROVE  gf2_matrix_times(mat, w) = F[w]
<1> DEFINE G == [v \in Words |-> gf2_matrix_times(mat, v)]
<1>1. Linear(G)
  <2>1. \A u, v \in Words : Xor(u, v) \in Words
    BY WordsNat
  <2> QED
    BY <2>1, TimesLinear DEF Linear
<1>2. ASSUME NEW n \in Bits PROVE G[{n}] = F[{n}]
  <2>1. {n} \in Words
    BY DEF Words
  <2>2. G[{n}] = {b \in Bits : <<n, b>> \in mat}
    BY <2>1, TimesBit
  <2>3. F[{n}] \in SUBSET Bits
    BY <2>1 DEF Represents, Linear, Words
  <2> HIDE DEF G
  <2> QED
    BY <2>2, <2>3 DEF Represents
<1>3. G[w] = gf2_matrix_times(mat, w)
  OBVIOUS
<1> HIDE DEF G
<1> QED
  BY <1>1, <1>2, <1>3, KnownFromBits DEF Represents

Twice(F) == [w \in Words |-> F[F[w]]]

LEMMA SquareRepresents ==
  ASSUME NEW mat, NEW F, Represents(mat, F)
  PROVE  Represents(gf2_matrix_square(mat), Twice(F))
<1>1. Linear(Twice(F))
  <2>1. F \in [Words -> Words] /\ \A u, v \in Words : F[Xor(u, v)] = Xor(F[u], F[v])
    BY DEF Represents, Linear
  <2>2. \A u, v \in Words : Xor(u, v) \in Words
    BY WordsNat
  <2>3. \A u, v \in Words : F[F[Xor(u, v)]] = Xor(F[F[u]], F[F[v]])
    BY <2>1
  <2> QED
    BY <2>1, <2>2, <2>3 DEF Twice, Linear
<1>2. ASSUME NEW n \in Bits, NEW b \in Bits
      PROVE  <<n, b>> \in gf2_matrix_square(mat) <=> b \in Twice(F)[{n}]
  <2>1. {n} \in Words /\ F[{n}] \in Words
    BY DEF Represents, Linear, Words
  <2>2. {c \in Bits : <<n, c>> \in mat} = F[{n}]
    BY <2>1 DEF Represents, Words
  <2>3. <<n, b>> \in gf2_matrix_square(mat)
          <=> b \in gf2_matrix_times(mat, {c \in Bits : <<n, c>> \in mat})
    <3> DEFINE row(m) == gf2_matrix_times(mat, {c \in Bits : <<m, c>> \in mat})
               sq == UNION {{<<m, d>> : d \in row(m)} : m \in Bits}
    <3>1. sq = gf2_matrix_square(mat)
      BY DEF gf2_matrix_square
    <3> HIDE DEF row
    <3>2. <<n, b>> \in sq <=> \E m \in Bits : \E d \in row(m) : <<n, b>> = <<m, d>>
      OBVIOUS
    <3>3. <<n, b>> \in sq <=> b \in row(n)
      BY <3>2
    <3> QED
      BY <3>1, <3>3 DEF row
  <2>4. gf2_matrix_times(mat, F[{n}]) = F[F[{n}]]
    BY <2>1, TimesApplies
  <2>5. Twice(F)[{n}] = F[F[{n}]]
    BY <2>1 DEF Twice
  <2> QED
    BY <2>2, <2>3, <2>4, <2>5
<1> QED
  BY <1>1, <1>2 DEF Represents

LEMMA OneBitRepresents == Represents(OneZeroBit, [w \in Words |-> BitStep(w)])
<1> DEFINE F == [w \in Words |-> BitStep(w)]
<1>1. \A v \in Words : BitStep(v) \in Words
  BY BitStepWord
<1>2. Linear(F)
  <2>1. \A u, v \in Words : u \in SUBSET Nat /\ v \in SUBSET Nat /\ Xor(u, v) \in Words
    BY WordsNat
  <2>2. \A u, v \in Words : BitStep(Xor(u, v)) = Xor(BitStep(u), BitStep(v))
    BY <2>1, BitStepLinear
  <2> QED
    BY <1>1, <2>1, <2>2 DEF Linear
<1>3. ASSUME NEW n \in Bits, NEW b \in Bits
      PROVE  <<n, b>> \in OneZeroBit <=> b \in F[{n}]
  <2>1. {n} \in Words /\ {n} \in SUBSET Nat /\ n \in Nat /\ b \in Nat
    BY DEF Words, Bits, GF2_DIM
  <2>2. b \in F[{n}] <=> ~(b + 1 = n <=> (0 = n /\ b \in BRA_CRC32C_POLY))
    BY <2>1, BitStepIn
  <2>3. <<n, b>> \in OneZeroBit <=> (n = 0 /\ b \in BRA_CRC32C_POLY) \/ (n # 0 /\ b = n - 1)
    BY DEF OneZeroBit
  <2>4. n = 0 => ~(b + 1 = n)
    BY <2>1
  <2>5. n # 0 => (b + 1 = n <=> b = n - 1)
    BY <2>1
  <2> HIDE DEF F
  <2> QED
    BY <2>2, <2>3, <2>4, <2>5
<1> QED
  BY <1>2, <1>3 DEF Represents

(* The operator for one zero byte. *)
LEMMA OneByteRepresents ==
  Represents(gf2_matrix_square(gf2_matrix_square(gf2_matrix_square(OneZeroBit))),
             [w \in Words |-> Eight(w)])
<1> DEFINE one == [w \in Words |-> BitStep(w)]
           two == [w \in Words |-> Two(w)]
           four == [w \in Words |-> Four(w)]
<1>1. /\ \A v \in Words : BitStep(v) \in Words
      /\ \A v \in Words : Two(v) \in Words
      /\ \A v \in Words : Four(v) \in Words
  BY BitStepWord DEF Two, Four
<1>2. Twice(one) = two /\ Twice(two) = four /\ Twice(four) = [w \in Words |-> Eight(w)]
  <2>1. Twice(one) = two
    BY <1>1 DEF Twice, Two
  <2>2. Twice(two) = four
    BY <1>1 DEF Twice, Four
  <2>3. Twice(four) = [w \in Words |-> Eight(w)]
    BY <1>1 DEF Twice, Eight
  <2> QED
    BY <2>1, <2>2, <2>3
<1>3. Represents(OneZeroBit, one)
  BY OneBitRepresents
<1> HIDE DEF one, two, four
<1>4. Represents(gf2_matrix_square(OneZeroBit), two)
  BY <1>2, <1>3, SquareRepresents
<1>5. Represents(gf2_matrix_square(gf2_matrix_square(OneZeroBit)), four)
  BY <1>2, <1>4, SquareRepresents
<1> QED
  BY <1>2, <1>5, SquareRepresents

----------------------------------------------------------------------------
LEMMA PowerStep ==
  /\ PowerOfTwo \in [0 .. LengthBits -> Nat \ {0}]
  /\ PowerOfTwo[0] = 1
  /\ \A k \in 1 .. LengthBits : PowerOfTwo[k] = 2 * PowerOfTwo[k - 1]
<1> DEFINE S == Nat \ {0}
           F == [i \in 1 .. LengthBits |-> [v \in S |-> 2 * v]]
           Powers(c) == c = [k \in 0 .. LengthBits |-> IF k = 0 THEN 1 ELSE 2 * c[k - 1]]
<1>1. LengthBits \in Nat
  BY LengthAssumption
<1>2. F \in [1 .. LengthBits -> [S -> S]] /\ 1 \in S
  OBVIOUS
<1>3. PICK f : Loop(F, 1, LengthBits, f)
  <2> HIDE DEF F, S
  <2> QED
    BY <1>1, <1>2, LoopExists
<1>4. f \in [0 .. LengthBits -> S]
  <2> HIDE DEF F, S
  <2> QED
    BY <1>1, <1>2, <1>3, LoopStays
<1>5. /\ f[0] = 1
      /\ \A k \in 1 .. LengthBits : f[k] = 2 * f[k - 1]
  <2>1. \A k \in 1 .. LengthBits : k \in 0 .. LengthBits /\ k # 0 /\ k - 1 \in 0 .. LengthBits
    BY <1>1
  <2>2. \A k \in 1 .. LengthBits : f[k] = F[k][f[k - 1]]
    BY <1>3, <2>1 DEF Loop
  <2>3. f[0] = 1
    BY <1>1, <1>3 DEF Loop
  <2> QED
    BY <1>4, <2>1, <2>2, <2>3
<1>6. Powers(f)
  <2>1. \A k \in 0 .. LengthBits : k = 0 \/ k \in 1 .. LengthBits
    BY <1>1
  <2>2. \A k \in 0 .. LengthBits : f[k] = IF k = 0 THEN 1 ELSE 2 * f[k - 1]
    BY <1>5, <2>1
  <2> QED
    BY <1>4, <2>2
<1>7. ASSUME NEW c, Powers(c) PROVE c = f
  <2>1. c[0] = 1 /\ (\A k \in 1 .. LengthBits : c[k] = 2 * c[k - 1]) /\ Upto(LengthBits, c)
    BY <1>1, <1>7 DEF Upto
  <2>2. Upto(LengthBits, f)
    BY <1>4 DEF Upto
  <2>3. \A k \in 1 .. LengthBits : c[k - 1] = f[k - 1] => c[k] = f[k]
    BY <1>5, <2>1
  <2>4. c[0] = f[0]
    BY <1>5, <2>1
  <2> QED
    BY ONLY <1>1, <2>1, <2>2, <2>3, <2>4, StepByStep
<1>8. PowerOfTwo = CHOOSE c : Powers(c)
  BY DEF PowerOfTwo
<1> HIDE DEF Powers
<1>9. PowerOfTwo = f
  BY <1>6, <1>7, <1>8
<1> QED
  BY <1>4, <1>5, <1>9

(* What the k-th operator stands for: 2^(k - 1) zero bytes. *)
ZerosOf(n) == [w \in Words |-> Zero(w, n)]

LEMMA ZerosTwice ==
  ASSUME NEW n \in Nat
  PROVE  Twice(ZerosOf(n)) = ZerosOf(2 * n)
<1>1. ASSUME NEW w \in Words
      PROVE  ZerosOf(n)[ZerosOf(n)[w]] = Zero(w, 2 * n)
  <2>1. Zero(w, n) \in Words
    BY ZeroSteps
  <2>2. Zero(w, n + n) = Zero(Zero(w, n), n)
    BY ZeroSum
  <2>3. n + n = 2 * n
    OBVIOUS
  <2> QED
    BY <2>1, <2>2, <2>3 DEF ZerosOf
<1>2. Twice(ZerosOf(n)) = [w \in Words |-> Zero(w, 2 * n)]
  BY <1>1 DEF Twice
<1> QED
  BY <1>2 DEF ZerosOf

LEMMA ZeroBytesRepresent ==
  \A k \in 1 .. LengthBits : Represents(ZeroBytes[k], ZerosOf(PowerOfTwo[k - 1]))
<1> DEFINE byte == gf2_matrix_square(gf2_matrix_square(gf2_matrix_square(OneZeroBit)))
           Ops(c) == c = [k \in 1 .. LengthBits |-> IF k = 1 THEN byte ELSE gf2_matrix_square(c[k - 1])]
           S == SUBSET (Bits \X Bits)
           F == [i \in 1 .. LengthBits - 1 |-> [v \in S |-> gf2_matrix_square(v)]]
<1>1. LengthBits \in Nat /\ LengthBits - 1 \in Nat
  BY LengthAssumption
<1>2. \A v : gf2_matrix_square(v) \in S
  <2> SUFFICES ASSUME NEW v PROVE gf2_matrix_square(v) \in S
    OBVIOUS
  <2> DEFINE row(m) == gf2_matrix_times(v, {c \in Bits : <<m, c>> \in v})
  <2>1. gf2_matrix_square(v) = UNION {{<<m, d>> : d \in row(m)} : m \in Bits}
    BY DEF gf2_matrix_square
  <2>2. \A m : row(m) \subseteq Bits
    BY DEF gf2_matrix_times
  <2> HIDE DEF row
  <2> QED
    BY <2>1, <2>2
<1>3. F \in [1 .. LengthBits - 1 -> [S -> S]] /\ byte \in S
  BY <1>2
<1> HIDE DEF byte
<1>4. PICK f : Loop(F, byte, LengthBits - 1, f)
  <2> HIDE DEF F, S
  <2> QED
    BY <1>1, <1>3, LoopExists
<1>5. f \in [0 .. LengthBits - 1 -> S]
  <2> HIDE DEF F, S
  <2> QED
    BY <1>1, <1>3, <1>4, LoopStays
<1>6. /\ f[0] = byte
      /\ \A i \in 1 .. LengthBits - 1 : f[i] = gf2_matrix_square(f[i - 1])
  <2>1. \A k \in 1 .. LengthBits - 1 : /\ k \in 0 .. LengthBits - 1 /\ k # 0
                                       /\ k - 1 \in 0 .. LengthBits - 1
    BY <1>1
  <2>2. \A k \in 1 .. LengthBits - 1 : f[k] = F[k][f[k - 1]]
    BY <1>4, <2>1 DEF Loop
  <2>3. f[0] = byte
    BY <1>1, <1>4 DEF Loop
  <2>4. \A k \in 1 .. LengthBits - 1 : f[k - 1] \in S
    BY <1>5, <2>1
  <2> QED
    BY <2>2, <2>3, <2>4
<1> DEFINE g == [k \in 1 .. LengthBits |-> f[k - 1]]
<1>7. Ops(g)
  <2>1. \A k \in 1 .. LengthBits :
          k # 1 => k - 1 \in 1 .. LengthBits - 1 /\ k - 1 \in 1 .. LengthBits
    BY <1>1
  <2>2. \A k \in 1 .. LengthBits : g[k] = IF k = 1 THEN byte ELSE gf2_matrix_square(g[k - 1])
    BY <1>6, <2>1
  <2> QED
    BY <2>2
<1> DEFINE op == CHOOSE c : Ops(c)
<1>8. Ops(op)
  <2> HIDE DEF Ops, g
  <2> QED
    BY <1>7
<1>9. \A k \in 1 .. LengthBits :
        op[k] = IF k = 1 THEN byte ELSE gf2_matrix_square(op[k - 1])
  <2> HIDE DEF op
  <2> QED
    BY <1>8
<1>10. \A k \in 1 .. LengthBits : ZeroBytes[k] = op[k]
  BY DEF ZeroBytes, byte
<1> HIDE DEF op
<1> DEFINE T == {k \in Nat : k + 1 \in 1 .. LengthBits =>
                               Represents(ZeroBytes[k + 1], ZerosOf(PowerOfTwo[k]))}
<1>11. 0 \in T
  <2>1. ASSUME 1 \in 1 .. LengthBits PROVE Represents(ZeroBytes[1], ZerosOf(PowerOfTwo[0]))
    <3>1. ZeroBytes[1] = byte
      BY <1>9, <1>10, <2>1
    <3>2. \A w \in Words : Zero(w, 1) = Eight(w)
      <4>1. \A w \in Words : Zero(w, 0 + 1) = Eight(Zero(w, 0)) /\ Zero(w, 0) = w
        BY ZeroSteps
      <4>2. 0 + 1 = 1
        OBVIOUS
      <4> QED
        BY <4>1, <4>2
    <3>3. ZerosOf(PowerOfTwo[0]) = [w \in Words |-> Eight(w)]
      BY <3>2, PowerStep DEF ZerosOf
    <3> QED
      BY <3>1, <3>3, OneByteRepresents DEF byte
  <2>2. 0 + 1 = 1
    OBVIOUS
  <2> QED
    BY <2>1, <2>2
<1>12. ASSUME NEW k \in Nat, k \in T PROVE k + 1 \in T
  <2> SUFFICES ASSUME (k + 1) + 1 \in 1 .. LengthBits
               PROVE  Represents(ZeroBytes[(k + 1) + 1], ZerosOf(PowerOfTwo[k + 1]))
    OBVIOUS
  <2> DEFINE i == (k + 1) + 1
  <2>1. /\ i \in 1 .. LengthBits /\ i # 1 /\ i - 1 = k + 1 /\ k + 1 \in 1 .. LengthBits
        /\ (k + 1) - 1 = k /\ k \in 0 .. LengthBits
    BY <1>1
  <2> HIDE DEF i
  <2>2. ZeroBytes[i] = gf2_matrix_square(ZeroBytes[k + 1])
    BY <1>9, <1>10, <2>1
  <2>3. Represents(ZeroBytes[k + 1], ZerosOf(PowerOfTwo[k]))
    BY <1>12, <2>1
  <2>4. PowerOfTwo[k] \in Nat /\ PowerOfTwo[k + 1] = 2 * PowerOfTwo[k]
    BY <2>1, PowerStep
  <2>5. Represents(ZeroBytes[i], Twice(ZerosOf(PowerOfTwo[k])))
    BY <2>2, <2>3, SquareRepresents
  <2>6. Twice(ZerosOf(PowerOfTwo[k])) = ZerosOf(PowerOfTwo[k + 1])
    BY <2>4, ZerosTwice
  <2> QED
    BY <2>5, <2>6 DEF i
<1> HIDE DEF T
<1>13. \A n \in Nat : n \in T
  BY <1>11, <1>12, AllRounds
<1> QED
  <2> SUFFICES ASSUME NEW k \in 1 .. LengthBits
               PROVE  Represents(ZeroBytes[k], ZerosOf(PowerOfTwo[k - 1]))
    OBVIOUS
  <2>1. k - 1 \in Nat /\ (k - 1) + 1 = k
    BY <1>1
  <2>2. k - 1 \in T
    BY <1>13, <2>1
  <2> QED
    BY <2>1, <2>2 DEF T

----------------------------------------------------------------------------
(* One bit of the length: what it is worth moves from the rest of the      *)
(* length to what was applied.                                             *)
LEMMA NextBit ==
  ASSUME NEW power \in Nat \ {0}, NEW rest \in Nat, NEW done \in Nat, NEW length \in Nat,
         length = done + power * rest
  PROVE  /\ rest \div 2 \in Nat /\ rest % 2 \in {0, 1}
         /\ rest % 2 = 0 => length = done + (2 * power) * (rest \div 2)
         /\ rest % 2 = 1 => length = (done + power) + (2 * power) * (rest \div 2)
<1> DEFINE half == rest \div 2
           bit == rest % 2
<1>1. half \in Nat /\ bit \in {0, 1} /\ rest = 2 * half + bit
  OBVIOUS
<1> HIDE DEF half, bit
<1>2. power * (2 * half + bit) = (2 * power) * half + power * bit
  BY <1>1
<1>3. (2 * power) * half \in Nat
  BY <1>1
<1>4. bit = 0 => power * bit = 0
  OBVIOUS
<1>5. bit = 1 => power * bit = power
  OBVIOUS
<1> QED
  BY <1>1, <1>2, <1>3, <1>4, <1>5 DEF half, bit

LEMMA NothingLeft ==
  ASSUME NEW power \in Nat \ {0}, NEW rest \in Nat, NEW done \in Nat, NEW length \in Nat,
         length = done + power * rest, length < power
  PROVE  length = done
<1>1. CASE rest = 0
  BY <1>1
<1>2. CASE rest # 0
  <2>1. rest - 1 \in Nat /\ power * rest = power * (rest - 1) + power
    BY <1>2
  <2>2. power * (rest - 1) \in Nat
    BY <2>1
  <2> QED
    BY <2>1, <2>2
<1> QED
  BY <1>1, <1>2

(* What the loop of bra_crc32c_combine does to a sum. *)
LEMMA Shifted ==
  ASSUME NEW crc32a \in Words, NEW length \in Nat, length < LengthLimit
  PROVE  LET l == CHOOSE c : c = [k \in 0 .. LengthBits |->
                                    IF k = 0 THEN length % LengthLimit ELSE c[k - 1] \div 2]
             s == CHOOSE c : c = [k \in 0 .. LengthBits |->
                                    IF k = 0 THEN crc32a
                                    ELSE IF l[k - 1] % 2 = 1
                                      THEN gf2_matrix_times(ZeroBytes[k], c[k - 1])
                                    ELSE c[k - 1]]
         IN  l[0] = length /\ s[LengthBits] = Zero(crc32a, length)
<1> DEFINE Halves(c) == c = [k \in 0 .. LengthBits |->
                               IF k = 0 THEN length % LengthLimit ELSE c[k - 1] \div 2]
           l == CHOOSE c : Halves(c)
           Next(k, v) == IF l[k - 1] % 2 = 1 THEN gf2_matrix_times(ZeroBytes[k], v) ELSE v
           Shifts(c) == c = [k \in 0 .. LengthBits |->
                               IF k = 0 THEN crc32a
                               ELSE IF l[k - 1] % 2 = 1
                                 THEN gf2_matrix_times(ZeroBytes[k], c[k - 1])
                               ELSE c[k - 1]]
           s == CHOOSE c : Shifts(c)
           H == [i \in 1 .. LengthBits |-> [v \in Nat |-> v \div 2]]
           N == [i \in 1 .. LengthBits |-> [v \in Words |-> Next(i, v)]]
<1>1. LengthBits \in Nat /\ LengthLimit \in Nat \ {0} /\ length % LengthLimit = length
  <2>1. LengthBits \in Nat /\ LengthBits \in 0 .. LengthBits
    BY LengthAssumption
  <2>2. LengthLimit \in Nat \ {0}
    BY <2>1, PowerStep DEF LengthLimit
  <2> QED
    BY <2>1, <2>2
<1>2. \A k \in 1 .. LengthBits : k \in 0 .. LengthBits /\ k # 0 /\ k - 1 \in 0 .. LengthBits
  BY <1>1
<1>3. l[0] = length /\ \A k \in 1 .. LengthBits : l[k] = l[k - 1] \div 2
  <2>1. H \in [1 .. LengthBits -> [Nat -> Nat]]
    OBVIOUS
  <2>2. PICK f : Loop(H, length, LengthBits, f)
    <3> HIDE DEF H
    <3> QED
      BY <1>1, <2>1, LoopExists
  <2>3. f \in [0 .. LengthBits -> Nat]
    <3> HIDE DEF H
    <3> QED
      BY <1>1, <2>1, <2>2, LoopStays
  <2>4. Halves(f)
    <3>1. \A k \in 1 .. LengthBits : f[k] = H[k][f[k - 1]]
      BY <1>2, <2>2 DEF Loop
    <3>2. f[0] = length
      BY <1>1, <2>2 DEF Loop
    <3>3. \A k \in 0 .. LengthBits : k = 0 \/ k \in 1 .. LengthBits
      BY <1>1
    <3>4. \A k \in 1 .. LengthBits : f[k - 1] \in Nat
      BY <1>2, <2>3
    <3>5. \A k \in 1 .. LengthBits : f[k] = f[k - 1] \div 2
      BY <3>1, <3>4
    <3>6. \A k \in 0 .. LengthBits : f[k] = IF k = 0 THEN length % LengthLimit ELSE f[k - 1] \div 2
      BY <1>1, <3>2, <3>3, <3>5
    <3> QED
      BY <2>3, <3>6
  <2>5. Halves(l)
    <3> HIDE DEF Halves
    <3> QED
      BY <2>4
  <2> HIDE DEF l
  <2> QED
    BY <1>1, <1>2, <2>5
<1> HIDE DEF l
<1>4. \A k \in 1 .. LengthBits : \A v \in Words : Next(k, v) \in Words
  BY TimesLinear
<1>5. s[0] = crc32a /\ \A k \in 1 .. LengthBits : s[k] = Next(k, s[k - 1])
  <2> HIDE DEF Next
  <2>1. N \in [1 .. LengthBits -> [Words -> Words]]
    BY <1>4
  <2>2. PICK f : Loop(N, crc32a, LengthBits, f)
    <3> HIDE DEF N
    <3> QED
      BY <1>1, <2>1, LoopExists
  <2>3. f \in [0 .. LengthBits -> Words]
    <3> HIDE DEF N
    <3> QED
      BY <1>1, <2>1, <2>2, LoopStays
  <2>4. Shifts(f)
    <3>1. \A k \in 1 .. LengthBits : f[k] = N[k][f[k - 1]]
      BY <1>2, <2>2 DEF Loop
    <3>2. f[0] = crc32a
      BY <1>1, <2>2 DEF Loop
    <3>3. \A k \in 0 .. LengthBits : k = 0 \/ k \in 1 .. LengthBits
      BY <1>1
    <3>4. \A k \in 1 .. LengthBits : f[k - 1] \in Words
      BY <1>2, <2>3
    <3>5. \A k \in 1 .. LengthBits : f[k] = Next(k, f[k - 1])
      BY <3>1, <3>4
    <3>6. \A k \in 0 .. LengthBits : f[k] = IF k = 0 THEN crc32a
                                            ELSE IF l[k - 1] % 2 = 1
                                              THEN gf2_matrix_times(ZeroBytes[k], f[k - 1])
                                            ELSE f[k - 1]
      BY <3>2, <3>3, <3>5 DEF Next
    <3> QED
      BY <2>3, <3>6
  <2>5. Shifts(s)
    <3> HIDE DEF Shifts
    <3> QED
      BY <2>4
  <2> HIDE DEF s
  <2> QED
    BY <1>1, <1>2, <2>5 DEF Next
<1> HIDE DEF s, Shifts
<1> DEFINE Applied(k) == \E done \in Nat : /\ l[k] \in Nat
                                           /\ length = done + PowerOfTwo[k] * l[k]
                                           /\ s[k] = Zero(crc32a, done)
           T == {k \in Nat : k <= LengthBits => Applied(k)}
<1>6. 0 \in T
  <2>1. PowerOfTwo[0] * l[0] = length /\ 0 + length = length
    BY <1>3, PowerStep
  <2>2. Applied(0)
    BY <1>3, <1>5, <2>1, ZeroSteps
  <2> QED
    BY <2>2
<1>7. ASSUME NEW k \in Nat, k + 1 <= LengthBits, Applied(k) PROVE Applied(k + 1)
  <2>1. k + 1 \in 1 .. LengthBits /\ (k + 1) - 1 = k /\ k \in 0 .. LengthBits
    BY <1>1, <1>7
  <2>2. PICK done \in Nat : /\ l[k] \in Nat
                            /\ length = done + PowerOfTwo[k] * l[k]
                            /\ s[k] = Zero(crc32a, done)
    BY <1>7
  <2>3. /\ PowerOfTwo[k] \in Nat \ {0} /\ PowerOfTwo[k + 1] = 2 * PowerOfTwo[k]
        /\ l[k + 1] = l[k] \div 2 /\ s[k + 1] = Next(k + 1, s[k])
    BY <2>1, <1>3, <1>5, PowerStep
  <2>4. /\ l[k + 1] \in Nat /\ l[k] % 2 \in {0, 1}
        /\ l[k] % 2 = 0 => length = done + PowerOfTwo[k + 1] * l[k + 1]
        /\ l[k] % 2 = 1 => length = (done + PowerOfTwo[k]) + PowerOfTwo[k + 1] * l[k + 1]
    BY <2>2, <2>3, NextBit
  <2>5. CASE l[k] % 2 = 0
    <3>1. s[k + 1] = s[k]
      BY <2>1, <2>3, <2>5
    <3> QED
      BY <2>2, <2>4, <2>5, <3>1
  <2>6. CASE l[k] % 2 = 1
    <3>1. s[k + 1] = gf2_matrix_times(ZeroBytes[k + 1], s[k])
      BY <2>1, <2>3, <2>6
    <3>2. Represents(ZeroBytes[k + 1], ZerosOf(PowerOfTwo[k]))
      BY <2>1, ZeroBytesRepresent
    <3>3. s[k] \in Words
      BY <2>2, ZeroSteps
    <3>4. s[k + 1] = Zero(s[k], PowerOfTwo[k])
      BY <3>1, <3>2, <3>3, TimesApplies DEF ZerosOf
    <3>5. s[k + 1] = Zero(crc32a, done + PowerOfTwo[k])
      <4>1. PowerOfTwo[k] \in Nat /\ done \in Nat
        BY <2>3
      <4>2. Zero(crc32a, done + PowerOfTwo[k]) = Zero(Zero(crc32a, done), PowerOfTwo[k])
        BY <4>1, ZeroSum
      <4> QED
        BY <2>2, <3>4, <4>2
    <3>6. done + PowerOfTwo[k] \in Nat
      BY <2>2, <2>3
    <3> QED
      BY <2>4, <2>6, <3>5, <3>6
  <2> QED
    BY <2>4, <2>5, <2>6
<1> HIDE DEF Applied
<1>8. \A k \in Nat : k \in T => k + 1 \in T
  BY <1>1, <1>7
<1> HIDE DEF T
<1>9. LengthBits \in T
  BY <1>1, <1>6, <1>8, AllRounds
<1>10. Applied(LengthBits)
  BY <1>1, <1>9 DEF T
<1>11. s[LengthBits] = Zero(crc32a, length)
  <2>1. PICK done \in Nat : /\ l[LengthBits] \in Nat
                            /\ length = done + LengthLimit * l[LengthBits]
                            /\ s[LengthBits] = Zero(crc32a, done)
    BY <1>10 DEF Applied, LengthLimit
  <2>2. length = done
    BY <1>1, <2>1, NothingLeft
  <2> QED
    BY <2>1, <2>2
<1> QED
  BY <1>3, <1>11 DEF l, s, Shifts

(* bra_crc32c_combine puts the sum of a chunk's data behind the sum of     *)
(* what came before it as if both had been summed at once, for data of     *)
(* every content and every length that its argument can take; beyond that  *)
(* the length is cut (compress_file passes a 64-bit one).                  *)
THEOREM CombineJoins ==
  ASSUME NEW a \in Seq(OctetWords), NEW b \in Seq(OctetWords), Len(b) < LengthLimit
  PROVE  bra_crc32c_combine(bra_crc32c_table(a, BRA_CRC32C_INIT),
                            bra_crc32c_table(b, BRA_CRC32C_INIT), Len(b))
           = bra_crc32c_table(a \o b, BRA_CRC32C_INIT)
<1> DEFINE crc32a == bra_crc32c_table(a, BRA_CRC32C_INIT)
           crc32b == bra_crc32c_table(b, BRA_CRC32C_INIT)
<1>1. /\ bra_crc32c_table(a \o b, BRA_CRC32C_INIT) = Xor(Zero(crc32a, Len(b)), crc32b)
      /\ crc32a \in Words /\ crc32b \in Words
  BY TableJoined
<1>2. Len(b) \in Nat
  OBVIOUS
<1> HIDE DEF crc32a
<1>3. CASE Len(b) = 0
  <2>1. b = <<>> /\ a \o b = a
    BY <1>3
  <2>2. bra_crc32c_combine(crc32a, crc32b, 0) = crc32a
    <3>1. 0 < LengthLimit
      BY <1>3
    <3> HIDE DEF crc32b
    <3> QED
      BY <1>1, <3>1, Shifted DEF bra_crc32c_combine
  <2> QED
    BY <1>3, <2>1, <2>2 DEF crc32a
<1>4. CASE Len(b) # 0
  <2> HIDE DEF crc32b
  <2> DEFINE n == Len(b)
             l == CHOOSE c : c = [k \in 0 .. LengthBits |->
                                    IF k = 0 THEN n % LengthLimit ELSE c[k - 1] \div 2]
             s == CHOOSE c : c = [k \in 0 .. LengthBits |->
                                    IF k = 0 THEN crc32a
                                    ELSE IF l[k - 1] % 2 = 1
                                      THEN gf2_matrix_times(ZeroBytes[k], c[k - 1])
                                    ELSE c[k - 1]]
  <2>1. bra_crc32c_combine(crc32a, crc32b, n) = Xor(Zero(crc32a, n), crc32b)
    <3>1. n \in Nat /\ n < LengthLimit /\ n # 0
      BY <1>2, <1>4
    <3> HIDE DEF n
    <3>2. bra_crc32c_combine(crc32a, crc32b, n)
            = IF l[0] = 0 THEN crc32a ELSE Xor(s[LengthBits], crc32b)
      BY DEF bra_crc32c_combine
    <3>3. l[0] = n /\ s[LengthBits] = Zero(crc32a, n)
      BY <1>1, <3>1, Shifted
    <3> HIDE DEF l, s
    <3> QED
      BY <3>1, <3>2, <3>3
  <2> QED
    BY <1>1, <2>1 DEF crc32a, crc32b
<1> QED
  BY <1>3, <1>4
----------------------------------------------------------------------------
(* Sums that go on from sums.                                              *)
LEMMA TableWord ==
  ASSUME NEW data \in Seq(OctetWords), NEW previous_crc \in Words
  PROVE  bra_crc32c_table(data, previous_crc) \in Words
<1>1. PICK t : /\ Sums(data, Not(previous_crc), t)
               /\ bra_crc32c_table(data, previous_crc) = Not(t[Len(data)])
  BY TableSums
<1>2. Not(previous_crc) \in Words /\ Len(data) \in Nat
  BY WordsNat
<1>3. t \in [0 .. Len(data) -> Words]
  BY <1>1, <1>2, SumsStep
<1>4. t[Len(data)] \in Words
  BY <1>2, <1>3
<1> QED
  BY <1>1, <1>4, WordsNat

LEMMA NotNot ==
  ASSUME NEW w \in Words
  PROVE  Not(Not(w)) = w
BY DEF Not, Words

LEMMA Chained ==
  ASSUME NEW a \in Seq(OctetWords), NEW b \in Seq(OctetWords), NEW previous_crc \in Words
  PROVE  bra_crc32c_table(b, bra_crc32c_table(a, previous_crc))
           = bra_crc32c_table(a \o b, previous_crc)
<1> DEFINE crc == bra_crc32c_table(a, previous_crc)
<1>1. /\ Not(previous_crc) \in Words /\ a \o b \in Seq(OctetWords)
      /\ Len(a) \in Nat /\ crc \in Words
  BY WordsNat, TableWord
<1>2. PICK r : Sums(a, Not(previous_crc), r) /\ crc = Not(r[Len(a)])
  BY TableSums
<1>3. r \in [0 .. Len(a) -> Words]
  BY <1>1, <1>2, SumsStep
<1>4. r[Len(a)] \in Words
  BY <1>1, <1>3
<1> HIDE DEF crc
<1>5. Not(crc) = r[Len(a)]
  BY <1>2, <1>4, NotNot
<1>6. PICK s : Sums(b, Not(crc), s) /\ bra_crc32c_table(b, crc) = Not(s[Len(b)])
  BY <1>1, TableSums
<1>7. PICK t : /\ Sums(a \o b, Not(previous_crc), t)
               /\ bra_crc32c_table(a \o b, previous_crc) = Not(t[Len(a \o b)])
  BY <1>1, TableSums
<1>8. Sums(b, r[Len(a)], s)
  BY <1>5, <1>6
<1>9. t[Len(a \o b)] = s[Len(b)]
  BY <1>1, <1>2, <1>7, <1>8, SumsJoined
<1> QED
  BY <1>6, <1>7, <1>9 DEF crc

LEMMA CombineIs ==
  ASSUME NEW crc32a \in Words, NEW crc32b \in Words, NEW n \in Nat, n < LengthLimit
  PROVE  bra_crc32c_combine(crc32a, crc32b, n)
           = IF n = 0 THEN crc32a ELSE Xor(Zero(crc32a, n), crc32b)
<1> DEFINE l == CHOOSE c : c = [k \in 0 .. LengthBits |->
                                  IF k = 0 THEN n % LengthLimit ELSE c[k - 1] \div 2]
           s == CHOOSE c : c = [k \in 0 .. LengthBits |->
                                  IF k = 0 THEN crc32a
                                  ELSE IF l[k - 1] % 2 = 1
                                    THEN gf2_matrix_times(ZeroBytes[k], c[k - 1])
                                  ELSE c[k - 1]]
<1>1. bra_crc32c_combine(crc32a, crc32b, n)
        = IF l[0] = 0 THEN crc32a ELSE Xor(s[LengthBits], crc32b)
  BY DEF bra_crc32c_combine
<1>2. l[0] = n /\ s[LengthBits] = Zero(crc32a, n)
  BY Shifted
<1> HIDE DEF l, s
<1> QED
  BY <1>1, <1>2

(* The length is cut, but the sum is always a word. *)
LEMMA CombineWord ==
  ASSUME NEW crc32a \in Words, NEW crc32b \in Words, NEW length \in Nat
  PROVE  bra_crc32c_combine(crc32a, crc32b, length) \in Words
<1> DEFINE n == length % LengthLimit
           WithRest(r) ==
             LET len_b[k \in 0 .. LengthBits] == IF k = 0 THEN r ELSE len_b[k - 1] \div 2
                 shifted[k \in 0 .. LengthBits] ==
                   IF k = 0 THEN crc32a
                   ELSE IF len_b[k - 1] % 2 = 1 THEN gf2_matrix_times(ZeroBytes[k], shifted[k - 1])
                   ELSE shifted[k - 1]
             IN  IF len_b[0] = 0 THEN crc32a ELSE Xor(shifted[LengthBits], crc32b)
<1>1. bra_crc32c_combine(crc32a, crc32b, length) = WithRest(n)
  BY DEF bra_crc32c_combine
<1>2. bra_crc32c_combine(crc32a, crc32b, n) = WithRest(n % LengthLimit)
  BY DEF bra_crc32c_combine
<1>3. n \in Nat /\ n < LengthLimit /\ n % LengthLimit = n
  <2>1. LengthLimit \in Nat \ {0}
    BY PowerStep, LengthAssumption DEF LengthLimit
  <2> QED
    BY <2>1
<1> HIDE DEF WithRest, n
<1>4. bra_crc32c_combine(crc32a, crc32b, length) = bra_crc32c_combine(crc32a, crc32b, n)
  BY <1>1, <1>2, <1>3
<1>5. Zero(crc32a, n) \in Words
  BY <1>3, ZeroSteps
<1> QED
  BY <1>3, <1>4, <1>5, CombineIs, WordsNat

(* No step loses what is different: the polynomial has its highest bit.    *)
LEMMA StepLosesNothing ==
  ASSUME NEW w \in Words, BitStep(w) = {}
  PROVE  w = {}
<1>1. w \in SUBSET Nat /\ \A x \in w : x \in 0 .. 31
  BY WordsNat DEF Words, Bits, GF2_DIM
<1>2. \A x \in Nat : (x + 1 \in w) <=> (0 \in w /\ x \in BRA_CRC32C_POLY)
  BY <1>1, BitStepIn
<1>3. 31 + 1 \notin w /\ 31 \in BRA_CRC32C_POLY
  BY <1>1 DEF BRA_CRC32C_POLY
<1>4. 0 \notin w
  BY <1>2, <1>3
<1>5. \A x \in Nat : x + 1 \notin w
  BY <1>2, <1>4
<1>6. \A x \in w : x = 0 \/ (x - 1 \in Nat /\ (x - 1) + 1 = x)
  BY <1>1
<1> QED
  BY <1>4, <1>5, <1>6

LEMMA EightLosesNothing ==
  ASSUME NEW w \in Words, Eight(w) = {}
  PROVE  w = {}
BY BitStepWord, StepLosesNothing DEF Two, Four, Eight

LEMMA ZeroLosesNothing ==
  ASSUME NEW w \in Words, NEW n \in Nat, Zero(w, n) = {}
  PROVE  w = {}
<1> DEFINE T == {k \in Nat : Zero(w, k) = {} => w = {}}
<1>1. 0 \in T
  BY ZeroSteps
<1>2. ASSUME NEW k \in Nat, k \in T PROVE k + 1 \in T
  <2>1. Zero(w, k) \in Words /\ Zero(w, k + 1) = Eight(Zero(w, k))
    BY ZeroSteps
  <2> QED
    BY <1>2, <2>1, EightLosesNothing
<1> HIDE DEF T
<1>3. n \in T
  BY <1>1, <1>2, AllRounds
<1> QED
  BY <1>3 DEF T

(* Sums that differ go on to differ, whatever follows. *)
LEMMA TablesApart ==
  ASSUME NEW data \in Seq(OctetWords), NEW v \in Words, NEW w \in Words,
         bra_crc32c_table(data, v) = bra_crc32c_table(data, w)
  PROVE  v = w
<1>1. Not(v) \in Words /\ Not(w) \in Words /\ Len(data) \in Nat
  BY WordsNat
<1>2. PICK s : Sums(data, Not(v), s) /\ bra_crc32c_table(data, v) = Not(s[Len(data)])
  BY TableSums
<1>3. PICK t : Sums(data, Not(w), t) /\ bra_crc32c_table(data, w) = Not(t[Len(data)])
  BY TableSums
<1>4. s[Len(data)] \in Words /\ t[Len(data)] \in Words
  <2>1. s \in [0 .. Len(data) -> Words] /\ t \in [0 .. Len(data) -> Words]
    BY <1>1, <1>2, <1>3, SumsStep
  <2> QED
    BY <1>1, <2>1
<1>5. Not(s[Len(data)]) = Not(t[Len(data)])
  BY <1>2, <1>3
<1>6. s[Len(data)] = t[Len(data)]
  BY <1>4, <1>5, NotNot
<1>7. Zero(Xor(Not(v), Not(w)), Len(data)) = {}
  <2>1. Xor(s[Len(data)], t[Len(data)]) = Zero(Xor(Not(v), Not(w)), Len(data))
    BY <1>1, <1>2, <1>3, SumsApart
  <2> QED
    BY <1>6, <2>1, XorLaws
<1>8. Xor(Not(v), Not(w)) \in Words
  BY <1>1, WordsNat
<1>9. Xor(Not(v), Not(w)) = {}
  BY <1>1, <1>7, <1>8, ZeroLosesNothing
<1>10. Not(v) = Not(w)
  BY <1>9 DEF Xor
<1>11. Not(Not(v)) = v /\ Not(Not(w)) = w
  BY NotNot
<1> QED
  BY <1>10, <1>11

LEMMA OctetsApart ==
  ASSUME NEW x \in OctetWords, NEW y \in OctetWords, NEW w \in Words,
         bra_crc32c_table(<<x>>, w) = bra_crc32c_table(<<y>>, w)
  PROVE  x = y
<1>1. /\ Not(w) \in Words /\ <<x>> \in Seq(OctetWords) /\ <<y>> \in Seq(OctetWords)
      /\ Len(<<x>>) = 1 /\ Len(<<y>>) = 1 /\ <<x>>[1] = x /\ <<y>>[1] = y
      /\ x \in Words /\ y \in Words
  BY WordsNat
<1>2. ASSUME NEW z \in {x, y}
      PROVE  bra_crc32c_table(<<z>>, w) = Not(Eight(Xor(Not(w), z)))
  <2> DEFINE q == <<z>>
  <2>0. q \in Seq(OctetWords) /\ Len(q) = 1 /\ q[1] = z
    BY <1>1
  <2> HIDE DEF q
  <2>1. PICK t : Sums(q, Not(w), t) /\ bra_crc32c_table(q, w) = Not(t[Len(q)])
    BY <2>0, TableSums
  <2>2. t[0] = Not(w) /\ \A i \in 1 .. Len(q) : t[i] = Eight(Xor(t[i - 1], q[i]))
    BY <1>1, <2>0, <2>1, SumsStep
  <2>3. 1 \in 1 .. Len(q) /\ 1 - 1 = 0
    BY <2>0
  <2>4. t[1] = Eight(Xor(t[1 - 1], q[1]))
    BY <2>2, <2>3
  <2>5. t[Len(q)] = Eight(Xor(Not(w), z))
    BY <2>0, <2>2, <2>3, <2>4
  <2> QED
    BY <2>1, <2>5 DEF q
<1> DEFINE a == Xor(Not(w), x)
           b == Xor(Not(w), y)
<1>3. a \in Words /\ b \in Words
  BY <1>1, WordsNat
<1>4. Not(Eight(a)) = Not(Eight(b))
  BY <1>2
<1>5. a \in SUBSET Nat /\ b \in SUBSET Nat /\ Xor(a, b) = Xor(x, y)
  <2>1. Xor(x, Not(w)) = a /\ Xor(y, Not(w)) = b
    BY XorLaws
  <2>2. Xor(Xor(x, Not(w)), Xor(y, Not(w))) = Xor(x, y)
    BY XorLaws
  <2>3. a \in SUBSET Nat /\ b \in SUBSET Nat
    BY <1>3, WordsNat
  <2> HIDE DEF a, b
  <2> QED
    BY <2>1, <2>2, <2>3
<1> HIDE DEF a, b
<1>6. Eight(a) = Eight(b)
  BY <1>3, <1>4, EightWord, NotNot
<1>7. Eight(Xor(a, b)) = {}
  <2>1. Eight(Xor(a, b)) = Xor(Eight(a), Eight(b))
    BY <1>5, EightLinear
  <2> QED
    BY <1>6, <2>1 DEF Xor
<1>8. Xor(x, y) = {}
  BY <1>1, <1>5, <1>7, EightLosesNothing, WordsNat
<1> QED
  BY <1>8 DEF Xor

(* One octet that is another makes another sum. *)
LEMMA ChangedOctet ==
  ASSUME NEW p \in Seq(OctetWords), NEW q \in Seq(OctetWords), NEW w \in Words,
         NEW x \in OctetWords, NEW y \in OctetWords,
         bra_crc32c_table((p \o <<x>>) \o q, w) = bra_crc32c_table((p \o <<y>>) \o q, w)
  PROVE  x = y
<1>1. /\ <<x>> \in Seq(OctetWords) /\ <<y>> \in Seq(OctetWords)
      /\ p \o <<x>> \in Seq(OctetWords) /\ p \o <<y>> \in Seq(OctetWords)
  OBVIOUS
<1> DEFINE v == bra_crc32c_table(p, w)
<1>2. v \in Words
  BY TableWord
<1>3. /\ bra_crc32c_table((p \o <<x>>) \o q, w) = bra_crc32c_table(q, bra_crc32c_table(p \o <<x>>, w))
      /\ bra_crc32c_table((p \o <<y>>) \o q, w) = bra_crc32c_table(q, bra_crc32c_table(p \o <<y>>, w))
  BY <1>1, Chained
<1>4. /\ bra_crc32c_table(p \o <<x>>, w) = bra_crc32c_table(<<x>>, v)
      /\ bra_crc32c_table(p \o <<y>>, w) = bra_crc32c_table(<<y>>, v)
  BY <1>1, Chained
<1>5. bra_crc32c_table(p \o <<x>>, w) \in Words /\ bra_crc32c_table(p \o <<y>>, w) \in Words
  BY <1>1, TableWord
<1>6. bra_crc32c_table(p \o <<x>>, w) = bra_crc32c_table(p \o <<y>>, w)
  BY <1>3, <1>5, TablesApart
<1> HIDE DEF v
<1> QED
  BY <1>2, <1>4, <1>6, OctetsApart

----------------------------------------------------------------------------
(* Up to four octets fit into the register: their sum is what zeros make   *)
(* of the register with all of them in it, and no other octets make it.    *)
LEMMA RegisterSum ==
  ASSUME NEW data \in Seq(OctetWords), Len(data) <= 4,
         NEW w \in Words, NEW t, Sums(data, w, t)
  PROVE  /\ ToCome(data, 1, Len(data), 0) \in Words
         /\ t[Len(data)] = Zero(Xor(w, ToCome(data, 1, Len(data), 0)), Len(data))
<1> DEFINE n == Len(data)
           all == ToCome(data, 1, n, 0)
           T == {k \in Nat : k <= n => Zero(Xor(w, all), k) = Xor(t[k], ToCome(data, 1, n, k))}
<1>1. /\ n \in Nat /\ n <= 4 /\ t \in [0 .. n -> Words] /\ t[0] = w
      /\ \A i \in 1 .. n : t[i] = Eight(Xor(t[i - 1], data[i]))
  BY SumsStep
<1>2. all \in Words
  <2>1. \A x : x \in all => x \in Nat /\ x + 8 * 0 < 8 * n
    BY <1>1, ToComeIn
  <2>2. ASSUME NEW x, x \in all PROVE x \in 0 .. 31
    <3>1. x \in Nat /\ x + 8 * 0 < 8 * n
      BY <2>1, <2>2
    <3> HIDE DEF n, all
    <3> QED
      BY <1>1, <3>1
  <2> QED
    BY <2>2 DEF Words, Bits, GF2_DIM
<1>3. Xor(w, all) \in Words
  BY <1>2, WordsNat
<1>4. 0 \in T
  BY <1>1, <1>3, ZeroSteps
<1>5. ASSUME NEW k \in Nat, k \in T, k + 1 <= n
      PROVE  Zero(Xor(w, all), k + 1) = Xor(t[k + 1], ToCome(data, 1, n, k + 1))
  <2>1. /\ k \in 0 .. n - 1 /\ k \in 0 .. n /\ k <= n /\ k + 1 \in 1 .. n
        /\ (k + 1) - 1 = k /\ 1 + k = k + 1
    BY <1>1, <1>5
  <2>2. t[k] \in Words
    BY <1>1, <2>1
  <2>3. Zero(Xor(w, all), k + 1) = Eight(Xor(t[k], ToCome(data, 1, n, k)))
    BY <1>3, <1>5, <2>1, ZeroSteps
  <2>4. t[k + 1] = Eight(Xor(t[k], data[k + 1]))
    BY <1>1, <2>1
  <2> DEFINE crc == t[k]
  <2>5. 1 \in Nat /\ 1 >= 1 /\ 1 + n - 1 <= Len(data)
    BY <1>1
  <2> HIDE DEF n, crc
  <2>6. Eight(Xor(crc, ToCome(data, 1, n, k)))
          = Xor(Eight(Xor(crc, data[1 + k])), ToCome(data, 1, n, k + 1))
    BY <1>1, <2>1, <2>2, <2>5, NextOctet DEF crc
  <2> QED
    BY <2>1, <2>3, <2>4, <2>6 DEF crc
<1>6. \A k \in Nat : k \in T => k + 1 \in T
  BY <1>5
<1> HIDE DEF T
<1>7. n \in T
  BY <1>1, <1>4, <1>6, AllRounds
<1>8. ToCome(data, 1, n, n) = {}
  <2>1. \A x : x \in ToCome(data, 1, n, n) => x \in Nat /\ x + 8 * n < 8 * n
    BY <1>1, ToComeIn
  <2> QED
    BY <1>1, <2>1
<1>9. Zero(Xor(w, all), n) = Xor(t[n], {})
  BY <1>1, <1>7, <1>8 DEF T
<1> QED
  BY <1>2, <1>9, XorLaws

LEMMA RegisterTells ==
  ASSUME NEW p \in Seq(OctetWords), NEW q \in Seq(OctetWords), NEW n \in Nat,
         Len(p) = n, Len(q) = n, ToCome(p, 1, n, 0) = ToCome(q, 1, n, 0)
  PROVE  p = q
<1>1. ASSUME NEW i \in 1 .. n PROVE p[i] = q[i]
  <2>1. p[i] \subseteq 0 .. 7 /\ q[i] \subseteq 0 .. 7
    <3>1. p[i] \in OctetWords /\ q[i] \in OctetWords
      OBVIOUS
    <3> QED
      BY <3>1 DEF OctetWords
  <2>2. ASSUME NEW x \in 0 .. 7 PROVE x \in p[i] <=> x \in q[i]
    <3> DEFINE y == 8 * (i - 1) + x
    <3>1. y \in Nat /\ y + 8 * 0 < 8 * n /\ y % 8 = x /\ 1 + 0 + (y \div 8) = i
      OBVIOUS
    <3> HIDE DEF y
    <3>2. y \in ToCome(p, 1, n, 0) <=> x \in p[i]
      BY <3>1, ToComeIn
    <3>3. y \in ToCome(q, 1, n, 0) <=> x \in q[i]
      BY <3>1, ToComeIn
    <3> QED
      BY <3>2, <3>3
  <2> QED
    BY <2>1, <2>2
<1> QED
  BY <1>1

(* Two octet strings of the same length, of four octets at most, have the  *)
(* same sum only if they are the same (crc32c.c:117, any starting sum).    *)
THEOREM ShortApart ==
  ASSUME NEW p \in Seq(OctetWords), NEW q \in Seq(OctetWords), NEW w \in Words,
         Len(p) = Len(q), Len(p) <= 4,
         bra_crc32c_table(p, w) = bra_crc32c_table(q, w)
  PROVE  p = q
<1> DEFINE n == Len(p)
           v == Not(w)
           a == ToCome(p, 1, n, 0)
           b == ToCome(q, 1, n, 0)
<1>1. n \in Nat /\ Len(q) = n /\ v \in Words
  BY WordsNat
<1>2. PICK s : Sums(p, v, s) /\ bra_crc32c_table(p, w) = Not(s[Len(p)])
  BY TableSums
<1>3. PICK t : Sums(q, v, t) /\ bra_crc32c_table(q, w) = Not(t[Len(q)])
  BY TableSums
<1> HIDE DEF v
<1>4. a \in Words /\ s[n] = Zero(Xor(v, a), n)
  BY <1>1, <1>2, RegisterSum
<1>5. b \in Words /\ t[n] = Zero(Xor(v, b), n)
  BY <1>1, <1>3, RegisterSum
<1> HIDE DEF a, b, n
<1>6. Xor(v, a) \in Words /\ Xor(v, b) \in Words /\ Xor(a, b) \in Words
  BY <1>1, <1>4, <1>5, WordsNat
<1>7. s[n] \in Words /\ t[n] \in Words
  BY <1>1, <1>4, <1>5, <1>6, ZeroSteps
<1>8. s[n] = t[n]
  <2>1. Not(s[n]) = Not(t[n])
    BY <1>1, <1>2, <1>3 DEF n
  <2> QED
    BY <1>7, <2>1, NotNot
<1>9. Zero(Xor(a, b), n) = {}
  <2>1. Zero(Xor(Xor(v, a), Xor(v, b)), n) = Xor(Zero(Xor(v, a), n), Zero(Xor(v, b), n))
    BY <1>1, <1>6, ZeroLinear
  <2>2. Xor(Xor(v, a), Xor(v, b)) = Xor(a, b)
    BY DEF Xor
  <2> QED
    BY <1>4, <1>5, <1>8, <2>1, <2>2, XorLaws
<1>10. Xor(a, b) = {}
  BY <1>1, <1>6, <1>9, ZeroLosesNothing
<1>11. a = b
  BY <1>10 DEF Xor
<1> QED
  BY <1>1, <1>11, RegisterTells DEF a, b, n
=============================================================================
