-------------------------- MODULE BraCodecsProofs --------------------------
(***************************************************************************)
(* What the encoders and decoders of BraCodecs do to every chunk: MTF, RLE *)
(* and BWT are undone by their decoders.  (Loops are argued with as in     *)
(* BraCrc32cProofs.)                                                       *)
(***************************************************************************)
EXTENDS BraCodecs, BraCrc32cProofs, SequenceTheorems, FiniteSetTheorems

----------------------------------------------------------------------------
(* Induction, with the set of the numbers of which something holds. *)
LEMMA Climb ==
  ASSUME NEW n \in Nat, NEW P, 0 \in P, \A i \in 1 .. n : i - 1 \in P => i \in P
  PROVE  \A i \in 0 .. n : i \in P
<1> DEFINE Bad == {i \in 0 .. n : i \notin P}
<1>1. SUFFICES ASSUME Bad # {} PROVE FALSE
  OBVIOUS
<1>2. PICK m \in Bad : \A i \in Bad : m <= i
  <2>1. Bad \subseteq Nat
    OBVIOUS
  <2> HIDE DEF Bad
  <2> QED
    BY <2>1, <1>1, LeastNat
<1>3. m # 0
  BY <1>2
<1>4. m \in 1 .. n /\ m - 1 \in 0 .. n /\ ~(m <= m - 1)
  BY <1>2, <1>3
<1>5. m - 1 \in P
  <2> HIDE DEF Bad
  <2>1. m - 1 \notin Bad
    BY <1>2, <1>4
  <2> QED
    BY <2>1, <1>4 DEF Bad
<1> QED
  BY <1>2, <1>4, <1>5

LEMMA ClimbFromAll ==
  ASSUME NEW P, \A n \in Nat : (\A i \in 0 .. n - 1 : i \in P) => n \in P
  PROVE  \A n \in Nat : n \in P
<1> DEFINE Bad == {n \in Nat : n \notin P}
<1>1. SUFFICES ASSUME Bad # {} PROVE FALSE
  OBVIOUS
<1>2. PICK m \in Bad : \A i \in Bad : m <= i
  <2>1. Bad \subseteq Nat
    OBVIOUS
  <2> HIDE DEF Bad
  <2> QED
    BY <2>1, <1>1, LeastNat
<1>3. ASSUME NEW i \in 0 .. m - 1 PROVE i \in P
  <2>1. m \in Nat /\ i \in Nat /\ ~(m <= i)
    BY <1>2
  <2> HIDE DEF Bad
  <2>2. i \notin Bad
    BY <1>2, <2>1
  <2> QED
    BY <2>1, <2>2 DEF Bad
<1> QED
  BY <1>2, <1>3

LEMMA Descend ==
  ASSUME NEW n \in Nat, NEW P, n \in P, \A i \in 0 .. n - 1 : i + 1 \in P => i \in P
  PROVE  \A i \in 0 .. n : i \in P
<1> DEFINE Q == {k \in 0 .. n : n - k \in P}
<1>1. 0 \in Q
  OBVIOUS
<1>2. ASSUME NEW k \in 1 .. n, k - 1 \in Q PROVE k \in Q
  <2>1. n - k \in 0 .. n - 1 /\ (n - k) + 1 = n - (k - 1)
    OBVIOUS
  <2>2. n - (k - 1) \in P
    BY <1>2
  <2> QED
    BY <2>1, <2>2
<1>3. \A k \in 0 .. n : k \in Q
  <2> HIDE DEF Q
  <2> QED
    BY <1>1, <1>2, Climb
<1>4. \A i \in 0 .. n : n - i \in 0 .. n /\ n - (n - i) = i
  OBVIOUS
<1> QED
  BY <1>3, <1>4

(* A loop whose state stays in S runs. *)
Turns(F, w, n, f) == f[0] = w /\ \A i \in 1 .. n : f[i] = F[i][f[i - 1]]

LEMMA Runs ==
  ASSUME NEW S, NEW n \in Nat, NEW F \in [1 .. n -> [S -> S]], NEW w \in S
  PROVE  \E f \in [0 .. n -> S] : Turns(F, w, n, f)
<1>1. PICK f : Loop(F, w, n, f)
  BY LoopExists
<1>2. f \in [0 .. n -> S]
  BY <1>1, LoopStays
<1>3. \A i \in 0 .. n : f[i] = IF i = 0 THEN w ELSE F[i][f[i - 1]]
  BY <1>1 DEF Loop
<1>4. 0 \in 0 .. n /\ \A i \in 1 .. n : i \in 0 .. n /\ i # 0
  OBVIOUS
<1> QED
  BY <1>2, <1>3, <1>4 DEF Turns

(* Whatever satisfies the equation of such a loop stays in S. *)
LEMMA Stays ==
  ASSUME NEW S, NEW n \in Nat, NEW g, Upto(n, g), g[0] \in S,
         \A i \in 1 .. n : g[i - 1] \in S => g[i] \in S
  PROVE  g \in [0 .. n -> S]
<1> DEFINE P == {i \in 0 .. n : g[i] \in S}
<1>1. 0 \in P
  OBVIOUS
<1>2. ASSUME NEW i \in 1 .. n, i - 1 \in P PROVE i \in P
  BY <1>2
<1>3. \A i \in 0 .. n : i \in P
  <2> HIDE DEF P
  <2> QED
    BY <1>1, <1>2, Climb
<1> QED
  BY <1>3 DEF Upto

----------------------------------------------------------------------------
(* MTF.  A table holds every byte. *)
Tables == {t \in [1 .. Alphabet -> Bytes] : \A b \in Bytes : \E at \in 1 .. Alphabet : t[at] = b}

LEMMA AlphabetNat == Alphabet \in Nat /\ Alphabet >= 6 /\ Bytes \subseteq Nat /\ MaxRuns \in Nat
                     /\ MaxRuns > 2
BY CodecsAssumption DEF Alphabet, Bytes

LEMMA MovedOK ==
  ASSUME NEW t \in Tables, NEW at \in 1 .. Alphabet
  PROVE  /\ MovedToFront(t, at) \in Tables
         /\ MovedToFront(t, at) =
              [k \in 1 .. Alphabet |-> IF k = 1 THEN t[at] ELSE IF k <= at THEN t[k - 1] ELSE t[k]]
<1> DEFINE n == Alphabet
           m == MovedToFront(t, at)
<1>1. n \in Nat /\ at \in Nat /\ 1 <= at /\ at <= n
  BY AlphabetNat
<1>2. t \in Seq(Bytes) /\ Len(t) = n
  BY <1>1 DEF Tables
<1> HIDE DEF n
<1>3. /\ SubSeq(t, 1, at - 1) \in Seq(Bytes) /\ Len(SubSeq(t, 1, at - 1)) = at - 1
      /\ \A k \in 1 .. at - 1 : SubSeq(t, 1, at - 1)[k] = t[k]
  BY <1>1, <1>2
<1>4. /\ SubSeq(t, at + 1, n) \in Seq(Bytes) /\ Len(SubSeq(t, at + 1, n)) = n - at
      /\ \A k \in 1 .. n - at : SubSeq(t, at + 1, n)[k] = t[at + k]
  BY <1>1, <1>2
<1> DEFINE a == SubSeq(t, 1, at - 1)
           b == SubSeq(t, at + 1, n)
<1>5. m = <<t[at]>> \o (a \o b)
  BY <1>2 DEF MovedToFront, RemoveAt
<1> HIDE DEF a, b, m
<1>6. /\ a \o b \in Seq(Bytes) /\ Len(a \o b) = n - 1
      /\ \A k \in 1 .. n - 1 : (a \o b)[k] = IF k < at THEN t[k] ELSE t[k + 1]
  <2>1. a \in Seq(Bytes) /\ b \in Seq(Bytes) /\ Len(a) = at - 1 /\ Len(b) = n - at
    BY <1>3, <1>4 DEF a, b
  <2>2. \A k \in 1 .. n - 1 : (a \o b)[k] = IF k <= at - 1 THEN a[k] ELSE b[k - (at - 1)]
    BY <1>1, <2>1
  <2>3. \A k \in 1 .. n - 1 : k >= at => k - (at - 1) \in 1 .. n - at /\ at + (k - (at - 1)) = k + 1
    BY <1>1
  <2>4. \A k \in 1 .. n - 1 : k < at => k \in 1 .. at - 1 /\ k <= at - 1
    BY <1>1
  <2>5. ASSUME NEW k \in 1 .. n - 1 PROVE (a \o b)[k] = IF k < at THEN t[k] ELSE t[k + 1]
    <3>1. CASE k < at
      BY <1>3, <2>2, <2>4, <3>1 DEF a
    <3>2. CASE ~(k < at)
      <4>1. k >= at /\ ~(k <= at - 1)
        BY <1>1, <3>2
      <4> QED
        BY <1>4, <2>2, <2>3, <4>1, <3>2 DEF b
    <3> QED
      BY <3>1, <3>2
  <2> QED
    BY <1>1, <2>1, <2>5
<1>7. t[at] \in Bytes
  BY <1>1, <1>2
<1> DEFINE c == a \o b
<1>8. /\ m \in Seq(Bytes) /\ Len(m) = n /\ m[1] = t[at]
      /\ \A k \in 2 .. n : m[k] = c[k - 1]
  <2>1. c \in Seq(Bytes) /\ Len(c) = n - 1 /\ m = <<t[at]>> \o c
    BY <1>5, <1>6
  <2> HIDE DEF c
  <2> QED
    BY <1>1, <1>7, <2>1
<1>9. \A k \in 2 .. n : m[k] = IF k <= at THEN t[k - 1] ELSE t[k]
  <2>1. \A k \in 2 .. n : k - 1 \in 1 .. n - 1 /\ (k - 1 < at <=> k <= at) /\ (k - 1) + 1 = k
    BY <1>1
  <2> QED
    BY <1>6, <1>8, <2>1
<1>10. m = [k \in 1 .. n |-> IF k = 1 THEN t[at] ELSE IF k <= at THEN t[k - 1] ELSE t[k]]
  <2>1. \A k \in 1 .. n : m[k] = IF k = 1 THEN t[at] ELSE IF k <= at THEN t[k - 1] ELSE t[k]
    BY <1>1, <1>8, <1>9
  <2>2. m = [k \in 1 .. n |-> m[k]]
    BY <1>1, <1>8
  <2> QED
    BY <2>1, <2>2
<1>11. ASSUME NEW x \in Bytes PROVE \E k \in 1 .. n : m[k] = x
  <2>1. PICK k \in 1 .. n : t[k] = x
    BY DEF Tables, n
  <2>2. CASE k = at
    BY <1>1, <1>8, <2>1, <2>2
  <2>3. CASE k < at
    <3>1. k + 1 \in 2 .. n /\ k + 1 <= at /\ k + 1 \in 1 .. n /\ (k + 1) - 1 = k
      BY <1>1, <2>3
    <3> QED
      BY <1>9, <2>1, <3>1
  <2>4. CASE k > at
    <3>1. k \in 2 .. n /\ ~(k <= at)
      BY <1>1, <2>4
    <3> QED
      BY <1>9, <2>1, <3>1
  <2> QED
    BY <1>1, <2>2, <2>3, <2>4
<1> QED
  <2>1. m \in [1 .. n -> Bytes]
    BY <1>1, <1>8
  <2> QED
    BY <2>1, <1>10, <1>11 DEF Tables, n, m

LEMMA InitTableOK == InitTable \in Tables
<1>1. \A b \in Bytes : b + 1 \in 1 .. Alphabet /\ (b + 1) - 1 = b
  BY AlphabetNat DEF Bytes
<1>2. \A i \in 1 .. Alphabet : i - 1 \in Bytes
  BY AlphabetNat DEF Bytes
<1> QED
  BY <1>1, <1>2 DEF InitTable, Tables

(* Where a byte is in a table. *)
PlaceOf(t, b) == CHOOSE at \in 1 .. Alphabet : t[at] = b

LEMMA PlaceOK ==
  ASSUME NEW t \in Tables, NEW b \in Bytes
  PROVE  PlaceOf(t, b) \in 1 .. Alphabet /\ t[PlaceOf(t, b)] = b
<1>1. \E at \in 1 .. Alphabet : t[at] = b
  BY DEF Tables
<1> QED
  BY <1>1 DEF PlaceOf

(* The tables of a decoder that gets s, for any s. *)
LEMMA MtfDecodes ==
  ASSUME NEW s \in Seq(Bytes)
  PROVE  \E f \in [0 .. Len(s) -> Tables] :
           /\ f[0] = InitTable
           /\ \A i \in 1 .. Len(s) : f[i] = MovedToFront(f[i - 1], s[i] + 1)
           /\ MtfDecoded(s) = [i \in 1 .. Len(s) |-> f[i - 1][s[i] + 1]]
           /\ MtfDecoded(s) \in Seq(Bytes) /\ Len(MtfDecoded(s)) = Len(s)
<1> DEFINE n == Len(s)
           Eq(f) == f = [i \in 0 .. n |-> IF i = 0 THEN InitTable ELSE MovedToFront(f[i - 1], s[i] + 1)]
           F == [i \in 1 .. n |-> [t \in Tables |-> MovedToFront(t, s[i] + 1)]]
<1>1. n \in Nat /\ \A i \in 1 .. n : s[i] \in Bytes /\ s[i] + 1 \in 1 .. Alphabet
  BY AlphabetNat DEF Bytes
<1> HIDE DEF n
<1>2. F \in [1 .. n -> [Tables -> Tables]]
  <2>1. \A i \in 1 .. n : \A t \in Tables : MovedToFront(t, s[i] + 1) \in Tables
    BY <1>1, MovedOK
  <2> QED
    BY <2>1
<1>3. PICK f \in [0 .. n -> Tables] : Turns(F, InitTable, n, f)
  <2> HIDE DEF F
  <2> QED
    BY <1>1, <1>2, InitTableOK, Runs
<1>4. \A i \in 1 .. n : f[i] = MovedToFront(f[i - 1], s[i] + 1)
  <2>1. \A i \in 1 .. n : i - 1 \in 0 .. n
    BY <1>1
  <2> QED
    BY <1>3, <2>1 DEF Turns
<1>5. Eq(f)
  <2>1. \A i \in 0 .. n : f[i] = IF i = 0 THEN InitTable ELSE MovedToFront(f[i - 1], s[i] + 1)
    <3>1. \A i \in 0 .. n : i = 0 \/ i \in 1 .. n
      BY <1>1
    <3> QED
      BY <1>3, <1>4, <3>1 DEF Turns
  <2>2. f = [i \in 0 .. n |-> f[i]]
    OBVIOUS
  <2> QED
    BY <2>1, <2>2
<1> DEFINE g == CHOOSE c : Eq(c)
<1>6. Eq(g)
  BY <1>5
<1>7. g[0] = InitTable /\ \A i \in 1 .. n : g[i] = MovedToFront(g[i - 1], s[i] + 1)
  <2> HIDE DEF g
  <2>1. \A i \in 0 .. n : g[i] = IF i = 0 THEN InitTable ELSE MovedToFront(g[i - 1], s[i] + 1)
    BY <1>6
  <2>2. 0 \in 0 .. n /\ \A i \in 1 .. n : i \in 0 .. n /\ i # 0
    BY <1>1
  <2> QED
    BY <2>1, <2>2
<1>8. g \in [0 .. n -> Tables]
  <2> HIDE DEF g
  <2>1. g = [i \in 0 .. n |-> g[i]]
    BY <1>6
  <2> HIDE DEF Eq
  <2>2. Upto(n, g)
    BY <2>1 DEF Upto
  <2>3. g[0] \in Tables
    BY <1>7, InitTableOK
  <2>4. \A i \in 1 .. n : g[i - 1] \in Tables => g[i] \in Tables
    BY <1>1, <1>7, MovedOK
  <2> QED
    BY <1>1, <2>2, <2>3, <2>4, Stays
<1>9. MtfDecoded(s) = [i \in 1 .. n |-> g[i - 1][s[i] + 1]]
  <2>1. MtfDecoded(s) = [i \in 1 .. n |-> g[i - 1][s[i] + 1]]
    BY DEF MtfDecoded, n
  <2> QED
    BY <2>1
<1> HIDE DEF g
<1>10. MtfDecoded(s) \in Seq(Bytes) /\ Len(MtfDecoded(s)) = n
  <2>1. \A i \in 1 .. n : g[i - 1][s[i] + 1] \in Bytes
    <3>1. \A i \in 1 .. n : g[i - 1] \in Tables
      BY <1>1, <1>8
    <3> QED
      BY <1>1, <3>1 DEF Tables
  <2>2. [i \in 1 .. n |-> g[i - 1][s[i] + 1]] \in Seq(Bytes)
        /\ Len([i \in 1 .. n |-> g[i - 1][s[i] + 1]]) = n
    BY <1>1, <2>1
  <2> QED
    BY <1>9, <2>2
<1> QED
  BY <1>7, <1>8, <1>9, <1>10 DEF n

(* The tables of an encoder. *)
LEMMA MtfEncodes ==
  ASSUME NEW s \in Seq(Bytes)
  PROVE  \E f \in [0 .. Len(s) -> Tables] :
           /\ f[0] = InitTable
           /\ \A i \in 1 .. Len(s) : f[i] = MovedToFront(f[i - 1], PlaceOf(f[i - 1], s[i]))
           /\ MtfEncoded(s) = [i \in 1 .. Len(s) |-> PlaceOf(f[i - 1], s[i]) - 1]
           /\ MtfEncoded(s) \in Seq(Bytes) /\ Len(MtfEncoded(s)) = Len(s)
<1> DEFINE n == Len(s)
           Eq(f) == f = [i \in 0 .. n |->
                           IF i = 0 THEN InitTable
                           ELSE MovedToFront(f[i - 1], PlaceOf(f[i - 1], s[i]))]
           F == [i \in 1 .. n |-> [t \in Tables |-> MovedToFront(t, PlaceOf(t, s[i]))]]
<1>1. n \in Nat /\ \A i \in 1 .. n : s[i] \in Bytes
  OBVIOUS
<1> HIDE DEF n
<1>2. F \in [1 .. n -> [Tables -> Tables]]
  <2>1. \A i \in 1 .. n : \A t \in Tables : MovedToFront(t, PlaceOf(t, s[i])) \in Tables
    BY <1>1, MovedOK, PlaceOK
  <2> QED
    BY <2>1
<1>3. PICK f \in [0 .. n -> Tables] : Turns(F, InitTable, n, f)
  <2> HIDE DEF F
  <2> QED
    BY <1>1, <1>2, InitTableOK, Runs
<1>4. \A i \in 1 .. n : f[i] = MovedToFront(f[i - 1], PlaceOf(f[i - 1], s[i]))
  <2>1. \A i \in 1 .. n : i - 1 \in 0 .. n
    BY <1>1
  <2> QED
    BY <1>3, <2>1 DEF Turns
<1>5. Eq(f)
  <2>1. \A i \in 0 .. n : f[i] = IF i = 0 THEN InitTable
                                 ELSE MovedToFront(f[i - 1], PlaceOf(f[i - 1], s[i]))
    <3>1. \A i \in 0 .. n : i = 0 \/ i \in 1 .. n
      BY <1>1
    <3> QED
      BY <1>3, <1>4, <3>1 DEF Turns
  <2>2. f = [i \in 0 .. n |-> f[i]]
    OBVIOUS
  <2> QED
    BY <2>1, <2>2
<1> DEFINE g == CHOOSE c : Eq(c)
<1>6. Eq(g)
  BY <1>5
<1>7. g[0] = InitTable /\ \A i \in 1 .. n : g[i] = MovedToFront(g[i - 1], PlaceOf(g[i - 1], s[i]))
  <2> HIDE DEF g
  <2>1. \A i \in 0 .. n : g[i] = IF i = 0 THEN InitTable ELSE MovedToFront(g[i - 1], PlaceOf(g[i - 1], s[i]))
    BY <1>6
  <2>2. 0 \in 0 .. n /\ \A i \in 1 .. n : i \in 0 .. n /\ i # 0
    BY <1>1
  <2> QED
    BY <2>1, <2>2
<1>8. g \in [0 .. n -> Tables]
  <2> HIDE DEF g
  <2>1. g = [i \in 0 .. n |-> g[i]]
    BY <1>6
  <2> HIDE DEF Eq
  <2>2. Upto(n, g)
    BY <2>1 DEF Upto
  <2>3. g[0] \in Tables
    BY <1>7, InitTableOK
  <2>4. \A i \in 1 .. n : g[i - 1] \in Tables => g[i] \in Tables
    <3> SUFFICES ASSUME NEW i \in 1 .. n, g[i - 1] \in Tables PROVE g[i] \in Tables
      OBVIOUS
    <3>1. PlaceOf(g[i - 1], s[i]) \in 1 .. Alphabet
      BY <1>1, PlaceOK
    <3>2. MovedToFront(g[i - 1], PlaceOf(g[i - 1], s[i])) \in Tables
      BY <3>1, MovedOK
    <3> QED
      BY <1>7, <3>2
  <2> QED
    BY <1>1, <2>2, <2>3, <2>4, Stays
<1>9. MtfEncoded(s) = [i \in 1 .. n |-> PlaceOf(g[i - 1], s[i]) - 1]
  <2>1. MtfEncoded(s) = [i \in 1 .. n |-> PlaceOf(g[i - 1], s[i]) - 1]
    BY DEF MtfEncoded, PlaceOf, n
  <2> QED
    BY <2>1
<1> HIDE DEF g
<1>10. MtfEncoded(s) \in Seq(Bytes) /\ Len(MtfEncoded(s)) = n
  <2>1. \A i \in 1 .. n : PlaceOf(g[i - 1], s[i]) - 1 \in Bytes
    <3>1. \A i \in 1 .. n : g[i - 1] \in Tables
      BY <1>1, <1>8
    <3>2. \A i \in 1 .. n : PlaceOf(g[i - 1], s[i]) \in 1 .. Alphabet
      BY <1>1, <3>1, PlaceOK
    <3> QED
      BY <3>2, AlphabetNat DEF Bytes
  <2>2. [i \in 1 .. n |-> PlaceOf(g[i - 1], s[i]) - 1] \in Seq(Bytes)
        /\ Len([i \in 1 .. n |-> PlaceOf(g[i - 1], s[i]) - 1]) = n
    BY <1>1, <2>1
  <2> QED
    BY <1>9, <2>2
<1> QED
  BY <1>7, <1>8, <1>9, <1>10 DEF n

(* Moving to the front is undone (encoders/bra_mtf.c): the decoder's       *)
(* tables are the encoder's, and so it finds every byte.                   *)
THEOREM MtfUndone ==
  ASSUME NEW s \in Seq(Bytes)
  PROVE  MtfDecoded(MtfEncoded(s)) = s
<1> DEFINE e == MtfEncoded(s)
           n == Len(s)
<1>1. PICK f \in [0 .. n -> Tables] :
        /\ f[0] = InitTable
        /\ \A i \in 1 .. n : f[i] = MovedToFront(f[i - 1], PlaceOf(f[i - 1], s[i]))
        /\ e = [i \in 1 .. n |-> PlaceOf(f[i - 1], s[i]) - 1]
        /\ e \in Seq(Bytes) /\ Len(e) = n
  BY MtfEncodes
<1> HIDE DEF e
<1>2. PICK g \in [0 .. n -> Tables] :
        /\ g[0] = InitTable
        /\ \A i \in 1 .. n : g[i] = MovedToFront(g[i - 1], e[i] + 1)
        /\ MtfDecoded(e) = [i \in 1 .. n |-> g[i - 1][e[i] + 1]]
  <2>1. PICK h \in [0 .. Len(e) -> Tables] :
          /\ h[0] = InitTable
          /\ \A i \in 1 .. Len(e) : h[i] = MovedToFront(h[i - 1], e[i] + 1)
          /\ MtfDecoded(e) = [i \in 1 .. Len(e) |-> h[i - 1][e[i] + 1]]
    BY <1>1, MtfDecodes
  <2>2. Len(e) = n
    BY <1>1
  <2>3. MtfDecoded(e) = [i \in 1 .. n |-> h[i - 1][e[i] + 1]]
    BY <2>1, <2>2
  <2> HIDE DEF n
  <2>4. h \in [0 .. n -> Tables] /\ \A i \in 1 .. n : h[i] = MovedToFront(h[i - 1], e[i] + 1)
    BY <2>1, <2>2
  <2> QED
    BY <2>1, <2>3, <2>4
<1>3. n \in Nat /\ \A i \in 1 .. n : s[i] \in Bytes /\ i - 1 \in 0 .. n
  OBVIOUS
<1> HIDE DEF n
<1>4. \A i \in 1 .. n : /\ PlaceOf(f[i - 1], s[i]) \in 1 .. Alphabet
                        /\ f[i - 1][PlaceOf(f[i - 1], s[i])] = s[i]
  BY <1>3, PlaceOK
<1>5. \A i \in 1 .. n : e[i] + 1 = PlaceOf(f[i - 1], s[i])
  BY <1>1, <1>4, AlphabetNat
<1>6. g = f
  <2>1. \A i \in 1 .. n : g[i - 1] = f[i - 1] => g[i] = f[i]
    BY <1>1, <1>2, <1>5
  <2>2. g = [i \in 0 .. n |-> g[i]] /\ f = [i \in 0 .. n |-> f[i]]
    OBVIOUS
  <2>3. Upto(n, g) /\ Upto(n, f) /\ g[0] = f[0]
    BY <1>1, <1>2, <2>2 DEF Upto
  <2> QED
    BY ONLY <1>3, <2>1, <2>3, StepByStep
<1>7. MtfDecoded(e) = [i \in 1 .. n |-> s[i]]
  BY <1>2, <1>4, <1>5, <1>6
<1>8. s = [i \in 1 .. n |-> s[i]]
  BY DEF n
<1> QED
  BY <1>7, <1>8 DEF e

----------------------------------------------------------------------------
(* Recursion from the end of a sequence: what f has at i it makes of what  *)
(* it has further on.                                                      *)
Forward(next, n) == \A i \in 1 .. n : next[i] \in i + 1 .. n + 1
TurnsBack(G, next, w, n, f) == f[n + 1] = w /\ \A i \in 1 .. n : f[i] = G[i][f[next[i]]]

LEMMA RunsBack ==
  ASSUME NEW R, NEW n \in Nat, NEW next \in [1 .. n -> Nat], Forward(next, n),
         NEW G \in [1 .. n -> [R -> R]], NEW w \in R
  PROVE  \E f \in [1 .. n + 1 -> R] : TurnsBack(G, next, w, n, f)
<1> USE DEF Forward, TurnsBack
<1> DEFINE S == [1 .. n + 1 -> R]
           Set(h, m) == [h EXCEPT ![m] = G[m][h[next[m]]]]
           F == [j \in 1 .. n |-> [h \in S |-> Set(h, n + 1 - j)]]
           w0 == [i \in 1 .. n + 1 |-> w]
<1>1. \A j \in 1 .. n : n + 1 - j \in 1 .. n /\ n + 1 - j \in 1 .. n + 1
  OBVIOUS
<1>2. ASSUME NEW h \in S, NEW m \in 1 .. n
      PROVE  /\ Set(h, m) \in S /\ Set(h, m)[m] = G[m][h[next[m]]]
             /\ \A i \in 1 .. n + 1 : i # m => Set(h, m)[i] = h[i]
             /\ next[m] \in 1 .. n + 1 /\ next[m] > m
  <2>1. next[m] \in 1 .. n + 1 /\ next[m] > m /\ m \in 1 .. n + 1
    OBVIOUS
  <2>2. h[next[m]] \in R
    BY <2>1
  <2>3. G[m][h[next[m]]] \in R
    BY <2>2
  <2> QED
    BY <2>1, <2>3
<1> HIDE DEF Set
<1>3. F \in [1 .. n -> [S -> S]] /\ w0 \in S
  <2>1. \A j \in 1 .. n : \A h \in S : Set(h, n + 1 - j) \in S
    BY <1>1, <1>2
  <2> QED
    BY <2>1
<1>4. PICK g \in [0 .. n -> S] : Turns(F, w0, n, g)
  <2> HIDE DEF F, S, w0
  <2> QED
    BY <1>3, Runs
<1>5. \A j \in 1 .. n : j - 1 \in 0 .. n /\ j \in 0 .. n
  OBVIOUS
<1>6. g[0] = w0 /\ \A j \in 1 .. n : g[j] = Set(g[j - 1], n + 1 - j)
  <2> HIDE DEF S, w0
  <2> QED
    BY <1>4, <1>5 DEF Turns
<1> DEFINE Done(h, m) == h[n + 1] = w /\ \A i \in m .. n : h[i] = G[i][h[next[i]]]
           P == {j \in 0 .. n : Done(g[j], n + 1 - j)}
<1>7. 0 \in P
  <2>1. (n + 1) .. n = {} /\ n + 1 - 0 = n + 1 /\ n + 1 \in 1 .. n + 1
    OBVIOUS
  <2>2. w0[n + 1] = w
    BY <2>1
  <2> QED
    BY <1>6, <2>1, <2>2
<1>8. ASSUME NEW j \in 1 .. n, j - 1 \in P PROVE j \in P
  <2> DEFINE m == n + 1 - j
             h == g[j - 1]
  <2>1. m \in 1 .. n /\ n + 1 - (j - 1) = m + 1 /\ h \in S
    BY <1>5
  <2>2. Done(h, m + 1)
    BY <1>8, <2>1
  <2>3. g[j] = Set(h, m)
    BY <1>6
  <2> HIDE DEF m, h, S
  <2>4. /\ Set(h, m)[m] = G[m][h[next[m]]]
        /\ \A i \in 1 .. n + 1 : i # m => Set(h, m)[i] = h[i]
    BY <1>2, <2>1
  <2>5. \A i \in m .. n : i = m \/ i \in m + 1 .. n
    BY <2>1
  <2>6. \A i \in m .. n : next[i] \in 1 .. n + 1 /\ next[i] # m /\ i \in 1 .. n + 1
    BY <2>1
  <2>7. n + 1 \in 1 .. n + 1 /\ n + 1 # m
    BY <2>1
  <2>8. \A i \in m .. n : Set(h, m)[i] = G[i][Set(h, m)[next[i]]]
    <3> SUFFICES ASSUME NEW i \in m .. n PROVE Set(h, m)[i] = G[i][Set(h, m)[next[i]]]
      OBVIOUS
    <3>1. Set(h, m)[next[i]] = h[next[i]]
      BY <2>4, <2>6
    <3>2. CASE i = m
      BY <2>4, <3>1, <3>2
    <3>3. CASE i # m
      BY <2>2, <2>4, <2>5, <2>6, <3>1, <3>3
    <3> QED
      BY <3>2, <3>3
  <2>9. Done(Set(h, m), m)
    BY <2>2, <2>4, <2>7, <2>8
  <2>10. j \in 0 .. n /\ Done(g[j], n + 1 - j)
    BY <1>5, <2>3, <2>9 DEF m
  <2> QED
    BY <2>10
<1>9. n \in P
  <2>1. \A j \in 0 .. n : j \in P
    <3> HIDE DEF P
    <3> QED
      BY <1>7, <1>8, Climb
  <2> QED
    BY <2>1
<1>10. Done(g[n], 1) /\ g[n] \in S
  <2>1. n + 1 - n = 1 /\ n \in 0 .. n
    OBVIOUS
  <2> QED
    BY <1>9, <2>1
<1> QED
  BY <1>10

(* What satisfies the equation of such a recursion stays in R. *)
LEMMA StaysBack ==
  ASSUME NEW R, NEW n \in Nat, NEW f, NEW next, Forward(next, n),
         f[n + 1] \in R, \A i \in 1 .. n : f[next[i]] \in R => f[i] \in R
  PROVE  \A i \in 1 .. n + 1 : f[i] \in R
<1> USE DEF Forward
<1> DEFINE P == {k \in Nat : k <= n => f[n + 1 - k] \in R}
<1>1. ASSUME NEW k \in Nat, \A l \in 0 .. k - 1 : l \in P PROVE k \in P
  <2>1. CASE k = 0
    BY <2>1
  <2>2. CASE k # 0 /\ k <= n
    <3> DEFINE i == n + 1 - k
               l == n + 1 - next[i]
    <3>1. i \in 1 .. n
      BY <2>2
    <3>2. next[i] \in i + 1 .. n + 1
      BY <3>1
    <3>3. l \in 0 .. k - 1 /\ l <= n /\ n + 1 - l = next[i] /\ l \in Nat
      <4> HIDE DEF i
      <4>1. i = n + 1 - k
        BY DEF i
      <4> QED
        BY <2>2, <3>2, <4>1
    <3> HIDE DEF i, l
    <3>4. f[next[i]] \in R
      BY <1>1, <3>3
    <3>5. f[i] \in R
      BY <3>1, <3>4
    <3> QED
      BY <3>5 DEF i
  <2> QED
    BY <2>1, <2>2
<1>2. \A k \in Nat : k \in P
  <2> HIDE DEF P
  <2> QED
    BY <1>1, ClimbFromAll
<1>3. \A i \in 1 .. n + 1 : n + 1 - i \in Nat /\ n + 1 - i <= n /\ n + 1 - (n + 1 - i) = i
  OBVIOUS
<1> QED
  BY <1>2, <1>3

----------------------------------------------------------------------------
(* RLE.  The largest and the smallest of a set of numbers. *)
LEMMA MinOK ==
  ASSUME NEW T, T \subseteq Nat, T # {}
  PROVE  Min(T) \in T /\ \A x \in T : Min(T) <= x
<1>1. \E m \in T : \A x \in T : m <= x
  BY LeastNat
<1> QED
  BY <1>1 DEF Min

LEMMA MaxOK ==
  ASSUME NEW n \in Nat, NEW T, T \subseteq 0 .. n, T # {}
  PROVE  Max(T) \in T /\ \A x \in T : Max(T) >= x
<1> DEFINE U == {n - x : x \in T}
<1>1. PICK m \in U : \A y \in U : m <= y
  <2>1. \A x \in T : n - x \in Nat
    OBVIOUS
  <2>2. U \subseteq Nat
    BY <2>1
  <2>3. U # {}
    OBVIOUS
  <2> HIDE DEF U
  <2> QED
    BY <2>2, <2>3, LeastNat
<1>2. PICK t \in T : m = n - t
  OBVIOUS
<1>3. \A x \in T : n - t <= n - x /\ x \in Nat /\ t \in Nat
  BY <1>1, <1>2
<1>4. \A x \in T : t >= x
  BY <1>3
<1> QED
  BY <1>4 DEF Max

LEMMA RunOK ==
  ASSUME NEW s \in Seq(Bytes), NEW i \in 1 .. Len(s)
  PROVE  /\ Run(s, i) \in 1 .. MaxRuns /\ i + Run(s, i) - 1 <= Len(s)
         /\ \A k \in 1 .. Run(s, i) - 1 : s[i + k] = s[i]
<1> DEFINE T == {r \in 1 .. MaxRuns : i + r - 1 <= Len(s) /\ \A k \in 1 .. r - 1 : s[i + k] = s[i]}
<1>1. MaxRuns \in Nat /\ MaxRuns > 2 /\ i \in Nat /\ i <= Len(s) /\ Len(s) \in Nat
  BY AlphabetNat
<1>2. 1 \in T
  BY <1>1
<1>3. T \subseteq 0 .. MaxRuns
  BY <1>1
<1>4. Run(s, i) \in T
  <2>1. Run(s, i) = Max(T)
    BY DEF Run
  <2> HIDE DEF T
  <2> QED
    BY <1>1, <1>2, <1>3, <2>1, MaxOK
<1> QED
  BY <1>4

LEMMA LiteralOK ==
  ASSUME NEW s \in Seq(Bytes), NEW i \in 1 .. Len(s), Run(s, i) < MinRuns
  PROVE  /\ Literal(s, i) \in 1 .. MaxRuns /\ i + Literal(s, i) - 1 <= Len(s)
         /\ \/ i + Literal(s, i) > Len(s)
            \/ Literal(s, i) = MaxRuns
            \/ Run(s, i + Literal(s, i)) >= MinRuns
<1> DEFINE R == Run(s, i)
           Ends(l) == i + l > Len(s) \/ l = MaxRuns \/ Run(s, i + l) >= MinRuns
           T == {l \in R .. MaxRuns : Ends(l)}
           m == Literal(s, i)
<1>1. /\ MaxRuns \in Nat /\ MaxRuns > 2 /\ i \in Nat /\ i <= Len(s) /\ Len(s) \in Nat
      /\ R \in 1 .. MaxRuns /\ i + R - 1 <= Len(s)
  BY AlphabetNat, RunOK
<1> HIDE DEF R
<1>2. MaxRuns \in T /\ T \subseteq Nat
  BY <1>1
<1>3. m \in T /\ \A l \in T : m <= l
  <2>1. m = Min(T)
    BY DEF Literal, R
  <2> HIDE DEF T, m
  <2> QED
    BY <1>2, <2>1, MinOK
<1>4. m \in R .. MaxRuns /\ Ends(m)
  BY <1>3
<1> HIDE DEF m
<1>5. i + m - 1 <= Len(s)
  <2>1. CASE m = R
    BY <1>1, <2>1
  <2>2. CASE m # R
    <3>1. m - 1 \in R .. MaxRuns /\ ~(m <= m - 1)
      BY <1>1, <1>4, <2>2
    <3>2. m - 1 \notin T
      <4> HIDE DEF T
      <4> QED
        BY <1>3, <3>1
    <3>3. ~Ends(m - 1)
      BY <3>1, <3>2
    <3>4. ~(i + (m - 1) > Len(s))
      BY <3>3
    <3> QED
      BY <1>1, <1>4, <3>4
  <2> QED
    BY <2>1, <2>2
<1>6. m \in 1 .. MaxRuns
  BY <1>1, <1>4
<1> QED
  BY <1>4, <1>5, <1>6 DEF m

LEMMA ModBelow ==
  ASSUME NEW n \in Nat, NEW c \in Int, c < 0, -n <= c
  PROVE  c % n = c + n
<1>1. c = n * (-1) + (c + n) /\ c + n \in 0 .. n - 1
  OBVIOUS
<1> QED
  BY <1>1

(* What the control of a block says. *)
LEMMA ControlOK ==
  ASSUME NEW c \in 1 - MaxRuns .. MaxRuns - 1
  PROVE  Control(c) \in Bytes /\ Signed(Control(c)) = c
<1>1. MaxRuns \in Nat /\ MaxRuns > 2 /\ Alphabet = MaxRuns + MaxRuns /\ Alphabet \in Nat /\ c \in Int
  BY AlphabetNat DEF Alphabet
<1>2. CASE c >= 0
  <2>1. c % Alphabet = c
    BY <1>1, <1>2
  <2> QED
    BY <1>1, <1>2, <2>1 DEF Control, Signed, Bytes
<1>3. CASE c < 0
  <2>1. -Alphabet <= c
    BY <1>1
  <2>2. c % Alphabet = c + Alphabet
    BY ONLY <1>1, <1>3, <2>1, ModBelow
  <2> QED
    BY <1>1, <1>3, <2>2 DEF Control, Signed, Bytes
<1> QED
  BY <1>1, <1>2, <1>3

(* The block that is made at i, and how far it goes. *)
RleStep(s, i) == IF Run(s, i) >= MinRuns THEN Run(s, i) ELSE Literal(s, i)
RleBlock(s, i) ==
  IF Run(s, i) >= MinRuns THEN <<Control(1 - Run(s, i)), s[i]>>
  ELSE <<Control(Literal(s, i) - 1)>> \o SubSeq(s, i, i + Literal(s, i) - 1)

LEMMA RleBlockOK ==
  ASSUME NEW s \in Seq(Bytes), NEW i \in 1 .. Len(s)
  PROVE  /\ RleStep(s, i) \in 1 .. MaxRuns /\ i + RleStep(s, i) - 1 <= Len(s)
         /\ i + RleStep(s, i) \in i + 1 .. Len(s) + 1
         /\ RleBlock(s, i) \in Seq(Bytes)
         /\ Len(RleBlock(s, i)) = IF Run(s, i) >= MinRuns THEN 2 ELSE RleStep(s, i) + 1
<1>1. /\ MaxRuns \in Nat /\ MaxRuns > 2 /\ i \in Nat /\ 1 <= i /\ i <= Len(s) /\ Len(s) \in Nat
      /\ s[i] \in Bytes
  BY AlphabetNat
<1>2. Run(s, i) \in 1 .. MaxRuns /\ i + Run(s, i) - 1 <= Len(s)
  BY RunOK
<1>3. CASE Run(s, i) >= MinRuns
  <2>1. Control(1 - Run(s, i)) \in Bytes
    <3>1. 1 - Run(s, i) \in 1 - MaxRuns .. MaxRuns - 1
      BY <1>1, <1>2
    <3> QED
      BY <3>1, ControlOK
  <2>2. RleBlock(s, i) = <<Control(1 - Run(s, i)), s[i]>> /\ RleStep(s, i) = Run(s, i)
    BY <1>3 DEF RleBlock, RleStep
  <2>3. RleBlock(s, i) \in Seq(Bytes) /\ Len(RleBlock(s, i)) = 2
    BY <1>1, <2>1, <2>2
  <2> QED
    BY <1>1, <1>2, <1>3, <2>2, <2>3
<1>4. CASE ~(Run(s, i) >= MinRuns)
  <2> DEFINE l == Literal(s, i)
  <2>1. Run(s, i) < MinRuns
    BY <1>2, <1>4 DEF MinRuns
  <2>2. l \in 1 .. MaxRuns /\ i + l - 1 <= Len(s)
    BY <2>1, LiteralOK
  <2>3. RleBlock(s, i) = <<Control(l - 1)>> \o SubSeq(s, i, i + l - 1) /\ RleStep(s, i) = l
    BY <1>4 DEF RleBlock, RleStep
  <2> HIDE DEF l
  <2>4. Control(l - 1) \in Bytes
    <3>1. l - 1 \in 1 - MaxRuns .. MaxRuns - 1
      BY <1>1, <2>2
    <3> QED
      BY <3>1, ControlOK
  <2>5. SubSeq(s, i, i + l - 1) \in Seq(Bytes) /\ Len(SubSeq(s, i, i + l - 1)) = l
    BY <1>1, <2>2
  <2>6. RleBlock(s, i) \in Seq(Bytes) /\ Len(RleBlock(s, i)) = l + 1
    BY <2>2, <2>3, <2>4, <2>5
  <2> QED
    BY <1>1, <1>4, <2>2, <2>3, <2>6
<1> QED
  BY <1>3, <1>4

(* What is encoded from i on. *)
LEMMA RleEncodes ==
  ASSUME NEW s \in Seq(Bytes)
  PROVE  \E f \in [1 .. Len(s) + 1 -> Seq(Bytes)] :
           /\ f[Len(s) + 1] = <<>>
           /\ \A i \in 1 .. Len(s) : f[i] = RleBlock(s, i) \o f[i + RleStep(s, i)]
           /\ RleEncoded(s) = f[1]
<1> DEFINE n == Len(s)
           Eq(f) == f = [i \in 1 .. n + 1 |->
             IF i > n THEN <<>>
             ELSE IF Run(s, i) >= MinRuns
               THEN <<Control(1 - Run(s, i)), s[i]>> \o f[i + Run(s, i)]
             ELSE <<Control(Literal(s, i) - 1)>> \o SubSeq(s, i, i + Literal(s, i) - 1)
                    \o f[i + Literal(s, i)]]
           Step(f) == f[n + 1] = <<>> /\ \A i \in 1 .. n : f[i] = RleBlock(s, i) \o f[i + RleStep(s, i)]
           next == [i \in 1 .. n |-> i + RleStep(s, i)]
           G == [i \in 1 .. n |-> [r \in Seq(Bytes) |-> RleBlock(s, i) \o r]]
           g == CHOOSE f : Eq(f)
<1>1. n \in Nat
  OBVIOUS
<1>2. \A i \in 1 .. n : RleBlock(s, i) \in Seq(Bytes) /\ i + RleStep(s, i) \in i + 1 .. n + 1
  BY RleBlockOK
<1>3. RleEncoded(s) = g[1]
  BY DEF RleEncoded
<1> HIDE DEF n
<1>4. next \in [1 .. n -> Nat] /\ \A i \in 1 .. n : next[i] = i + RleStep(s, i) /\ next[i] \in i + 1 .. n + 1
  <2>1. \A i \in 1 .. n : i + RleStep(s, i) \in Nat
    BY <1>1, <1>2
  <2> QED
    BY <1>2, <2>1
<1>5. G \in [1 .. n -> [Seq(Bytes) -> Seq(Bytes)]]
  <2>1. \A i \in 1 .. n : \A r \in Seq(Bytes) : RleBlock(s, i) \o r \in Seq(Bytes)
    BY <1>2
  <2> QED
    BY <2>1
<1>6. PICK f \in [1 .. n + 1 -> Seq(Bytes)] : TurnsBack(G, next, <<>>, n, f)
  <2>1. <<>> \in Seq(Bytes) /\ Forward(next, n)
    BY <1>4 DEF Forward
  <2> HIDE DEF G, next
  <2> QED
    BY <1>1, <1>4, <1>5, <2>1, RunsBack
<1>7. Step(f)
  <2>1. \A i \in 1 .. n : next[i] \in 1 .. n + 1
    BY <1>1, <1>4
  <2>2. \A i \in 1 .. n : f[i] = RleBlock(s, i) \o f[next[i]]
    BY <1>6, <2>1 DEF TurnsBack
  <2> HIDE DEF next, G
  <2> QED
    BY <1>4, <1>6, <2>2 DEF TurnsBack
<1>8. ASSUME NEW h, \A i \in 1 .. n : h[i + RleStep(s, i)] \in Seq(Bytes)
      PROVE  \A i \in 1 .. n :
               RleBlock(s, i) \o h[i + RleStep(s, i)] =
                 IF Run(s, i) >= MinRuns
                   THEN <<Control(1 - Run(s, i)), s[i]>> \o h[i + Run(s, i)]
                 ELSE <<Control(Literal(s, i) - 1)>> \o SubSeq(s, i, i + Literal(s, i) - 1)
                        \o h[i + Literal(s, i)]
  BY <1>8 DEF RleBlock, RleStep
<1>9. Eq(f)
  <2>1. f = [i \in 1 .. n + 1 |-> f[i]]
    OBVIOUS
  <2>2. \A i \in 1 .. n : f[i + RleStep(s, i)] \in Seq(Bytes)
    BY <1>1, <1>4
  <2>3. \A i \in 1 .. n + 1 : i > n <=> i = n + 1
    BY <1>1
  <2>4. \A i \in 1 .. n + 1 : i # n + 1 => i \in 1 .. n
    BY <1>1
  <2>5. \A i \in 1 .. n + 1 :
          f[i] = IF i > n THEN <<>>
             ELSE IF Run(s, i) >= MinRuns
               THEN <<Control(1 - Run(s, i)), s[i]>> \o f[i + Run(s, i)]
             ELSE <<Control(Literal(s, i) - 1)>> \o SubSeq(s, i, i + Literal(s, i) - 1)
                    \o f[i + Literal(s, i)]
    <3> SUFFICES ASSUME NEW i \in 1 .. n + 1
                 PROVE  f[i] = IF i > n THEN <<>>
             ELSE IF Run(s, i) >= MinRuns
               THEN <<Control(1 - Run(s, i)), s[i]>> \o f[i + Run(s, i)]
             ELSE <<Control(Literal(s, i) - 1)>> \o SubSeq(s, i, i + Literal(s, i) - 1)
                    \o f[i + Literal(s, i)]
      OBVIOUS
    <3>1. CASE i = n + 1
      BY <1>7, <2>3, <3>1
    <3>2. CASE i # n + 1
      BY <1>7, <1>8, <2>2, <2>3, <2>4, <3>2
    <3> QED
      BY <3>1, <3>2
  <2> QED
    BY <2>1, <2>5
<1>10. Eq(g)
  BY <1>9
<1> HIDE DEF g
<1>11. /\ g = [i \in 1 .. n + 1 |-> g[i]]
       /\ \A i \in 1 .. n + 1 :
            g[i] = IF i > n THEN <<>>
               ELSE IF Run(s, i) >= MinRuns
                 THEN <<Control(1 - Run(s, i)), s[i]>> \o g[i + Run(s, i)]
               ELSE <<Control(Literal(s, i) - 1)>> \o SubSeq(s, i, i + Literal(s, i) - 1)
                      \o g[i + Literal(s, i)]
  BY <1>10
<1> HIDE DEF Eq
<1>12. Step(g)
  <2>1. n + 1 \in 1 .. n + 1 /\ n + 1 > n /\ \A i \in 1 .. n : i \in 1 .. n + 1 /\ ~(i > n)
    BY <1>1
  <2>2. g[n + 1] = <<>>
    BY <1>11, <2>1
  <2>3. \A i \in 1 .. n : g[i] = RleBlock(s, i) \o g[i + RleStep(s, i)]
    BY <1>11, <2>1 DEF RleBlock, RleStep
  <2> QED
    BY <2>2, <2>3
<1>13. \A i \in 1 .. n + 1 : g[i] \in Seq(Bytes)
  <2> HIDE DEF next
  <2>1. \A i \in 1 .. n : g[next[i]] \in Seq(Bytes) => g[i] \in Seq(Bytes)
    <3> SUFFICES ASSUME NEW i \in 1 .. n, g[next[i]] \in Seq(Bytes) PROVE g[i] \in Seq(Bytes)
      OBVIOUS
    <3>1. g[i] = RleBlock(s, i) \o g[next[i]]
      BY <1>4, <1>12
    <3> QED
      BY <1>2, <3>1
  <2>2. g[n + 1] \in Seq(Bytes) /\ Forward(next, n)
    BY <1>4, <1>12 DEF Forward
  <2> QED
    BY <1>1, <2>1, <2>2, StaysBack
<1>14. g \in [1 .. n + 1 -> Seq(Bytes)]
  BY <1>11, <1>13
<1> QED
  BY <1>3, <1>12, <1>14 DEF n
(* The block that is read at i, and where the next one begins. *)
BlockAt(s, i) ==
  LET c == Signed(s[i]) IN
  CASE c >= 0 -> [out |-> SubSeq(s, i + 1, Min({i + c + 1, Len(s)})), next |-> i + c + 2]
    [] c < 0 /\ c > -MaxRuns ->
         [out |-> IF i < Len(s) THEN [k \in 1 .. 1 - c |-> s[i + 1]] ELSE <<>>, next |-> i + 2]
    [] OTHER -> [out |-> <<>>, next |-> i + 1]

LEMMA MinPair ==
  ASSUME NEW a \in Nat, NEW b \in Nat
  PROVE  Min({a, b}) = IF a <= b THEN a ELSE b
<1>1. Min({a, b}) \in {a, b} /\ \A x \in {a, b} : Min({a, b}) <= x
  <2>1. {a, b} \subseteq Nat /\ {a, b} # {}
    OBVIOUS
  <2> QED
    BY <2>1, MinOK
<1> QED
  BY <1>1

LEMMA SignedIn ==
  ASSUME NEW b \in Bytes
  PROVE  Signed(b) \in Int /\ -MaxRuns <= Signed(b) /\ Signed(b) <= MaxRuns - 1
BY AlphabetNat DEF Signed, Bytes, Alphabet

LEMMA BlockAtOK ==
  ASSUME NEW s \in Seq(Bytes), NEW i \in 1 .. Len(s)
  PROVE  /\ BlockAt(s, i).out \in Seq(Bytes)
         /\ BlockAt(s, i).next \in Nat /\ BlockAt(s, i).next >= i + 1
<1> DEFINE c == Signed(s[i])
<1>1. /\ MaxRuns \in Nat /\ i \in Nat /\ 1 <= i /\ i <= Len(s) /\ Len(s) \in Nat
      /\ c \in Int /\ -MaxRuns <= c
  <2>1. s[i] \in Bytes
    OBVIOUS
  <2>2. c \in Int /\ -MaxRuns <= c
    BY ONLY <2>1, SignedIn
  <2> HIDE DEF c
  <2> QED
    BY <2>2, AlphabetNat
<1>2. \A k \in 1 .. Len(s) : s[k] \in Bytes
  OBVIOUS
<1> HIDE DEF c
<1>3. CASE c >= 0
  <2> DEFINE last == Min({i + c + 1, Len(s)})
  <2>1. last \in Nat /\ last <= Len(s)
    <3>1. i + c + 1 \in Nat
      BY <1>1, <1>3
    <3>2. last = IF i + c + 1 <= Len(s) THEN i + c + 1 ELSE Len(s)
      BY <1>1, <3>1, MinPair
    <3> QED
      BY <1>1, <3>1, <3>2
  <2> HIDE DEF last
  <2>2. SubSeq(s, i + 1, last) \in Seq(Bytes)
    BY <1>1, <2>1
  <2>3. BlockAt(s, i) = [out |-> SubSeq(s, i + 1, last), next |-> i + c + 2]
    BY <1>1, <1>3 DEF BlockAt, c, last
  <2> QED
    BY <1>1, <1>3, <2>2, <2>3
<1>4. CASE c < 0 /\ c > -MaxRuns
  <2> DEFINE o == IF i < Len(s) THEN [k \in 1 .. 1 - c |-> s[i + 1]] ELSE <<>>
  <2>1. o \in Seq(Bytes)
    <3>1. CASE i < Len(s)
      <4>1. s[i + 1] \in Bytes /\ 1 - c \in Nat
        BY <1>1, <1>2, <1>4, <3>1
      <4>2. [k \in 1 .. 1 - c |-> s[i + 1]] \in Seq(Bytes)
        BY <4>1
      <4> QED
        BY <3>1, <4>2
    <3>2. CASE ~(i < Len(s))
      BY <3>2
    <3> QED
      BY <3>1, <3>2
  <2>2. BlockAt(s, i) = [out |-> o, next |-> i + 2]
    BY <1>1, <1>4 DEF BlockAt, c
  <2> HIDE DEF o
  <2> QED
    BY <1>1, <2>1, <2>2
<1>5. CASE ~(c >= 0) /\ ~(c < 0 /\ c > -MaxRuns)
  <2>1. BlockAt(s, i) = [out |-> <<>>, next |-> i + 1]
    BY <1>1, <1>5 DEF BlockAt, c
  <2> QED
    BY <1>1, <2>1
<1> QED
  BY <1>3, <1>4, <1>5

(* What is decoded from i on. *)
RleResults == [ok : BOOLEAN, out : Seq(Bytes)]
CutOff == [ok |-> FALSE, out |-> <<>>]
Put(block, r) == [ok |-> r.ok, out |-> block.out \o r.out]

LEMMA PutOK ==
  ASSUME NEW block, block.out \in Seq(Bytes), NEW r \in RleResults
  PROVE  /\ Put(block, r) \in RleResults
         /\ [r EXCEPT !.out = block.out \o @] = Put(block, r)
<1>1. r.ok \in BOOLEAN /\ r.out \in Seq(Bytes)
  BY DEF RleResults
<1> DEFINE o == block.out \o r.out
<1>2. o \in Seq(Bytes)
  BY <1>1
<1> HIDE DEF o
<1>3. [r EXCEPT !.out = o] = [ok |-> r.ok, out |-> o]
  BY DEF RleResults
<1>4. [ok |-> r.ok, out |-> o] \in RleResults
  BY <1>1, <1>2 DEF RleResults
<1> QED
  BY <1>3, <1>4 DEF Put, o

LEMMA RleDecodes ==
  ASSUME NEW s \in Seq(Bytes)
  PROVE  \E f \in [1 .. Len(s) + 1 -> RleResults] :
           /\ f[Len(s) + 1] = [ok |-> TRUE, out |-> <<>>]
           /\ \A i \in 1 .. Len(s) :
                f[i] = IF BlockAt(s, i).next > Len(s) + 1 THEN CutOff
                       ELSE Put(BlockAt(s, i), f[BlockAt(s, i).next])
           /\ RleDecoded(s) = f[1]
<1> DEFINE n == Len(s)
           B(i) == BlockAt(s, i)
           End == [ok |-> TRUE, out |-> <<>>]
           Body(f, i) == IF i > n THEN End
                         ELSE IF B(i).next > n + 1 THEN CutOff
                         ELSE [f[B(i).next] EXCEPT !.out = B(i).out \o @]
           Eq(f) == f = [i \in 1 .. n + 1 |-> Body(f, i)]
           Step(f) == /\ f[n + 1] = End
                      /\ \A i \in 1 .. n : f[i] = IF B(i).next > n + 1 THEN CutOff
                                                  ELSE Put(B(i), f[B(i).next])
           next == [i \in 1 .. n |-> IF B(i).next > n + 1 THEN n + 1 ELSE B(i).next]
           G == [i \in 1 .. n |-> [r \in RleResults |->
                   IF B(i).next > n + 1 THEN CutOff ELSE Put(B(i), r)]]
           g == CHOOSE f : Eq(f)
<1>1. n \in Nat
  OBVIOUS
<1>2. \A i \in 1 .. n : B(i).out \in Seq(Bytes) /\ B(i).next \in Nat /\ B(i).next >= i + 1
  BY BlockAtOK
<1>3. RleDecoded(s) = g[1]
  BY DEF RleDecoded, BlockAt, CutOff
<1> HIDE DEF n, B
<1>4. /\ next \in [1 .. n -> Nat]
      /\ \A i \in 1 .. n : next[i] = IF B(i).next > n + 1 THEN n + 1 ELSE B(i).next
      /\ Forward(next, n)
  <2>1. \A i \in 1 .. n : (IF B(i).next > n + 1 THEN n + 1 ELSE B(i).next) \in i + 1 .. n + 1
    BY <1>1, <1>2
  <2>2. \A i \in 1 .. n : (IF B(i).next > n + 1 THEN n + 1 ELSE B(i).next) \in Nat
    BY <1>1, <1>2
  <2> QED
    BY <2>1, <2>2 DEF Forward
<1>5. \A i \in 1 .. n : \A r \in RleResults : Put(B(i), r) \in RleResults
  BY <1>2, PutOK
<1>6. CutOff \in RleResults /\ End \in RleResults
  BY DEF RleResults, CutOff
<1>7. G \in [1 .. n -> [RleResults -> RleResults]]
  <2>1. \A i \in 1 .. n : \A r \in RleResults :
          (IF B(i).next > n + 1 THEN CutOff ELSE Put(B(i), r)) \in RleResults
    BY <1>5, <1>6
  <2> QED
    BY <2>1
<1>8. PICK f \in [1 .. n + 1 -> RleResults] : TurnsBack(G, next, End, n, f)
  <2> HIDE DEF G, next, End
  <2> QED
    BY <1>1, <1>4, <1>6, <1>7, RunsBack
<1>9. Step(f)
  <2>1. \A i \in 1 .. n : next[i] \in 1 .. n + 1
    BY <1>1, <1>4 DEF Forward
  <2>2. \A i \in 1 .. n : f[i] = IF B(i).next > n + 1 THEN CutOff ELSE Put(B(i), f[next[i]])
    BY <1>8, <2>1 DEF TurnsBack
  <2> HIDE DEF next, G
  <2> QED
    BY <1>4, <1>8, <2>2 DEF TurnsBack
<1>10. ASSUME NEW h, h[n + 1] = End,
              \A i \in 1 .. n : B(i).next \in 1 .. n + 1 => h[B(i).next] \in RleResults
       PROVE  \A i \in 1 .. n : Body(h, i) = IF B(i).next > n + 1 THEN CutOff
                                             ELSE Put(B(i), h[B(i).next])
  <2> SUFFICES ASSUME NEW i \in 1 .. n
               PROVE  Body(h, i) = IF B(i).next > n + 1 THEN CutOff ELSE Put(B(i), h[B(i).next])
    OBVIOUS
  <2>1. ~(i > n)
    BY <1>1
  <2>2. CASE B(i).next > n + 1
    BY <2>1, <2>2
  <2>3. CASE ~(B(i).next > n + 1)
    <3>1. B(i).next \in 1 .. n + 1
      BY <1>1, <1>2, <2>3
    <3>2. h[B(i).next] \in RleResults
      BY <1>10, <3>1
    <3>3. [h[B(i).next] EXCEPT !.out = B(i).out \o @] = Put(B(i), h[B(i).next])
      BY ONLY <1>2, <3>2, PutOK
    <3> QED
      BY <2>1, <2>3, <3>3
  <2> QED
    BY <2>2, <2>3
<1>11. Eq(f)
  <2>1. f = [i \in 1 .. n + 1 |-> f[i]]
    OBVIOUS
  <2>2. \A i \in 1 .. n : Body(f, i) = f[i]
    <3> HIDE DEF Body, End
    <3> QED
      BY <1>9, <1>10
  <2>3. \A i \in 1 .. n + 1 : i > n => i = n + 1
    BY <1>1
  <2>4. \A i \in 1 .. n + 1 : ~(i > n) => i \in 1 .. n
    BY <1>1
  <2>5. \A i \in 1 .. n + 1 : f[i] = Body(f, i)
    <3>1. ASSUME NEW i \in 1 .. n + 1, i > n PROVE Body(f, i) = End
      <4> HIDE DEF End, B
      <4> QED
        BY <3>1, ZenonT(40)
    <3> HIDE DEF Body, End
    <3> QED
      BY <1>9, <2>2, <2>3, <2>4, <3>1
  <2> QED
    BY ONLY <2>1, <2>5
<1>12. Eq(g)
  BY <1>11
<1> HIDE DEF g
<1>13. /\ g = [i \in 1 .. n + 1 |-> g[i]]
       /\ \A i \in 1 .. n + 1 : g[i] = Body(g, i)
  <2> HIDE DEF Body
  <2> QED
    BY <1>12
<1>14. g[n + 1] = End
  <2>1. n + 1 \in 1 .. n + 1 /\ n + 1 > n
    BY <1>1
  <2> QED
    BY <1>13, <2>1
<1>15. \A i \in 1 .. n + 1 : g[i] \in RleResults
  <2> SUFFICES \A i \in 1 .. n : g[next[i]] \in RleResults => g[i] \in RleResults
    <3> HIDE DEF next, Eq, End
    <3> QED
      BY <1>1, <1>4, <1>6, <1>14, StaysBack
  <2> SUFFICES ASSUME NEW i \in 1 .. n, g[next[i]] \in RleResults PROVE g[i] \in RleResults
    OBVIOUS
  <2>1. g[i] = Body(g, i) /\ ~(i > n)
    <3>1. i \in 1 .. n + 1 /\ ~(i > n)
      BY <1>1
    <3> HIDE DEF Body
    <3> QED
      BY <1>13, <3>1
  <2>2. CASE B(i).next > n + 1
    BY <1>6, <2>1, <2>2
  <2>3. CASE ~(B(i).next > n + 1)
    <3>1. next[i] = B(i).next
      BY <1>4, <2>3
    <3> HIDE DEF next
    <3>2. g[i] = [g[next[i]] EXCEPT !.out = B(i).out \o @]
      BY <2>1, <2>3, <3>1
    <3>3. [g[next[i]] EXCEPT !.out = B(i).out \o @] = Put(B(i), g[next[i]])
      BY <1>2, PutOK
    <3> QED
      BY <1>5, <3>2, <3>3
  <2> QED
    BY <2>2, <2>3
<1>16. Step(g)
  <2>1. \A i \in 1 .. n : g[i] = Body(g, i)
    <3>1. \A i \in 1 .. n : i \in 1 .. n + 1
      BY <1>1
    <3> HIDE DEF Body
    <3> QED
      BY <1>13, <3>1
  <2> HIDE DEF Body, End
  <2> QED
    BY <1>10, <1>14, <1>15, <2>1
<1>17. g \in [1 .. n + 1 -> RleResults]
  BY <1>13, <1>15
<1> QED
  BY <1>3, <1>16, <1>17 DEF n, B
LEMMA PastFirst ==
  ASSUME NEW S, NEW p \in Seq(S), NEW q \in Seq(S)
  PROVE  /\ p \o q \in Seq(S) /\ Len(p \o q) = Len(p) + Len(q)
         /\ \A k \in 1 .. Len(p) : (p \o q)[k] = p[k]
         /\ \A k \in 1 .. Len(q) : (p \o q)[Len(p) + k] = q[k]
OBVIOUS

LEMMA FirstThen ==
  ASSUME NEW S, NEW x \in S, NEW w \in Seq(S)
  PROVE  /\ <<x>> \o w \in Seq(S) /\ Len(<<x>> \o w) = Len(w) + 1
         /\ (<<x>> \o w)[1] = x
         /\ \A k \in 1 .. Len(w) : (<<x>> \o w)[k + 1] = w[k]
OBVIOUS

LEMMA Parts ==
  ASSUME NEW X, NEW a, NEW b, X = [out |-> a, next |-> b]
  PROVE  X.out = a /\ X.next = b
OBVIOUS

LEMMA LiteralBlock ==
  ASSUME NEW e, NEW at \in Nat, NEW c \in Nat, Signed(e[at]) = c
  PROVE  /\ BlockAt(e, at).out = SubSeq(e, at + 1, Min({at + c + 1, Len(e)}))
         /\ BlockAt(e, at).next = at + c + 2
<1> DEFINE d == Signed(e[at])
           Long == [out |-> SubSeq(e, at + 1, Min({at + d + 1, Len(e)})), next |-> at + d + 2]
           Same == [out |-> IF at < Len(e) THEN [k \in 1 .. 1 - d |-> e[at + 1]] ELSE <<>>, next |-> at + 2]
           None == [out |-> <<>>, next |-> at + 1]
<1>1. d = c /\ d >= 0 /\ ~(d < 0)
  OBVIOUS
<1>2. BlockAt(e, at) = CASE d >= 0 -> Long [] d < 0 /\ d > -MaxRuns -> Same [] OTHER -> None
  BY DEF BlockAt
<1> HIDE DEF Long, Same, None
<1>3. BlockAt(e, at) = Long
  BY ONLY <1>1, <1>2
<1>4. BlockAt(e, at) = [out |-> SubSeq(e, at + 1, Min({at + c + 1, Len(e)})), next |-> at + c + 2]
  BY ONLY <1>1, <1>3, Zenon DEF Long
<1> DEFINE a == SubSeq(e, at + 1, Min({at + c + 1, Len(e)}))
           b == at + c + 2
           X == BlockAt(e, at)
<1>5. X = [out |-> a, next |-> b]
  BY <1>4
<1> HIDE DEF a, b, X
<1>6. X.out = a /\ X.next = b
  BY ONLY <1>5, Parts
<1> QED
  BY <1>6 DEF a, b, X

(* A block is read as what it was made of, whatever is before and after. *)
Around(e, p, b, rest) == e = (p \o b) \o rest

LEMMA BlockRead ==
  ASSUME NEW s \in Seq(Bytes), NEW i \in 1 .. Len(s),
         NEW p \in Seq(Bytes), NEW rest \in Seq(Bytes),
         NEW e, Around(e, p, RleBlock(s, i), rest)
  PROVE  /\ BlockAt(e, Len(p) + 1).out = SubSeq(s, i, i + RleStep(s, i) - 1)
         /\ BlockAt(e, Len(p) + 1).next = Len(p \o RleBlock(s, i)) + 1
         /\ Len(p \o RleBlock(s, i)) = Len(p) + Len(RleBlock(s, i))
<1> DEFINE at == Len(p) + 1
           l == RleStep(s, i)
           b == RleBlock(s, i)
<1>1. /\ MaxRuns \in Nat /\ MaxRuns > 2 /\ i \in Nat /\ 1 <= i /\ i <= Len(s) /\ Len(s) \in Nat
      /\ l \in 1 .. MaxRuns /\ i + l - 1 <= Len(s)
      /\ b \in Seq(Bytes) /\ Len(b) \in Nat /\ Len(p) \in Nat /\ at = Len(p) + 1 /\ at \in Nat
  <2>1. MaxRuns \in Nat /\ MaxRuns > 2 /\ i \in Nat /\ 1 <= i /\ i <= Len(s) /\ Len(s) \in Nat
    BY AlphabetNat
  <2>2. l \in 1 .. MaxRuns /\ i + l - 1 <= Len(s) /\ b \in Seq(Bytes)
    BY RleBlockOK, Zenon
  <2> HIDE DEF b, l
  <2>3. Len(b) \in Nat /\ Len(p) \in Nat
    BY <2>2
  <2> QED
    BY <2>1, <2>2, <2>3
<1>8. Len(b) = IF Run(s, i) >= MinRuns THEN 2 ELSE l + 1
  BY RleBlockOK
<1>2. \A k \in 1 .. Len(s) : s[k] \in Bytes
  OBVIOUS
<1> HIDE DEF at, l, b
<1>3. /\ Len(e) >= Len(p) + Len(b) /\ Len(e) \in Nat /\ Len(p \o b) = Len(p) + Len(b)
      /\ \A k \in 1 .. Len(b) : e[Len(p) + k] = b[k]
  <2>1. /\ p \o b \in Seq(Bytes) /\ Len(p \o b) = Len(p) + Len(b)
        /\ \A k \in 1 .. Len(b) : (p \o b)[Len(p) + k] = b[k]
    BY <1>1, PastFirst
  <2>2. e = (p \o b) \o rest
    BY DEF b, Around
  <2> DEFINE pb == p \o b
  <2>3. Len(pb) \in Nat /\ Len(b) \in Nat /\ pb \in Seq(Bytes)
    <3>1. pb \in Seq(Bytes) /\ b \in Seq(Bytes)
      BY <1>1, <2>1
    <3> QED
      BY ONLY <3>1, LenProperties
  <2> HIDE DEF pb
  <2>4. Len(e) >= Len(pb) /\ Len(e) \in Nat /\ \A k \in 1 .. Len(pb) : e[k] = pb[k]
    BY <2>2, <2>3 DEF pb
  <2>5. \A k \in 1 .. Len(b) : Len(p) + k \in 1 .. Len(pb)
    BY <1>1, <2>1, <2>3 DEF pb
  <2> QED
    BY <2>1, <2>4, <2>5 DEF pb
<1> DEFINE w == SubSeq(s, i, i + l - 1)
<1>4. w \in Seq(Bytes) /\ Len(w) = l /\ \A k \in 1 .. l : w[k] = s[i + k - 1]
  BY <1>1, <1>2
<1> HIDE DEF w
<1>5. w = [k \in 1 .. l |-> w[k]]
  BY <1>4
<1>6. CASE Run(s, i) >= MinRuns
  <2>1. /\ b = <<Control(1 - l), s[i]>> /\ l = Run(s, i) /\ Len(b) = 2 /\ l >= 3
        /\ b[1] = Control(1 - l) /\ b[2] = s[i]
    BY <1>1, <1>6, <1>8 DEF RleBlock, RleStep, l, b, MinRuns
  <2>2. Signed(e[at]) = 1 - l /\ 1 - l < 0 /\ ~(1 - l >= 0) /\ 1 - l > -MaxRuns
    <3>1. 1 - l \in 1 - MaxRuns .. MaxRuns - 1
      BY <1>1
    <3>2. e[at] = Control(1 - l)
      <4>1. at = Len(p) + 1 /\ 1 \in 1 .. Len(b)
        BY <1>1, <2>1
      <4> QED
        BY <1>3, <2>1, <4>1
    <3>3. Signed(e[at]) = 1 - l
      BY <3>1, <3>2, ControlOK
    <3> QED
      BY <1>1, <2>1, <3>3
  <2>3. at < Len(e) /\ e[at + 1] = s[i] /\ 1 - (1 - l) = l /\ at + 2 = Len(p \o b) + 1
    <3>1. at + 1 = Len(p) + 2 /\ 2 \in 1 .. Len(b)
      BY <1>1, <2>1
    <3>2. e[at + 1] = s[i]
      BY <1>3, <2>1, <3>1
    <3>3. Len(b) = 2
      BY <2>1
    <3>4. 1 - (1 - l) = l
      BY ONLY <1>1
    <3>5. at < Len(e)
      BY ONLY <1>1, <1>3, <3>3
    <3>6. at + 2 = Len(p \o b) + 1
      BY ONLY <1>1, <1>3, <3>3
    <3> QED
      BY ONLY <3>2, <3>4, <3>5, <3>6
  <2>4. BlockAt(e, at).out = [k \in 1 .. l |-> s[i]] /\ BlockAt(e, at).next = at + 2
    BY <2>2, <2>3 DEF BlockAt
  <2>5. \A k \in 1 .. l : w[k] = s[i]
    <3> SUFFICES ASSUME NEW k \in 1 .. l PROVE w[k] = s[i]
      OBVIOUS
    <3>1. CASE k = 1
      BY <1>1, <1>4, <3>1
    <3>2. CASE k # 1
      <4>1. k - 1 \in 1 .. Run(s, i) - 1 /\ i + (k - 1) = i + k - 1
        BY <1>1, <2>1, <3>2
      <4> QED
        BY <1>4, <4>1, RunOK
    <3> QED
      BY <3>1, <3>2
  <2>6. w = [k \in 1 .. l |-> s[i]]
    BY <1>5, <2>5
  <2> QED
    BY <1>3, <2>3, <2>4, <2>6 DEF w, b, at, l
<1>7. CASE ~(Run(s, i) >= MinRuns)
  <2>1. l = Literal(s, i) /\ b = <<Control(l - 1)>> \o w /\ Len(b) = l + 1
    BY <1>1, <1>7, <1>8 DEF RleBlock, RleStep, l, b, w
  <2>2. b[1] = Control(l - 1) /\ \A k \in 1 .. l : b[k + 1] = w[k]
    <3>1. Control(l - 1) \in Bytes
      <4>1. l - 1 \in 1 - MaxRuns .. MaxRuns - 1
        BY <1>1
      <4> QED
        BY <4>1, ControlOK
    <3>2. b = <<Control(l - 1)>> \o w
      BY <2>1
    <3>3. /\ (<<Control(l - 1)>> \o w)[1] = Control(l - 1)
          /\ \A k \in 1 .. Len(w) : (<<Control(l - 1)>> \o w)[k + 1] = w[k]
      BY ONLY <1>4, <3>1, FirstThen
    <3> QED
      BY ONLY <1>4, <3>2, <3>3
  <2>3. Signed(e[at]) = l - 1 /\ l - 1 >= 0
    <3>1. l - 1 \in 1 - MaxRuns .. MaxRuns - 1
      BY <1>1
    <3>2. e[at] = Control(l - 1)
      <4>1. at = Len(p) + 1 /\ 1 \in 1 .. Len(b)
        BY <1>1, <2>1
      <4> QED
        BY <1>3, <2>2, <4>1
    <3>3. Signed(e[at]) = l - 1
      BY <3>1, <3>2, ControlOK
    <3> QED
      BY <1>1, <3>3
  <2>4. Min({at + (l - 1) + 1, Len(e)}) = at + l
    <3>1. Len(b) = l + 1
      BY <2>1
    <3>2. at + (l - 1) + 1 \in Nat /\ at + (l - 1) + 1 = at + l /\ at + l <= Len(e)
      BY ONLY <1>1, <1>3, <3>1
    <3> QED
      BY <1>3, <3>2, MinPair
  <2>5. BlockAt(e, at).out = SubSeq(e, at + 1, at + l) /\ BlockAt(e, at).next = at + (l - 1) + 2
    <3>1. l - 1 \in Nat /\ at \in Nat
      BY <1>1
    <3>2. /\ BlockAt(e, at).out = SubSeq(e, at + 1, Min({at + (l - 1) + 1, Len(e)}))
          /\ BlockAt(e, at).next = at + (l - 1) + 2
      <4> DEFINE c == l - 1
      <4>1. Signed(e[at]) = c /\ c \in Nat
        BY <2>3, <3>1
      <4> HIDE DEF c
      <4>2. /\ BlockAt(e, at).out = SubSeq(e, at + 1, Min({at + c + 1, Len(e)}))
            /\ BlockAt(e, at).next = at + c + 2
        BY ONLY <3>1, <4>1, LiteralBlock, ZenonT(40)
      <4> QED
        BY <4>2 DEF c
    <3> QED
      BY ONLY <2>4, <3>2
  <2>6. at + (l - 1) + 2 = Len(p \o b) + 1
    <3>1. Len(b) = l + 1
      BY <2>1
    <3> QED
      BY ONLY <1>1, <1>3, <3>1
  <2>7. \A k \in 1 .. l : e[at + k] = w[k]
    <3> SUFFICES ASSUME NEW k \in 1 .. l PROVE e[at + k] = w[k]
      OBVIOUS
    <3>1. k + 1 \in 1 .. Len(b) /\ at + k = Len(p) + (k + 1)
      BY <1>1, <2>1
    <3> QED
      BY <1>3, <2>2, <3>1
  <2>8. SubSeq(e, at + 1, at + l) = w
    <3>1. at \in Nat /\ l \in Nat
      BY <1>1
    <3>2. /\ at + 1 \in Int /\ at + l \in Int
          /\ at + 1 <= at + l => (at + l) - (at + 1) + 1 = l
          /\ at + 1 <= at + l
          /\ \A k \in at + 1 .. at + l : k - at \in 1 .. l /\ at + (k - at) = k
      BY <1>1, <3>1
    <3>3. \A k \in at + 1 .. at + l : e[k] \in Bytes
      <4>1. \A k \in 1 .. l : w[k] \in Bytes
        BY <1>4
      <4> QED
        BY <2>7, <3>2, <4>1
    <3> DEFINE v == SubSeq(e, at + 1, at + l)
    <3>4. v \in Seq(Bytes) /\ Len(v) = l /\ \A k \in 1 .. l : v[k] = e[at + k]
      <4>1. v \in Seq(Bytes) /\ Len(v) = l /\ \A k \in 1 .. (at + l) - (at + 1) + 1 : v[k] = e[(at + 1) + k - 1]
        BY <3>2, <3>3, SubSeqProperties
      <4>2. \A k \in 1 .. l : (at + 1) + k - 1 = at + k
        BY <3>1
      <4> HIDE DEF v
      <4> QED
        BY <3>2, <4>1, <4>2
    <3> HIDE DEF v
    <3>5. \A k \in 1 .. Len(v) : v[k] = w[k]
      BY <2>7, <3>4
    <3>6. v = w
      BY <1>4, <3>4, <3>5, SeqEqual
    <3> QED
      BY <3>6 DEF v
  <2> QED
    BY <1>3, <2>5, <2>6, <2>8 DEF w, b, at, l
<1> QED
  BY <1>6, <1>7
LEMMA BytesAssociate ==
  \A p, q, r \in Seq(Bytes) : (p \o q) \o r = p \o (q \o r)
BY ConcatAssociative

(* RLE is undone (encoders/bra_rle.c), whatever the runs and literals, and *)
(* wherever a run is cut at its limit: reading from behind p, where        *)
(* encoding s from i on was put, gives s from i on.                        *)
THEOREM RleUndone ==
  ASSUME NEW s \in Seq(Bytes)
  PROVE  RleEncoded(s) \in Seq(Bytes) /\ RleDecoded(RleEncoded(s)) = [ok |-> TRUE, out |-> s]
<1> DEFINE n == Len(s)
           e == RleEncoded(s)
           B(i) == RleBlock(s, i)
           l(i) == RleStep(s, i)
           Rest(i) == SubSeq(s, i, n)
<1>1. PICK f \in [1 .. n + 1 -> Seq(Bytes)] :
        /\ f[n + 1] = <<>>
        /\ \A i \in 1 .. n : f[i] = B(i) \o f[i + l(i)]
        /\ e = f[1]
  BY RleEncodes
<1>2. n \in Nat /\ e \in Seq(Bytes)
  BY <1>1
<1> HIDE DEF e
<1>3. PICK g \in [1 .. Len(e) + 1 -> RleResults] :
        /\ g[Len(e) + 1] = [ok |-> TRUE, out |-> <<>>]
        /\ \A i \in 1 .. Len(e) :
             g[i] = IF BlockAt(e, i).next > Len(e) + 1 THEN CutOff
                    ELSE Put(BlockAt(e, i), g[BlockAt(e, i).next])
        /\ RleDecoded(e) = g[1]
  BY <1>2, RleDecodes
<1>4. \A i \in 1 .. n : /\ l(i) \in 1 .. MaxRuns /\ i + l(i) - 1 <= n /\ i + l(i) \in i + 1 .. n + 1
                        /\ B(i) \in Seq(Bytes) /\ Len(B(i)) \in Nat /\ Len(B(i)) > 0
  <2> SUFFICES ASSUME NEW i \in 1 .. n
               PROVE  /\ l(i) \in 1 .. MaxRuns /\ i + l(i) - 1 <= n /\ i + l(i) \in i + 1 .. n + 1
                      /\ B(i) \in Seq(Bytes) /\ Len(B(i)) \in Nat /\ Len(B(i)) > 0
    OBVIOUS
  <2>1. MaxRuns \in Nat
    BY AlphabetNat
  <2>2. /\ l(i) \in 1 .. MaxRuns /\ i + l(i) - 1 <= n /\ i + l(i) \in i + 1 .. n + 1
        /\ B(i) \in Seq(Bytes) /\ Len(B(i)) = IF Run(s, i) >= MinRuns THEN 2 ELSE l(i) + 1
    BY RleBlockOK
  <2> HIDE DEF n, B, l
  <2>3. Len(B(i)) = 2 \/ Len(B(i)) = l(i) + 1
    BY <2>2
  <2> QED
    BY <2>1, <2>2, <2>3
<1>5. \A i \in 1 .. n : SubSeq(s, i, i + l(i) - 1) \o Rest(i + l(i)) = Rest(i)
  <2> SUFFICES ASSUME NEW i \in 1 .. n PROVE SubSeq(s, i, i + l(i) - 1) \o Rest(i + l(i)) = Rest(i)
    OBVIOUS
  <2> DEFINE k == i + l(i) - 1
  <2>1. /\ i \in 1 .. Len(s) + 1 /\ k \in i - 1 .. Len(s) /\ Len(s) \in k .. Len(s) /\ k + 1 = i + l(i)
    <3>1. i \in Nat /\ l(i) \in Nat /\ 1 <= l(i) /\ i + l(i) - 1 <= Len(s)
      BY <1>4, AlphabetNat
    <3> HIDE DEF l
    <3> QED
      BY <1>2, <3>1
  <2> HIDE DEF k
  <2>2. SubSeq(s, i, k) \o SubSeq(s, k + 1, Len(s)) = SubSeq(s, i, Len(s))
    BY <2>1, ConcatAdjacentSubSeq
  <2>3. SubSeq(s, i, k) \o SubSeq(s, i + l(i), Len(s)) = SubSeq(s, i, Len(s))
    BY <2>1, <2>2
  <2> QED
    BY ONLY <2>3 DEF k
<1> DEFINE Right(i, p) == e = p \o f[i] => g[Len(p) + 1] = [ok |-> TRUE, out |-> Rest(i)]
           P == {k \in Nat : \A i \in 1 .. n + 1 : n + 1 - i = k => \A p \in Seq(Bytes) : Right(i, p)}
<1> HIDE DEF n, B, l, Rest
<1>6. ASSUME NEW k \in Nat, \A j \in 0 .. k - 1 : j \in P PROVE k \in P
  <2> SUFFICES ASSUME NEW i \in 1 .. n + 1, n + 1 - i = k, NEW p \in Seq(Bytes), e = p \o f[i]
               PROVE  g[Len(p) + 1] = [ok |-> TRUE, out |-> Rest(i)]
    OBVIOUS
  <2>1. CASE i = n + 1
    <3>1. e = p
      <4>1. e = p \o <<>>
        BY <1>1, <2>1
      <4> QED
        BY ONLY <4>1, p \in Seq(Bytes), ConcatEmptySeq
    <3>2. Rest(n + 1) = <<>>
      BY <1>2, SubSeqEmpty DEF Rest
    <3> QED
      BY <1>3, <2>1, <3>1, <3>2
  <2>2. CASE i # n + 1
    <3> DEFINE j == i + l(i)
               pb == p \o B(i)
               next == Len(pb) + 1
               blk == BlockAt(e, Len(p) + 1)
    <3>1. /\ i \in 1 .. n /\ B(i) \in Seq(Bytes) /\ j \in 1 .. n + 1 /\ j > i /\ f[j] \in Seq(Bytes)
          /\ f[i] = B(i) \o f[j] /\ Len(B(i)) \in Nat /\ Len(B(i)) > 0
      <4>1. i \in 1 .. n
        BY <1>2, <2>2
      <4>2. j \in i + 1 .. n + 1
        BY <1>4, <4>1
      <4>3. j \in 1 .. n + 1 /\ j > i
        BY <1>2, <4>1, <4>2
      <4> HIDE DEF j
      <4> QED
        BY <1>1, <1>4, <4>1, <4>3 DEF j
    <3>2. Around(e, p, B(i), f[j])
      <4>1. e = p \o (B(i) \o f[j])
        BY <3>1
      <4>2. (p \o B(i)) \o f[j] = p \o (B(i) \o f[j])
        <5> DEFINE x == B(i)
                   y == f[j]
        <5>1. x \in Seq(Bytes) /\ y \in Seq(Bytes)
          BY <3>1
        <5> HIDE DEF x, y
        <5>2. (p \o x) \o y = p \o (x \o y)
          BY ONLY <5>1, p \in Seq(Bytes), BytesAssociate, Zenon
        <5> QED
          BY <5>2 DEF x, y
      <4> QED
        BY <4>1, <4>2 DEF Around
    <3>3. /\ blk.out = SubSeq(s, i, i + l(i) - 1) /\ blk.next = next
          /\ Len(pb) = Len(p) + Len(B(i))
      <4>1. i \in 1 .. Len(s) /\ RleBlock(s, i) = B(i) /\ f[j] \in Seq(Bytes)
            /\ Around(e, p, RleBlock(s, i), f[j])
        BY <3>1, <3>2 DEF n, B
      <4> HIDE DEF j
      <4> QED
        BY <4>1, BlockRead DEF B, l
    <3>4. e = pb \o f[j] /\ pb \in Seq(Bytes) /\ Len(e) = Len(pb) + Len(f[j]) /\ Len(pb) \in Nat
      <4>1. pb \in Seq(Bytes)
        BY <3>1
      <4>2. e = pb \o f[j]
        BY <3>2 DEF Around
      <4> DEFINE y == f[j]
      <4>3. y \in Seq(Bytes) /\ e = pb \o y
        BY <3>1, <4>2
      <4> HIDE DEF pb, y
      <4>4. Len(pb \o y) = Len(pb) + Len(y) /\ Len(pb) \in Nat
        BY ONLY <4>1, <4>3, PastFirst, LenProperties
      <4> QED
        BY ONLY <4>1, <4>3, <4>4 DEF y
    <3>5. g[next] = [ok |-> TRUE, out |-> Rest(j)]
      <4> DEFINE m == n + 1 - j
      <4>1. m \in 0 .. k - 1
        <5> HIDE DEF j
        <5> QED
          BY <1>2, <3>1
      <4>2. m \in P
        BY <1>6, <4>1
      <4> HIDE DEF j, pb
      <4>3. Right(j, pb)
        BY <3>1, <3>4, <4>2
      <4> QED
        BY <3>4, <4>3
    <3>6. Len(p) + 1 \in 1 .. Len(e) /\ ~(next > Len(e) + 1)
      <4>1. Len(p) \in Nat /\ Len(f[j]) \in Nat
        BY <3>1
      <4> HIDE DEF j, pb
      <4> QED
        BY <3>1, <3>3, <3>4, <4>1
    <3> HIDE DEF blk, pb, next, j
    <3>7. g[Len(p) + 1] = Put(blk, g[next])
      BY <1>3, <3>3, <3>6 DEF blk
    <3>8. Put(blk, g[next]) = [ok |-> TRUE, out |-> blk.out \o Rest(j)]
      BY <3>5 DEF Put
    <3>9. blk.out \o Rest(j) = Rest(i)
      BY <1>5, <3>1, <3>3 DEF j
    <3> QED
      BY <3>7, <3>8, <3>9
  <2> QED
    BY <2>1, <2>2
<1>7. n \in P
  <2>1. \A k \in Nat : k \in P
    <3> HIDE DEF P
    <3> QED
      BY <1>6, ClimbFromAll
  <2> HIDE DEF P
  <2> QED
    BY <1>2, <2>1
<1>8. Right(1, <<>>)
  <2>1. 1 \in 1 .. n + 1 /\ n + 1 - 1 = n /\ <<>> \in Seq(Bytes)
    BY <1>2
  <2> HIDE DEF Right
  <2> QED
    BY <1>7, <2>1
<1>9. e = <<>> \o f[1] /\ Len(<<>>) + 1 = 1
  <2>1. f[1] \in Seq(Bytes)
    BY <1>1, <1>2
  <2> QED
    BY <1>1, <2>1
<1>10. Rest(1) = s
  BY SubSeqFull DEF Rest, n
<1> QED
  BY <1>2, <1>3, <1>8, <1>9, <1>10 DEF e
----------------------------------------------------------------------------
(* How many blocks of size M it takes for m bytes. *)
Blocks(m, M) == (m + M - 1) \div M

LEMMA DivTwo ==
  ASSUME NEW M \in Nat, M > 0, NEW a \in Nat
  PROVE  /\ a \div M \in Nat /\ M * (a \div M) <= a /\ a < M * (a \div M) + M
         /\ M * ((a \div M) + 1) = M * (a \div M) + M
OBVIOUS

LEMMA TimesMono ==
  ASSUME NEW M \in Nat, NEW p \in Nat, NEW q \in Nat, p <= q
  PROVE  M * p <= M * q
<1>1. M * q = M * p + M * (q - p) /\ q - p \in Nat
  OBVIOUS
<1>2. M * (q - p) >= 0
  <2>1. q - p \in Nat
    OBVIOUS
  <2> DEFINE d == q - p
  <2>2. d \in Nat
    BY <2>1
  <2> HIDE DEF d
  <2>3. M * d >= 0
    BY <2>2
  <2> QED
    BY <2>3 DEF d
<1>3. M * p \in Int /\ M * q \in Int /\ M * (q - p) \in Int
  OBVIOUS
<1> QED
  BY <1>1, <1>2, <1>3

LEMMA DivMono ==
  ASSUME NEW M \in Nat, M > 0, NEW a \in Nat, NEW b \in Nat, a <= b
  PROVE  a \div M <= b \div M
<1> DEFINE p == a \div M
           q == b \div M
<1>1. /\ p \in Nat /\ M * p <= a /\ a < M * p + M
      /\ q \in Nat /\ M * q <= b /\ b < M * q + M /\ M * (q + 1) = M * q + M
  BY DivTwo
<1> HIDE DEF p, q
<1>2. ASSUME q + 1 <= p PROVE FALSE
  <2>1. M * (q + 1) <= M * p
    BY <1>1, <1>2, TimesMono
  <2>2. M * p \in Int /\ M * q \in Int /\ M * (q + 1) \in Int
    BY <1>1
  <2> QED
    BY <1>1, <2>1, <2>2
<1>3. p <= q
  BY <1>1, <1>2
<1> QED
  BY <1>3 DEF p, q

BlocksCount(M) ==
  /\ \A m \in Nat : Blocks(m, M) \in Nat /\ (m > 0 => Blocks(m, M) >= 1)
  /\ \A a, b \in Nat : a <= b => Blocks(a, M) <= Blocks(b, M)
  /\ \A m \in Nat : m >= M => Blocks(m - M, M) = Blocks(m, M) - 1

LEMMA BlocksOK ==
  ASSUME NEW M \in Nat, M > 0
  PROVE  BlocksCount(M)
<1>1. \A m \in Nat : m + M - 1 \in Nat
  OBVIOUS
<1>2. ASSUME NEW a \in Nat, NEW b \in Nat, a <= b PROVE Blocks(a, M) <= Blocks(b, M)
  <2>1. a + M - 1 \in Nat /\ b + M - 1 \in Nat /\ a + M - 1 <= b + M - 1
    BY <1>2
  <2> DEFINE x == a + M - 1
             y == b + M - 1
  <2>2. x \in Nat /\ y \in Nat /\ x <= y
    BY <2>1
  <2> HIDE DEF x, y
  <2>3. x \div M <= y \div M
    BY ONLY <2>2, M \in Nat, M > 0, DivMono
  <2> QED
    BY <2>3 DEF x, y, Blocks
<1>3. ASSUME NEW m \in Nat PROVE Blocks(m, M) \in Nat /\ (m > 0 => Blocks(m, M) >= 1)
  <2>1. Blocks(m, M) \in Nat
    BY <1>1, DivTwo DEF Blocks
  <2>2. Blocks(1, M) = 1
    <3>1. 1 + M - 1 = M * 1 + 0 /\ 0 \in 0 .. M - 1
      OBVIOUS
    <3>2. (M * 1 + 0) \div M = 1
      OBVIOUS
    <3> QED
      BY <3>1, <3>2 DEF Blocks
  <2>3. m > 0 => Blocks(1, M) <= Blocks(m, M)
    BY <1>2
  <2> QED
    BY <2>1, <2>2, <2>3
<1>4. ASSUME NEW m \in Nat, m >= M PROVE Blocks(m - M, M) = Blocks(m, M) - 1
  <2> DEFINE x == m - 1
             q == x \div M
             r == x % M
  <2>1. x \in Nat /\ (m - M) + M - 1 = x /\ m + M - 1 = x + M
    BY <1>4
  <2>2. q \in Nat /\ r \in 0 .. M - 1 /\ x = M * q + r
    BY <2>1
  <2>3. x + M = M * (q + 1) + r
    BY <2>1, <2>2
  <2> HIDE DEF q, r
  <2>4. (M * (q + 1) + r) \div M = q + 1
    BY <2>2
  <2>5. Blocks(m - M, M) = q /\ Blocks(m, M) = q + 1
    BY <2>1, <2>3, <2>4 DEF Blocks, q
  <2> QED
    BY <2>2, <2>5
<1> QED
  BY <1>2, <1>3, <1>4 DEF BlocksCount

(* RLE makes a chunk longer by one byte in MaxRuns at most, since a literal *)
(* block that is not full ends at a run, and a run saves a byte.           *)
LEMMA RleIsBounded ==
  ASSUME NEW s \in Seq(Bytes)
  PROVE  Len(RleEncoded(s)) <= Len(s) + (Len(s) + MaxRuns - 1) \div MaxRuns
<1> DEFINE n == Len(s)
           B(i) == RleBlock(s, i)
           l(i) == RleStep(s, i)
           c(m) == Blocks(m, MaxRuns)
           Full(i) == Run(s, i) >= MinRuns
<1>1. PICK f \in [1 .. n + 1 -> Seq(Bytes)] :
        /\ f[n + 1] = <<>>
        /\ \A i \in 1 .. n : f[i] = B(i) \o f[i + l(i)]
        /\ RleEncoded(s) = f[1]
  BY RleEncodes
<1>2. /\ n \in Nat /\ MaxRuns \in Nat /\ MaxRuns > 2
  BY AlphabetNat
<1>3. /\ \A m \in Nat : c(m) \in Nat /\ (m > 0 => c(m) >= 1)
      /\ \A a, b \in Nat : a <= b => c(a) <= c(b)
      /\ \A m \in Nat : m >= MaxRuns => c(m - MaxRuns) = c(m) - 1
  <2>1. BlocksCount(MaxRuns)
    BY <1>2, BlocksOK
  <2> QED
    BY <2>1 DEF BlocksCount
<1>4. \A i \in 1 .. n :
        /\ l(i) \in 1 .. MaxRuns /\ i + l(i) \in i + 1 .. n + 1
        /\ B(i) \in Seq(Bytes)
        /\ Full(i) => Len(B(i)) = 2 /\ l(i) >= 3
        /\ ~Full(i) => /\ Len(B(i)) = l(i) + 1
                       /\ i + l(i) = n + 1 \/ l(i) = MaxRuns \/ Full(i + l(i))
  <2> SUFFICES ASSUME NEW i \in 1 .. n
               PROVE  /\ l(i) \in 1 .. MaxRuns /\ i + l(i) \in i + 1 .. n + 1
                      /\ B(i) \in Seq(Bytes)
                      /\ Full(i) => Len(B(i)) = 2 /\ l(i) >= 3
                      /\ ~Full(i) => /\ Len(B(i)) = l(i) + 1
                                     /\ i + l(i) = n + 1 \/ l(i) = MaxRuns \/ Full(i + l(i))
    OBVIOUS
  <2>1. /\ l(i) \in 1 .. MaxRuns /\ i + l(i) \in i + 1 .. n + 1 /\ B(i) \in Seq(Bytes)
        /\ Len(B(i)) = IF Full(i) THEN 2 ELSE l(i) + 1
    BY RleBlockOK
  <2>2. CASE Full(i)
    <3>1. l(i) = Run(s, i)
      BY <2>2 DEF RleStep
    <3>2. l(i) >= 3
      BY <2>2, <3>1 DEF MinRuns
    <3> QED
      BY <2>1, <2>2, <3>2
  <2>3. CASE ~Full(i)
    <3>1. l(i) = Literal(s, i)
      BY <2>3 DEF RleStep
    <3>2. Run(s, i) < MinRuns
      <4>1. Run(s, i) \in 1 .. MaxRuns
        BY RunOK
      <4> QED
        BY <1>2, <2>3, <4>1 DEF MinRuns
    <3>3. i + l(i) > n \/ l(i) = MaxRuns \/ Full(i + l(i))
      BY <3>1, <3>2, LiteralOK
    <3> DEFINE j == i + l(i)
    <3>4. j > n => j = n + 1
      <4>1. j \in i + 1 .. n + 1 /\ i \in Nat
        BY <2>1
      <4> HIDE DEF n, j
      <4> QED
        BY <1>2, <4>1
    <3> HIDE DEF n, l, Full, B
    <3> QED
      BY <2>1, <2>3, <3>3, <3>4
  <2> QED
    BY <2>2, <2>3
<1> DEFINE Bound(i) == /\ Len(f[i]) <= (n + 1 - i) + c(n + 1 - i)
                       /\ i <= n /\ Full(i) => Len(f[i]) <= (n + 1 - i) + c(n + 1 - i) - 1
           P == {k \in Nat : \A i \in 1 .. n + 1 : n + 1 - i = k => Bound(i)}
<1> HIDE DEF n, B, l, c, Full
<1>5. ASSUME NEW k \in Nat, \A j \in 0 .. k - 1 : j \in P PROVE k \in P
  <2> SUFFICES ASSUME NEW i \in 1 .. n + 1, n + 1 - i = k PROVE Bound(i)
    OBVIOUS
  <2>1. CASE i = n + 1
    <3>1. Len(f[i]) = 0 /\ ~(i <= n)
      BY <1>1, <1>2, <2>1
    <3>2. k = 0 /\ c(0) \in Nat
      BY <1>2, <1>3, <2>1
    <3> QED
      BY <3>1, <3>2
  <2>2. CASE i # n + 1
    <3> DEFINE j == i + l(i)
               v == l(i)
               h == n + 1 - j
    <3>1. i \in 1 .. n /\ i \in Nat
      BY <1>2, <2>2
    <3>2. v \in 1 .. MaxRuns /\ j \in i + 1 .. n + 1 /\ j = i + v
      BY <1>4, <3>1
    <3> HIDE DEF v, j
    <3>3. j \in 1 .. n + 1 /\ h \in 0 .. k - 1 /\ h = k - v /\ k \in Nat /\ v \in Nat /\ k > 0 /\ h \in Nat
      <4>1. v \in Nat /\ v >= 1 /\ j \in Nat /\ j <= n + 1 /\ j >= 1
        BY <1>2, <3>1, <3>2
      <4>2. h = k - v
        BY <1>2, <3>1, <3>2, <4>1
      <4>3. h >= 0
        BY <1>2, <4>1
      <4> QED
        BY <1>2, <4>1, <4>2, <4>3
    <3>4. Bound(j)
      <4>1. h \in P
        BY <1>5, <3>3
      <4> HIDE DEF Bound
      <4> QED
        BY <3>3, <4>1
    <3>5. Len(f[i]) = Len(B(i)) + Len(f[j]) /\ Len(f[j]) \in Nat
      <4> DEFINE x == B(i)
                 y == f[j]
      <4>1. x \in Seq(Bytes) /\ y \in Seq(Bytes) /\ f[i] = x \o y
        BY <1>1, <1>4, <3>1, <3>3 DEF j
      <4> HIDE DEF x, y
      <4>2. Len(x \o y) = Len(x) + Len(y) /\ Len(y) \in Nat
        BY ONLY <4>1, PastFirst, LenProperties
      <4> QED
        BY <4>1, <4>2 DEF x, y
    <3> HIDE DEF h
    <3>6. h = n + 1 - j
      BY DEF h
    <3>7. c(k) \in Nat /\ c(h) \in Nat /\ c(k) >= 1 /\ c(h) <= c(k)
      <4>1. h \in Nat /\ k \in Nat /\ h <= k /\ k > 0
        BY ONLY <1>2, <3>2, <3>3
      <4> QED
        BY ONLY <1>3, <4>1
    <3>8. Len(f[j]) <= h + c(h) /\ (j <= n /\ Full(j) => Len(f[j]) <= h + c(h) - 1)
      BY <3>4, <3>6
    <3>9. Len(f[i]) <= k + c(k) /\ (Full(i) => Len(f[i]) <= k + c(k) - 1)
      <4>1. CASE Full(i)
        <5>1. Len(B(i)) = 2 /\ v >= 3
          BY <1>4, <3>1, <4>1 DEF v
        <5> QED
          BY <3>3, <3>5, <3>7, <3>8, <5>1
      <4>2. CASE ~Full(i)
        <5>1. Len(B(i)) = v + 1 /\ (j = n + 1 \/ v = MaxRuns \/ Full(j))
          BY <1>4, <3>1, <4>2 DEF v, j
        <5>2. CASE j = n + 1
          <6>1. f[j] = <<>>
            BY <1>1, <5>2
          <6>2. Len(f[j]) = 0
            BY <6>1
          <6>3. h = 0
            BY <1>2, <3>6, <5>2
          <6> QED
            BY <3>3, <3>5, <3>7, <4>2, <5>1, <6>2, <6>3
        <5>3. CASE v = MaxRuns
          <6>1. k >= MaxRuns /\ h = k - MaxRuns
            BY <1>2, <3>3, <5>3
          <6>2. c(h) = c(k) - 1
            BY <1>3, <3>3, <6>1
          <6> QED
            BY <3>3, <3>5, <3>7, <3>8, <4>2, <5>1, <6>2
        <5>4. CASE Full(j) /\ j # n + 1
          <6>1. j <= n
            BY <1>2, <3>3, <5>4
          <6> QED
            BY <3>3, <3>5, <3>7, <3>8, <4>2, <5>1, <5>4, <6>1
        <5> QED
          BY <5>1, <5>2, <5>3, <5>4
      <4> QED
        BY <4>1, <4>2
    <3> QED
      BY <3>9
  <2> QED
    BY <2>1, <2>2
<1>6. n \in P
  <2>1. \A k \in Nat : k \in P
    <3> HIDE DEF P
    <3> QED
      BY <1>5, ClimbFromAll
  <2> HIDE DEF P
  <2> QED
    BY <1>2, <2>1
<1>7. Bound(1)
  <2>1. 1 \in 1 .. n + 1 /\ n + 1 - 1 = n
    BY <1>2
  <2> HIDE DEF Bound
  <2> QED
    BY <1>6, <2>1
<1>8. Len(f[1]) <= n + c(n)
  <2>1. n + 1 - 1 = n
    BY <1>2
  <2> QED
    BY <1>7, <2>1
<1> QED
  BY <1>1, <1>8 DEF c, Blocks, n

----------------------------------------------------------------------------
(* Ranks.  In a strict order of 1 .. n, how many come before each of them  *)
(* numbers them from 0.                                                    *)
StrictOrder(D, n) ==
  /\ D \subseteq (1 .. n) \X (1 .. n)
  /\ \A i \in 1 .. n : <<i, i>> \notin D
  /\ \A i, j, k \in 1 .. n : <<i, j>> \in D /\ <<j, k>> \in D => <<i, k>> \in D
  /\ \A i, j \in 1 .. n : i # j => <<i, j>> \in D \/ <<j, i>> \in D

Below(D, n, i) == {j \in 1 .. n : <<j, i>> \in D}

LEMMA Upward ==
  ASSUME NEW n \in Nat
  PROVE  IsFiniteSet(1 .. n) /\ Cardinality(1 .. n) = n
<1>1. IsFiniteSet(1 .. n) /\ Cardinality(1 .. n) = IF 1 > n THEN 0 ELSE n - 1 + 1
  BY FS_Interval
<1> QED
  BY <1>1

LEMMA BelowLess ==
  ASSUME NEW n \in Nat, NEW D, StrictOrder(D, n),
         NEW i \in 1 .. n, NEW k \in 1 .. n, <<i, k>> \in D
  PROVE  /\ Cardinality(Below(D, n, i)) \in Nat
         /\ Cardinality(Below(D, n, i)) < Cardinality(Below(D, n, k))
<1> DEFINE S == Below(D, n, i)
           T == Below(D, n, k)
<1>1. S \subseteq T /\ i \in T /\ i \notin S /\ T \subseteq 1 .. n
  BY DEF StrictOrder, Below
<1> HIDE DEF S, T
<1>2. IsFiniteSet(T) /\ Cardinality(T) \in Nat
  BY <1>1, Upward, FS_Subset, FS_CardinalityType
<1>3. IsFiniteSet(S) /\ Cardinality(S) \in Nat /\ Cardinality(S) <= Cardinality(T)
  BY <1>1, <1>2, FS_Subset, FS_CardinalityType
<1>4. Cardinality(S) # Cardinality(T)
  BY <1>1, <1>2, FS_Subset
<1> QED
  BY <1>2, <1>3, <1>4 DEF S, T

LEMMA RankIn ==
  ASSUME NEW n \in Nat, NEW D, StrictOrder(D, n), NEW i \in 1 .. n
  PROVE  1 + Cardinality(Below(D, n, i)) \in 1 .. n
<1> DEFINE S == Below(D, n, i)
<1>1. S \subseteq 1 .. n /\ i \notin S
  BY DEF StrictOrder, Below
<1> HIDE DEF S
<1>2. IsFiniteSet(S) /\ Cardinality(S) \in Nat /\ Cardinality(S) <= n
  <2>1. IsFiniteSet(1 .. n) /\ Cardinality(1 .. n) = n
    BY Upward
  <2>2. IsFiniteSet(S) /\ Cardinality(S) <= Cardinality(1 .. n)
    BY <1>1, <2>1, FS_Subset
  <2> QED
    BY <2>1, <2>2, FS_CardinalityType
<1>3. Cardinality(S) # n
  BY <1>1, Upward, FS_Subset
<1> QED
  BY <1>2, <1>3 DEF S

(* A rank for each, and each rank for one. *)
LEMMA Ranked ==
  ASSUME NEW n \in Nat, NEW D, StrictOrder(D, n),
         NEW rank, rank = [i \in 1 .. n |-> 1 + Cardinality(Below(D, n, i))]
  PROVE  /\ rank \in Bijection(1 .. n, 1 .. n)
         /\ \A i, k \in 1 .. n : rank[i] < rank[k] <=> <<i, k>> \in D
<1>1. rank \in [1 .. n -> 1 .. n]
  BY RankIn
<1>2. ASSUME NEW i \in 1 .. n, NEW k \in 1 .. n, <<i, k>> \in D PROVE rank[i] < rank[k]
  <2>1. /\ Cardinality(Below(D, n, i)) \in Nat
        /\ Cardinality(Below(D, n, i)) < Cardinality(Below(D, n, k))
    BY <1>2, BelowLess
  <2>2. rank[i] \in Int /\ rank[k] \in Int
    BY <1>1
  <2>3. rank[i] = 1 + Cardinality(Below(D, n, i)) /\ rank[k] = 1 + Cardinality(Below(D, n, k))
    OBVIOUS
  <2>4. Cardinality(Below(D, n, k)) \in Nat
    <3>1. Below(D, n, k) \subseteq 1 .. n
      BY DEF Below
    <3> QED
      BY <3>1, Upward, FS_Subset, FS_CardinalityType
  <2> QED
    BY ONLY <2>1, <2>3, <2>4
<1>3. ASSUME NEW i \in 1 .. n, NEW k \in 1 .. n, rank[i] < rank[k] PROVE <<i, k>> \in D
  <2>1. rank[i] \in Int /\ rank[k] \in Int
    BY <1>1
  <2>2. CASE i = k
    BY <1>3, <2>1, <2>2
  <2>3. CASE <<k, i>> \in D
    <3>1. rank[k] < rank[i]
      BY <1>2, <2>3
    <3> QED
      BY <1>3, <2>1, <3>1
  <2> QED
    BY <2>2, <2>3 DEF StrictOrder
<1>4. rank \in Injection(1 .. n, 1 .. n)
  <2>1. ASSUME NEW i \in 1 .. n, NEW k \in 1 .. n, i # k PROVE rank[i] # rank[k]
    <3>1. rank[i] \in Int /\ rank[k] \in Int
      BY <1>1
    <3>2. <<i, k>> \in D \/ <<k, i>> \in D
      BY <2>1 DEF StrictOrder
    <3>3. rank[i] < rank[k] \/ rank[k] < rank[i]
      BY <1>2, <3>2
    <3> QED
      BY <3>1, <3>3
  <2> QED
    BY <1>1, <2>1 DEF Injection, IsInjective
<1>5. rank \in Surjection(1 .. n, 1 .. n)
  BY <1>4, Upward, FS_Injection
<1> QED
  BY <1>2, <1>3, <1>4, <1>5 DEF Bijection

(* The other way. *)
WithRank(rank, n) == [p \in 1 .. n |-> CHOOSE i \in 1 .. n : rank[i] = p]

LEMMA Unranked ==
  ASSUME NEW n \in Nat, NEW rank \in Bijection(1 .. n, 1 .. n)
  PROVE  /\ WithRank(rank, n) \in Bijection(1 .. n, 1 .. n)
         /\ \A p \in 1 .. n : rank[WithRank(rank, n)[p]] = p
<1> DEFINE at == WithRank(rank, n)
<1>0. at = [p \in 1 .. n |-> CHOOSE i \in 1 .. n : rank[i] = p]
  BY DEF WithRank
<1> HIDE DEF at
<1>1. \A p \in 1 .. n : \E i \in 1 .. n : rank[i] = p
  BY DEF Bijection, Surjection
<1>2. \A p \in 1 .. n : at[p] \in 1 .. n /\ rank[at[p]] = p
  BY <1>0, <1>1
<1>3. at \in [1 .. n -> 1 .. n]
  BY <1>0, <1>2
<1>4. rank \in [1 .. n -> 1 .. n] /\ \A i, j \in 1 .. n : rank[i] = rank[j] => i = j
  BY DEF Bijection, Injection, IsInjective
<1>5. \A i \in 1 .. n : at[rank[i]] = i
  BY <1>2, <1>4
<1>6. at \in Injection(1 .. n, 1 .. n)
  <2>1. \A p, q \in 1 .. n : at[p] = at[q] => p = q
    BY ONLY <1>2
  <2>2. \A p, q \in DOMAIN at : at[p] = at[q] => p = q
    BY <1>3, <2>1
  <2> QED
    BY ONLY <1>3, <2>2 DEF Injection, IsInjective
<1>7. at \in Surjection(1 .. n, 1 .. n)
  BY <1>3, <1>4, <1>5 DEF Surjection
<1> QED
  BY <1>2, <1>6, <1>7 DEF Bijection, at

----------------------------------------------------------------------------
(* The order of qsort, among words of one length. *)
WordsOf(n) == [1 .. n -> Nat]
Lex(p, q, n) == \E k \in 1 .. n : p[k] < q[k] /\ \A l \in 1 .. k - 1 : p[l] = q[l]

LEMMA LexNever ==
  ASSUME NEW n \in Nat, NEW p \in WordsOf(n)
  PROVE  ~Lex(p, p, n)
BY DEF Lex, WordsOf

LEMMA LexFollows ==
  ASSUME NEW n \in Nat, NEW p \in WordsOf(n), NEW q \in WordsOf(n), NEW r \in WordsOf(n),
         Lex(p, q, n), Lex(q, r, n)
  PROVE  Lex(p, r, n)
<1>1. PICK a \in 1 .. n : p[a] < q[a] /\ \A l \in 1 .. a - 1 : p[l] = q[l]
  BY DEF Lex
<1>2. PICK b \in 1 .. n : q[b] < r[b] /\ \A l \in 1 .. b - 1 : q[l] = r[l]
  BY DEF Lex
<1>3. \A k \in 1 .. n : p[k] \in Nat /\ q[k] \in Nat /\ r[k] \in Nat
  BY DEF WordsOf
<1>4. a \in Nat /\ b \in Nat
  OBVIOUS
<1>5. CASE a < b
  <2>1. a \in 1 .. b - 1 /\ \A l \in 1 .. a - 1 : l \in 1 .. b - 1
    BY <1>4, <1>5
  <2>2. p[a] < r[a] /\ \A l \in 1 .. a - 1 : p[l] = r[l]
    BY <1>1, <1>2, <2>1
  <2> QED
    BY <2>2 DEF Lex
<1>6. CASE b < a
  <2>1. b \in 1 .. a - 1 /\ \A l \in 1 .. b - 1 : l \in 1 .. a - 1
    BY <1>4, <1>6
  <2>2. p[b] < r[b] /\ \A l \in 1 .. b - 1 : p[l] = r[l]
    BY <1>1, <1>2, <2>1
  <2> QED
    BY <2>2 DEF Lex
<1>7. CASE a = b
  <2>1. p[a] < r[a] /\ \A l \in 1 .. a - 1 : p[l] = r[l]
    BY <1>1, <1>2, <1>3, <1>7
  <2> QED
    BY <2>1 DEF Lex
<1> QED
  BY <1>4, <1>5, <1>6, <1>7

LEMMA LexEither ==
  ASSUME NEW n \in Nat, NEW p \in WordsOf(n), NEW q \in WordsOf(n), p # q
  PROVE  Lex(p, q, n) \/ Lex(q, p, n)
<1> DEFINE T == {k \in 1 .. n : p[k] # q[k]}
<1>1. T # {}
  BY DEF WordsOf
<1>2. PICK k \in T : \A l \in T : k <= l
  <2>1. T \subseteq Nat
    OBVIOUS
  <2> HIDE DEF T
  <2> QED
    BY <1>1, <2>1, LeastNat
<1>3. k \in 1 .. n /\ p[k] # q[k] /\ p[k] \in Nat /\ q[k] \in Nat
  BY <1>2 DEF WordsOf
<1>4. \A l \in 1 .. k - 1 : p[l] = q[l]
  <2> SUFFICES ASSUME NEW l \in 1 .. k - 1 PROVE p[l] = q[l]
    OBVIOUS
  <2>1. l \in 1 .. n /\ ~(k <= l)
    BY <1>3
  <2>2. l \notin T
    <3> HIDE DEF T
    <3> QED
      BY <1>2, <2>1
  <2> QED
    BY <2>1, <2>2
<1>5. p[k] < q[k] \/ q[k] < p[k]
  BY <1>3
<1>6. \A l \in 1 .. k - 1 : q[l] = p[l]
  BY <1>4
<1> QED
  BY <1>3, <1>4, <1>5, <1>6 DEF Lex

(* Whatever way the same words are sorted, the same word comes to a place. *)
Rising(R, at, n) == \A p, q \in 1 .. n : p < q => ~Lex(R[at[q]], R[at[p]], n)

LEMMA NotBefore ==
  ASSUME NEW n \in Nat, NEW R \in [1 .. n -> WordsOf(n)],
         NEW a \in Bijection(1 .. n, 1 .. n), NEW b \in Bijection(1 .. n, 1 .. n),
         Rising(R, a, n), Rising(R, b, n), NEW p \in 1 .. n
  PROVE  ~Lex(R[a[p]], R[b[p]], n)
<1>1. /\ a \in [1 .. n -> 1 .. n] /\ \A i, j \in 1 .. n : a[i] = a[j] => i = j
      /\ b \in [1 .. n -> 1 .. n] /\ \A i \in 1 .. n : \E q \in 1 .. n : b[q] = i
  <2>1. /\ a \in [1 .. n -> 1 .. n] /\ b \in [1 .. n -> 1 .. n]
    BY DEF Bijection, Injection
  <2>2. \A i, j \in 1 .. n : a[i] = a[j] => i = j
    BY <2>1 DEF Bijection, Injection, IsInjective
  <2>3. \A i \in 1 .. n : \E q \in 1 .. n : b[q] = i
    BY DEF Bijection, Surjection
  <2> QED
    BY <2>1, <2>2, <2>3
<1> DEFINE x == R[a[p]]
           h == [i \in 1 .. p |-> CHOOSE q \in 1 .. n : b[q] = a[i]]
<1>2. ASSUME Lex(x, R[b[p]], n) PROVE FALSE
  <2>1. \A i \in 1 .. p : i \in 1 .. n /\ a[i] \in 1 .. n
    BY <1>1
  <2>2. \A i \in 1 .. p : h[i] \in 1 .. n /\ b[h[i]] = a[i]
    BY <1>1, <2>1
  <2> HIDE DEF h
  <2>3. ASSUME NEW i \in 1 .. p PROVE h[i] \in 1 .. p - 1
    <3> DEFINE q == h[i]
               y == R[a[i]]
               z == R[b[p]]
    <3>1. q \in 1 .. n /\ y = R[b[q]] /\ x \in WordsOf(n) /\ y \in WordsOf(n) /\ z \in WordsOf(n)
      BY <1>1, <2>1, <2>2
    <3>2. ~Lex(x, y, n)
      <4>1. CASE i = p
        BY <4>1, <3>1, LexNever
      <4>2. CASE i # p
        <5>1. i < p
          BY <4>2
        <5> QED
          BY <2>1, <5>1 DEF Rising
      <4> QED
        BY <4>1, <4>2
    <3>3. ASSUME ~(q < p) PROVE FALSE
      <4>1. ~Lex(y, z, n)
        <5>1. CASE q = p
          BY <3>1, <5>1, LexNever
        <5>2. CASE p < q
          BY <3>1, <5>2 DEF Rising
        <5> QED
          BY <3>1, <3>3, <5>1, <5>2
      <4>2. Lex(x, z, n)
        BY <1>2
      <4> HIDE DEF x, y, z
      <4>3. y = z \/ Lex(z, y, n)
        BY <3>1, <4>1, LexEither
      <4>4. Lex(x, y, n)
        BY <3>1, <4>2, <4>3, LexFollows
      <4> QED
        BY <3>2, <4>4
    <3> HIDE DEF q
    <3>4. q \in 1 .. p - 1
      BY <3>1, <3>3
    <3> QED
      BY <3>4 DEF q
  <2>4. h \in [1 .. p -> 1 .. p - 1]
    <3>1. h = [i \in 1 .. p |-> h[i]]
      BY DEF h
    <3> QED
      BY <2>3, <3>1
  <2>5. PICK i, j \in 1 .. p : i # j /\ h[i] = h[j]
    <3>1. p \in Nat /\ p - 1 \in Nat
      OBVIOUS
    <3>2. IsFiniteSet(1 .. p) /\ Cardinality(1 .. p) = p
      BY <3>1, Upward
    <3>3. IsFiniteSet(1 .. p - 1) /\ Cardinality(1 .. p - 1) = p - 1
      BY <3>1, Upward
    <3>4. Cardinality(1 .. p - 1) < Cardinality(1 .. p)
      BY ONLY <3>1, <3>2, <3>3
    <3> QED
      BY ONLY <2>4, <3>2, <3>3, <3>4, FS_PigeonHole
  <2>6. a[i] = a[j]
    BY <2>2, <2>5
  <2> QED
    BY <1>1, <2>1, <2>5, <2>6
<1> QED
  BY <1>2

LEMMA SameSorted ==
  ASSUME NEW n \in Nat, NEW R \in [1 .. n -> WordsOf(n)],
         NEW a \in Bijection(1 .. n, 1 .. n), NEW b \in Bijection(1 .. n, 1 .. n),
         Rising(R, a, n), Rising(R, b, n), NEW p \in 1 .. n
  PROVE  R[a[p]] = R[b[p]]
<1>1. R[a[p]] \in WordsOf(n) /\ R[b[p]] \in WordsOf(n)
  BY DEF Bijection, Injection
<1>2. ~Lex(R[a[p]], R[b[p]], n) /\ ~Lex(R[b[p]], R[a[p]], n)
  BY NotBefore
<1> QED
  BY <1>1, <1>2, LexEither

(* The order in which SortedRotations has words. *)
WordOrder(R, n) ==
  {e \in (1 .. n) \X (1 .. n) :
     Lex(R[e[1]], R[e[2]], n) \/ (R[e[1]] = R[e[2]] /\ e[1] < e[2])}

LEMMA WordOrderStrict ==
  ASSUME NEW n \in Nat, NEW R \in [1 .. n -> WordsOf(n)]
  PROVE  StrictOrder(WordOrder(R, n), n)
<1> DEFINE D == WordOrder(R, n)
<1>1. \A i, j \in 1 .. n : <<i, j>> \in D <=> Lex(R[i], R[j], n) \/ (R[i] = R[j] /\ i < j)
  BY DEF WordOrder
<1>2. D \subseteq (1 .. n) \X (1 .. n)
  BY DEF WordOrder
<1>3. \A i \in 1 .. n : R[i] \in WordsOf(n)
  OBVIOUS
<1> HIDE DEF D
<1>4. \A i \in 1 .. n : <<i, i>> \notin D
  BY <1>1, <1>3, LexNever
<1>5. ASSUME NEW i \in 1 .. n, NEW j \in 1 .. n, NEW k \in 1 .. n, <<i, j>> \in D, <<j, k>> \in D
      PROVE  <<i, k>> \in D
  <2>1. Lex(R[i], R[j], n) \/ (R[i] = R[j] /\ i < j)
    BY <1>1, <1>5
  <2>2. Lex(R[j], R[k], n) \/ (R[j] = R[k] /\ j < k)
    BY <1>1, <1>5
  <2>3. Lex(R[i], R[j], n) /\ Lex(R[j], R[k], n) => Lex(R[i], R[k], n)
    BY <1>3, LexFollows
  <2>4. i < j /\ j < k => i < k
    OBVIOUS
  <2>5. Lex(R[i], R[k], n) \/ (R[i] = R[k] /\ i < k)
    BY <2>1, <2>2, <2>3, <2>4
  <2> QED
    BY <1>1, <2>5
<1>6. ASSUME NEW i \in 1 .. n, NEW j \in 1 .. n, i # j PROVE <<i, j>> \in D \/ <<j, i>> \in D
  <2>1. CASE R[i] = R[j]
    <3>1. i < j \/ j < i
      BY <1>6
    <3> QED
      BY <1>1, <2>1, <3>1
  <2>2. CASE R[i] # R[j]
    <3>1. Lex(R[i], R[j], n) \/ Lex(R[j], R[i], n)
      BY <1>3, <2>2, LexEither
    <3> QED
      BY <1>1, <3>1
  <2> QED
    BY <2>1, <2>2
<1> QED
  BY <1>2, <1>4, <1>5, <1>6 DEF StrictOrder, D
----------------------------------------------------------------------------
(* The rotations of a chunk, sorted. *)
Rotations(s) == [i \in 1 .. Len(s) |-> Rotation(s, i)]

LEMMA Wrapped ==
  ASSUME NEW n \in Nat, n > 0, NEW x \in Int
  PROVE  x % n \in 0 .. n - 1 /\ (x % n) + 1 \in 1 .. n
OBVIOUS

LEMMA RotationsOK ==
  ASSUME NEW s \in Seq(Bytes)
  PROVE  /\ Rotations(s) \in [1 .. Len(s) -> WordsOf(Len(s))]
         /\ \A i \in 1 .. Len(s) : Rotation(s, i) \in [1 .. Len(s) -> Bytes]
         /\ \A i \in 1 .. Len(s) : Len(Rotation(s, i)) = Len(s)
<1> DEFINE n == Len(s)
<1>1. n \in Nat /\ (\A k \in 1 .. n : s[k] \in Bytes) /\ Bytes \subseteq Nat
  BY AlphabetNat
<1>2. \A i \in 1 .. n : Rotation(s, i) = [k \in 1 .. n |-> s[((i + k - 2) % n) + 1]]
  BY DEF Rotation
<1> HIDE DEF n
<1>3. \A i, k \in 1 .. n : ((i + k - 2) % n) + 1 \in 1 .. n
  BY <1>1, Wrapped
<1>4. \A i \in 1 .. n : Rotation(s, i) \in [1 .. n -> Bytes]
  BY <1>1, <1>2, <1>3
<1>5. \A i \in 1 .. n : Rotation(s, i) \in WordsOf(n)
  BY <1>1, <1>4 DEF WordsOf
<1>6. \A i \in 1 .. n : Len(Rotation(s, i)) = n
  BY <1>1, <1>4
<1> QED
  BY <1>4, <1>5, <1>6 DEF n, Rotations

LEMMA SortedOK ==
  ASSUME NEW s \in Seq(Bytes)
  PROVE  \E row \in Bijection(1 .. Len(s), 1 .. Len(s)) :
           /\ SortedRotations(s) = [r \in 1 .. Len(s) |-> Rotation(s, row[r])]
           /\ \A p, q \in 1 .. Len(s) :
                p < q => <<row[p], row[q]>> \in WordOrder(Rotations(s), Len(s))
<1> DEFINE n == Len(s)
           R == Rotations(s)
           D == WordOrder(R, n)
           rank == [i \in 1 .. n |->
                      1 + Cardinality({j \in 1 .. n : LexLess(R[j], R[i]) \/ (R[j] = R[i] /\ j < i)})]
           row == [p \in 1 .. n |-> CHOOSE i \in 1 .. n : rank[i] = p]
<1>1. n \in Nat /\ R \in [1 .. n -> WordsOf(n)] /\ \A i \in 1 .. n : Len(R[i]) = n /\ R[i] = Rotation(s, i)
  <2>1. n \in Nat /\ R \in [1 .. n -> WordsOf(n)]
    BY RotationsOK
  <2>2. \A i \in 1 .. n : R[i] = Rotation(s, i)
    BY DEF Rotations
  <2> QED
    BY <2>1, <2>2, RotationsOK
<1>2. SortedRotations(s) = [r \in 1 .. n |-> R[CHOOSE i \in 1 .. n : rank[i] = r]]
  BY DEF SortedRotations, Rotations
<1> HIDE DEF n, R, D
<1>3. StrictOrder(D, n)
  BY <1>1, WordOrderStrict DEF D
<1>4. \A i \in 1 .. n :
        {j \in 1 .. n : LexLess(R[j], R[i]) \/ (R[j] = R[i] /\ j < i)} = Below(D, n, i)
  <2>1. \A i, j \in 1 .. n : LexLess(R[j], R[i]) <=> Lex(R[j], R[i], n)
    BY <1>1 DEF LexLess, Lex
  <2>2. \A i, j \in 1 .. n : <<j, i>> \in D <=> Lex(R[j], R[i], n) \/ (R[j] = R[i] /\ j < i)
    BY DEF D, WordOrder
  <2> QED
    BY <2>1, <2>2 DEF Below
<1>5. rank = [i \in 1 .. n |-> 1 + Cardinality(Below(D, n, i))]
  BY <1>4
<1> HIDE DEF rank
<1>6. /\ rank \in Bijection(1 .. n, 1 .. n)
      /\ \A i, k \in 1 .. n : rank[i] < rank[k] <=> <<i, k>> \in D
  BY <1>1, <1>3, <1>5, Ranked
<1>7. /\ row \in Bijection(1 .. n, 1 .. n)
      /\ \A p \in 1 .. n : rank[row[p]] = p
  <2>1. row = WithRank(rank, n)
    BY DEF WithRank
  <2> HIDE DEF row
  <2> QED
    BY <1>1, <1>6, <2>1, Unranked
<1>8. SortedRotations(s) = [r \in 1 .. n |-> R[row[r]]]
  BY <1>2
<1> HIDE DEF row
<1>9. \A p \in 1 .. n : row[p] \in 1 .. n
  BY <1>7 DEF Bijection, Injection
<1>10. SortedRotations(s) = [r \in 1 .. n |-> Rotation(s, row[r])]
  BY <1>1, <1>8, <1>9
<1>11. \A p, q \in 1 .. n : p < q => <<row[p], row[q]>> \in D
  BY <1>6, <1>7, <1>9
<1> QED
  BY <1>7, <1>10, <1>11 DEF n, D, R

(* Places are sorted by the bytes that are there. *)
ByteOrder(s, n) ==
  {e \in (1 .. n) \X (1 .. n) : s[e[1]] < s[e[2]] \/ (s[e[1]] = s[e[2]] /\ e[1] < e[2])}

LEMMA ByteOrderStrict ==
  ASSUME NEW s \in Seq(Bytes)
  PROVE  StrictOrder(ByteOrder(s, Len(s)), Len(s))
<1> DEFINE n == Len(s)
           D == ByteOrder(s, n)
<1>1. n \in Nat /\ \A i \in 1 .. n : s[i] \in Nat
  <2>1. \A i \in 1 .. n : s[i] \in Bytes
    OBVIOUS
  <2>2. n \in Nat
    OBVIOUS
  <2> QED
    BY <2>1, <2>2, AlphabetNat
<1>2. \A i, j \in 1 .. n : <<i, j>> \in D <=> s[i] < s[j] \/ (s[i] = s[j] /\ i < j)
  BY DEF ByteOrder
<1>3. D \subseteq (1 .. n) \X (1 .. n)
  BY DEF ByteOrder
<1> HIDE DEF D, n
<1>4. \A i \in 1 .. n : <<i, i>> \notin D
  BY <1>1, <1>2
<1>5. \A i, j, k \in 1 .. n : <<i, j>> \in D /\ <<j, k>> \in D => <<i, k>> \in D
  <2> SUFFICES ASSUME NEW i \in 1 .. n, NEW j \in 1 .. n, NEW k \in 1 .. n,
                      <<i, j>> \in D, <<j, k>> \in D
               PROVE  <<i, k>> \in D
    OBVIOUS
  <2>1. s[i] < s[j] \/ (s[i] = s[j] /\ i < j)
    BY <1>2
  <2>2. s[j] < s[k] \/ (s[j] = s[k] /\ j < k)
    BY <1>2
  <2>3. s[i] < s[k] \/ (s[i] = s[k] /\ i < k)
    BY <1>1, <2>1, <2>2
  <2> QED
    BY <1>2, <2>3
<1>6. \A i, j \in 1 .. n : i # j => <<i, j>> \in D \/ <<j, i>> \in D
  <2> SUFFICES ASSUME NEW i \in 1 .. n, NEW j \in 1 .. n, i # j
               PROVE  <<i, j>> \in D \/ <<j, i>> \in D
    OBVIOUS
  <2>1. s[i] < s[j] \/ s[j] < s[i] \/ s[i] = s[j]
    BY <1>1
  <2>2. i < j \/ j < i
    OBVIOUS
  <2> QED
    BY <1>2, <2>1, <2>2
<1> QED
  BY <1>3, <1>4, <1>5, <1>6 DEF StrictOrder, D, n

LEMMA TransformOK ==
  ASSUME NEW s \in Seq(Bytes)
  PROVE  /\ Transform(s) \in Bijection(1 .. Len(s), 1 .. Len(s))
         /\ \A p, q \in 1 .. Len(s) :
              p < q => <<Transform(s)[p], Transform(s)[q]>> \in ByteOrder(s, Len(s))
<1> DEFINE n == Len(s)
           D == ByteOrder(s, n)
           UpTo(i) == {j \in 1 .. n : s[j] < s[i] \/ (s[j] = s[i] /\ j <= i)}
           rank == [i \in 1 .. n |-> Cardinality(UpTo(i))]
           at == [p \in 1 .. n |-> CHOOSE i \in 1 .. n : rank[i] = p]
<1>1. n \in Nat /\ \A i \in 1 .. n : s[i] \in Nat
  <2>1. \A i \in 1 .. n : s[i] \in Bytes
    OBVIOUS
  <2>2. n \in Nat
    OBVIOUS
  <2> QED
    BY <2>1, <2>2, AlphabetNat
<1>2. Transform(s) = [p \in 1 .. n |-> CHOOSE i \in 1 .. n : Cardinality(UpTo(i)) = p]
  BY DEF Transform
<1>3. StrictOrder(D, n)
  BY ByteOrderStrict
<1> HIDE DEF n, D
<1>4. ASSUME NEW i \in 1 .. n
      PROVE  Cardinality(UpTo(i)) = 1 + Cardinality(Below(D, n, i))
  <2>1. \A j \in 1 .. n : <<j, i>> \in D <=> s[j] < s[i] \/ (s[j] = s[i] /\ j < i)
    BY DEF D, ByteOrder
  <2>2. \A j \in 1 .. n : j <= i <=> j < i \/ j = i
    OBVIOUS
  <2>3. UpTo(i) = Below(D, n, i) \cup {i}
    BY <2>1, <2>2 DEF Below
  <2>4. i \notin Below(D, n, i) /\ Below(D, n, i) \subseteq 1 .. n
    BY <1>3 DEF Below, StrictOrder
  <2> DEFINE T == Below(D, n, i)
  <2> HIDE DEF T
  <2>5. IsFiniteSet(T) /\ Cardinality(T) \in Nat
    BY <1>1, <2>4, Upward, FS_Subset, FS_CardinalityType DEF T
  <2>6. Cardinality(T \cup {i}) = Cardinality(T) + 1
    BY <2>4, <2>5, FS_AddElement DEF T
  <2>7. UpTo(i) = T \cup {i}
    BY <2>3 DEF T
  <2> HIDE DEF UpTo
  <2> QED
    BY <2>5, <2>6, <2>7 DEF T
<1>5. rank = [i \in 1 .. n |-> 1 + Cardinality(Below(D, n, i))]
  BY <1>4
<1>6. Transform(s) = at
  <2>1. \A p \in 1 .. n : (CHOOSE i \in 1 .. n : Cardinality(UpTo(i)) = p)
                            = CHOOSE i \in 1 .. n : rank[i] = p
    <3>1. \A i \in 1 .. n : rank[i] = Cardinality(UpTo(i))
      OBVIOUS
    <3> HIDE DEF rank, UpTo
    <3> QED
      BY <3>1
  <2> QED
    BY <1>2, <2>1
<1> HIDE DEF rank
<1>7. /\ rank \in Bijection(1 .. n, 1 .. n)
      /\ \A i, k \in 1 .. n : rank[i] < rank[k] <=> <<i, k>> \in D
  BY <1>1, <1>3, <1>5, Ranked
<1>8. /\ at \in Bijection(1 .. n, 1 .. n)
      /\ \A p \in 1 .. n : rank[at[p]] = p
  <2>1. at = WithRank(rank, n)
    BY DEF WithRank
  <2> HIDE DEF at
  <2> QED
    BY <1>1, <1>7, <2>1, Unranked
<1> HIDE DEF at
<1>9. \A p \in 1 .. n : at[p] \in 1 .. n
  BY <1>8 DEF Bijection, Injection
<1>10. \A p, q \in 1 .. n : p < q => <<at[p], at[q]>> \in D
  BY <1>7, <1>8, <1>9
<1> QED
  BY <1>6, <1>8, <1>10 DEF n, D
----------------------------------------------------------------------------
(* The last byte of each, and what comes of a rotation that has it first. *)
RightOf(q, n) == [k \in 1 .. n |-> IF k = 1 THEN q[n] ELSE q[k - 1]]
Former(i, n) == IF i = 1 THEN n ELSE i - 1

LEMMA OneRound ==
  ASSUME NEW n \in Nat, n > 0, NEW x \in Int
  PROVE  (x + n) % n = x % n
<1> DEFINE q == x \div n
           r == x % n
<1>1. q \in Int /\ r \in 0 .. n - 1 /\ x = n * q + r
  OBVIOUS
<1>2. x + n = n * (q + 1) + r
  BY <1>1
<1> HIDE DEF q
<1>3. r \in 0 .. n - 1 => (n * (q + 1) + r) % n = r
  <2> DEFINE z == r
  <2> HIDE DEF r
  <2> QED
    BY <1>1
<1> QED
  BY <1>1, <1>2, <1>3

LEMMA RotatedRight ==
  ASSUME NEW s \in Seq(Bytes), NEW i \in 1 .. Len(s)
  PROVE  /\ Former(i, Len(s)) \in 1 .. Len(s)
         /\ Rotation(s, Former(i, Len(s))) = RightOf(Rotation(s, i), Len(s))
<1> DEFINE n == Len(s)
           f == Former(i, n)
           At(x) == s[(x % n) + 1]
<1>1. n \in Nat /\ n > 0 /\ i \in 1 .. n
  OBVIOUS
<1>2. /\ Rotation(s, i) = [k \in 1 .. n |-> At(i + k - 2)]
      /\ Rotation(s, f) = [k \in 1 .. n |-> At(f + k - 2)]
  BY DEF Rotation
<1> HIDE DEF n
<1>3. f \in 1 .. n
  BY <1>1 DEF Former
<1>4. \A k \in 1 .. n : At(f + k - 2) = IF k = 1 THEN At(i + n - 2) ELSE At(i + (k - 1) - 2)
  <2>1. \A x \in Int : (x + n) % n = x % n
    BY <1>1, OneRound
  <2>2. \A x \in Int : At(x + n) = At(x)
    BY <2>1
  <2> HIDE DEF At
  <2> SUFFICES ASSUME NEW k \in 1 .. n
               PROVE  At(f + k - 2) = IF k = 1 THEN At(i + n - 2) ELSE At(i + (k - 1) - 2)
    OBVIOUS
  <2>3. CASE i = 1
    <3>1. f = n
      BY <2>3 DEF Former
    <3>2. CASE k = 1
      <4>1. f + k - 2 = i + n - 2
        BY <1>1, <2>3, <3>1, <3>2
      <4> QED
        BY <3>2, <4>1
    <3>3. CASE k # 1
      <4>1. f + k - 2 = (i + (k - 1) - 2) + n /\ i + (k - 1) - 2 \in Int
        BY <1>1, <2>3, <3>1
      <4>2. At((i + (k - 1) - 2) + n) = At(i + (k - 1) - 2)
        BY <2>2, <4>1
      <4> QED
        BY <3>3, <4>1, <4>2
    <3> QED
      BY <3>2, <3>3
  <2>4. CASE i # 1
    <3>1. f = i - 1
      BY <2>4 DEF Former
    <3>2. CASE k = 1
      <4>1. i + n - 2 = (f + k - 2) + n /\ f + k - 2 \in Int
        BY <1>1, <3>1, <3>2
      <4>2. At((f + k - 2) + n) = At(f + k - 2)
        BY <2>2, <4>1
      <4> QED
        BY <3>2, <4>1, <4>2
    <3>3. CASE k # 1
      <4>1. f + k - 2 = i + (k - 1) - 2
        BY <1>1, <3>1
      <4> QED
        BY <3>3, <4>1
    <3> QED
      BY <3>2, <3>3
  <2> QED
    BY <2>3, <2>4
<1> HIDE DEF At, f
<1>5. RightOf(Rotation(s, i), n) = [k \in 1 .. n |-> IF k = 1 THEN At(i + n - 2) ELSE At(i + (k - 1) - 2)]
  <2>1. \A k \in 1 .. n : k # 1 => k - 1 \in 1 .. n
    BY <1>1
  <2>2. n \in 1 .. n
    BY <1>1
  <2> QED
    BY <1>2, <2>1, <2>2 DEF RightOf
<1> QED
  BY <1>2, <1>3, <1>4, <1>5 DEF n, f

LEMMA LastOK ==
  ASSUME NEW s \in Seq(Bytes)
  PROVE  /\ LastColumn(s) \in Seq(Bytes) /\ Len(LastColumn(s)) = Len(s)
         /\ \A r \in 1 .. Len(s) : LastColumn(s)[r] = SortedRotations(s)[r][Len(s)]
         /\ \A r \in 1 .. Len(s) : SortedRotations(s)[r] \in [1 .. Len(s) -> Bytes]
<1> DEFINE n == Len(s)
           B == SortedRotations(s)
<1>1. PICK row \in Bijection(1 .. n, 1 .. n) : B = [r \in 1 .. n |-> Rotation(s, row[r])]
  BY SortedOK
<1>2. n \in Nat
  OBVIOUS
<1>3. \A r \in 1 .. n : row[r] \in 1 .. n
  BY DEF Bijection, Injection
<1>4. \A r \in 1 .. n : B[r] \in [1 .. n -> Bytes] /\ Len(B[r]) = n
  <2>1. \A i \in 1 .. n : Rotation(s, i) \in [1 .. n -> Bytes] /\ Len(Rotation(s, i)) = n
    BY RotationsOK
  <2> HIDE DEF n, B
  <2> QED
    BY <1>1, <1>3, <2>1
<1>5. LastColumn(s) = [r \in 1 .. n |-> Last(B[r])]
  BY DEF LastColumn
<1> HIDE DEF n, B
<1>6. LastColumn(s) = [r \in 1 .. n |-> B[r][n]]
  BY <1>4, <1>5 DEF Last
<1>7. \A r \in 1 .. n : B[r][n] \in Bytes
  <2>1. \A r \in 1 .. n : n \in 1 .. n
    BY <1>2
  <2> QED
    BY <1>4, <2>1
<1>8. LastColumn(s) \in Seq(Bytes) /\ Len(LastColumn(s)) = n
  BY <1>2, <1>6, <1>7
<1> QED
  BY <1>4, <1>6, <1>8 DEF n, B

(* The table leads from a rotation to the one that starts a byte later. *)
LEMMA TableLeads ==
  ASSUME NEW s \in Seq(Bytes), NEW p \in 1 .. Len(s)
  PROVE  /\ Transform(LastColumn(s))[p] \in 1 .. Len(s)
         /\ SortedRotations(s)[p]
              = RightOf(SortedRotations(s)[Transform(LastColumn(s))[p]], Len(s))
<1> DEFINE n == Len(s)
           B == SortedRotations(s)
           L == LastColumn(s)
           T == Transform(L)
           R == Rotations(s)
<1>1. PICK row \in Bijection(1 .. n, 1 .. n) :
        /\ B = [r \in 1 .. n |-> Rotation(s, row[r])]
        /\ \A x, y \in 1 .. n : x < y => <<row[x], row[y]>> \in WordOrder(R, n)
  BY SortedOK
<1>2. /\ T \in Bijection(1 .. n, 1 .. n)
      /\ \A x, y \in 1 .. n : x < y => <<T[x], T[y]>> \in ByteOrder(L, n)
  <2>1. L \in Seq(Bytes) /\ Len(L) = n
    BY LastOK
  <2>2. /\ Transform(L) \in Bijection(1 .. Len(L), 1 .. Len(L))
        /\ \A x, y \in 1 .. Len(L) :
             x < y => <<Transform(L)[x], Transform(L)[y]>> \in ByteOrder(L, Len(L))
    <3> HIDE DEF L
    <3> QED
      BY <2>1, TransformOK
  <2> HIDE DEF L, n
  <2> QED
    BY <2>1, <2>2
<1>3. /\ n \in Nat /\ p \in 1 .. n
      /\ R \in [1 .. n -> WordsOf(n)] /\ \A i \in 1 .. n : R[i] = Rotation(s, i)
  BY RotationsOK DEF Rotations
<1>4. \A r \in 1 .. n : B[r] \in WordsOf(n) /\ L[r] = B[r][n]
  <2>1. \A r \in 1 .. n : B[r] \in [1 .. n -> Bytes] /\ L[r] = B[r][n]
    BY LastOK
  <2> QED
    BY <2>1, AlphabetNat DEF WordsOf
<1>5. \A i \in 1 .. n : Former(i, n) \in 1 .. n /\ Rotation(s, Former(i, n)) = RightOf(Rotation(s, i), n)
  BY RotatedRight
<1> HIDE DEF n, B, L, T, R
<1>6. \A x \in 1 .. n : row[x] \in 1 .. n /\ T[x] \in 1 .. n
  BY <1>1, <1>2 DEF Bijection, Injection
<1>7. \A x \in 1 .. n : B[x] = R[row[x]]
  BY <1>1, <1>3, <1>6
<1>8. Rising(R, row, n)
  <2> SUFFICES ASSUME NEW x \in 1 .. n, NEW y \in 1 .. n, x < y, Lex(R[row[y]], R[row[x]], n)
               PROVE  FALSE
    BY DEF Rising
  <2>1. Lex(R[row[x]], R[row[y]], n) \/ R[row[x]] = R[row[y]]
    BY <1>1 DEF WordOrder
  <2>2. R[row[x]] \in WordsOf(n) /\ R[row[y]] \in WordsOf(n)
    BY <1>3, <1>6
  <2> QED
    BY <1>3, <2>1, <2>2, LexFollows, LexNever
<1> DEFINE a == [x \in 1 .. n |-> Former(row[T[x]], n)]
<1>9. \A x \in 1 .. n : a[x] \in 1 .. n /\ R[a[x]] = RightOf(B[T[x]], n)
  <2> SUFFICES ASSUME NEW x \in 1 .. n
               PROVE  a[x] \in 1 .. n /\ R[a[x]] = RightOf(B[T[x]], n)
    OBVIOUS
  <2> DEFINE t == T[x]
             i == row[t]
  <2>1. a[x] = Former(i, n) /\ t \in 1 .. n /\ i \in 1 .. n
    BY <1>6
  <2> HIDE DEF a, t, i
  <2>2. a[x] \in 1 .. n /\ R[a[x]] = RightOf(Rotation(s, i), n)
    BY <1>3, <1>5, <2>1
  <2>3. B[t] = Rotation(s, i)
    BY <1>3, <1>7, <2>1 DEF i
  <2> QED
    BY <2>2, <2>3 DEF t
<1>10. a \in Bijection(1 .. n, 1 .. n)
  <2>1. a \in [1 .. n -> 1 .. n]
    BY <1>9
  <2>2. \A i, j \in 1 .. n : Former(i, n) = Former(j, n) => i = j
    BY <1>3 DEF Former
  <2>3. /\ \A x, y \in 1 .. n : row[x] = row[y] => x = y
        /\ \A x, y \in 1 .. n : T[x] = T[y] => x = y
    <3>1. /\ row \in [1 .. n -> 1 .. n] /\ IsInjective(row)
          /\ T \in [1 .. n -> 1 .. n] /\ IsInjective(T)
      BY <1>1, <1>2 DEF Bijection, Injection
    <3> QED
      BY <3>1 DEF IsInjective
  <2>4. \A x, y \in 1 .. n : a[x] = a[y] => x = y
    <3> SUFFICES ASSUME NEW x \in 1 .. n, NEW y \in 1 .. n, a[x] = a[y] PROVE x = y
      OBVIOUS
    <3>1. row[T[x]] = row[T[y]]
      BY <1>6, <2>2
    <3>2. T[x] = T[y]
      BY <1>6, <2>3, <3>1
    <3> QED
      BY <2>3, <3>2
  <2> HIDE DEF a
  <2>5. a \in Injection(1 .. n, 1 .. n)
    <3>1. \A x, y \in DOMAIN a : a[x] = a[y] => x = y
      BY <2>1, <2>4
    <3> QED
      BY ONLY <2>1, <3>1 DEF Injection, IsInjective
  <2>6. a \in Surjection(1 .. n, 1 .. n)
    BY <1>3, <2>5, Upward, FS_Injection
  <2> QED
    BY <2>5, <2>6 DEF Bijection
<1> HIDE DEF a
<1>11. Rising(R, a, n)
  <2> SUFFICES ASSUME NEW x \in 1 .. n, NEW y \in 1 .. n, x < y, Lex(R[a[y]], R[a[x]], n)
               PROVE  FALSE
    BY DEF Rising
  <2> DEFINE i == T[x]
             j == T[y]
             u == B[i]
             v == B[j]
  <2>1. i \in 1 .. n /\ j \in 1 .. n /\ u \in WordsOf(n) /\ v \in WordsOf(n)
    BY <1>4, <1>6
  <2>2. u[n] < v[n] \/ (u[n] = v[n] /\ i < j)
    <3>1. <<i, j>> \in ByteOrder(L, n)
      BY <1>2
    <3> HIDE DEF i, j
    <3>2. L[i] < L[j] \/ (L[i] = L[j] /\ i < j)
      BY <3>1 DEF ByteOrder
    <3>3. L[i] = u[n] /\ L[j] = v[n]
      BY <1>4, <2>1
    <3> QED
      BY ONLY <3>2, <3>3
  <2>3. Lex(RightOf(v, n), RightOf(u, n), n)
    BY <1>9
  <2>4. i < j => ~Lex(v, u, n)
    BY <1>7, <1>8, <2>1 DEF Rising
  <2> HIDE DEF i, j, u, v
  <2>5. PICK k \in 1 .. n : /\ RightOf(v, n)[k] < RightOf(u, n)[k]
                            /\ \A l \in 1 .. k - 1 : RightOf(v, n)[l] = RightOf(u, n)[l]
    BY <2>3 DEF Lex
  <2>6. \A l \in 1 .. n : /\ RightOf(v, n)[l] = IF l = 1 THEN v[n] ELSE v[l - 1]
                          /\ RightOf(u, n)[l] = IF l = 1 THEN u[n] ELSE u[l - 1]
    BY DEF RightOf
  <2>7. n \in 1 .. n /\ 1 \in 1 .. n /\ u[n] \in Nat /\ v[n] \in Nat
    <3>1. n \in 1 .. n /\ 1 \in 1 .. n
      BY <1>3
    <3> QED
      BY <2>1, <3>1 DEF WordsOf
  <2>8. CASE k = 1
    <3>1. v[n] < u[n]
      BY <2>5, <2>6, <2>7, <2>8
    <3> QED
      BY <2>2, <2>7, <3>1
  <2>9. CASE k # 1
    <3>1. 1 \in 1 .. k - 1 /\ k - 1 \in 1 .. n
      BY <1>3, <2>9
    <3>2. v[n] = u[n]
      BY <2>5, <2>6, <2>7, <3>1
    <3>3. ~Lex(v, u, n)
      BY <2>2, <2>4, <2>7, <3>2
    <3>4. v[k - 1] < u[k - 1]
      BY <2>5, <2>6, <2>9
    <3>5. \A l \in 1 .. (k - 1) - 1 : v[l] = u[l]
      <4> SUFFICES ASSUME NEW l \in 1 .. (k - 1) - 1 PROVE v[l] = u[l]
        OBVIOUS
      <4>1. l + 1 \in 1 .. k - 1 /\ l + 1 \in 1 .. n /\ l + 1 # 1 /\ (l + 1) - 1 = l
        BY <1>3, <3>1
      <4>2. RightOf(v, n)[l + 1] = RightOf(u, n)[l + 1]
        BY <2>5, <4>1
      <4> QED
        BY <2>6, <4>1, <4>2
    <3>6. Lex(v, u, n)
      BY <3>1, <3>4, <3>5 DEF Lex
    <3> QED
      BY <3>3, <3>6
  <2> QED
    BY <2>8, <2>9
<1>12. R[a[p]] = R[row[p]]
  BY <1>1, <1>3, <1>8, <1>10, <1>11, SameSorted
<1> QED
  BY <1>3, <1>6, <1>7, <1>9, <1>12 DEF n, B, L, T
(* What the decoder makes of any bytes, from any of their places. *)
LEMMA BwtDecodes ==
  ASSUME NEW s \in Seq(Bytes), NEW primary \in 0 .. Len(s) - 1
  PROVE  \E index \in [0 .. Len(s) -> 1 .. Len(s)] :
           /\ index[0] = primary + 1
           /\ \A i \in 1 .. Len(s) : index[i] = Transform(s)[index[i - 1]]
           /\ BwtDecoded(s, primary) = [i \in 1 .. Len(s) |-> s[index[i]]]
           /\ BwtDecoded(s, primary) \in Seq(Bytes)
           /\ Len(BwtDecoded(s, primary)) = Len(s)
<1> DEFINE n == Len(s)
           T == Transform(s)
           S == 1 .. n
           Eq(f) == f = [i \in 0 .. n |-> IF i = 0 THEN primary + 1 ELSE T[f[i - 1]]]
           F == [i \in 1 .. n |-> T]
           g == CHOOSE f : Eq(f)
<1>1. n \in Nat /\ primary + 1 \in S /\ \A i \in 1 .. n : s[i] \in Bytes
  OBVIOUS
<1>2. T \in [S -> S]
  BY TransformOK DEF Bijection, Injection
<1>3. BwtDecoded(s, primary) = [i \in 1 .. n |-> s[g[i]]]
  BY DEF BwtDecoded
<1> HIDE DEF n, S, T
<1>4. PICK f \in [0 .. n -> S] : Turns(F, primary + 1, n, f)
  <2>1. F \in [1 .. n -> [S -> S]]
    BY <1>2
  <2> HIDE DEF F
  <2> QED
    BY <1>1, <2>1, Runs
<1>5. Eq(f)
  <2>1. \A i \in 1 .. n : f[i] = T[f[i - 1]]
    BY <1>4 DEF Turns
  <2>2. \A i \in 0 .. n : i = 0 \/ i \in 1 .. n
    BY <1>1
  <2>3. \A i \in 0 .. n : f[i] = IF i = 0 THEN primary + 1 ELSE T[f[i - 1]]
    BY <1>4, <2>1, <2>2 DEF Turns
  <2>4. f = [i \in 0 .. n |-> f[i]]
    OBVIOUS
  <2> QED
    BY <2>3, <2>4
<1>6. Eq(g)
  BY <1>5
<1> HIDE DEF g
<1>7. g[0] = primary + 1 /\ \A i \in 1 .. n : g[i] = T[g[i - 1]]
  <2>1. \A i \in 0 .. n : g[i] = IF i = 0 THEN primary + 1 ELSE T[g[i - 1]]
    BY <1>6
  <2>2. 0 \in 0 .. n /\ \A i \in 1 .. n : i \in 0 .. n /\ i # 0
    BY <1>1
  <2> QED
    BY <2>1, <2>2
<1>8. g \in [0 .. n -> S]
  <2>1. g = [i \in 0 .. n |-> g[i]]
    BY <1>6
  <2> HIDE DEF Eq
  <2>2. Upto(n, g)
    BY <2>1 DEF Upto
  <2>3. g[0] \in S /\ \A i \in 1 .. n : g[i - 1] \in S => g[i] \in S
    BY <1>1, <1>2, <1>7
  <2> QED
    BY <1>1, <2>2, <2>3, Stays
<1>9. BwtDecoded(s, primary) \in Seq(Bytes) /\ Len(BwtDecoded(s, primary)) = n
  <2>1. \A i \in 1 .. n : s[g[i]] \in Bytes
    <3>1. \A i \in 1 .. n : i \in 0 .. n
      BY <1>1
    <3>2. \A i \in 1 .. n : g[i] \in 1 .. n
      BY <1>8, <3>1 DEF S
    <3> QED
      BY <1>1, <3>2
  <2>2. [i \in 1 .. n |-> s[g[i]]] \in Seq(Bytes) /\ Len([i \in 1 .. n |-> s[g[i]]]) = n
    BY <1>1, <2>1
  <2> QED
    BY <1>3, <2>2
<1> QED
  BY <1>3, <1>7, <1>8, <1>9 DEF n, S, T

LEMMA OnceAround ==
  ASSUME NEW n \in Nat, n > 0, NEW x \in 0 .. n - 1
  PROVE  x % n = x /\ (x + n) % n = x
<1>1. x % n = x
  OBVIOUS
<1>2. x \in Int
  OBVIOUS
<1> QED
  BY <1>1, <1>2, OneRound

BwtPath(l, primary, m) ==
  \E index \in [0 .. m -> 1 .. m] :
    /\ index[0] = primary + 1
    /\ \A i \in 1 .. m : index[i] = Transform(l)[index[i - 1]]
    /\ BwtDecoded(l, primary) = [i \in 1 .. m |-> l[index[i]]]

LEMMA BwtPathExists ==
  ASSUME NEW s \in Seq(Bytes), NEW primary \in 0 .. Len(s) - 1
  PROVE  BwtPath(s, primary, Len(s))
BY BwtDecodes DEF BwtPath

(* The Burrows-Wheeler transform is undone (encoders/bra_bwt.c), also of a *)
(* chunk with equal rotations, by any index that qsort may leave: from     *)
(* where the chunk is among its rotations the decoder goes through those   *)
(* that start a byte later each, and finds the chunk in what is last in    *)
(* them.                                                                   *)
THEOREM BwtUndone ==
  ASSUME NEW s \in Seq(Bytes), NEW primary \in PrimaryIndices(s)
  PROVE  /\ primary \in 0 .. Len(s) - 1
         /\ BwtDecoded(LastColumn(s), primary) = s
<1> DEFINE n == Len(s)
           B == SortedRotations(s)
           L == LastColumn(s)
           T == Transform(L)
           At(x) == s[(x % n) + 1]
<1>1. PICK q \in 1 .. n : primary = q - 1 /\ B[q] = s
  BY DEF PrimaryIndices
<1>2. n \in Nat /\ n > 0 /\ primary \in 0 .. n - 1 /\ primary + 1 = q
  BY <1>1
<1>3. L \in Seq(Bytes) /\ Len(L) = n /\ \A r \in 1 .. n : L[r] = B[r][n]
  BY LastOK
<1>4. \A p \in 1 .. n : T[p] \in 1 .. n /\ B[p] = RightOf(B[T[p]], n)
  BY TableLeads
<1>5. PICK index \in [0 .. n -> 1 .. n] :
        /\ index[0] = q
        /\ \A i \in 1 .. n : index[i] = T[index[i - 1]]
        /\ BwtDecoded(L, primary) = [i \in 1 .. n |-> L[index[i]]]
  <2>1. BwtPath(L, primary, Len(L))
    <3>1. primary \in 0 .. Len(L) - 1
      BY <1>2, <1>3
    <3> HIDE DEF L
    <3>2. L \in Seq(Bytes)
      BY <1>3
    <3> QED
      BY <3>1, <3>2, BwtPathExists
  <2>2. Len(L) = n
    BY <1>3
  <2> HIDE DEF n, L
  <2>3. BwtPath(L, primary, n)
    BY <2>1, <2>2
  <2> QED
    BY <1>2, <2>3 DEF BwtPath, T
<1> HIDE DEF n, B, L, T
<1> DEFINE P == {i \in 0 .. n : \A k \in 1 .. n : B[index[i]][k] = At(i + k - 1)}
<1>6. 0 \in P
  <2>1. \A k \in 1 .. n : At(0 + k - 1) = s[k]
    <3> SUFFICES ASSUME NEW k \in 1 .. n PROVE At(0 + k - 1) = s[k]
      OBVIOUS
    <3>1. 0 + k - 1 \in 0 .. n - 1
      BY <1>2
    <3>2. (0 + k - 1) % n = 0 + k - 1
      <4> DEFINE x == 0 + k - 1
      <4> HIDE DEF x
      <4>1. x \in 0 .. n - 1
        BY <3>1 DEF x
      <4>2. x % n = x
        BY <1>2, <4>1, OnceAround
      <4> QED
        BY <4>2 DEF x
    <3>3. ((0 + k - 1) % n) + 1 = k
      BY <3>1, <3>2
    <3> QED
      BY <3>3
  <2> HIDE DEF At
  <2>2. 0 \in 0 .. n
    BY <1>2
  <2>3. B[index[0]] = s
    BY <1>1, <1>5
  <2>4. \A k \in 1 .. n : B[index[0]][k] = At(0 + k - 1)
    BY <2>1, <2>3
  <2> QED
    BY <2>2, <2>4
<1>7. ASSUME NEW i \in 1 .. n, i - 1 \in P PROVE i \in P
  <2> DEFINE b == B[index[i]]
             c == B[index[i - 1]]
  <2>1. \A k \in 1 .. n : c[k] = At((i - 1) + k - 1)
    BY <1>7
  <2>2. c = RightOf(b, n)
    <3>1. i - 1 \in 0 .. n
      BY <1>2
    <3> QED
      BY <1>4, <1>5, <3>1
  <2> HIDE DEF b, c, At
  <2>3. ASSUME NEW k \in 1 .. n PROVE b[k] = At(i + k - 1)
    <3>1. CASE k = n
      <4>1. 1 \in 1 .. n
        BY <1>2
      <4>2. c[1] = b[n]
        BY <2>2, <4>1 DEF RightOf
      <4>3. c[1] = At((i - 1) + 1 - 1)
        BY <2>1, <4>1
      <4>4. (i - 1) + 1 - 1 \in Int /\ ((i - 1) + 1 - 1) + n = i + k - 1
        BY <1>2, <3>1
      <4>5. At(((i - 1) + 1 - 1) + n) = At((i - 1) + 1 - 1)
        BY <1>2, <4>4, OneRound DEF At
      <4> QED
        BY <3>1, <4>2, <4>3, <4>4, <4>5
    <3>2. CASE k # n
      <4>1. k + 1 \in 1 .. n /\ k + 1 # 1 /\ (k + 1) - 1 = k /\ (i - 1) + (k + 1) - 1 = i + k - 1
        BY <1>2, <3>2
      <4>2. c[k + 1] = b[k]
        BY <2>2, <4>1 DEF RightOf
      <4> QED
        BY <2>1, <4>1, <4>2
    <3> QED
      BY <3>1, <3>2
  <2>4. i \in 0 .. n
    BY <1>2
  <2> QED
    BY <2>3, <2>4 DEF b
<1>8. \A i \in 0 .. n : i \in P
  <2> HIDE DEF P
  <2> QED
    BY <1>2, <1>6, <1>7, Climb
<1>9. \A i \in 1 .. n : L[index[i]] = s[i]
  <2> SUFFICES ASSUME NEW i \in 1 .. n PROVE L[index[i]] = s[i]
    OBVIOUS
  <2>1. i \in 0 .. n /\ n \in 1 .. n
    BY <1>2
  <2>0. index[i] \in 1 .. n
    BY <2>1
  <2>2. B[index[i]][n] = At(i + n - 1)
    BY <1>8, <2>1
  <2>7. ((i + n - 1) % n) + 1 = i
    <3> DEFINE x == i - 1
    <3>1. x \in 0 .. n - 1 /\ x + n = i + n - 1 /\ x + 1 = i
      BY <1>2
    <3> HIDE DEF x
    <3>2. (x + n) % n = x
      BY <1>2, <3>1, OnceAround
    <3> QED
      BY <3>1, <3>2
  <2>8. At(i + n - 1) = s[i]
    BY <2>7 DEF At
  <2> HIDE DEF At
  <2>9. L[index[i]] = B[index[i]][n]
    BY <1>3, <2>0
  <2> QED
    BY <2>2, <2>8, <2>9
<1>10. BwtDecoded(L, primary) = [i \in 1 .. n |-> s[i]]
  BY <1>5, <1>9
<1>11. s = [i \in 1 .. n |-> s[i]]
  BY DEF n
<1> QED
  BY <1>2, <1>10, <1>11 DEF L, n

=============================================================================
