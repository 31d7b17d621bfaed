-------------------------- MODULE BraHuffmanProofs --------------------------
(***************************************************************************)
(* What Huffman's encoder and decoder do to every chunk: the codes are     *)
(* apart and leave no dead end, the decoder gives back what was encoded,   *)
(* and no other lengths that a prefix code can have are cheaper.           *)
(***************************************************************************)
EXTENDS BraCodecsProofs

----------------------------------------------------------------------------
(* Powers of two.  The prover knows none but in the size of a power set. *)
LEMMA PowerOK ==
  ASSUME NEW n \in Nat
  PROVE  2 ^ n \in Nat /\ 2 ^ n > 0 /\ 2 ^ (n + 1) = 2 * 2 ^ n
<1> DEFINE S == SUBSET (1 .. n)
           T == SUBSET (1 .. n + 1)
           D == S \X {0, 1}
           f == [p \in D |-> IF p[2] = 0 THEN p[1] ELSE p[1] \cup {n + 1}]
<1>1. /\ IsFiniteSet(S) /\ Cardinality(S) = 2 ^ n
      /\ IsFiniteSet(T) /\ Cardinality(T) = 2 ^ (n + 1)
  <2>1. /\ IsFiniteSet(1 .. n) /\ Cardinality(1 .. n) = n
        /\ IsFiniteSet(1 .. n + 1) /\ Cardinality(1 .. n + 1) = n + 1
    <3>1. n + 1 \in Int /\ n \in Int /\ 1 \in Int
      OBVIOUS
    <3> QED
      BY <3>1, FS_Interval
  <2> QED
    BY <2>1, FS_SUBSET
<1>2. Cardinality(S) \in Nat /\ Cardinality(S) > 0
  <2>1. {} \in S
    OBVIOUS
  <2> HIDE DEF S
  <2>2. Cardinality(S) \in Nat /\ Cardinality(S) # 0
    BY <1>1, <2>1, FS_CardinalityType, FS_EmptySet
  <2> QED
    BY <2>2
<1>3. IsFiniteSet(D) /\ Cardinality(D) = Cardinality(S) * 2
  <2>1. IsFiniteSet({0, 1}) /\ Cardinality({0, 1}) = 2
    <3>1. {0, 1} = {0} \cup {1} /\ 1 \notin {0}
      OBVIOUS
    <3>2. IsFiniteSet({0}) /\ Cardinality({0}) = 1
      BY FS_Singleton
    <3>3. IsFiniteSet({0} \cup {1}) /\ Cardinality({0} \cup {1}) = 1 + 1
      BY <3>1, <3>2, FS_AddElement
    <3> QED
      BY <3>1, <3>3
  <2> HIDE DEF S
  <2> QED
    BY <1>1, <2>1, FS_Product
<1>4. f \in Bijection(D, T)
  <2>1. \A p \in D : f[p] \in T
    OBVIOUS
  <2>2. f \in [D -> T]
    BY <2>1
  <2>3. \A p, q \in D : f[p] = f[q] => p = q
    <3> SUFFICES ASSUME NEW p \in D, NEW q \in D, f[p] = f[q] PROVE p = q
      OBVIOUS
    <3>1. /\ p[1] \in S /\ q[1] \in S /\ p[2] \in {0, 1} /\ q[2] \in {0, 1}
          /\ p = <<p[1], p[2]>> /\ q = <<q[1], q[2]>>
      OBVIOUS
    <3>2. n + 1 \notin p[1] /\ n + 1 \notin q[1]
      BY <3>1
    <3>3. /\ f[p] = IF p[2] = 0 THEN p[1] ELSE p[1] \cup {n + 1}
          /\ f[q] = IF q[2] = 0 THEN q[1] ELSE q[1] \cup {n + 1}
      OBVIOUS
    <3> HIDE DEF f, D, S
    <3>4. p[2] = q[2]
      BY <3>1, <3>2, <3>3
    <3>5. p[1] = f[p] \ {n + 1} /\ q[1] = f[q] \ {n + 1}
      BY <3>2, <3>3
    <3>6. p[1] = q[1]
      BY <3>5
    <3> QED
      BY <3>1, <3>4, <3>6
  <2>4. \A t \in T : \E p \in D : f[p] = t
    <3> SUFFICES ASSUME NEW t \in T PROVE \E p \in D : f[p] = t
      OBVIOUS
    <3>1. CASE n + 1 \in t
      <4>1. t \ {n + 1} \in S
        OBVIOUS
      <4>2. <<t \ {n + 1}, 1>> \in D
        BY <4>1
      <4>3. f[<<t \ {n + 1}, 1>>] = t
        BY <3>1, <4>2
      <4> QED
        BY <4>2, <4>3
    <3>2. CASE n + 1 \notin t
      <4>1. t \in S
        BY <3>2
      <4>2. <<t, 0>> \in D
        BY <4>1
      <4>3. f[<<t, 0>>] = t
        BY <4>2
      <4> QED
        BY <4>2, <4>3
    <3> QED
      BY <3>1, <3>2
  <2> HIDE DEF f, D, T
  <2> QED
    BY <2>2, <2>3, <2>4 DEF Bijection, Injection, Surjection, IsInjective
<1>5. Cardinality(T) = Cardinality(D)
  <2> HIDE DEF f, D, T
  <2> QED
    BY <1>3, <1>4, FS_Bijection DEF ExistsBijection
<1> HIDE DEF S, T, D
<1> QED
  BY <1>1, <1>2, <1>3, <1>5

LEMMA PowerZero == 2 ^ 0 = 1
<1>1. IsFiniteSet({}) /\ Cardinality({}) = 0
  BY FS_EmptySet
<1>2. Cardinality(SUBSET {}) = 2 ^ 0
  BY <1>1, FS_SUBSET
<1>3. SUBSET {} = {{}}
  OBVIOUS
<1> QED
  BY <1>2, <1>3, FS_Singleton
LEMMA PowerAdds ==
  ASSUME NEW m \in Nat, NEW n \in Nat
  PROVE  2 ^ (m + n) = 2 ^ m * 2 ^ n
<1> DEFINE P == {i \in 0 .. n : 2 ^ (m + i) = 2 ^ m * 2 ^ i}
<1>1. 0 \in P
  <2>1. 2 ^ m \in Nat /\ m + 0 = m
    BY PowerOK
  <2> QED
    BY <2>1, PowerZero
<1>2. ASSUME NEW i \in 1 .. n, i - 1 \in P PROVE i \in P
  <2> DEFINE k == i - 1
  <2>1. k \in Nat /\ m + k \in Nat /\ k + 1 = i /\ (m + k) + 1 = m + i
    OBVIOUS
  <2>2. 2 ^ (m + k) = 2 ^ m * 2 ^ k
    BY <1>2
  <2> HIDE DEF k
  <2>3. 2 ^ (k + 1) = 2 * 2 ^ k /\ 2 ^ ((m + k) + 1) = 2 * 2 ^ (m + k)
    BY <2>1, PowerOK
  <2>4. 2 ^ i = 2 * 2 ^ k /\ 2 ^ (m + i) = 2 * 2 ^ (m + k)
    BY <2>1, <2>3
  <2>5. 2 ^ m \in Nat /\ 2 ^ k \in Nat
    BY <2>1, PowerOK
  <2> DEFINE a == 2 ^ m
             b == 2 ^ k
             c == 2 ^ i
             d == 2 ^ (m + i)
             e == 2 ^ (m + k)
  <2>6. d = 2 * (a * b) /\ c = 2 * b /\ a \in Nat /\ b \in Nat
    BY <2>2, <2>4, <2>5
  <2> HIDE DEF a, b, c, d
  <2>7. d = a * c
    BY <2>6
  <2> QED
    BY <2>7 DEF a, c, d
<1>3. \A i \in 0 .. n : i \in P
  <2> HIDE DEF P
  <2> QED
    BY <1>1, <1>2, Climb
<1> QED
  BY <1>3

LEMMA DivIs ==
  ASSUME NEW d \in Nat, d > 0, NEW q \in Int, NEW r \in 0 .. d - 1, NEW x, x = d * q + r
  PROVE  x \div d = q /\ x % d = r
<1>1. x \in Int
  OBVIOUS
<1>2. x % d = r
  OBVIOUS
<1>3. x \div d = q
  OBVIOUS
<1> QED
  BY <1>2, <1>3

LEMMA DivDiv ==
  ASSUME NEW x \in Nat, NEW m \in Nat, m > 0, NEW n \in Nat, n > 0
  PROVE  (x \div m) \div n = x \div (m * n)
<1> DEFINE q == x \div m
           r == x % m
           u == q \div n
           v == q % n
           d == m * n
           w == m * v
<1>1. q \in Int /\ r \in 0 .. m - 1 /\ x = m * q + r
  OBVIOUS
<1> HIDE DEF q, r
<1>2. u \in Int /\ v \in 0 .. n - 1 /\ q = n * u + v
  BY <1>1
<1> HIDE DEF u, v
<1>3. w \in Nat /\ w <= m * (n - 1) /\ m * (n - 1) = d - m /\ d \in Nat /\ d > 0
  <2>1. v \in Nat /\ n - 1 \in Nat /\ v <= n - 1
    BY <1>2
  <2>2. w \in Nat
    BY <2>1
  <2>3. w <= m * (n - 1)
    BY <2>1
  <2>4. m * (n - 1) = d - m
    OBVIOUS
  <2>5. d \in Nat /\ d > 0
    OBVIOUS
  <2> QED
    BY <2>2, <2>3, <2>4, <2>5
<1>4. w + r \in 0 .. d - 1
  <2> HIDE DEF w, d
  <2> QED
    BY <1>1, <1>3
<1>5. x = d * u + (w + r)
  <2>1. m * q = m * (n * u) + m * v
    BY <1>2
  <2>2. m * (n * u) = (m * n) * u
    BY <1>2
  <2>3. w \in Int /\ r \in Int /\ d * u \in Int
    BY <1>1, <1>2, <1>3
  <2> QED
    BY <1>1, <2>1, <2>2, <2>3
<1> DEFINE z == w + r
<1>6. z \in 0 .. d - 1 /\ x = d * u + z
  BY <1>4, <1>5
<1> HIDE DEF d, z
<1>7. x \div d = u
  BY <1>2, <1>3, <1>6, DivIs
<1> QED
  BY <1>7 DEF q, u, d
(* The m lowest bits of a number, the highest first. *)
Digits(x, m) == [j \in 1 .. m |-> (x \div 2 ^ (m - j)) % 2]

LEMMA HalfOf ==
  ASSUME NEW x \in Nat, NEW k \in Nat
  PROVE  /\ x \div 2 ^ k \in Nat
         /\ (x \div 2 ^ k) \div 2 = x \div 2 ^ (k + 1)
         /\ (x \div 2 ^ k) % 2 \in {0, 1}
         /\ x \div 2 ^ k = 2 * (x \div 2 ^ (k + 1)) + ((x \div 2 ^ k) % 2)
<1> DEFINE a == 2 ^ k
           q == x \div a
<1>1. a \in Nat /\ a > 0 /\ 2 ^ (k + 1) = a * 2
  BY PowerOK
<1> HIDE DEF a
<1>2. q \div 2 = x \div (a * 2)
  BY <1>1, DivDiv
<1>3. q \in Nat
  BY <1>1
<1> HIDE DEF q
<1>4. q % 2 \in {0, 1} /\ q = 2 * (q \div 2) + (q % 2)
  BY <1>3
<1> QED
  BY <1>1, <1>2, <1>3, <1>4 DEF a, q

LEMMA BitsOK ==
  ASSUME NEW x \in Nat, NEW m \in Nat
  PROVE  /\ Digits(x, m) \in [1 .. m -> {0, 1}]
         /\ Digits(x, m) \in Seq({0, 1}) /\ Len(Digits(x, m)) = m
<1>1. \A j \in 1 .. m : (x \div 2 ^ (m - j)) % 2 \in {0, 1}
  <2> SUFFICES ASSUME NEW j \in 1 .. m PROVE (x \div 2 ^ (m - j)) % 2 \in {0, 1}
    OBVIOUS
  <2>1. m - j \in Nat
    OBVIOUS
  <2> QED
    BY <2>1, HalfOf
<1>2. Digits(x, m) \in [1 .. m -> {0, 1}]
  BY <1>1 DEF Digits
<1> QED
  BY <1>2

LEMMA SameNumber ==
  ASSUME NEW m \in Nat, NEW p \in 0 .. 2 ^ m - 1, NEW q \in 0 .. 2 ^ m - 1,
         \A j \in 1 .. m : Digits(p, m)[j] = Digits(q, m)[j]
  PROVE  p = q
<1> DEFINE P == {j \in 0 .. m : p \div 2 ^ (m - j) = q \div 2 ^ (m - j)}
           a == 2 ^ m
<1>0. a \in Nat /\ a > 0
  BY PowerOK
<1>1. 0 \in P
  <2>1. p \in 0 .. a - 1 /\ q \in 0 .. a - 1
    OBVIOUS
  <2> HIDE DEF a
  <2>2. p \div a = 0 /\ q \div a = 0
    BY <1>0, <2>1
  <2>3. m - 0 = m /\ 0 \in 0 .. m
    OBVIOUS
  <2> QED
    BY <2>2, <2>3 DEF a
<1>00. p \in Nat /\ q \in Nat
  <2>1. p \in 0 .. a - 1 /\ q \in 0 .. a - 1
    OBVIOUS
  <2> HIDE DEF a
  <2> QED
    BY <1>0, <2>1
<1>2. ASSUME NEW j \in 1 .. m, j - 1 \in P PROVE j \in P
  <2> DEFINE k == m - j
  <2>1. k \in Nat /\ m - (j - 1) = k + 1
    OBVIOUS
  <2>2. p \div 2 ^ (m - (j - 1)) = q \div 2 ^ (m - (j - 1))
    BY <1>2
  <2>3. (p \div 2 ^ k) % 2 = (q \div 2 ^ k) % 2
    BY DEF Digits
  <2> HIDE DEF k
  <2>4. /\ p \div 2 ^ k = 2 * (p \div 2 ^ (k + 1)) + ((p \div 2 ^ k) % 2)
        /\ q \div 2 ^ k = 2 * (q \div 2 ^ (k + 1)) + ((q \div 2 ^ k) % 2)
    BY <1>00, <2>1, HalfOf
  <2>5. p \div 2 ^ (k + 1) = q \div 2 ^ (k + 1)
    BY <2>1, <2>2
  <2>6. p \div 2 ^ k = q \div 2 ^ k
    BY ONLY <2>3, <2>4, <2>5
  <2> QED
    BY <2>6 DEF k
<1>3. \A j \in 0 .. m : j \in P
  <2> HIDE DEF P
  <2> QED
    BY <1>1, <1>2, Climb
<1>4. p \div 2 ^ 0 = q \div 2 ^ 0
  <2>1. m \in 0 .. m /\ m - m = 0
    OBVIOUS
  <2>2. m \in P
    <3> HIDE DEF P
    <3> QED
      BY <1>3, <2>1
  <2> QED
    BY <2>1, <2>2
<1>5. p \div 1 = p /\ q \div 1 = q
  BY <1>00
<1> QED
  BY <1>4, <1>5, PowerZero

LEMMA FirstBits ==
  ASSUME NEW m \in Nat, NEW k \in 0 .. m, NEW x \in Nat
  PROVE  /\ x \div 2 ^ (m - k) \in Nat
         /\ \A j \in 1 .. k : Digits(x, m)[j] = Digits(x \div 2 ^ (m - k), k)[j]
<1>0. m - k \in Nat
  OBVIOUS
<1>1. x \div 2 ^ (m - k) \in Nat
  BY <1>0, HalfOf
<1>2. ASSUME NEW j \in 1 .. k PROVE Digits(x, m)[j] = Digits(x \div 2 ^ (m - k), k)[j]
  <2> DEFINE a == m - k
             b == k - j
  <2>1. a \in Nat /\ b \in Nat /\ m - j = a + b /\ j \in 1 .. m
    OBVIOUS
  <2> HIDE DEF a, b
  <2>2. /\ 2 ^ (a + b) = 2 ^ a * 2 ^ b
        /\ 2 ^ a \in Nat /\ 2 ^ a > 0 /\ 2 ^ b \in Nat /\ 2 ^ b > 0
    BY <2>1, PowerAdds, PowerOK
  <2>3. (x \div 2 ^ a) \div 2 ^ b = x \div (2 ^ a * 2 ^ b)
    BY <2>2, DivDiv
  <2>4. Digits(x, m)[j] = (x \div 2 ^ (a + b)) % 2
    BY <2>1 DEF Digits
  <2>5. Digits(x \div 2 ^ a, k)[j] = ((x \div 2 ^ a) \div 2 ^ b) % 2
    BY DEF Digits, b
  <2> QED
    BY <2>2, <2>3, <2>4, <2>5 DEF a
<1> QED
  BY <1>1, <1>2

LEMMA NumberOf ==
  ASSUME NEW m \in Nat, NEW w \in [1 .. m -> {0, 1}]
  PROVE  \E x \in Nat : x < 2 ^ m /\ Digits(x, m) = w
<1> DEFINE F == [i \in 1 .. m |-> [x \in Nat |-> 2 * x + w[i]]]
<1>1. \A i \in 1 .. m : w[i] \in {0, 1}
  OBVIOUS
<1>2. F \in [1 .. m -> [Nat -> Nat]]
  BY <1>1
<1>3. PICK f \in [0 .. m -> Nat] : Turns(F, 0, m, f)
  <2> HIDE DEF F
  <2> QED
    BY <1>2, Runs
<1>4. f[0] = 0 /\ \A i \in 1 .. m : f[i - 1] \in Nat /\ f[i] \in Nat /\ f[i] = 2 * f[i - 1] + w[i]
  <2>1. \A i \in 1 .. m : i - 1 \in 0 .. m /\ i \in 0 .. m
    OBVIOUS
  <2> QED
    BY <1>3, <2>1 DEF Turns
<1> DEFINE P == {i \in 0 .. m : f[i] < 2 ^ i}
           N == f[m]
           Q == {i \in 0 .. m : N \div 2 ^ (m - i) = f[i]}
<1>5. 0 \in P
  BY <1>4, PowerZero
<1>6. ASSUME NEW i \in 1 .. m, i - 1 \in P PROVE i \in P
  <2> DEFINE k == i - 1
  <2>1. k \in Nat /\ k + 1 = i /\ f[k] \in Nat /\ f[i] = 2 * f[k] + w[i] /\ f[k] < 2 ^ k
    BY <1>4, <1>6
  <2> HIDE DEF k
  <2>2. 2 ^ (k + 1) = 2 * 2 ^ k /\ 2 ^ k \in Nat
    BY <2>1, PowerOK
  <2>3. w[i] \in {0, 1}
    BY <1>1
  <2>4. f[i] < 2 * 2 ^ k
    BY <2>1, <2>2, <2>3
  <2>5. 2 ^ i = 2 ^ (k + 1)
    BY <2>1
  <2>6. f[i] < 2 ^ i
    BY <2>2, <2>4, <2>5
  <2> QED
    BY <2>6
<1>7. \A i \in 0 .. m : i \in P
  <2> HIDE DEF P
  <2> QED
    BY <1>5, <1>6, Climb
<1>8. N \in Nat /\ N < 2 ^ m
  BY <1>7
<1>9. m \in Q
  <2>1. m - m = 0 /\ N \div 1 = N
    BY <1>8
  <2> QED
    BY <2>1, PowerZero
<1>10. ASSUME NEW i \in 0 .. m - 1, i + 1 \in Q PROVE i \in Q
  <2> DEFINE k == m - (i + 1)
             z == N \div 2 ^ k
             u == f[i]
             v == w[i + 1]
  <2>1. k \in Nat /\ k + 1 = m - i /\ i + 1 \in 1 .. m /\ (i + 1) - 1 = i
    OBVIOUS
  <2>2. z = f[i + 1]
    BY <1>10
  <2>3. f[i + 1] = 2 * u + v /\ u \in Nat /\ v \in {0, 1}
    BY <1>1, <1>4, <2>1
  <2>4. z \div 2 = N \div 2 ^ (k + 1)
    <3> HIDE DEF k, N
    <3> QED
      BY <1>8, <2>1, HalfOf
  <2>5. z = 2 * u + v
    BY <2>2, <2>3
  <2> HIDE DEF z, u, v
  <2>6. z \div 2 = u
    BY <2>3, <2>5
  <2> QED
    BY <2>1, <2>4, <2>6 DEF u
<1>11. \A i \in 0 .. m : i \in Q
  <2> HIDE DEF Q
  <2> QED
    BY <1>9, <1>10, Descend
<1>12. ASSUME NEW j \in 1 .. m PROVE Digits(N, m)[j] = w[j]
  <2> DEFINE u == f[j - 1]
             v == w[j]
  <2>1. N \div 2 ^ (m - j) = f[j]
    BY <1>11
  <2>2. f[j] = 2 * u + v /\ u \in Nat /\ v \in {0, 1}
    BY <1>1, <1>4
  <2>3. Digits(N, m)[j] = f[j] % 2
    BY <2>1 DEF Digits
  <2> HIDE DEF u, v
  <2>4. (2 * u + v) % 2 = v
    BY <2>2
  <2> QED
    BY <2>2, <2>3, <2>4 DEF v
<1>13. Digits(N, m) = w
  <2>1. Digits(N, m) = [j \in 1 .. m |-> Digits(N, m)[j]]
    BY DEF Digits
  <2>2. w = [j \in 1 .. m |-> w[j]]
    OBVIOUS
  <2> QED
    BY <1>12, <2>1, <2>2
<1> QED
  BY <1>8, <1>13
----------------------------------------------------------------------------
(* The canonical codes.  Of the 2 ^ l words of length l, u[l] are codes or *)
(* go on from one.                                                         *)
OfLength(lengths, l) == {b \in Bytes : lengths[b] = l}

Levels(lengths, u) ==
  /\ lengths \in [Bytes -> 0 .. Alphabet]
  /\ u \in [0 .. Alphabet -> Nat]
  /\ u[0] = 0
  /\ \A l \in 1 .. Alphabet :
       u[l] = 2 * u[l - 1] + Cardinality(OfLength(lengths, l)) /\ u[l] <= 2 ^ l

LEMMA BytesFinite == IsFiniteSet(Bytes) /\ Cardinality(Bytes) = Alphabet
<1>1. 0 \in Int /\ Alphabet - 1 \in Int /\ ~(0 > Alphabet - 1) /\ (Alphabet - 1) - 0 + 1 = Alphabet
  BY AlphabetNat
<1> DEFINE n == Alphabet - 1
<1> HIDE DEF n
<1>2. n \in Int => IsFiniteSet(0 .. n) /\ Cardinality(0 .. n) = IF 0 > n THEN 0 ELSE n - 0 + 1
  BY FS_Interval
<1> QED
  BY <1>1, <1>2 DEF n, Bytes

LEMMA CountOK ==
  ASSUME NEW S \in SUBSET Bytes
  PROVE  IsFiniteSet(S) /\ Cardinality(S) \in Nat
BY BytesFinite, FS_Subset, FS_CardinalityType

LEMMA FirstCodeOK ==
  ASSUME NEW lengths, NEW u, Levels(lengths, u), NEW len \in 1 .. Alphabet
  PROVE  FirstCode(lengths, len) = 2 * u[len - 1]
<1> DEFINE cnt(l) == Cardinality(OfLength(lengths, l))
           Eq(f) == f = [l \in 1 .. len |-> IF l = 1 THEN 0 ELSE 2 * (f[l - 1] + cnt(l - 1))]
           h == [l \in 1 .. len |-> 2 * u[l - 1]]
           g == CHOOSE f : Eq(f)
<1>1. Alphabet \in Nat /\ len \in Nat /\ \A l \in 0 .. Alphabet : u[l] \in Nat /\ cnt(l) \in Nat
  BY AlphabetNat, CountOK DEF Levels, OfLength
<1>2. FirstCode(lengths, len) = g[len]
  BY DEF FirstCode, OfLength
<1>3. u[0] = 0 /\ \A l \in 1 .. Alphabet : u[l] = 2 * u[l - 1] + cnt(l)
  BY DEF Levels
<1> HIDE DEF cnt
<1>4. \A l \in 2 .. len : 2 * u[l - 1] = 2 * (h[l - 1] + cnt(l - 1))
  <2> SUFFICES ASSUME NEW l \in 2 .. len PROVE 2 * u[l - 1] = 2 * (h[l - 1] + cnt(l - 1))
    OBVIOUS
  <2> DEFINE k == l - 1
  <2>1. k \in 1 .. Alphabet /\ k \in 1 .. len
    BY <1>1
  <2> HIDE DEF k
  <2>2. h[k] = 2 * u[k - 1] /\ u[k] = 2 * u[k - 1] + cnt(k)
    BY <1>3, <2>1
  <2> QED
    BY <2>2 DEF k
<1>5. Eq(h)
  <2>1. \A l \in 1 .. len : h[l] = IF l = 1 THEN 0 ELSE 2 * (h[l - 1] + cnt(l - 1))
    <3> SUFFICES ASSUME NEW l \in 1 .. len
                 PROVE  h[l] = IF l = 1 THEN 0 ELSE 2 * (h[l - 1] + cnt(l - 1))
      OBVIOUS
    <3>1. CASE l = 1
      BY <1>3, <3>1
    <3>2. CASE l # 1
      <4>1. l \in 2 .. len
        BY <3>2
      <4> QED
        BY <1>4, <3>2, <4>1
    <3> QED
      BY <3>1, <3>2
  <2>2. h = [l \in 1 .. len |-> h[l]]
    OBVIOUS
  <2> HIDE DEF h
  <2> QED
    BY <2>1, <2>2
<1>6. Eq(g)
  <2> HIDE DEF h
  <2> QED
    BY <1>5
<1> HIDE DEF g
<1>7. g = [l \in 1 .. len |-> IF l = 1 THEN 0 ELSE 2 * (g[l - 1] + cnt(l - 1))]
  BY <1>6
<1> HIDE DEF Eq
<1> DEFINE P == {i \in 0 .. len - 1 : g[i + 1] = 2 * u[i]}
<1>8. 0 \in P
  <2>1. g[1] = 0 /\ 0 \in 0 .. len - 1
    BY <1>1, <1>7
  <2> QED
    BY <1>3, <2>1
<1>9. ASSUME NEW i \in 1 .. len - 1, i - 1 \in P PROVE i \in P
  <2>1. g[(i - 1) + 1] = 2 * u[i - 1]
    BY <1>9
  <2>2. (i - 1) + 1 = i /\ i + 1 \in 1 .. len /\ i + 1 # 1 /\ (i + 1) - 1 = i /\ i \in 1 .. Alphabet
        /\ i \in 0 .. len - 1
    BY <1>1
  <2>3. g[i + 1] = 2 * (g[i] + cnt(i))
    BY <1>7, <2>2
  <2>4. g[i] = 2 * u[i - 1]
    BY <2>1, <2>2
  <2>5. u[i] = 2 * u[i - 1] + cnt(i)
    BY <1>3, <2>2
  <2> QED
    BY <2>2, <2>3, <2>4, <2>5
<1>10. \A i \in 0 .. len - 1 : i \in P
  <2>1. len - 1 \in Nat
    BY <1>1
  <2> HIDE DEF P
  <2> QED
    BY <1>8, <1>9, <2>1, Climb
<1>11. len - 1 \in 0 .. len - 1 /\ (len - 1) + 1 = len
  BY <1>1
<1> QED
  BY <1>2, <1>10, <1>11

(* The number that a code is the digits of. *)
Index(lengths, b) == Cardinality({x \in 0 .. b - 1 : lengths[x] = lengths[b]})
Number(lengths, b) == FirstCode(lengths, lengths[b]) + Index(lengths, b)

LEMMA IndexOK ==
  ASSUME NEW lengths, NEW b \in Bytes
  PROVE  /\ Index(lengths, b) \in Nat
         /\ Index(lengths, b) < Cardinality(OfLength(lengths, lengths[b]))
         /\ \A x \in Bytes : x < b /\ lengths[x] = lengths[b] => Index(lengths, x) < Index(lengths, b)
<1> DEFINE S(y) == {x \in 0 .. y - 1 : lengths[x] = lengths[y]}
<1>1. \A y \in Bytes : S(y) \subseteq Bytes /\ y \notin S(y) /\ y \in Nat
  BY AlphabetNat DEF Bytes
<1>2. ASSUME NEW T \in SUBSET Bytes, S(b) \subseteq T, b \in T
      PROVE  Cardinality(S(b)) < Cardinality(T) /\ Cardinality(S(b)) \in Nat
  <2>1. IsFiniteSet(T) /\ Cardinality(T) \in Nat /\ Cardinality(S(b)) \in Nat
    BY <1>1, CountOK
  <2>2. b \notin S(b)
    BY <1>1
  <2> HIDE DEF S
  <2>3. Cardinality(S(b)) <= Cardinality(T) /\ (Cardinality(T) = Cardinality(S(b)) => T = S(b))
    BY <1>2, <2>1, FS_Subset
  <2> QED
    BY <1>2, <2>1, <2>2, <2>3
<1>3. Index(lengths, b) = Cardinality(S(b))
  BY DEF Index
<1>4. Cardinality(S(b)) < Cardinality(OfLength(lengths, lengths[b])) /\ Cardinality(S(b)) \in Nat
  <2>1. /\ OfLength(lengths, lengths[b]) \in SUBSET Bytes
        /\ S(b) \subseteq OfLength(lengths, lengths[b]) /\ b \in OfLength(lengths, lengths[b])
    BY <1>1 DEF OfLength
  <2> HIDE DEF S
  <2> QED
    BY <1>2, <2>1
<1>5. ASSUME NEW x \in Bytes, x < b, lengths[x] = lengths[b]
      PROVE  Index(lengths, x) < Index(lengths, b)
  <2>1. S(x) \subseteq S(b) /\ x \in S(b) /\ x \notin S(x)
    BY <1>1, <1>5
  <2>2. S(x) \in SUBSET Bytes /\ S(b) \in SUBSET Bytes
    BY <1>1
  <2>3. Index(lengths, x) = Cardinality(S(x))
    BY DEF Index
  <2> HIDE DEF S
  <2>4. IsFiniteSet(S(b)) /\ Cardinality(S(b)) \in Nat /\ Cardinality(S(x)) \in Nat
    BY <2>2, CountOK
  <2>5. Cardinality(S(x)) <= Cardinality(S(b)) /\ (Cardinality(S(b)) = Cardinality(S(x)) => S(b) = S(x))
    BY <2>1, <2>4, FS_Subset
  <2> QED
    BY <1>3, <2>1, <2>3, <2>4, <2>5
<1> QED
  BY <1>3, <1>4, <1>5

LEMMA NumberIn ==
  ASSUME NEW lengths, NEW u, Levels(lengths, u), NEW b \in Coded(lengths)
  PROVE  /\ b \in Bytes /\ lengths[b] \in 1 .. Alphabet
         /\ u[lengths[b]] \in Nat /\ u[lengths[b] - 1] \in Nat
         /\ Number(lengths, b) \in Nat
         /\ 2 * u[lengths[b] - 1] <= Number(lengths, b)
         /\ Number(lengths, b) < u[lengths[b]]
         /\ Number(lengths, b) = 2 * u[lengths[b] - 1] + Index(lengths, b)
         /\ u[lengths[b]] <= 2 ^ lengths[b]
         /\ Code(lengths, b) = Digits(Number(lengths, b), lengths[b])
         /\ Number(lengths, b) \in 0 .. 2 ^ lengths[b] - 1
<1> DEFINE l == lengths[b]
<1>1. b \in Bytes /\ l \in 1 .. Alphabet /\ l - 1 \in 0 .. Alphabet /\ l \in 0 .. Alphabet /\ l \in Nat
  <2>1. b \in Bytes /\ l > 0
    BY DEF Coded
  <2>2. lengths \in [Bytes -> 0 .. Alphabet]
    BY DEF Levels
  <2>3. l \in 0 .. Alphabet
    BY <2>1, <2>2
  <2> HIDE DEF l
  <2> QED
    BY AlphabetNat, <2>1, <2>3
<1>2. Index(lengths, b) \in Nat /\ Index(lengths, b) < Cardinality(OfLength(lengths, l))
  BY <1>1, IndexOK
<1>3. Code(lengths, b) = Digits(Number(lengths, b), l)
  BY DEF Code, Digits, Number, Index
<1> HIDE DEF l
<1>4. FirstCode(lengths, l) = 2 * u[l - 1]
  BY <1>1, FirstCodeOK
<1>5. u[l] = 2 * u[l - 1] + Cardinality(OfLength(lengths, l)) /\ u[l] <= 2 ^ l
      /\ u[l] \in Nat /\ u[l - 1] \in Nat
  BY <1>1 DEF Levels
<1>6. Number(lengths, b) = 2 * u[l - 1] + Index(lengths, b)
  BY <1>4 DEF Number, l
<1>7. Cardinality(OfLength(lengths, l)) \in Nat /\ 2 ^ l \in Nat
  BY <1>1, CountOK, PowerOK DEF OfLength
<1>8. /\ Number(lengths, b) \in Nat /\ 2 * u[l - 1] <= Number(lengths, b)
      /\ Number(lengths, b) < u[l] /\ Number(lengths, b) <= 2 ^ l - 1
  BY <1>2, <1>5, <1>6, <1>7
<1>9. Number(lengths, b) \in 0 .. 2 ^ l - 1
  BY <1>7, <1>8
<1> QED
  BY ONLY <1>1, <1>3, <1>5, <1>6, <1>8, <1>9 DEF l
(* What is taken of a length stays taken. *)
LEMMA LevelsGrow ==
  ASSUME NEW lengths, NEW u, Levels(lengths, u),
         NEW k \in 1 .. Alphabet, NEW l \in k .. Alphabet
  PROVE  u[l] >= 2 ^ (l - k) * u[k]
<1>0. Alphabet \in Nat /\ k \in Nat /\ l \in Nat /\ k <= l /\ l <= Alphabet /\ k >= 1
  BY AlphabetNat
<1> DEFINE n == l - k
           P == {i \in 0 .. n : u[k + i] >= 2 ^ i * u[k]}
<1>1. n \in Nat /\ \A i \in 0 .. n : k + i \in 1 .. Alphabet /\ k + i \in 0 .. Alphabet
  BY <1>0
<1>2. \A i \in 0 .. n : u[k + i] \in Nat
  BY <1>1 DEF Levels
<1>3. u[k] \in Nat
  BY <1>0 DEF Levels
<1> HIDE DEF n
<1>4. 0 \in P
  <2>1. 0 \in 0 .. n /\ k + 0 = k /\ u[k] >= 1 * u[k]
    BY <1>0, <1>1, <1>3
  <2> QED
    BY <2>1, PowerZero
<1>5. ASSUME NEW i \in 1 .. n, i - 1 \in P PROVE i \in P
  <2> DEFINE j == i - 1
             a == 2 ^ j
             x == u[k + j]
             y == u[k]
             c == Cardinality(OfLength(lengths, k + i))
  <2>1. j \in Nat /\ j + 1 = i /\ (k + i) - 1 = k + j /\ i \in 0 .. n /\ j \in 0 .. n /\ i \in Nat
    BY <1>1
  <2>2. x >= a * y
    BY <1>5
  <2>3. 2 ^ i = 2 * a /\ a \in Nat
    <3> HIDE DEF j
    <3>1. 2 ^ (j + 1) = 2 * 2 ^ j /\ 2 ^ j \in Nat
      BY <2>1, PowerOK
    <3> QED
      BY <2>1, <3>1
  <2>4. u[k + i] = 2 * u[(k + i) - 1] + c
    BY <1>1, <2>1 DEF Levels
  <2>5. u[k + i] = 2 * x + c
    BY <2>1, <2>4
  <2>6. c \in Nat
    BY CountOK DEF OfLength
  <2>7. x \in Nat /\ y \in Nat /\ u[k + i] \in Nat
    BY <1>2, <1>3, <2>1
  <2> DEFINE z == u[k + i]
             b == 2 ^ i
  <2>8. z \in Nat /\ z = 2 * x + c /\ b = 2 * a /\ x >= a * y /\ a * y \in Nat
    BY <2>2, <2>3, <2>5, <2>7
  <2> HIDE DEF a, x, y, c, z, b
  <2>9. b * y = 2 * (a * y)
    BY <2>3, <2>7, <2>8
  <2>10. z >= b * y
    BY <2>6, <2>7, <2>8, <2>9
  <2> QED
    BY <2>1, <2>10 DEF z, b, y
<1>6. \A i \in 0 .. n : i \in P
  <2> HIDE DEF P
  <2> QED
    BY <1>1, <1>4, <1>5, Climb
<1>7. n \in 0 .. n /\ k + n = l
  BY <1>0, <1>1 DEF n
<1> QED
  BY <1>6, <1>7 DEF n

LEMMA PrefixDigits ==
  ASSUME NEW p, NEW q, NEW m \in Nat, NEW n \in Nat, NEW x \in Nat, NEW y \in Nat,
         p = Digits(x, m), q = Digits(y, n), IsPrefix(p, q)
  PROVE  m <= n /\ \A j \in 1 .. m : p[j] = q[j]
<1>1. p \in Seq({0, 1}) /\ Len(p) = m /\ q \in Seq({0, 1}) /\ Len(q) = n
  BY BitsOK
<1>2. m <= n
  BY <1>1 DEF IsPrefix
<1>3. SubSeq(p, 1, m) = SubSeq(q, 1, m)
  BY <1>1 DEF IsPrefix
<1>4. \A j \in 1 .. m : SubSeq(p, 1, m)[j] = p[j] /\ SubSeq(q, 1, m)[j] = q[j]
  BY <1>1, <1>2
<1> QED
  BY <1>2, <1>3, <1>4

(* Codes of such lengths do not go on from each other. *)
LEMMA CodesApart ==
  ASSUME NEW lengths, NEW u, Levels(lengths, u),
         NEW b \in Coded(lengths), NEW x \in Coded(lengths),
         IsPrefix(Code(lengths, b), Code(lengths, x))
  PROVE  b = x
<1> DEFINE k == lengths[b]
           l == lengths[x]
           p == Number(lengths, b)
           q == Number(lengths, x)
           d == l - k
           r == q \div 2 ^ d
<1>1. /\ b \in Bytes /\ k \in 1 .. Alphabet /\ u[k] \in Nat /\ u[k - 1] \in Nat
      /\ p \in Nat /\ p < u[k] /\ p = 2 * u[k - 1] + Index(lengths, b)
      /\ p \in 0 .. 2 ^ k - 1 /\ Code(lengths, b) = Digits(p, k)
  BY NumberIn
<1>2. /\ x \in Bytes /\ l \in 1 .. Alphabet /\ u[l] \in Nat /\ u[l - 1] \in Nat
      /\ q \in Nat /\ q < u[l] /\ q = 2 * u[l - 1] + Index(lengths, x) /\ 2 * u[l - 1] <= q
      /\ q \in 0 .. 2 ^ l - 1 /\ Code(lengths, x) = Digits(q, l)
  BY NumberIn
<1> HIDE DEF k, l, p, q
<1>3. Alphabet \in Nat /\ k \in Nat /\ l \in Nat /\ k >= 1 /\ l >= 1 /\ k <= Alphabet /\ l <= Alphabet
  BY <1>1, <1>2, AlphabetNat
<1>4. k <= l /\ \A j \in 1 .. k : Digits(p, k)[j] = Digits(q, l)[j]
  <2> DEFINE cb == Code(lengths, b)
             cx == Code(lengths, x)
  <2>1. p \in Nat /\ q \in Nat /\ cb = Digits(p, k) /\ cx = Digits(q, l) /\ IsPrefix(cb, cx)
    BY <1>1, <1>2
  <2> HIDE DEF cb, cx
  <2>2. k <= l /\ \A j \in 1 .. k : cb[j] = cx[j]
    BY ONLY <1>3, <2>1, PrefixDigits
  <2> QED
    BY <2>1, <2>2
<1>5. d \in Nat /\ l - k = d /\ k \in 0 .. l
  BY <1>3, <1>4
<1>6. r \in Nat /\ \A j \in 1 .. k : Digits(q, l)[j] = Digits(r, k)[j]
  BY <1>2, <1>3, <1>5, FirstBits
<1>7. 2 ^ d \in Nat /\ 2 ^ d > 0 /\ 2 ^ k \in Nat /\ 2 ^ k > 0 /\ 2 ^ l = 2 ^ d * 2 ^ k
  <2>1. d + k = l
    BY <1>3
  <2> HIDE DEF d
  <2>2. 2 ^ (d + k) = 2 ^ d * 2 ^ k
    BY <1>3, <1>5, PowerAdds
  <2> QED
    BY <1>3, <1>5, <2>1, <2>2, PowerOK
<1>8. r \in 0 .. 2 ^ k - 1
  <2> DEFINE a == 2 ^ d
             c == 2 ^ k
  <2>1. a \in Nat /\ a > 0 /\ c \in Nat /\ c > 0 /\ q < a * c
    <3>1. q < 2 ^ l
      <4> DEFINE e == 2 ^ l
      <4>1. e \in Nat /\ q \in 0 .. e - 1
        BY <1>2, <1>3, PowerOK
      <4> HIDE DEF e
      <4>2. q < e
        BY <4>1
      <4> QED
        BY <4>2 DEF e
    <3> QED
      BY <1>7, <3>1
  <2> HIDE DEF a, c
  <2>2. r = q \div a /\ r \in Nat
    BY <1>6 DEF a
  <2>3. q >= a * r
    BY <1>2, <2>1, <2>2
  <2> HIDE DEF r
  <2>4. ~(r >= c)
    <3> SUFFICES ASSUME c <= r PROVE FALSE
      BY <2>1, <2>2
    <3>1. a * c <= a * r
      BY <2>1, <2>2, TimesMono
    <3>2. a * c \in Nat /\ a * r \in Nat
      BY <2>1, <2>2
    <3> QED
      BY <1>2, <2>1, <2>3, <3>1, <3>2
  <2>5. r \in 0 .. c - 1
    BY <2>1, <2>2, <2>4
  <2> QED
    BY <2>5 DEF c
<1>9. p = r
  <2>1. \A j \in 1 .. k : Digits(p, k)[j] = Digits(r, k)[j]
    BY <1>4, <1>6
  <2> HIDE DEF r
  <2> QED
    BY <1>1, <1>3, <1>8, <2>1, SameNumber
<1>10. CASE k = l
  <2>1. p = q
    <3>1. d = 0
      BY <1>3, <1>10
    <3>2. r = q \div 1
      BY <3>1, PowerZero
    <3> QED
      BY <1>2, <1>9, <3>2
  <2>2. Index(lengths, b) \in Nat /\ Index(lengths, x) \in Nat
    BY <1>1, <1>2, IndexOK
  <2>3. Index(lengths, b) = Index(lengths, x)
    BY <1>1, <1>2, <1>10, <2>1, <2>2
  <2>4. ~(b < x) /\ ~(x < b)
    BY <1>1, <1>2, <1>10, <2>2, <2>3, IndexOK DEF k, l
  <2> QED
    BY <1>1, <1>2, <2>4, AlphabetNat
<1>11. CASE k # l
  <2> DEFINE a == 2 ^ d
             h == d - 1
             e == 2 ^ h
             v == u[l - 1]
             t == u[k]
  <2>1. l - 1 \in k .. Alphabet /\ h \in Nat /\ h + 1 = d /\ (l - 1) - k = h
    BY <1>3, <1>4, <1>11
  <2>2. v >= e * t
    BY <1>1, <2>1, LevelsGrow
  <2>3. a = 2 * e /\ e \in Nat /\ t \in Nat /\ v \in Nat /\ a \in Nat /\ a > 0
    <3> HIDE DEF h, d
    <3>1. 2 ^ (h + 1) = 2 * 2 ^ h /\ 2 ^ h \in Nat
      BY <2>1, PowerOK
    <3> QED
      BY <1>1, <1>2, <1>7, <2>1, <3>1
  <2>4. r = q \div a /\ 2 * v <= q /\ p < t
    BY <1>1, <1>2
  <2> HIDE DEF a, e, v, t, h, d, r
  <2>5. a * t = 2 * (e * t) /\ e * t \in Nat
    BY <2>3
  <2>6. a * t <= q
    BY <1>2, <2>2, <2>3, <2>4, <2>5
  <2>7. q < a * r + a /\ a * (r + 1) = a * r + a
    <3>1. a \in Nat /\ a > 0 /\ q \in Nat /\ r = q \div a
      BY <1>2, <2>3, <2>4
    <3> QED
      BY ONLY <3>1, DivTwo
  <2>8. r + 1 <= t
    BY <1>1, <1>6, <1>9, <2>3, <2>4
  <2>9. a * (r + 1) <= a * t
    BY <1>6, <2>3, <2>8, TimesMono
  <2>10. a * (r + 1) \in Nat /\ a * t \in Nat /\ a * r \in Nat
    BY <1>6, <2>3
  <2> QED
    BY <1>2, <2>6, <2>7, <2>9, <2>10
<1> QED
  BY <1>10, <1>11

LEMMA PrefixFree ==
  ASSUME NEW lengths, NEW u, Levels(lengths, u)
  PROVE  Rebuilt(lengths)
BY CodesApart DEF Rebuilt
----------------------------------------------------------------------------
(* The trees.  Of the 2 ^ l places at depth l of a tree, u[l] are leaves   *)
(* or below one, and from the depth of the lowest leaf on all of them are. *)
AtDepth(d, l) == {b \in DOMAIN d : d[b] = l}

Shape(d, u) ==
  /\ u \in [0 .. Alphabet -> Nat]
  /\ u[0] = Cardinality(AtDepth(d, 0))
  /\ \A l \in 1 .. Alphabet : u[l] = 2 * u[l - 1] + Cardinality(AtDepth(d, l))
  /\ \A l \in 0 .. Alphabet :
       u[l] <= 2 ^ l /\ ((\A b \in DOMAIN d : d[b] <= l) => u[l] = 2 ^ l)

Tree(d) ==
  /\ DOMAIN d \subseteq Bytes /\ DOMAIN d # {}
  /\ d \in [DOMAIN d -> Nat]
  /\ \A b \in DOMAIN d : d[b] <= Cardinality(DOMAIN d) - 1
  /\ \E u : Shape(d, u)

LEMMA LeafTree ==
  ASSUME NEW s \in Seq(Bytes), NEW b \in Bytes
  PROVE  Tree(Leaf(s, b).depth) /\ DOMAIN Leaf(s, b).depth = {b}
<1> DEFINE d == [x \in {b} |-> 0]
           u == [l \in 0 .. Alphabet |-> 2 ^ l]
<1>1. Leaf(s, b).depth = d
  BY DEF Leaf
<1>2. DOMAIN d = {b} /\ d[b] = 0 /\ d \in [{b} -> Nat]
  OBVIOUS
<1>3. Cardinality({b}) = 1 /\ Cardinality({}) = 0
  BY FS_Singleton, FS_EmptySet
<1>4. AtDepth(d, 0) = {b} /\ \A l \in 1 .. Alphabet : AtDepth(d, l) = {}
  BY <1>2 DEF AtDepth
<1> HIDE DEF d
<1>5. Shape(d, u)
  <2>1. \A l \in 0 .. Alphabet : u[l] = 2 ^ l /\ u[l] \in Nat
    BY PowerOK
  <2>2. u \in [0 .. Alphabet -> Nat]
    BY <2>1
  <2>3. u[0] = 1
    BY AlphabetNat, PowerZero
  <2>4. \A l \in 1 .. Alphabet : u[l] = 2 * u[l - 1]
    <3> SUFFICES ASSUME NEW l \in 1 .. Alphabet PROVE u[l] = 2 * u[l - 1]
      OBVIOUS
    <3> DEFINE k == l - 1
    <3>1. k \in Nat /\ k + 1 = l /\ l \in 0 .. Alphabet /\ k \in 0 .. Alphabet
      BY AlphabetNat
    <3> HIDE DEF k, u
    <3>2. 2 ^ (k + 1) = 2 * 2 ^ k
      BY <3>1, PowerOK
    <3>3. u[l] = 2 ^ l /\ u[k] = 2 ^ k
      BY <2>1, <3>1
    <3>4. 2 ^ l = 2 ^ (k + 1)
      BY <3>1
    <3> QED
      BY <3>2, <3>3, <3>4 DEF k
  <2> HIDE DEF u
  <2>5. \A l \in 1 .. Alphabet : u[l] = 2 * u[l - 1] + Cardinality(AtDepth(d, l))
    <3> SUFFICES ASSUME NEW l \in 1 .. Alphabet
                 PROVE  u[l] = 2 * u[l - 1] + Cardinality(AtDepth(d, l))
      OBVIOUS
    <3>1. l - 1 \in 0 .. Alphabet
      BY AlphabetNat
    <3>2. u[l - 1] \in Nat
      BY <2>2, <3>1
    <3>3. AtDepth(d, l) = {} /\ Cardinality(AtDepth(d, l)) = 0
      BY <1>3, <1>4
    <3>4. u[l] = 2 * u[l - 1]
      BY <2>4
    <3> QED
      BY <3>2, <3>3, <3>4
  <2>6. \A l \in 0 .. Alphabet : u[l] <= 2 ^ l
    BY <2>1
  <2> QED
    BY <1>3, <1>4, <2>1, <2>2, <2>3, <2>5, <2>6 DEF Shape
<1>6. \E v : Shape(d, v)
  BY <1>5
<1>7. Tree(d)
  BY <1>2, <1>3, <1>6 DEF Tree
<1> QED
  BY <1>1, <1>2, <1>7

LEMMA SizesAdd ==
  ASSUME NEW S \in SUBSET Bytes, NEW T \in SUBSET Bytes, S \cap T = {}
  PROVE  /\ Cardinality(S \cup T) = Cardinality(S) + Cardinality(T)
         /\ Cardinality(S) \in Nat /\ Cardinality(T) \in Nat
<1>1. IsFiniteSet(S) /\ IsFiniteSet(T) /\ Cardinality(S) \in Nat /\ Cardinality(T) \in Nat
  BY CountOK
<1>2. Cardinality(S \cup T) = Cardinality(S) + Cardinality(T) - Cardinality(S \cap T)
  BY <1>1, FS_Union
<1>3. Cardinality(S \cap T) = 0
  BY FS_EmptySet
<1> QED
  BY <1>1, <1>2, <1>3

LEMMA JoinedTree ==
  ASSUME NEW l, NEW r, Tree(l.depth), Tree(r.depth),
         DOMAIN l.depth \cap DOMAIN r.depth = {}
  PROVE  /\ Tree(Joined(l, r).depth)
         /\ DOMAIN Joined(l, r).depth = DOMAIN l.depth \cup DOMAIN r.depth
         /\ \A b \in DOMAIN Joined(l, r).depth : Joined(l, r).depth[b] > 0
<1> DEFINE p == l.depth
           q == r.depth
           P == DOMAIN p
           Q == DOMAIN q
           D == P \cup Q
           d == [b \in D |-> 1 + IF b \in P THEN p[b] ELSE q[b]]
<1>1. Joined(l, r).depth = d
  BY DEF Joined
<1>2. /\ P \subseteq Bytes /\ P # {} /\ p \in [P -> Nat]
      /\ \A b \in P : p[b] <= Cardinality(P) - 1
      /\ Q \subseteq Bytes /\ Q # {} /\ q \in [Q -> Nat]
      /\ \A b \in Q : q[b] <= Cardinality(Q) - 1
      /\ P \cap Q = {}
  BY DEF Tree
<1>3. PICK v : Shape(p, v)
  BY DEF Tree
<1>4. PICK w : Shape(q, w)
  BY DEF Tree
<1>0. DOMAIN d = D
  OBVIOUS
<1>5. d \in [D -> Nat] /\ (\A b \in P : d[b] = 1 + p[b]) /\ (\A b \in Q : d[b] = 1 + q[b])
  <2>1. \A b \in P : p[b] \in Nat
    BY <1>2
  <2>2. \A b \in Q : q[b] \in Nat
    BY <1>2
  <2> HIDE DEF p, q, P, Q
  <2>3. \A b \in P : d[b] = 1 + p[b]
    OBVIOUS
  <2>4. \A b \in Q : b \notin P
    BY <1>2
  <2>5. \A b \in Q : d[b] = 1 + q[b]
    BY <2>4
  <2>6. \A b \in D : d[b] \in Nat
    <3> SUFFICES ASSUME NEW b \in D PROVE d[b] \in Nat
      OBVIOUS
    <3>1. CASE b \in P
      BY <2>1, <2>3, <3>1
    <3>2. CASE b \in Q
      BY <2>2, <2>5, <3>2
    <3> QED
      BY <3>1, <3>2
  <2> QED
    BY <2>3, <2>5, <2>6
<1> HIDE DEF d
<1>6. D \in SUBSET Bytes /\ D # {} /\ Cardinality(D) = Cardinality(P) + Cardinality(Q)
      /\ Cardinality(P) \in Nat /\ Cardinality(Q) \in Nat
  <2> HIDE DEF P, Q
  <2> QED
    BY <1>2, SizesAdd
<1>7. Cardinality(P) > 0 /\ Cardinality(Q) > 0
  <2> HIDE DEF P, Q
  <2>1. IsFiniteSet(P) /\ IsFiniteSet(Q)
    BY <1>2, CountOK
  <2>2. Cardinality(P) # 0 /\ Cardinality(Q) # 0
    BY <1>2, <2>1, FS_EmptySet
  <2> QED
    BY <1>6, <2>2
<1>8. \A b \in P : p[b] \in Nat
  BY <1>2
<1>9. \A b \in Q : q[b] \in Nat
  BY <1>2
<1>10. \A b \in D : d[b] > 0 /\ d[b] <= Cardinality(D) - 1
  <2> HIDE DEF P, Q, p, q
  <2> SUFFICES ASSUME NEW b \in D PROVE d[b] > 0 /\ d[b] <= Cardinality(D) - 1
    OBVIOUS
  <2>1. CASE b \in P
    BY <1>2, <1>5, <1>6, <1>7, <1>8, <2>1
  <2>2. CASE b \in Q
    BY <1>2, <1>5, <1>6, <1>7, <1>9, <2>2
  <2> QED
    BY <2>1, <2>2
<1>11. AtDepth(d, 0) = {} /\ Cardinality({}) = 0
  BY <1>0, <1>10, FS_EmptySet DEF AtDepth
<1>12. ASSUME NEW k \in 1 .. Alphabet
       PROVE  /\ Cardinality(AtDepth(d, k)) =
                   Cardinality(AtDepth(p, k - 1)) + Cardinality(AtDepth(q, k - 1))
              /\ Cardinality(AtDepth(p, k - 1)) \in Nat
              /\ Cardinality(AtDepth(q, k - 1)) \in Nat
  <2> DEFINE A == AtDepth(p, k - 1)
             B == AtDepth(q, k - 1)
             C == AtDepth(d, k)
  <2>1. A = {b \in P : p[b] = k - 1} /\ B = {b \in Q : q[b] = k - 1} /\ C = {b \in D : d[b] = k}
    BY <1>0 DEF AtDepth
  <2> HIDE DEF A, B, C, P, Q, p, q
  <2>2. \A b \in P : d[b] = k <=> p[b] = k - 1
    BY <1>5, <1>8
  <2>3. \A b \in Q : d[b] = k <=> q[b] = k - 1
    BY <1>5, <1>9
  <2>4. C = A \cup B
    BY <2>1, <2>2, <2>3
  <2>5. A \in SUBSET Bytes /\ B \in SUBSET Bytes /\ A \cap B = {}
    BY <1>2, <2>1
  <2>6. Cardinality(C) = Cardinality(A) + Cardinality(B)
        /\ Cardinality(A) \in Nat /\ Cardinality(B) \in Nat
    BY <2>4, <2>5, SizesAdd
  <2> QED
    BY <2>6 DEF A, B, C
<1> DEFINE u == [k \in 0 .. Alphabet |-> IF k = 0 THEN 0 ELSE v[k - 1] + w[k - 1]]
<1>13. \A k \in 0 .. Alphabet : v[k] \in Nat /\ w[k] \in Nat
  BY <1>3, <1>4 DEF Shape
<1>14. u[0] = 0 /\ \A k \in 1 .. Alphabet : u[k] = v[k - 1] + w[k - 1]
  BY AlphabetNat
<1>15. u \in [0 .. Alphabet -> Nat]
  <2>1. \A k \in 0 .. Alphabet : k # 0 => k - 1 \in 0 .. Alphabet
    BY AlphabetNat
  <2>2. \A k \in 0 .. Alphabet : k # 0 => v[k - 1] + w[k - 1] \in Nat
    BY <1>13, <2>1
  <2> QED
    BY <2>2
<1> HIDE DEF u, d, p, q
<1>16. ASSUME NEW k \in 1 .. Alphabet PROVE u[k] = 2 * u[k - 1] + Cardinality(AtDepth(d, k))
  <2> DEFINE j == k - 1
  <2>1. j \in 0 .. Alphabet /\ j \in Nat
    BY AlphabetNat
  <2>2. u[k] = v[j] + w[j]
    BY <1>14
  <2>3. Cardinality(AtDepth(d, k)) = Cardinality(AtDepth(p, j)) + Cardinality(AtDepth(q, j))
        /\ Cardinality(AtDepth(p, j)) \in Nat /\ Cardinality(AtDepth(q, j)) \in Nat
    BY <1>12
  <2> HIDE DEF j
  <2>4. CASE j = 0
    <3>1. v[j] = Cardinality(AtDepth(p, j)) /\ w[j] = Cardinality(AtDepth(q, j))
      BY <1>3, <1>4, <2>4 DEF Shape
    <3>2. u[j] = 0
      BY <1>14, <2>4
    <3> QED
      BY <2>2, <2>3, <3>1, <3>2 DEF j
  <2>5. CASE j # 0
    <3>1. j \in 1 .. Alphabet /\ j - 1 \in 0 .. Alphabet
      BY <2>1, <2>5, AlphabetNat
    <3>2. v[j] = 2 * v[j - 1] + Cardinality(AtDepth(p, j)) /\ w[j] = 2 * w[j - 1] + Cardinality(AtDepth(q, j))
      BY <1>3, <1>4, <3>1 DEF Shape
    <3>3. u[j] = v[j - 1] + w[j - 1]
      BY <1>14, <3>1
    <3>4. v[j - 1] \in Nat /\ w[j - 1] \in Nat
      BY <1>13, <3>1
    <3>5. u[k] = 2 * u[j] + Cardinality(AtDepth(d, k))
      BY <2>2, <2>3, <3>2, <3>3, <3>4
    <3> QED
      BY <3>5 DEF j
  <2> QED
    BY <2>4, <2>5
<1>17. ASSUME NEW k \in 0 .. Alphabet
       PROVE  u[k] <= 2 ^ k /\ ((\A b \in D : d[b] <= k) => u[k] = 2 ^ k)
  <2>1. CASE k = 0
    <3>1. u[k] = 0 /\ 2 ^ k \in Nat
      BY <1>14, <2>1, PowerOK
    <3>2. ~\A b \in D : d[b] <= k
      <4>1. PICK b \in D : d[b] > 0
        BY <1>6, <1>10
      <4>2. d[b] \in Nat
        BY <1>5, <4>1
      <4> QED
        BY <2>1, <4>1, <4>2
    <3> QED
      BY <3>1, <3>2
  <2>2. CASE k # 0
    <3> DEFINE j == k - 1
               e == 2 ^ j
    <3>1. j \in 0 .. Alphabet /\ j \in Nat /\ j + 1 = k /\ k \in 1 .. Alphabet
      BY <2>2, AlphabetNat
    <3>2. 2 ^ k = 2 * e /\ e \in Nat
      <4> HIDE DEF j
      <4>1. 2 ^ (j + 1) = 2 * 2 ^ j /\ 2 ^ j \in Nat
        BY <3>1, PowerOK
      <4> QED
        BY <3>1, <4>1
    <3>3. u[k] = v[j] + w[j] /\ v[j] \in Nat /\ w[j] \in Nat
      BY <1>13, <1>14, <3>1
    <3> HIDE DEF j
    <3>4. v[j] <= e /\ w[j] <= e
      BY <1>3, <1>4, <3>1 DEF Shape
    <3>5. ASSUME \A b \in D : d[b] <= k PROVE v[j] = e /\ w[j] = e
      <4>1. \A b \in P : p[b] <= j
        <5> HIDE DEF P, Q
        <5> QED
          BY <1>5, <1>8, <3>1, <3>5
      <4>2. \A b \in Q : q[b] <= j
        <5> HIDE DEF P, Q
        <5> QED
          BY <1>5, <1>9, <3>1, <3>5
      <4> QED
        BY <1>3, <1>4, <3>1, <4>1, <4>2 DEF Shape
    <3> HIDE DEF e
    <3> QED
      BY <3>2, <3>3, <3>4, <3>5
  <2> QED
    BY <2>1, <2>2
<1>18. Shape(d, u)
  BY <1>0, <1>11, <1>14, <1>15, <1>16, <1>17 DEF Shape
<1>19. Tree(d)
  <2>1. DOMAIN d \subseteq Bytes /\ DOMAIN d # {} /\ d \in [DOMAIN d -> Nat]
    BY <1>0, <1>5, <1>6
  <2>2. \A b \in DOMAIN d : d[b] <= Cardinality(DOMAIN d) - 1
    BY <1>0, <1>10
  <2> QED
    BY <1>18, <2>1, <2>2 DEF Tree
<1> QED
  BY <1>0, <1>1, <1>10, <1>19 DEF p, q
----------------------------------------------------------------------------
(* The list of trees that are still to be joined. *)
Nodes == {n \in [freq : Nat, depth : UNION {[D -> Nat] : D \in SUBSET Bytes}] : Tree(n.depth)}

Symbols(h) == UNION {DOMAIN h[i].depth : i \in 1 .. Len(h)}

Forest(h) ==
  /\ h \in Seq(Nodes)
  /\ \A i, j \in 1 .. Len(h) : i # j => DOMAIN h[i].depth \cap DOMAIN h[j].depth = {}

Inserted(h, n, k, g) ==
  /\ Len(g) = Len(h) + 1
  /\ \A i \in 1 .. Len(h) + 1 : g[i] = IF i < k THEN h[i] ELSE IF i = k THEN n ELSE h[i - 1]

LEMMA PutIn ==
  ASSUME NEW S, NEW h \in Seq(S), NEW n \in S, NEW k \in 1 .. Len(h) + 1
  PROVE  LET g == SubSeq(h, 1, k - 1) \o <<n>> \o SubSeq(h, k, Len(h))
         IN  g \in Seq(S) /\ Inserted(h, n, k, g)
<1> DEFINE m == Len(h)
           a == SubSeq(h, 1, k - 1)
           b == SubSeq(h, k, m)
           c == a \o <<n>>
           g == c \o b
<1>1. m \in Nat /\ k \in Nat /\ k >= 1 /\ k <= m + 1 /\ h \in Seq(S) /\ \A i \in 1 .. m : h[i] \in S
  OBVIOUS
<1>2. a \in Seq(S) /\ Len(a) = k - 1 /\ \A i \in 1 .. k - 1 : a[i] = h[i]
  <2> HIDE DEF m
  <2> QED
    BY <1>1
<1>3. b \in Seq(S) /\ Len(b) = m - k + 1 /\ \A i \in 1 .. m - k + 1 : b[i] = h[k + i - 1]
  BY <1>1
<1> HIDE DEF a, b, m
<1>4. c \in Seq(S) /\ Len(c) = k /\ c[k] = n /\ \A i \in 1 .. k - 1 : c[i] = h[i]
  BY <1>1, <1>2
<1> HIDE DEF c
<1>5. /\ g \in Seq(S) /\ Len(g) = m + 1
      /\ \A i \in 1 .. k : g[i] = c[i]
      /\ \A i \in 1 .. m - k + 1 : g[k + i] = b[i]
  <2>1. Len(c) + Len(b) = m + 1
    BY <1>1, <1>3, <1>4
  <2>2. /\ g \in Seq(S) /\ Len(g) = Len(c) + Len(b)
        /\ \A i \in 1 .. Len(c) : g[i] = c[i]
        /\ \A i \in 1 .. Len(b) : g[Len(c) + i] = b[i]
    <3>1. c \in Seq(S) /\ b \in Seq(S)
      BY <1>3, <1>4
    <3> QED
      BY ONLY <3>1, PastFirst
  <2> HIDE DEF g
  <2> QED
    BY <1>3, <1>4, <2>1, <2>2
<1> HIDE DEF g
<1>6. ASSUME NEW i \in 1 .. m + 1 PROVE g[i] = IF i < k THEN h[i] ELSE IF i = k THEN n ELSE h[i - 1]
  <2>1. i \in Nat
    OBVIOUS
  <2>2. CASE i < k
    <3>1. i \in 1 .. k - 1 /\ i \in 1 .. k
      BY <1>1, <2>2
    <3>2. g[i] = h[i]
      BY <1>4, <1>5, <3>1
    <3> QED
      BY <2>2, <3>2
  <2>3. CASE i = k
    <3>1. i \in 1 .. k /\ ~(i < k)
      BY <1>1, <2>3
    <3>2. g[i] = n
      BY <1>4, <1>5, <2>3, <3>1
    <3> QED
      BY <2>3, <3>1, <3>2
  <2>4. CASE i > k
    <3> DEFINE j == i - k
    <3>1. j \in 1 .. m - k + 1 /\ k + j - 1 = i - 1 /\ k + j = i
      BY <1>1, <2>1, <2>4
    <3> HIDE DEF j
    <3>2. g[k + j] = b[j] /\ b[j] = h[k + j - 1]
      BY <1>3, <1>5, <3>1
    <3>3. g[i] = h[i - 1]
      BY <3>1, <3>2
    <3>4. ~(i < k) /\ i # k
      BY <1>1, <2>1, <2>4
    <3> QED
      BY <3>3, <3>4
  <2>5. i < k \/ i = k \/ i > k
    BY <1>1, <2>1
  <2> QED
    BY <2>2, <2>3, <2>4, <2>5
<1> QED
  BY <1>5, <1>6 DEF Inserted, a, b, c, g, m

LEMMA InsertOK ==
  ASSUME NEW S, NEW h \in Seq(S), NEW n \in S
  PROVE  Insert(h, n) \in Seq(S) /\ \E k \in 1 .. Len(h) + 1 : Inserted(h, n, k, Insert(h, n))
<1>1. CASE h = <<>> \/ (h # <<>> /\ Head(h).freq > n.freq)
  <2> DEFINE g == <<n>> \o h
  <2>1. Insert(h, n) = g
    BY <1>1 DEF Insert
  <2>2. g \in Seq(S) /\ Len(g) = Len(h) + 1
    OBVIOUS
  <2>3. \A i \in 1 .. Len(h) + 1 : g[i] = IF i < 1 THEN h[i] ELSE IF i = 1 THEN n ELSE h[i - 1]
    OBVIOUS
  <2>4. 1 \in 1 .. Len(h) + 1
    OBVIOUS
  <2> HIDE DEF g
  <2> QED
    BY <2>1, <2>2, <2>3, <2>4 DEF Inserted
<1>2. CASE ~(h = <<>> \/ (h # <<>> /\ Head(h).freq > n.freq))
  <2> DEFINE K == {j \in 1 .. Len(h) : j = Len(h) \/ h[j + 1].freq >= n.freq}
             k == Min(K)
  <2>1. Insert(h, n) = InsertAt(h, k + 1, n)
    BY <1>2 DEF Insert
  <2>2. k \in 1 .. Len(h)
    <3>1. Len(h) \in K
      BY <1>2, EmptySeq
    <3>2. K \subseteq Nat /\ K # {}
      BY <3>1
    <3> HIDE DEF K
    <3>3. k \in K
      BY <3>2, MinOK
    <3> QED
      BY <3>3 DEF K
  <2> HIDE DEF K, k
  <2>3. k + 1 \in 1 .. Len(h) + 1
    BY <2>2
  <2> DEFINE c == k + 1
  <2>4. Insert(h, n) = SubSeq(h, 1, c - 1) \o <<n>> \o SubSeq(h, c, Len(h))
    BY <2>1 DEF InsertAt
  <2>5. c \in 1 .. Len(h) + 1
    BY <2>3
  <2> HIDE DEF c
  <2> QED
    BY <2>4, <2>5, PutIn
<1> QED
  BY <1>1, <1>2

LEMMA InsertForest ==
  ASSUME NEW h, Forest(h), NEW n \in Nodes, Symbols(h) \cap DOMAIN n.depth = {}
  PROVE  /\ Forest(Insert(h, n))
         /\ Symbols(Insert(h, n)) = Symbols(h) \cup DOMAIN n.depth
         /\ Len(Insert(h, n)) = Len(h) + 1
<1> DEFINE g == Insert(h, n)
           m == Len(h)
           dom(x) == DOMAIN x.depth
<1>1. h \in Seq(Nodes) /\ m \in Nat
  BY DEF Forest
<1>2. g \in Seq(Nodes)
  BY <1>1, InsertOK
<1>3. PICK k \in 1 .. m + 1 : Inserted(h, n, k, g)
  BY <1>1, InsertOK
<1> HIDE DEF g
<1>4. /\ Len(g) = m + 1
      /\ \A i \in 1 .. m + 1 : g[i] = IF i < k THEN h[i] ELSE IF i = k THEN n ELSE h[i - 1]
  BY <1>3 DEF Inserted
<1>5. \A i, j \in 1 .. m : i # j => dom(h[i]) \cap dom(h[j]) = {}
  BY DEF Forest
<1>6. \A i \in 1 .. m : dom(h[i]) \subseteq Symbols(h)
  BY DEF Symbols
<1> HIDE DEF m
<1> DEFINE old(i) == IF i < k THEN i ELSE i - 1
<1>7. \A i \in 1 .. m + 1 : i # k => old(i) \in 1 .. m /\ g[i] = h[old(i)]
  BY <1>1, <1>4
<1>8. \A i, j \in 1 .. m + 1 : i # k /\ j # k /\ i # j => old(i) # old(j)
  BY <1>1
<1>9. g[k] = n
  BY <1>1, <1>4
<1> HIDE DEF old
<1>10. ASSUME NEW i \in 1 .. m + 1, NEW j \in 1 .. m + 1, i # j
       PROVE  dom(g[i]) \cap dom(g[j]) = {}
  <2>1. CASE i = k
    <3>1. dom(g[j]) \subseteq Symbols(h)
      BY <1>6, <1>7, <1>10, <2>1
    <3> QED
      BY <1>9, <2>1, <3>1
  <2>2. CASE j = k
    <3>1. dom(g[i]) \subseteq Symbols(h)
      BY <1>6, <1>7, <1>10, <2>2
    <3> QED
      BY <1>9, <2>2, <3>1
  <2>3. CASE i # k /\ j # k
    BY <1>5, <1>7, <1>8, <1>10, <2>3
  <2> QED
    BY <2>1, <2>2, <2>3
<1>11. Forest(g)
  BY <1>2, <1>4, <1>10 DEF Forest
<1>12. \A i \in 1 .. m : \E j \in 1 .. m + 1 : g[j] = h[i]
  <2> SUFFICES ASSUME NEW i \in 1 .. m PROVE \E j \in 1 .. m + 1 : g[j] = h[i]
    OBVIOUS
  <2>1. CASE i < k
    <3>1. i \in 1 .. m + 1
      BY <1>1
    <3> QED
      BY <1>4, <2>1, <3>1
  <2>2. CASE i >= k
    <3>1. i + 1 \in 1 .. m + 1 /\ ~(i + 1 < k) /\ i + 1 # k /\ (i + 1) - 1 = i
      BY <1>1, <2>2
    <3> QED
      BY <1>4, <3>1
  <2> QED
    BY <1>1, <2>1, <2>2
<1>13. Symbols(g) = Symbols(h) \cup dom(n)
  <2>1. Symbols(g) = UNION {dom(g[i]) : i \in 1 .. m + 1}
    BY <1>4 DEF Symbols
  <2>2. Symbols(h) = UNION {dom(h[i]) : i \in 1 .. m}
    BY DEF Symbols, m
  <2>3. ASSUME NEW b \in Symbols(g) PROVE b \in Symbols(h) \cup dom(n)
    <3>1. PICK i \in 1 .. m + 1 : b \in dom(g[i])
      BY <2>1
    <3> QED
      BY <1>6, <1>7, <1>9, <3>1
  <2>4. ASSUME NEW b \in Symbols(h) PROVE b \in Symbols(g)
    <3>1. PICK i \in 1 .. m : b \in dom(h[i])
      BY <2>2
    <3>2. PICK j \in 1 .. m + 1 : g[j] = h[i]
      BY <1>12
    <3> QED
      BY <2>1, <3>1, <3>2
  <2>5. dom(n) \subseteq Symbols(g)
    BY <1>1, <1>9, <2>1
  <2> QED
    BY <2>3, <2>4, <2>5
<1> QED
  BY <1>4, <1>11, <1>13 DEF g, m
LEMMA ForestSymbols ==
  ASSUME NEW h, Forest(h)
  PROVE  /\ h \in Seq(Nodes) /\ Len(h) \in Nat
         /\ \A i \in 1 .. Len(h) : /\ h[i] \in Nodes
                                   /\ DOMAIN h[i].depth \subseteq Symbols(h)
         /\ \A b \in Symbols(h) : \E i \in 1 .. Len(h) : b \in DOMAIN h[i].depth
         /\ \A i, j \in 1 .. Len(h) : i # j => DOMAIN h[i].depth \cap DOMAIN h[j].depth = {}
BY DEF Forest, Symbols

LEMMA NodeOK ==
  ASSUME NEW n \in Nodes
  PROVE  /\ n.freq \in Nat /\ Tree(n.depth) /\ DOMAIN n.depth \subseteq Bytes
         /\ DOMAIN n.depth # {}
BY DEF Nodes, Tree

LEMMA NodeIs ==
  ASSUME NEW freq \in Nat, NEW depth, Tree(depth)
  PROVE  [freq |-> freq, depth |-> depth] \in Nodes
<1>1. DOMAIN depth \in SUBSET Bytes /\ depth \in [DOMAIN depth -> Nat]
  BY DEF Tree
<1>2. depth \in UNION {[D -> Nat] : D \in SUBSET Bytes}
  BY <1>1
<1> QED
  BY <1>2 DEF Nodes

LEMMA JoinedNode ==
  ASSUME NEW l \in Nodes, NEW r \in Nodes, DOMAIN l.depth \cap DOMAIN r.depth = {}
  PROVE  /\ Joined(l, r) \in Nodes
         /\ DOMAIN Joined(l, r).depth = DOMAIN l.depth \cup DOMAIN r.depth
         /\ \A b \in DOMAIN Joined(l, r).depth : Joined(l, r).depth[b] > 0
<1>1. Tree(l.depth) /\ Tree(r.depth) /\ l.freq \in Nat /\ r.freq \in Nat
  BY NodeOK
<1> DEFINE d == Joined(l, r).depth
           f == l.freq + r.freq
<1>2. Joined(l, r) = [freq |-> f, depth |-> d] /\ f \in Nat
  BY <1>1 DEF Joined
<1>3. Tree(d) /\ DOMAIN d = DOMAIN l.depth \cup DOMAIN r.depth /\ \A b \in DOMAIN d : d[b] > 0
  BY <1>1, JoinedTree
<1>4. [freq |-> f, depth |-> d] \in Nodes
  <2> HIDE DEF d, f
  <2> QED
    BY <1>2, <1>3, NodeIs
<1> QED
  BY <1>2, <1>3, <1>4

LEMMA FromThird ==
  ASSUME NEW S, NEW h \in Seq(S), NEW m \in Nat, m = Len(h), m >= 2
  PROVE  /\ SubSeq(h, 3, m) \in Seq(S) /\ Len(SubSeq(h, 3, m)) = m - 2
         /\ \A i \in 1 .. m - 2 : SubSeq(h, 3, m)[i] = h[i + 2]
<1>1. \A i \in 1 .. m - 2 : 3 + i - 1 = i + 2
  OBVIOUS
<1>2. /\ SubSeq(h, 3, m) \in Seq(S) /\ Len(SubSeq(h, 3, m)) = m - 2
      /\ \A i \in 1 .. m - 2 : SubSeq(h, 3, m)[i] = h[3 + i - 1]
  OBVIOUS
<1> QED
  BY <1>1, <1>2

LEMMA JoinTwo ==
  ASSUME NEW h, Forest(h), Len(h) >= 2
  PROVE  /\ Forest(JoinFirstTwo(h))
         /\ Symbols(JoinFirstTwo(h)) = Symbols(h)
         /\ Len(JoinFirstTwo(h)) = Len(h) - 1
         /\ Len(h) = 2 => \A b \in DOMAIN JoinFirstTwo(h)[1].depth : JoinFirstTwo(h)[1].depth[b] > 0
<1> DEFINE m == Len(h)
           rest == SubSeq(h, 3, m)
           j == Joined(h[1], h[2])
           dom(x) == DOMAIN x.depth
<1>1. /\ h \in Seq(Nodes) /\ m \in Nat /\ m >= 2 /\ 1 \in 1 .. m /\ 2 \in 1 .. m
      /\ \A i \in 1 .. m : h[i] \in Nodes /\ dom(h[i]) \subseteq Symbols(h)
      /\ \A b \in Symbols(h) : \E i \in 1 .. m : b \in dom(h[i])
      /\ \A i, k \in 1 .. m : i # k => dom(h[i]) \cap dom(h[k]) = {}
  BY ForestSymbols
<1>2. JoinFirstTwo(h) = Insert(rest, j)
  BY DEF JoinFirstTwo
<1>3. rest \in Seq(Nodes) /\ Len(rest) = m - 2 /\ \A i \in 1 .. m - 2 : rest[i] = h[i + 2]
  <2>1. h \in Seq(Nodes) /\ m \in Nat /\ m >= 2
    BY <1>1
  <2> QED
    BY ONLY <2>1, FromThird DEF rest, m
<1> HIDE DEF m, rest
<1>4. h[1] \in Nodes /\ h[2] \in Nodes /\ dom(h[1]) \cap dom(h[2]) = {}
  BY <1>1
<1>5. j \in Nodes /\ dom(j) = dom(h[1]) \cup dom(h[2]) /\ \A b \in dom(j) : j.depth[b] > 0
  BY <1>4, JoinedNode
<1> HIDE DEF j, dom
<1>6. \A i \in 1 .. m - 2 : i + 2 \in 1 .. m /\ i + 2 # 1 /\ i + 2 # 2
  BY <1>1
<1>7. Forest(rest)
  <2>1. \A i, k \in 1 .. m - 2 : i # k => i + 2 # k + 2
    BY <1>1
  <2>2. \A i, k \in 1 .. m - 2 : i # k => dom(rest[i]) \cap dom(rest[k]) = {}
    <3> SUFFICES ASSUME NEW i \in 1 .. m - 2, NEW k \in 1 .. m - 2, i # k
                 PROVE  dom(rest[i]) \cap dom(rest[k]) = {}
      OBVIOUS
    <3>1. i + 2 \in 1 .. m /\ k + 2 \in 1 .. m /\ i + 2 # k + 2
      BY <1>6, <2>1
    <3>2. rest[i] = h[i + 2] /\ rest[k] = h[k + 2]
      BY <1>3
    <3>3. dom(h[i + 2]) \cap dom(h[k + 2]) = {}
      BY <1>1, <3>1
    <3> QED
      BY <3>2, <3>3
  <2> QED
    BY <1>3, <2>2 DEF Forest, dom
<1>8. Symbols(rest) \cap dom(j) = {}
  <2>1. \A b \in Symbols(rest) : \E i \in 1 .. m - 2 : b \in dom(rest[i])
    BY <1>3, <1>7, ForestSymbols DEF dom
  <2>2. \A i \in 1 .. m - 2 : dom(rest[i]) \cap dom(h[1]) = {} /\ dom(rest[i]) \cap dom(h[2]) = {}
    BY <1>1, <1>3, <1>6, ZenonT(40)
  <2> QED
    BY <1>5, <2>1, <2>2
<1>9. Symbols(h) = Symbols(rest) \cup dom(j)
  <2>1. ASSUME NEW b \in Symbols(h) PROVE b \in Symbols(rest) \cup dom(j)
    <3>1. PICK i \in 1 .. m : b \in dom(h[i])
      BY <1>1
    <3>2. CASE i = 1 \/ i = 2
      BY <1>5, <3>1, <3>2
    <3>3. CASE i # 1 /\ i # 2
      <4>1. i - 2 \in 1 .. m - 2 /\ (i - 2) + 2 = i
        BY <1>1, <3>3
      <4>2. rest[i - 2] = h[i]
        BY <1>3, <4>1
      <4>3. dom(rest[i - 2]) \subseteq Symbols(rest)
        BY <1>3, <1>7, <4>1, ForestSymbols DEF dom
      <4> QED
        BY <3>1, <4>2, <4>3
    <3> QED
      BY <3>2, <3>3
  <2>2. ASSUME NEW b \in Symbols(rest) PROVE b \in Symbols(h)
    <3>1. PICK i \in 1 .. m - 2 : b \in dom(rest[i])
      BY <1>3, <1>7, ForestSymbols DEF dom
    <3> QED
      BY <1>1, <1>3, <1>6, <3>1
  <2>3. dom(j) \subseteq Symbols(h)
    BY <1>1, <1>5
  <2> QED
    BY <2>1, <2>2, <2>3
<1>10. /\ Forest(Insert(rest, j)) /\ Symbols(Insert(rest, j)) = Symbols(rest) \cup dom(j)
       /\ Len(Insert(rest, j)) = Len(rest) + 1
  BY <1>5, <1>7, <1>8, InsertForest DEF dom
<1>11. ASSUME m = 2 PROVE Insert(rest, j)[1] = j
  <2>1. PICK k \in 1 .. Len(rest) + 1 : Inserted(rest, j, k, Insert(rest, j))
    BY <1>3, <1>5, InsertOK
  <2>2. k = 1 /\ 1 \in 1 .. Len(rest) + 1
    BY <1>3, <1>11
  <2> QED
    BY <2>1, <2>2 DEF Inserted
<1>12. m = 2 => \A b \in DOMAIN Insert(rest, j)[1].depth : Insert(rest, j)[1].depth[b] > 0
  BY <1>5, <1>11 DEF dom
<1> QED
  BY <1>1, <1>2, <1>3, <1>9, <1>10, <1>12 DEF m
(* The list of the leaves, and what is joined from a list. *)
AddLeaf(s, h, b) == IF Count(s, b) = 0 THEN h ELSE Insert(h, Leaf(s, b))
LeafList(s) ==
  LET leaves[n \in 0 .. Alphabet] ==
        IF n = 0 THEN <<>>
        ELSE IF Count(s, n - 1) = 0 THEN leaves[n - 1]
        ELSE Insert(leaves[n - 1], Leaf(s, n - 1))
  IN  leaves[Alphabet]
AllJoined(l) ==
  LET nodes == Len(l)
      heap[k \in 0 .. nodes - 1] ==
        IF k = 0 THEN l ELSE JoinFirstTwo(heap[k - 1])
  IN  heap[nodes - 1][1]

Used(s) == {b \in Bytes : Count(s, b) # 0}

LEMMA LengthsAre ==
  ASSUME NEW s
  PROVE  Lengths(s) =
           [b \in Bytes |-> IF b \notin DOMAIN AllJoined(LeafList(s)).depth THEN 0
                            ELSE IF Len(LeafList(s)) = 1 THEN 1
                            ELSE AllJoined(LeafList(s)).depth[b]]
BY DEF Lengths, AllJoined, LeafList

LEMMA NoForest == Forest(<<>>) /\ Symbols(<<>>) = {} /\ Len(<<>>) = 0 /\ Cardinality({}) = 0
<1>1. <<>> \in Seq(Nodes) /\ Len(<<>>) = 0 /\ \A i \in 1 .. 0 : FALSE
  OBVIOUS
<1> QED
  BY <1>1, FS_EmptySet DEF Forest, Symbols

LEMMA LeafNode ==
  ASSUME NEW s \in Seq(Bytes), NEW b \in Bytes
  PROVE  Leaf(s, b) \in Nodes /\ DOMAIN Leaf(s, b).depth = {b}
<1> DEFINE d == Leaf(s, b).depth
           f == Count(s, b)
<1>1. Leaf(s, b) = [freq |-> f, depth |-> d]
  BY DEF Leaf
<1>2. Tree(d) /\ DOMAIN d = {b}
  BY LeafTree
<1>3. f \in Nat
  <2>1. {i \in 1 .. Len(s) : s[i] = b} \in SUBSET (1 .. Len(s)) /\ Len(s) \in Int /\ 1 \in Int
    OBVIOUS
  <2>2. IsFiniteSet(1 .. Len(s))
    BY <2>1, FS_Interval
  <2> QED
    BY <2>1, <2>2, FS_Subset, FS_CardinalityType DEF Count
<1> HIDE DEF d, f
<1> QED
  BY <1>1, <1>2, <1>3, NodeIs DEF d

(* What the loop over the symbols has after symbol b. *)
LEMMA AddLeafOK ==
  ASSUME NEW s \in Seq(Bytes), NEW b \in Bytes, NEW h, Forest(h), b \notin Symbols(h),
         Symbols(h) \subseteq Bytes, Len(h) = Cardinality(Symbols(h))
  PROVE  /\ Forest(AddLeaf(s, h, b))
         /\ Symbols(AddLeaf(s, h, b)) =
              IF Count(s, b) = 0 THEN Symbols(h) ELSE Symbols(h) \cup {b}
         /\ Len(AddLeaf(s, h, b)) = Cardinality(Symbols(AddLeaf(s, h, b)))
<1>1. CASE Count(s, b) = 0
  BY <1>1 DEF AddLeaf
<1>2. CASE Count(s, b) # 0
  <2> DEFINE n == Leaf(s, b)
             g == Insert(h, n)
  <2>1. AddLeaf(s, h, b) = g
    BY <1>2 DEF AddLeaf
  <2>2. n \in Nodes /\ DOMAIN n.depth = {b}
    BY LeafNode
  <2> HIDE DEF n
  <2>3. Forest(g) /\ Symbols(g) = Symbols(h) \cup {b} /\ Len(g) = Len(h) + 1
    BY <2>2, InsertForest
  <2> HIDE DEF g
  <2>4. Cardinality(Symbols(h) \cup {b}) = Cardinality(Symbols(h)) + 1
    <3>1. IsFiniteSet(Symbols(h))
      BY CountOK
    <3> QED
      BY <3>1, FS_AddElement
  <2> QED
    BY <1>2, <2>1, <2>3, <2>4
<1> QED
  BY <1>1, <1>2

LEMMA LeavesAre ==
  ASSUME NEW s \in Seq(Bytes)
  PROVE  \E g : /\ g[0] = <<>> /\ LeafList(s) = g[Alphabet]
                /\ \A i \in 1 .. Alphabet : g[i] = AddLeaf(s, g[i - 1], i - 1)
<1> DEFINE n == Alphabet
           Eq(f) == f = [i \in 0 .. n |-> IF i = 0 THEN <<>> ELSE AddLeaf(s, f[i - 1], i - 1)]
           F == [i \in 1 .. n |-> [h \in Seq(Nodes) |-> AddLeaf(s, h, i - 1)]]
           g == CHOOSE f : Eq(f)
<1>1. n \in Nat /\ \A i \in 1 .. n : i - 1 \in Bytes
  BY AlphabetNat DEF Bytes
<1>2. LeafList(s) = g[n]
  BY DEF LeafList, AddLeaf
<1>3. F \in [1 .. n -> [Seq(Nodes) -> Seq(Nodes)]]
  <2>1. ASSUME NEW i \in 1 .. n, NEW h \in Seq(Nodes) PROVE AddLeaf(s, h, i - 1) \in Seq(Nodes)
    <3> DEFINE b == i - 1
               x == Leaf(s, b)
    <3>1. b \in Bytes /\ x \in Nodes
      BY <1>1, LeafNode
    <3> HIDE DEF b, x
    <3>2. Insert(h, x) \in Seq(Nodes)
      BY <3>1, InsertOK
    <3>3. AddLeaf(s, h, b) \in Seq(Nodes)
      BY <3>2 DEF AddLeaf, x
    <3> QED
      BY <3>3 DEF b
  <2> QED
    BY <2>1
<1> HIDE DEF n
<1>4. PICK f \in [0 .. n -> Seq(Nodes)] : Turns(F, <<>>, n, f)
  <2>1. <<>> \in Seq(Nodes)
    OBVIOUS
  <2> HIDE DEF F
  <2> QED
    BY <1>1, <1>3, <2>1, Runs
<1>5. Eq(f)
  <2>1. \A i \in 1 .. n : i - 1 \in 0 .. n
    BY <1>1
  <2>2. \A i \in 1 .. n : f[i] = AddLeaf(s, f[i - 1], i - 1)
    BY <1>4, <2>1 DEF Turns
  <2>3. \A i \in 0 .. n : i = 0 \/ i \in 1 .. n
    BY <1>1
  <2>4. \A i \in 0 .. n : f[i] = IF i = 0 THEN <<>> ELSE AddLeaf(s, f[i - 1], i - 1)
    BY <1>4, <2>2, <2>3 DEF Turns
  <2>5. f = [i \in 0 .. n |-> f[i]]
    OBVIOUS
  <2> QED
    BY <2>4, <2>5
<1>6. Eq(g)
  BY <1>5
<1> HIDE DEF g
<1>7. g[0] = <<>> /\ \A i \in 1 .. n : g[i] = AddLeaf(s, g[i - 1], i - 1)
  <2>1. \A i \in 0 .. n : g[i] = IF i = 0 THEN <<>> ELSE AddLeaf(s, g[i - 1], i - 1)
    BY <1>6
  <2>2. 0 \in 0 .. n /\ \A i \in 1 .. n : i \in 0 .. n /\ i # 0
    BY <1>1
  <2> QED
    BY <2>1, <2>2
<1> HIDE DEF Eq, F
<1> QED
  BY <1>2, <1>7 DEF n

LEMMA LeavesOK ==
  ASSUME NEW s \in Seq(Bytes)
  PROVE  /\ Forest(LeafList(s)) /\ Symbols(LeafList(s)) = Used(s)
         /\ Len(LeafList(s)) = Cardinality(Used(s))
<1> DEFINE n == Alphabet
<1>1. n \in Nat /\ \A i \in 1 .. n : i - 1 \in Bytes
  BY AlphabetNat DEF Bytes
<1>2. PICK g : /\ g[0] = <<>> /\ LeafList(s) = g[n]
               /\ \A i \in 1 .. n : g[i] = AddLeaf(s, g[i - 1], i - 1)
  BY LeavesAre
<1>3. g[0] = <<>> /\ \A i \in 1 .. n : g[i] = AddLeaf(s, g[i - 1], i - 1)
  BY <1>2
<1> HIDE DEF n
<1> DEFINE UpTo(i) == {b \in Bytes : b < i /\ Count(s, b) # 0}
           P == {i \in 0 .. n : /\ Forest(g[i]) /\ Symbols(g[i]) = UpTo(i)
                                /\ Len(g[i]) = Cardinality(Symbols(g[i]))}
<1>4. 0 \in P
  <2>1. UpTo(0) = {}
    BY AlphabetNat DEF Bytes
  <2>2. 0 \in 0 .. n
    BY <1>1
  <2>3. Forest(g[0]) /\ Symbols(g[0]) = {} /\ Len(g[0]) = 0 /\ Cardinality({}) = 0
    BY <1>3, NoForest
  <2> HIDE DEF UpTo
  <2> QED
    BY <2>1, <2>2, <2>3
<1>5. ASSUME NEW i \in 1 .. n, i - 1 \in P PROVE i \in P
  <2> DEFINE b == i - 1
             h == g[i - 1]
  <2>1. b \in Bytes /\ g[i] = AddLeaf(s, h, b) /\ i \in 0 .. n
    BY <1>1, <1>3
  <2>2. Forest(h) /\ Symbols(h) = UpTo(b) /\ Len(h) = Cardinality(Symbols(h))
    BY <1>5
  <2>3. b \notin UpTo(b) /\ UpTo(b) \subseteq Bytes
    BY <2>1, AlphabetNat
  <2>4. UpTo(i) = IF Count(s, b) = 0 THEN UpTo(b) ELSE UpTo(b) \cup {b}
    <3>1. \A x \in Bytes : x < i <=> x < b \/ x = b
      BY AlphabetNat
    <3> QED
      BY <2>1, <3>1
  <2> HIDE DEF b, h, UpTo
  <2>5. /\ Forest(AddLeaf(s, h, b))
        /\ Symbols(AddLeaf(s, h, b)) = IF Count(s, b) = 0 THEN Symbols(h) ELSE Symbols(h) \cup {b}
        /\ Len(AddLeaf(s, h, b)) = Cardinality(Symbols(AddLeaf(s, h, b)))
    BY <2>1, <2>2, <2>3, AddLeafOK
  <2> QED
    BY <2>1, <2>2, <2>4, <2>5
<1>6. \A i \in 0 .. n : i \in P
  <2> HIDE DEF P
  <2> QED
    BY <1>1, <1>4, <1>5, Climb
<1>7. Forest(g[n]) /\ Symbols(g[n]) = UpTo(n) /\ Len(g[n]) = Cardinality(Symbols(g[n]))
  <2>1. n \in 0 .. n
    BY <1>1
  <2> QED
    BY <1>6, <2>1
<1>8. UpTo(n) = Used(s)
  <2>1. \A b \in Bytes : b < n
    BY AlphabetNat DEF Bytes, n
  <2> QED
    BY <2>1 DEF Used
<1> QED
  BY <1>2, <1>7, <1>8

LEMMA JoinsAre ==
  ASSUME NEW l, Forest(l), Len(l) >= 1
  PROVE  \E g : /\ g[0] = l /\ AllJoined(l) = g[Len(l) - 1][1]
                /\ \A k \in 1 .. Len(l) - 1 : g[k] = JoinFirstTwo(g[k - 1])
<1> DEFINE n == Len(l) - 1
           Eq(f) == f = [k \in 0 .. n |-> IF k = 0 THEN l ELSE JoinFirstTwo(f[k - 1])]
           S == {h \in Seq(Nodes) : Forest(h)}
           F == [k \in 1 .. n |-> [h \in S |-> IF Len(h) >= 2 THEN JoinFirstTwo(h) ELSE h]]
           g == CHOOSE f : Eq(f)
<1>1. n \in Nat /\ l \in S /\ Len(l) = n + 1
  BY ForestSymbols
<1>2. AllJoined(l) = g[n][1]
  BY DEF AllJoined
<1>3. F \in [1 .. n -> [S -> S]]
  <2>1. \A h \in S : Len(h) >= 2 => JoinFirstTwo(h) \in S
    BY JoinTwo, ForestSymbols
  <2> HIDE DEF S
  <2> QED
    BY <2>1
<1> HIDE DEF n
<1>4. PICK f \in [0 .. n -> S] : Turns(F, l, n, f)
  <2> HIDE DEF F, S
  <2> QED
    BY <1>1, <1>3, Runs
<1>5. /\ f[0] = l
      /\ \A k \in 1 .. n : /\ f[k - 1] \in S /\ k - 1 \in 0 .. n
                           /\ f[k] = IF Len(f[k - 1]) >= 2 THEN JoinFirstTwo(f[k - 1]) ELSE f[k - 1]
  <2>1. \A k \in 1 .. n : k - 1 \in 0 .. n
    BY <1>1
  <2> HIDE DEF S
  <2> QED
    BY <1>4, <2>1 DEF Turns
<1> DEFINE P == {k \in 0 .. n : Len(f[k]) = n + 1 - k}
<1>6. 0 \in P
  BY <1>1, <1>5
<1>7. ASSUME NEW k \in 1 .. n, k - 1 \in P
      PROVE  k \in P /\ Len(f[k - 1]) >= 2
  <2>1. Len(f[k - 1]) = n + 1 - (k - 1) /\ n + 1 - (k - 1) >= 2
    BY <1>1, <1>7
  <2>2. f[k] = JoinFirstTwo(f[k - 1]) /\ Forest(f[k - 1])
    BY <1>5, <2>1
  <2>3. Len(f[k]) = Len(f[k - 1]) - 1
    BY <2>1, <2>2, JoinTwo
  <2>4. k \in 0 .. n /\ (n + 1 - (k - 1)) - 1 = n + 1 - k
    BY <1>1
  <2>5. Len(f[k]) = n + 1 - k
    BY <2>1, <2>3, <2>4
  <2>6. Len(f[k - 1]) >= 2
    BY <2>1
  <2> QED
    BY <2>4, <2>5, <2>6
<1>8. \A k \in 0 .. n : k \in P
  <2> HIDE DEF P
  <2> QED
    BY <1>1, <1>6, <1>7, Climb
<1>9. \A k \in 1 .. n : f[k] = JoinFirstTwo(f[k - 1])
  <2> HIDE DEF P
  <2>1. \A k \in 1 .. n : Len(f[k - 1]) >= 2
    BY <1>5, <1>7, <1>8
  <2> QED
    BY <1>5, <2>1
<1>10. Eq(f)
  <2>1. \A k \in 0 .. n : k = 0 \/ k \in 1 .. n
    BY <1>1
  <2>2. \A k \in 0 .. n : f[k] = IF k = 0 THEN l ELSE JoinFirstTwo(f[k - 1])
    BY <1>5, <1>9, <2>1
  <2>3. f = [k \in 0 .. n |-> f[k]]
    OBVIOUS
  <2> QED
    BY <2>2, <2>3
<1>11. Eq(g)
  BY <1>10
<1> HIDE DEF g, P, S, F
<1>12. g[0] = l /\ \A k \in 1 .. n : g[k] = JoinFirstTwo(g[k - 1])
  <2>1. \A k \in 0 .. n : g[k] = IF k = 0 THEN l ELSE JoinFirstTwo(g[k - 1])
    BY <1>11
  <2>2. 0 \in 0 .. n /\ \A k \in 1 .. n : k \in 0 .. n /\ k # 0
    BY <1>1
  <2> QED
    BY <2>1, <2>2
<1> HIDE DEF Eq
<1> QED
  BY <1>2, <1>12 DEF n

LEMMA JoinsOK ==
  ASSUME NEW l, Forest(l), Len(l) >= 1
  PROVE  /\ AllJoined(l) \in Nodes
         /\ DOMAIN AllJoined(l).depth = Symbols(l)
         /\ Len(l) > 1 => \A b \in DOMAIN AllJoined(l).depth : AllJoined(l).depth[b] > 0
<1> DEFINE n == Len(l) - 1
<1>1. n \in Nat /\ Forest(l) /\ Len(l) = n + 1
  BY ForestSymbols
<1>2. PICK g : /\ g[0] = l /\ AllJoined(l) = g[n][1]
               /\ \A k \in 1 .. n : g[k] = JoinFirstTwo(g[k - 1])
  BY JoinsAre
<1>3. g[0] = l /\ \A k \in 1 .. n : g[k] = JoinFirstTwo(g[k - 1])
  BY <1>2
<1> HIDE DEF n
<1> DEFINE Q == {k \in 0 .. n : /\ Forest(g[k]) /\ Symbols(g[k]) = Symbols(l)
                                /\ Len(g[k]) = n + 1 - k}
<1>4. 0 \in Q
  BY <1>1, <1>3
<1>5. ASSUME NEW k \in 1 .. n, k - 1 \in Q PROVE k \in Q
  <2> DEFINE h == g[k - 1]
  <2>1. Forest(h) /\ Symbols(h) = Symbols(l) /\ Len(h) = n + 1 - (k - 1)
    BY <1>5
  <2>2. Len(h) >= 2 /\ Len(h) - 1 = n + 1 - k /\ k \in 0 .. n
    BY <1>1, <2>1
  <2>3. g[k] = JoinFirstTwo(h)
    BY <1>3
  <2> HIDE DEF h
  <2> QED
    BY <2>1, <2>2, <2>3, JoinTwo
<1>6. \A k \in 0 .. n : k \in Q
  <2> HIDE DEF Q
  <2> QED
    BY <1>1, <1>4, <1>5, Climb
<1>7. Forest(g[n]) /\ Symbols(g[n]) = Symbols(l) /\ Len(g[n]) = 1
  <2>1. n \in 0 .. n /\ n + 1 - n = 1
    BY <1>1
  <2> QED
    BY <1>6, <2>1
<1>8. g[n][1] \in Nodes /\ DOMAIN g[n][1].depth = Symbols(l)
  <2> DEFINE h == g[n]
  <2> HIDE DEF h
  <2>1. Forest(h) /\ Symbols(h) = Symbols(l) /\ Len(h) = 1
    BY <1>7 DEF h
  <2>2. 1 \in 1 .. 1 /\ \A i \in 1 .. 1 : i = 1
    OBVIOUS
  <2>3. h[1] \in Nodes /\ DOMAIN h[1].depth = Symbols(h)
    BY <2>1, <2>2, ForestSymbols
  <2> QED
    BY <2>1, <2>3 DEF h
<1>9. Len(l) > 1 => \A b \in DOMAIN g[n][1].depth : g[n][1].depth[b] > 0
  <2> SUFFICES ASSUME Len(l) > 1 PROVE \A b \in DOMAIN g[n][1].depth : g[n][1].depth[b] > 0
    OBVIOUS
  <2> DEFINE h == g[n - 1]
  <2>1. n \in 1 .. n /\ n - 1 \in 0 .. n /\ n + 1 - (n - 1) = 2
    BY <1>1
  <2>2. Forest(h) /\ Len(h) = 2
    BY <1>6, <2>1
  <2>3. g[n] = JoinFirstTwo(h)
    BY <1>3, <2>1
  <2> HIDE DEF h
  <2> DEFINE j == JoinFirstTwo(h)
             d == j[1].depth
  <2>4. 2 >= 2
    OBVIOUS
  <2>5. \A b \in DOMAIN d : d[b] > 0
    BY <2>2, <2>4, JoinTwo
  <2>6. g[n][1].depth = d
    BY <2>3
  <2> HIDE DEF d
  <2> QED
    BY <2>5, <2>6
<1> QED
  BY <1>2, <1>8, <1>9
LEMMA UsedOK ==
  ASSUME NEW s \in Seq(Bytes)
  PROVE  /\ Used(s) = {b \in Bytes : \E i \in 1 .. Len(s) : s[i] = b}
         /\ Used(s) = ToSet(s)
         /\ Used(s) \in SUBSET Bytes /\ Cardinality(Used(s)) \in Nat
         /\ Cardinality(Used(s)) <= Alphabet
         /\ Len(s) > 0 => Used(s) # {} /\ Cardinality(Used(s)) >= 1
<1>1. ASSUME NEW b PROVE Count(s, b) # 0 <=> \E i \in 1 .. Len(s) : s[i] = b
  <2> DEFINE S == {i \in 1 .. Len(s) : s[i] = b}
  <2>1. S \in SUBSET (1 .. Len(s)) /\ Len(s) \in Int /\ 1 \in Int
    OBVIOUS
  <2>2. IsFiniteSet(1 .. Len(s))
    BY <2>1, FS_Interval
  <2> HIDE DEF S
  <2>3. IsFiniteSet(S)
    BY <2>1, <2>2, FS_Subset
  <2>4. Cardinality(S) = 0 <=> S = {}
    BY <2>3, FS_EmptySet
  <2>5. Count(s, b) = Cardinality(S)
    BY DEF Count, S
  <2> QED
    BY <2>4, <2>5 DEF S
<1>2. Used(s) = {b \in Bytes : \E i \in 1 .. Len(s) : s[i] = b}
  BY <1>1 DEF Used
<1>3. Used(s) = ToSet(s)
  BY <1>2 DEF ToSet
<1>4. Used(s) \in SUBSET Bytes
  BY DEF Used
<1>5. IsFiniteSet(Used(s)) /\ Cardinality(Used(s)) \in Nat /\ Cardinality(Used(s)) <= Alphabet
  BY <1>4, BytesFinite, FS_Subset, FS_CardinalityType
<1>6. Len(s) > 0 => Used(s) # {}
  <2>1. Len(s) > 0 => 1 \in 1 .. Len(s) /\ s[1] \in Bytes
    OBVIOUS
  <2> QED
    BY <1>2, <2>1
<1>7. Used(s) # {} => Cardinality(Used(s)) >= 1
  BY <1>5, FS_EmptySet
<1> QED
  BY <1>2, <1>3, <1>4, <1>5, <1>6, <1>7

(* No word of this length or a greater one is free. *)
Complete(lengths, u) ==
  \A l \in 1 .. Alphabet : (\A b \in Bytes : lengths[b] <= l) => u[l] = 2 ^ l

LEMMA OneLength ==
  ASSUME NEW x \in Bytes, NEW lengths, lengths = [b \in Bytes |-> IF b = x THEN 1 ELSE 0]
  PROVE  \E u : Levels(lengths, u)
<1> DEFINE u == [l \in 0 .. Alphabet |-> IF l = 0 THEN 0 ELSE 2 ^ (l - 1)]
<1>1. \A l \in 1 .. Alphabet : l - 1 \in Nat /\ l \in 0 .. Alphabet /\ l # 0
  BY AlphabetNat
<1>2. \A l \in 1 .. Alphabet : 2 ^ (l - 1) \in Nat
  BY <1>1, PowerOK
<1>3. u \in [0 .. Alphabet -> Nat]
  <2>1. \A l \in 0 .. Alphabet : l # 0 => l \in 1 .. Alphabet
    OBVIOUS
  <2> QED
    BY <1>2, <2>1
<1>4. u[0] = 0 /\ \A l \in 1 .. Alphabet : u[l] = 2 ^ (l - 1)
  BY <1>1, AlphabetNat
<1> HIDE DEF u
<1>5. lengths \in [Bytes -> 0 .. Alphabet]
  <2>1. 0 \in 0 .. Alphabet /\ 1 \in 0 .. Alphabet
    BY AlphabetNat
  <2> QED
    BY <2>1
<1>6. ASSUME NEW l \in 1 .. Alphabet
      PROVE  u[l] = 2 * u[l - 1] + Cardinality(OfLength(lengths, l)) /\ u[l] <= 2 ^ l
  <2> DEFINE k == l - 1
  <2>1. k \in Nat /\ k + 1 = l /\ k \in 0 .. Alphabet
    BY AlphabetNat
  <2>2. u[l] = 2 ^ k
    BY <1>4
  <2> HIDE DEF k
  <2>3. 2 ^ k \in Nat /\ 2 ^ (k + 1) = 2 * 2 ^ k
    BY <2>1, PowerOK
  <2>4. 2 ^ l = 2 ^ (k + 1)
    BY <2>1
  <2>5. u[l] <= 2 ^ l
    BY <2>2, <2>3, <2>4
  <2>6. CASE k = 0
    <3>1. OfLength(lengths, l) = {x}
      BY <2>1, <2>6 DEF OfLength
    <3>2. Cardinality(OfLength(lengths, l)) = 1
      BY <3>1, FS_Singleton
    <3>3. u[l] = 1 /\ u[k] = 0
      BY <1>4, <2>2, <2>6, PowerZero
    <3> QED
      BY <2>5, <3>2, <3>3 DEF k
  <2>7. CASE k # 0
    <3>1. OfLength(lengths, l) = {}
      BY <2>1, <2>7 DEF OfLength
    <3>2. Cardinality(OfLength(lengths, l)) = 0
      BY <3>1, FS_EmptySet
    <3> DEFINE j == k - 1
    <3>3. j \in Nat /\ j + 1 = k /\ k \in 1 .. Alphabet
      BY <2>1, <2>7
    <3>4. u[k] = 2 ^ j
      BY <1>4, <3>3
    <3> HIDE DEF j
    <3>5. 2 ^ (j + 1) = 2 * 2 ^ j /\ 2 ^ j \in Nat
      BY <3>3, PowerOK
    <3>6. 2 ^ k = 2 ^ (j + 1)
      BY <3>3
    <3>7. u[l] = 2 * u[k] /\ u[k] \in Nat
      BY <2>2, <3>4, <3>5, <3>6
    <3> QED
      BY <2>5, <3>2, <3>7 DEF k
  <2> QED
    BY <2>6, <2>7
<1>7. Levels(lengths, u)
  BY <1>3, <1>4, <1>5, <1>6 DEF Levels
<1> QED
  BY <1>7

LEMMA TreeLevels ==
  ASSUME NEW d, Tree(d), \A b \in DOMAIN d : d[b] > 0,
         NEW lengths, lengths = [b \in Bytes |-> IF b \in DOMAIN d THEN d[b] ELSE 0]
  PROVE  /\ \E u : Levels(lengths, u) /\ Complete(lengths, u)
         /\ \A b \in Bytes : lengths[b] \in Nat /\ lengths[b] <= Alphabet - 1
         /\ Coded(lengths) = DOMAIN d
<1> DEFINE D == DOMAIN d
<1>1. /\ D \in SUBSET Bytes /\ D # {} /\ d \in [D -> Nat]
      /\ \A b \in D : d[b] <= Cardinality(D) - 1
  BY DEF Tree
<1>2. PICK u : Shape(d, u)
  BY DEF Tree
<1>3. \A b \in D : d[b] \in Nat
  BY <1>1
<1>4. Cardinality(D) \in Nat /\ Cardinality(D) <= Alphabet
  BY <1>1, BytesFinite, CountOK, FS_Subset
<1>5. \A b \in Bytes : lengths[b] = IF b \in D THEN d[b] ELSE 0
  OBVIOUS
<1> HIDE DEF D
<1>6. \A b \in Bytes : lengths[b] \in Nat /\ lengths[b] <= Alphabet - 1
  <2> SUFFICES ASSUME NEW b \in Bytes PROVE lengths[b] \in Nat /\ lengths[b] <= Alphabet - 1
    OBVIOUS
  <2>1. CASE b \in D
    BY <1>1, <1>3, <1>4, <1>5, <2>1, AlphabetNat
  <2>2. CASE b \notin D
    BY <1>5, <2>2, AlphabetNat
  <2> QED
    BY <2>1, <2>2
<1>7. lengths \in [Bytes -> 0 .. Alphabet]
  <2>1. \A b \in Bytes : lengths[b] \in 0 .. Alphabet
    BY <1>6, AlphabetNat
  <2>2. lengths = [b \in Bytes |-> lengths[b]]
    OBVIOUS
  <2> QED
    BY <2>1, <2>2
<1>8. \A b \in D : d[b] > 0
  BY DEF D
<1>9. \A l \in 1 .. Alphabet : OfLength(lengths, l) = AtDepth(d, l)
  <2> SUFFICES ASSUME NEW l \in 1 .. Alphabet PROVE OfLength(lengths, l) = AtDepth(d, l)
    OBVIOUS
  <2>1. l # 0
    OBVIOUS
  <2>2. AtDepth(d, l) = {b \in D : d[b] = l}
    BY DEF AtDepth, D
  <2>3. OfLength(lengths, l) = {b \in Bytes : lengths[b] = l}
    BY DEF OfLength
  <2> QED
    BY <1>1, <1>5, <2>1, <2>2, <2>3
<1>10. u[0] = 0
  <2>1. AtDepth(d, 0) = {}
    BY <1>3, <1>8 DEF AtDepth, D
  <2> QED
    BY <1>2, <2>1, FS_EmptySet DEF Shape
<1>11. Levels(lengths, u)
  <2>1. \A l \in 1 .. Alphabet : l \in 0 .. Alphabet
    BY AlphabetNat
  <2> QED
    BY <1>2, <1>7, <1>9, <1>10, <2>1 DEF Levels, Shape
<1>12. Complete(lengths, u)
  <2> SUFFICES ASSUME NEW l \in 1 .. Alphabet, \A b \in Bytes : lengths[b] <= l PROVE u[l] = 2 ^ l
    BY DEF Complete
  <2>1. \A b \in D : d[b] <= l
    BY <1>1, <1>5
  <2>2. l \in 0 .. Alphabet
    BY AlphabetNat
  <2> QED
    BY <1>2, <2>1, <2>2 DEF Shape, D
<1>13. Coded(lengths) = D
  <2>1. ~(0 > 0)
    OBVIOUS
  <2> QED
    BY <1>1, <1>5, <1>8, <2>1 DEF Coded
<1> QED
  BY <1>6, <1>11, <1>12, <1>13 DEF D

LEMMA LengthsOK ==
  ASSUME NEW s \in Seq(Bytes), Len(s) > 0
  PROVE  /\ \E u : /\ Levels(Lengths(s), u)
                   /\ Cardinality(Used(s)) > 1 => Complete(Lengths(s), u)
         /\ \A b \in Bytes : Lengths(s)[b] \in Nat /\ Lengths(s)[b] <= Alphabet - 1
         /\ Coded(Lengths(s)) = Used(s)
<1> DEFINE l == LeafList(s)
           d == AllJoined(l).depth
           U == Used(s)
           c == Cardinality(U)
<1>1. Forest(l) /\ Symbols(l) = U /\ Len(l) = c
  BY LeavesOK
<1>2. U # {} /\ c \in Nat /\ c >= 1 /\ U \in SUBSET Bytes
  BY UsedOK
<1>3. Len(l) >= 1
  BY <1>1, <1>2
<1>4. AllJoined(l) \in Nodes /\ DOMAIN d = U /\ (c > 1 => \A b \in DOMAIN d : d[b] > 0)
  <2> HIDE DEF l
  <2> QED
    BY <1>1, <1>3, JoinsOK
<1>5. Tree(d)
  BY <1>4, NodeOK
<1>6. Lengths(s) = [b \in Bytes |-> IF b \notin DOMAIN d THEN 0 ELSE IF c = 1 THEN 1 ELSE d[b]]
  BY <1>1, LengthsAre
<1> HIDE DEF l, d
<1>7. CASE c = 1
  <2>1. PICK x : U = {x}
    <3>1. IsFiniteSet(U)
      BY <1>2, CountOK
    <3> QED
      BY <1>7, <3>1, FS_Singleton
  <2>2. x \in Bytes
    BY <1>2, <2>1
  <2>3. Lengths(s) = [b \in Bytes |-> IF b = x THEN 1 ELSE 0]
    BY <1>4, <1>6, <1>7, <2>1
  <2>4. \E u : Levels(Lengths(s), u)
    BY <2>2, <2>3, OneLength
  <2>5. \A b \in Bytes : Lengths(s)[b] \in Nat /\ Lengths(s)[b] <= Alphabet - 1
    BY <2>3, AlphabetNat
  <2>6. Coded(Lengths(s)) = {x}
    BY <2>2, <2>3 DEF Coded
  <2>7. ~(c > 1)
    BY <1>7
  <2> QED
    BY <2>1, <2>4, <2>5, <2>6, <2>7
<1>8. CASE c > 1
  <2>1. c # 1
    BY <1>2, <1>8
  <2>2. Lengths(s) = [b \in Bytes |-> IF b \in DOMAIN d THEN d[b] ELSE 0]
    BY <1>6, <2>1
  <2>3. \A b \in DOMAIN d : d[b] > 0
    BY <1>4, <1>8
  <2> QED
    BY <1>4, <1>5, <2>2, <2>3, TreeLevels
<1> QED
  BY <1>2, <1>7, <1>8
LEMMA IsPrefixOf ==
  ASSUME NEW S, NEW p \in Seq(S), NEW q \in Seq(S), NEW m \in Nat, Len(p) = m, m <= Len(q),
         \A j \in 1 .. m : p[j] = q[j]
  PROVE  IsPrefix(p, q) /\ SubSeq(q, 1, m) = p
<1>1. /\ SubSeq(p, 1, m) \in Seq(S) /\ Len(SubSeq(p, 1, m)) = m
      /\ \A j \in 1 .. m : SubSeq(p, 1, m)[j] = p[j]
  OBVIOUS
<1>2. /\ SubSeq(q, 1, m) \in Seq(S) /\ Len(SubSeq(q, 1, m)) = m
      /\ \A j \in 1 .. m : SubSeq(q, 1, m)[j] = q[j]
  OBVIOUS
<1> DEFINE a == SubSeq(p, 1, m)
           b == SubSeq(q, 1, m)
<1> HIDE DEF a, b
<1>3. a = b
  <2>1. a \in Seq(S) /\ b \in Seq(S) /\ Len(a) = m /\ Len(b) = m /\ \A j \in 1 .. m : a[j] = b[j]
    BY <1>1, <1>2 DEF a, b
  <2> QED
    BY ONLY <2>1, SeqEqual
<1>4. b = p
  <2>1. b \in Seq(S) /\ Len(b) = m /\ \A j \in 1 .. m : b[j] = p[j]
    BY <1>2 DEF b
  <2> QED
    BY <2>1, SeqEqual
<1> QED
  BY <1>3, <1>4 DEF IsPrefix, a, b

LEMMA IndexOnto ==
  ASSUME NEW lengths, NEW l, NEW i \in Nat, i < Cardinality(OfLength(lengths, l))
  PROVE  \E b \in OfLength(lengths, l) : Index(lengths, b) = i
<1> DEFINE S == OfLength(lengths, l)
           n == Cardinality(S)
           T == 0 .. n - 1
           f == [b \in S |-> Index(lengths, b)]
<1>1. IsFiniteSet(S) /\ n \in Nat /\ S \subseteq Bytes /\ \A b \in S : lengths[b] = l
  BY CountOK DEF OfLength
<1> HIDE DEF S
<1>2. \A b \in S : Index(lengths, b) \in T
  <2> SUFFICES ASSUME NEW b \in S PROVE Index(lengths, b) \in T
    OBVIOUS
  <2>1. b \in Bytes /\ lengths[b] = l
    BY <1>1
  <2>2. Index(lengths, b) \in Nat /\ Index(lengths, b) < n
    BY <2>1, IndexOK DEF S
  <2> HIDE DEF n
  <2> QED
    BY <1>1, <2>2
<1>3. \A b, x \in S : Index(lengths, b) = Index(lengths, x) => b = x
  <2> SUFFICES ASSUME NEW b \in S, NEW x \in S, Index(lengths, b) = Index(lengths, x) PROVE b = x
    OBVIOUS
  <2>1. b \in Bytes /\ x \in Bytes /\ lengths[b] = lengths[x]
    BY <1>1
  <2>2. Index(lengths, b) \in Nat /\ Index(lengths, x) \in Nat
    BY <2>1, IndexOK
  <2>3. ~(b < x) /\ ~(x < b)
    BY <2>1, <2>2, IndexOK
  <2> QED
    BY <2>1, <2>3, AlphabetNat
<1> HIDE DEF n
<1>4. f \in Injection(S, T)
  BY <1>2, <1>3 DEF Injection, IsInjective
<1>5. IsFiniteSet(T) /\ Cardinality(T) = n
  <2>1. n - 1 \in Int /\ 0 \in Int /\ (0 > n - 1 => n = 0) /\ n - 1 - 0 + 1 = n
    BY <1>1
  <2> DEFINE m == n - 1
  <2> HIDE DEF m
  <2>2. m \in Int => IsFiniteSet(0 .. m) /\ Cardinality(0 .. m) = IF 0 > m THEN 0 ELSE m - 0 + 1
    BY FS_Interval
  <2> QED
    BY <1>1, <2>1, <2>2 DEF m
<1>6. f \in Surjection(S, T)
  <2> HIDE DEF f, T
  <2> QED
    BY <1>1, <1>4, <1>5, FS_Injection DEF n
<1>7. i \in T
  BY <1>1 DEF n, S
<1> QED
  BY <1>6, <1>7 DEF Surjection, S

(* A whole set of codes leaves no word without one. *)
LEMMA NoDeadEnd ==
  ASSUME NEW lengths, NEW u, Levels(lengths, u), Complete(lengths, u),
         NEW top \in 1 .. Alphabet, \A b \in Bytes : lengths[b] <= top,
         NEW w \in [1 .. top -> {0, 1}]
  PROVE  \E b \in Coded(lengths) : IsPrefix(Code(lengths, b), w)
<1>0. Alphabet \in Nat /\ top \in Nat /\ top >= 1 /\ top <= Alphabet
  BY AlphabetNat
<1>1. PICK N \in Nat : N < 2 ^ top /\ Digits(N, top) = w
  BY <1>0, NumberOf
<1> DEFINE q(l) == N \div 2 ^ (top - l)
           S == {l \in 1 .. top : q(l) < u[l]}
<1>2. \A l \in 0 .. top : q(l) \in Nat
  <2>1. \A l \in 0 .. top : top - l \in Nat
    BY <1>0
  <2> QED
    BY <2>1, HalfOf
<1>3. \A l \in 1 .. top : q(l) >= 2 * q(l - 1)
  <2> SUFFICES ASSUME NEW l \in 1 .. top PROVE q(l) >= 2 * q(l - 1)
    OBVIOUS
  <2> DEFINE k == top - l
  <2>1. k \in Nat /\ k + 1 = top - (l - 1) /\ l - 1 \in 0 .. top /\ l \in 0 .. top
    BY <1>0
  <2>2. q(l) = N \div 2 ^ k /\ q(l - 1) = N \div 2 ^ (top - (l - 1))
    OBVIOUS
  <2> HIDE DEF k
  <2>3. N \div 2 ^ k = 2 * (N \div 2 ^ (k + 1)) + ((N \div 2 ^ k) % 2) /\ (N \div 2 ^ k) % 2 \in {0, 1}
        /\ N \div 2 ^ (k + 1) \in Nat
    <3> DEFINE P(j) == N \div 2 ^ j = 2 * (N \div 2 ^ (j + 1)) + ((N \div 2 ^ j) % 2) /\ (N \div 2 ^ j) % 2 \in {0, 1}
                      /\ N \div 2 ^ (j + 1) \in Nat
    <3>1. \A j \in Nat : P(j)
      <4> SUFFICES ASSUME NEW j \in Nat PROVE P(j)
        OBVIOUS
      <4>1. j + 1 \in Nat
        OBVIOUS
      <4>2. N \div 2 ^ j = 2 * (N \div 2 ^ (j + 1)) + ((N \div 2 ^ j) % 2) /\ (N \div 2 ^ j) % 2 \in {0, 1}
        BY HalfOf
      <4>3. N \div 2 ^ (j + 1) \in Nat
        BY <4>1, HalfOf
      <4> QED
        BY <4>2, <4>3
    <3> HIDE DEF P
    <3>2. P(k)
      BY <2>1, <3>1
    <3> QED
      BY <3>2 DEF P
  <2>4. q(l - 1) = N \div 2 ^ (k + 1)
    BY <2>1, <2>2
  <2> HIDE DEF q
  <2> QED
    BY <2>2, <2>3, <2>4
<1>4. top \in S
  <2>1. top - top = 0 /\ N \div 1 = N /\ top \in 1 .. top
    BY <1>0
  <2>2. q(top) = N
    BY <2>1, PowerZero
  <2>3. u[top] = 2 ^ top
    BY <1>0 DEF Complete
  <2> QED
    BY <1>1, <2>1, <2>2, <2>3
<1> HIDE DEF q
<1>5. PICK l \in S : \A k \in S : l <= k
  <2>1. S \subseteq Nat /\ S # {}
    BY <1>4
  <2> HIDE DEF S
  <2> QED
    BY <2>1, LeastNat
<1>6. /\ l \in 1 .. top /\ l \in Nat /\ l \in 1 .. Alphabet /\ l - 1 \in 0 .. Alphabet
      /\ l - 1 \in 0 .. top /\ l \in 0 .. top /\ q(l) < u[l]
  BY <1>0, <1>5
<1>7. u[l] = 2 * u[l - 1] + Cardinality(OfLength(lengths, l)) /\ u[l - 1] \in Nat /\ u[0] = 0
  BY <1>6 DEF Levels
<1>8. 2 * u[l - 1] <= q(l) /\ q(l) \in Nat
  <2>1. CASE l = 1
    BY <1>2, <1>6, <1>7, <2>1
  <2>2. CASE l # 1
    <3>1. l - 1 \in 1 .. top /\ ~(l <= l - 1)
      BY <1>6, <2>2
    <3> HIDE DEF S
    <3>2. l - 1 \notin S
      BY <1>5, <3>1
    <3>3. ~(q(l - 1) < u[l - 1])
      BY <3>1, <3>2 DEF S
    <3>4. q(l) >= 2 * q(l - 1) /\ q(l - 1) \in Nat /\ q(l) \in Nat
      BY <1>2, <1>3, <1>6
    <3> QED
      BY <1>7, <3>3, <3>4
  <2> QED
    BY <2>1, <2>2
<1> DEFINE i == q(l) - 2 * u[l - 1]
<1>9. i \in Nat /\ i < Cardinality(OfLength(lengths, l)) /\ 2 * u[l - 1] + i = q(l)
  <2>1. Cardinality(OfLength(lengths, l)) \in Nat
    BY CountOK DEF OfLength
  <2> QED
    BY <1>6, <1>7, <1>8, <2>1
<1> HIDE DEF i
<1>10. PICK b \in OfLength(lengths, l) : Index(lengths, b) = i
  BY <1>9, IndexOnto
<1>11. b \in Bytes /\ lengths[b] = l /\ b \in Coded(lengths)
  BY <1>6 DEF OfLength, Coded
<1>12. Code(lengths, b) = Digits(q(l), l)
  <2>1. /\ Number(lengths, b) = 2 * u[lengths[b] - 1] + Index(lengths, b)
        /\ Code(lengths, b) = Digits(Number(lengths, b), lengths[b])
    BY <1>11, NumberIn
  <2> QED
    BY <1>9, <1>10, <1>11, <2>1
<1>13. \A j \in 1 .. l : Digits(q(l), l)[j] = w[j]
  <2>1. \A j \in 1 .. l : Digits(N, top)[j] = Digits(N \div 2 ^ (top - l), l)[j]
    BY <1>0, <1>6, FirstBits
  <2> QED
    BY <1>1, <2>1 DEF q
<1>14. IsPrefix(Code(lengths, b), w)
  <2> DEFINE p == Digits(q(l), l)
  <2>1. p \in Seq({0, 1}) /\ Len(p) = l
    BY <1>6, <1>8, BitsOK
  <2>2. w \in Seq({0, 1}) /\ l <= Len(w)
    BY <1>0, <1>6
  <2> HIDE DEF p
  <2>3. \A j \in 1 .. l : p[j] = w[j]
    BY <1>13 DEF p
  <2>4. IsPrefix(p, w)
    BY <1>6, <2>1, <2>2, <2>3, IsPrefixOf
  <2> QED
    BY <1>12, <2>4 DEF p
<1> QED
  BY <1>11, <1>14

(* What is flattened is joined piece by piece. *)
Strung(f, q, n) == f[0] = <<>> /\ \A i \in 1 .. n : f[i] = f[i - 1] \o q[i]

LEMMA Flattened ==
  ASSUME NEW S, NEW n \in Nat, n > 0, NEW q \in [1 .. n -> Seq(S)]
  PROVE  \E f \in [0 .. n -> Seq(S)] : Strung(f, q, n) /\ FlattenSeq(q) = f[n]
<1> DEFINE F == [i \in 1 .. n |-> [w \in Seq(S) |-> w \o q[i]]]
           Eq(h) == h = [i \in 1 .. n |-> IF i = 1 THEN q[i] ELSE h[i - 1] \o q[i]]
           g == CHOOSE h : Eq(h)
<1>0. Len(q) = n /\ \A i \in 1 .. n : q[i] \in Seq(S)
  OBVIOUS
<1>1. FlattenSeq(q) = g[n]
  <2>1. Len(q) # 0
    BY <1>0
  <2> QED
    BY <1>0, <2>1 DEF FlattenSeq
<1>2. F \in [1 .. n -> [Seq(S) -> Seq(S)]]
  <2>1. \A i \in 1 .. n : \A w \in Seq(S) : w \o q[i] \in Seq(S)
    BY <1>0, ConcatProperties
  <2> QED
    BY <2>1
<1>3. PICK f \in [0 .. n -> Seq(S)] : Turns(F, <<>>, n, f)
  <2>1. <<>> \in Seq(S)
    OBVIOUS
  <2> HIDE DEF F
  <2> QED
    BY <1>2, <2>1, Runs
<1>4. \A i \in 1 .. n : i - 1 \in 0 .. n /\ i \in 0 .. n
  OBVIOUS
<1>5. f[0] = <<>> /\ \A i \in 1 .. n : f[i] = f[i - 1] \o q[i]
  BY <1>3, <1>4 DEF Turns
<1> HIDE DEF F
<1>6. f[1] = q[1]
  <2>1. f[1] = <<>> \o q[1] /\ q[1] \in Seq(S)
    <3>1. 1 \in 1 .. n /\ 1 - 1 = 0
      OBVIOUS
    <3> QED
      BY <1>0, <1>5, <3>1
  <2> QED
    BY <2>1, ConcatEmptySeq
<1> DEFINE h0 == [i \in 1 .. n |-> f[i]]
<1>7. Eq(h0)
  <2>1. \A i \in 1 .. n : h0[i] = IF i = 1 THEN q[i] ELSE h0[i - 1] \o q[i]
    <3> SUFFICES ASSUME NEW i \in 1 .. n PROVE h0[i] = IF i = 1 THEN q[i] ELSE h0[i - 1] \o q[i]
      OBVIOUS
    <3>1. i # 1 => i - 1 \in 1 .. n
      OBVIOUS
    <3>2. h0[i] = f[i] /\ f[i] = f[i - 1] \o q[i]
      BY <1>5
    <3>3. i # 1 => h0[i - 1] = f[i - 1]
      BY <3>1
    <3> HIDE DEF h0
    <3> QED
      BY <1>6, <3>2, <3>3
  <2>2. h0 = [i \in 1 .. n |-> h0[i]]
    OBVIOUS
  <2> HIDE DEF h0
  <2> QED
    BY <2>1, <2>2
<1>8. Eq(g)
  BY <1>7
<1> HIDE DEF g, h0
<1>9. g[1] = q[1] /\ \A i \in 1 .. n : i # 1 => g[i] = g[i - 1] \o q[i]
  <2>1. \A i \in 1 .. n : g[i] = IF i = 1 THEN q[i] ELSE g[i - 1] \o q[i]
    BY <1>8
  <2>2. 1 \in 1 .. n
    OBVIOUS
  <2> QED
    BY <2>1, <2>2
<1> HIDE DEF Eq
<1> DEFINE P == {i \in 0 .. n : i = 0 \/ g[i] = f[i]}
<1>10. 0 \in P
  OBVIOUS
<1>11. ASSUME NEW i \in 1 .. n, i - 1 \in P PROVE i \in P
  <2>1. CASE i = 1
    BY <1>6, <1>9, <2>1
  <2>2. CASE i # 1
    <3>1. i - 1 # 0
      BY <2>2
    <3>2. g[i - 1] = f[i - 1]
      BY <1>11, <3>1
    <3> QED
      BY <1>4, <1>5, <1>9, <2>2, <3>2
  <2> QED
    BY <2>1, <2>2
<1>12. \A i \in 0 .. n : i \in P
  <2> HIDE DEF P
  <2> QED
    BY <1>10, <1>11, Climb
<1>13. g[n] = f[n]
  <2>1. n \in 0 .. n /\ n # 0
    OBVIOUS
  <2> QED
    BY <1>12, <2>1
<1> QED
  BY <1>1, <1>5, <1>13 DEF Strung

(* A code is the number of its symbol, with as many digits as it has. *)
LEMMA CodeOK ==
  ASSUME NEW lengths, NEW u, Levels(lengths, u), NEW b \in Coded(lengths)
  PROVE  /\ b \in Bytes /\ lengths[b] \in Nat /\ lengths[b] >= 1
         /\ Code(lengths, b) \in Seq({0, 1}) /\ Len(Code(lengths, b)) = lengths[b]
<1>1. b \in Bytes /\ lengths[b] \in 1 .. Alphabet /\ Number(lengths, b) \in Nat
  BY NumberIn
<1>2. lengths[b] \in Nat /\ lengths[b] >= 1
  BY <1>1, AlphabetNat
<1>3. Code(lengths, b) = Digits(Number(lengths, b), lengths[b])
  BY DEF Code, Digits, Number, Index
<1> DEFINE m == lengths[b]
           x == Number(lengths, b)
<1>4. Digits(x, m) \in Seq({0, 1}) /\ Len(Digits(x, m)) = m
  <2>1. m \in Nat /\ x \in Nat
    BY <1>1, <1>2
  <2> HIDE DEF m, x
  <2> QED
    BY <2>1, BitsOK
<1> QED
  BY <1>1, <1>2, <1>3, <1>4

LEMMA FirstOf ==
  ASSUME NEW S, NEW q \in Seq(S), NEW m \in 0 .. Len(q)
  PROVE  /\ SubSeq(q, 1, m) \in Seq(S) /\ Len(SubSeq(q, 1, m)) = m
         /\ \A j \in 1 .. m : SubSeq(q, 1, m)[j] = q[j]
         /\ IsPrefix(SubSeq(q, 1, m), q)
<1> DEFINE p == SubSeq(q, 1, m)
<1>1. /\ p \in Seq(S) /\ Len(p) = m
      /\ \A j \in 1 .. m : p[j] = q[j]
  OBVIOUS
<1> HIDE DEF p
<1>2. m \in Nat /\ m <= Len(q)
  OBVIOUS
<1>3. IsPrefix(p, q)
  BY <1>1, <1>2, IsPrefixOf
<1> QED
  BY <1>1, <1>3 DEF p

LEMMA OneMore ==
  ASSUME NEW S, NEW q \in Seq(S), NEW m \in Nat, m + 1 <= Len(q)
  PROVE  Append(SubSeq(q, 1, m), q[m + 1]) = SubSeq(q, 1, m + 1)
<1> DEFINE p == SubSeq(q, 1, m)
           r == SubSeq(q, 1, m + 1)
           x == q[m + 1]
           a == Append(p, x)
<1>1. m \in 0 .. Len(q) /\ m + 1 \in 0 .. Len(q) /\ x \in S
  OBVIOUS
<1>2. /\ p \in Seq(S) /\ Len(p) = m
      /\ \A j \in 1 .. m : p[j] = q[j]
  BY <1>1, FirstOf
<1>3. /\ r \in Seq(S) /\ Len(r) = m + 1
      /\ \A j \in 1 .. m + 1 : r[j] = q[j]
  BY <1>1, FirstOf
<1> HIDE DEF p, r
<1>4. a \in Seq(S) /\ Len(a) = m + 1 /\ a[m + 1] = x /\ \A j \in 1 .. m : a[j] = p[j]
  <2> HIDE DEF x
  <2> QED
    BY <1>1, <1>2
<1> HIDE DEF a
<1>5. \A j \in 1 .. m + 1 : a[j] = r[j]
  <2>1. \A j \in 1 .. m + 1 : j = m + 1 \/ j \in 1 .. m
    OBVIOUS
  <2> QED
    BY <1>2, <1>3, <1>4, <2>1
<1>6. a = r
  BY <1>3, <1>4, <1>5, SeqEqual
<1> QED
  BY <1>6 DEF a, p, r, x
(* Downwards: from the start of a code to its next bit, or to its symbol. *)
After(path, out) == [ok |-> TRUE, path |-> path, out |-> out]

IsAfter(d, p, o, q, b) ==
  /\ d.ok = TRUE /\ d.path = p /\ d.out = o
  /\ [d EXCEPT !.path = <<>>, !.out = Append(@, b)] = After(<<>>, Append(o, b))
  /\ [d EXCEPT !.path = q, !.ok = TRUE] = After(q, o)

Three(K, A, B) == [ok : K, path : A, out : B]

PutsOut(d, q, o) == [d EXCEPT !.path = q, !.out = o] = [ok |-> d.ok, path |-> q, out |-> o]
PutsOk(d, q, k) == [d EXCEPT !.path = q, !.ok = k] = [ok |-> k, path |-> q, out |-> d.out]

LEMMA PutPathOut ==
  ASSUME NEW K, NEW A, NEW B, NEW d \in Three(K, A, B), NEW q \in A, NEW o \in B
  PROVE  PutsOut(d, q, o)
<1> DEFINE e == [d EXCEPT !.path = q]
<1>1. e = [ok |-> d.ok, path |-> q, out |-> d.out] /\ e \in Three(K, A, B)
  BY DEF Three
<1> HIDE DEF e
<1>2. [e EXCEPT !.out = o] = [ok |-> e.ok, path |-> e.path, out |-> o]
  BY <1>1 DEF Three
<1>3. e.ok = d.ok /\ e.path = q
  BY <1>1
<1> QED
  BY <1>2, <1>3 DEF e, PutsOut

LEMMA PutPathOk ==
  ASSUME NEW K, NEW A, NEW B, NEW d \in Three(K, A, B), NEW q \in A, NEW k \in K
  PROVE  PutsOk(d, q, k)
<1> DEFINE e == [d EXCEPT !.path = q]
<1>1. e = [ok |-> d.ok, path |-> q, out |-> d.out] /\ e \in Three(K, A, B)
  BY DEF Three
<1> HIDE DEF e
<1>2. [e EXCEPT !.ok = k] = [ok |-> k, path |-> e.path, out |-> e.out]
  BY <1>1 DEF Three
<1>3. e.out = d.out /\ e.path = q
  BY <1>1
<1> QED
  BY <1>2, <1>3 DEF e, PutsOk

LEMMA AfterIs ==
  ASSUME NEW p \in Seq({0, 1}), NEW o \in Seq(Bytes), NEW q \in Seq({0, 1}), NEW b \in Bytes
  PROVE  IsAfter(After(p, o), p, o, q, b)
<1> DEFINE d == After(p, o)
           K == BOOLEAN
           A == Seq({0, 1})
           B == Seq(Bytes)
           x == Append(o, b)
           y == TRUE
           none == <<>>
<1>1. d.path = p /\ d.out = o /\ d.ok = y
  BY DEF After
<1>2. d \in Three(K, A, B)
  BY DEF After, Three
<1>3. none \in A /\ x \in B /\ q \in A /\ y \in K /\ o \in B
  OBVIOUS
<1>4. /\ [d EXCEPT !.path = none, !.out = x] = [ok |-> d.ok, path |-> none, out |-> x]
      /\ [d EXCEPT !.path = q, !.ok = y] = [ok |-> y, path |-> q, out |-> d.out]
  <2> HIDE DEF d, K, A, B, x, y, none
  <2>1. PutsOut(d, none, x)
    BY <1>2, <1>3, PutPathOut
  <2>2. PutsOk(d, q, y)
    BY <1>2, <1>3, PutPathOk
  <2> QED
    BY <2>1, <2>2 DEF PutsOut, PutsOk
<1>5. [d EXCEPT !.path = none, !.out = x] = [ok |-> y, path |-> none, out |-> x]
  <2> HIDE DEF d, x, y, none
  <2> QED
    BY <1>1, <1>4
<1>6. [d EXCEPT !.path = q, !.ok = y] = [ok |-> y, path |-> q, out |-> o]
  <2> HIDE DEF d, x, y, none
  <2> QED
    BY <1>1, <1>4
<1>7. [d EXCEPT !.path = none, !.out = Append(@, b)] = [d EXCEPT !.path = none, !.out = x]
  <2>1. Append(d.out, b) = x
    BY <1>1
  <2> HIDE DEF d, x, none
  <2> QED
    BY <2>1
<1> QED
  <2>1. [d EXCEPT !.path = <<>>, !.out = Append(@, b)] = After(<<>>, Append(o, b))
    <3>1. [ok |-> y, path |-> none, out |-> x] = After(<<>>, Append(o, b))
      BY DEF After
    <3> HIDE DEF d, x, y
    <3> QED
      BY <1>5, <1>7, <3>1
  <2>2. [d EXCEPT !.path = q, !.ok = TRUE] = After(q, o)
    <3>1. [ok |-> y, path |-> q, out |-> o] = After(q, o)
      BY DEF After
    <3> HIDE DEF d
    <3> QED
      BY <1>6, <3>1
  <2> QED
    BY <1>1, <2>1, <2>2 DEF IsAfter

GoesDown(c, code, b, t, out, i) ==
  HuffmanStep(c, After(SubSeq(code, 1, t), out), i) =
    IF t + 1 = Len(code) THEN After(<<>>, Append(out, b))
                         ELSE After(SubSeq(code, 1, t + 1), out)

LEMMA StepsDown ==
  ASSUME NEW c, NEW u, Levels(c.lengths, u), NEW b \in Coded(c.lengths),
         NEW code, code = Code(c.lengths, b), NEW t \in Nat, t < Len(code),
         NEW out \in Seq(Bytes), Len(out) < c.orig_size, NEW i, c.bits[i] = code[t + 1]
  PROVE  GoesDown(c, code, b, t, out, i)
<1> DEFINE d == After(SubSeq(code, 1, t), out)
           path == SubSeq(code, 1, t + 1)
           leaf == {x \in Coded(c.lengths) : Code(c.lengths, x) = path}
           ok == \E x \in Coded(c.lengths) : IsPrefix(path, Code(c.lengths, x))
           more == (i - 1) % ByteBits = 0 \/ Len(out) < c.orig_size
           chosen == CHOOSE x \in leaf : TRUE
<1>1. code \in Seq({0, 1}) /\ Len(code) \in Nat /\ t + 1 <= Len(code) /\ t + 1 \in 0 .. Len(code)
  BY CodeOK
<1>2. Append(SubSeq(code, 1, t), code[t + 1]) = path
  BY <1>1, OneMore
<1>3. IsAfter(d, SubSeq(code, 1, t), out, path, b)
  <2> DEFINE first == SubSeq(code, 1, t)
  <2>1. t \in 0 .. Len(code)
    BY <1>1
  <2>2. first \in Seq({0, 1}) /\ path \in Seq({0, 1}) /\ b \in Bytes
    BY <1>1, <2>1, FirstOf, CodeOK
  <2> HIDE DEF path, first
  <2>3. IsAfter(After(first, out), first, out, path, b)
    BY <2>2, AfterIs
  <2> QED
    BY <2>3 DEF first
<1>4. path \in Seq({0, 1}) /\ Len(path) = t + 1 /\ IsPrefix(path, code)
  BY <1>1, FirstOf
<1>5. HuffmanStep(c, d, i) =
        IF ~d.ok \/ ~more THEN d
        ELSE IF leaf # {}
          THEN [d EXCEPT !.path = <<>>, !.out = Append(@, chosen)]
        ELSE [d EXCEPT !.path = path, !.ok = ok]
  <2> DEFINE Leaves(p) == {x \in Coded(c.lengths) : Code(c.lengths, x) = p}
             Stepped(p) ==
               IF ~d.ok \/ ~((i - 1) % ByteBits = 0 \/ Len(d.out) < c.orig_size) THEN d
               ELSE IF Leaves(p) # {}
                 THEN [d EXCEPT !.path = <<>>, !.out = Append(@, CHOOSE x \in Leaves(p) : TRUE)]
               ELSE [d EXCEPT !.path = p, !.ok = \E x \in Coded(c.lengths) : IsPrefix(p, Code(c.lengths, x))]
             a == Append(d.path, c.bits[i])
  <2>1. a = path
    BY <1>2, <1>3 DEF IsAfter
  <2>2. HuffmanStep(c, d, i) = Stepped(a)
    BY DEF HuffmanStep
  <2>3. Stepped(a) = Stepped(path)
    <3> HIDE DEF Stepped, a, path
    <3> QED
      BY <2>1
  <2> QED
    BY <1>3, <2>2, <2>3 DEF IsAfter
<1>6. more
  OBVIOUS
<1>7. CASE t + 1 = Len(code)
  <2>1. path = code
    BY <1>1, <1>7, SubSeqFull
  <2>2. leaf = {b}
    <3>1. \A x \in Coded(c.lengths) : Code(c.lengths, x) = code => x = b
      <4> SUFFICES ASSUME NEW x \in Coded(c.lengths), Code(c.lengths, x) = code PROVE x = b
        OBVIOUS
      <4>1. IsPrefix(Code(c.lengths, x), Code(c.lengths, b))
        <5>1. IsPrefix(code, code)
          BY <1>4, <2>1
        <5> QED
          BY <5>1
      <4> QED
        BY <4>1, CodesApart
    <3> HIDE DEF path
    <3> QED
      BY <2>1, <3>1
  <2>3. chosen = b
    <3> HIDE DEF leaf
    <3> QED
      BY <2>2
  <2>4. leaf # {}
    BY <2>2
  <2> HIDE DEF d, leaf, more, path, chosen, ok
  <2>5. HuffmanStep(c, d, i) = [d EXCEPT !.path = <<>>, !.out = Append(@, b)]
    BY <1>3, <1>5, <1>6, <2>3, <2>4 DEF IsAfter
  <2>6. HuffmanStep(c, d, i) = After(<<>>, Append(out, b))
    BY <1>3, <2>5 DEF IsAfter
  <2> QED
    BY <1>7, <2>6 DEF d, GoesDown
<1>8. CASE t + 1 # Len(code)
  <2>1. leaf = {}
    <3> SUFFICES ASSUME NEW x \in Coded(c.lengths), Code(c.lengths, x) = path PROVE FALSE
      OBVIOUS
    <3>1. IsPrefix(Code(c.lengths, x), Code(c.lengths, b))
      BY <1>4
    <3>2. x = b
      BY <3>1, CodesApart
    <3>3. path = code
      BY <3>2
    <3> HIDE DEF path
    <3> QED
      BY <1>4, <1>8, <3>3
  <2>2. ok = TRUE
    BY <1>4
  <2> HIDE DEF d, leaf, more, path, chosen, ok
  <2>3. HuffmanStep(c, d, i) = [d EXCEPT !.path = path, !.ok = TRUE]
    BY <1>3, <1>5, <1>6, <2>1, <2>2 DEF IsAfter
  <2>4. HuffmanStep(c, d, i) = After(path, out)
    BY <1>3, <2>3 DEF IsAfter
  <2> QED
    BY <1>8, <2>4 DEF path, d, GoesDown
<1> HIDE DEF d
<1> QED
  BY <1>7, <1>8 DEF d, GoesDown

(* What follows the last symbol changes nothing. *)
LEMMA StepsOver ==
  ASSUME NEW c, NEW out, Len(out) = c.orig_size, c.orig_size \in Nat, NEW i, (i - 1) % ByteBits # 0
  PROVE  HuffmanStep(c, After(<<>>, out), i) = After(<<>>, out)
<1>1. After(<<>>, out).out = out /\ After(<<>>, out).ok = TRUE
  BY DEF After
<1>2. ~(Len(out) < c.orig_size)
  OBVIOUS
<1> QED
  BY <1>1, <1>2 DEF HuffmanStep

(* The padding lies within the last byte. *)
LEMMA WithinAByte ==
  ASSUME NEW L \in Nat, L > 0, NEW B \in Nat, B > 0, NEW size, size = (L + B - 1) \div B
  PROVE  /\ size \in Nat /\ size >= 1 /\ size * B >= L
         /\ \A i \in L + 1 .. size * B : (i - 1) % B # 0
<1> DEFINE a == L + B - 1
<1>1. a \in Nat /\ a >= B
  OBVIOUS
<1>2. size \in Nat /\ B * size <= a /\ a < B * size + B
  <2> HIDE DEF a
  <2>1. a \div B \in Nat /\ B * (a \div B) <= a /\ a < B * (a \div B) + B
    BY <1>1, DivTwo
  <2>2. size = a \div B
    BY DEF a
  <2> QED
    BY <2>1, <2>2
<1>3. size * B = B * size /\ B * size \in Nat
  BY <1>2
<1> DEFINE x == B * size
<1>4. x \in Nat /\ x <= L + B - 1 /\ L + B - 1 < x + B
  BY <1>2, <1>3
<1>5. size # 0
  <2> SUFFICES ASSUME size = 0 PROVE FALSE
    OBVIOUS
  <2>1. x = 0
    OBVIOUS
  <2> HIDE DEF x
  <2> QED
    BY <1>4, <2>1
<1>6. \A i \in L + 1 .. x : (i - 1) % B # 0
  <2> SUFFICES ASSUME NEW i \in L + 1 .. x, (i - 1) % B = 0 PROVE FALSE
    OBVIOUS
  <2> DEFINE y == i - 1
             k == y \div B
  <2>1. y \in Nat /\ L <= y /\ y < x
    <3> HIDE DEF x
    <3> QED
      BY <1>4
  <2>2. k \in Nat /\ y = B * k
    <3>1. y % B = 0
      OBVIOUS
    <3> HIDE DEF y
    <3>2. y = B * (y \div B) + (y % B) /\ y \div B \in Nat
      BY <2>1
    <3>3. B * k \in Nat
      BY <3>2
    <3> QED
      BY <3>1, <3>2, <3>3
  <2> HIDE DEF y, k
  <2>3. k + 1 <= size
    <3> SUFFICES ASSUME ~(k + 1 <= size) PROVE FALSE
      OBVIOUS
    <3>1. size <= k
      BY <1>2, <2>2
    <3>2. B * size <= B * k
      BY <1>2, <2>2, <3>1, TimesMono
    <3> QED
      BY <1>4, <2>1, <2>2, <3>2
  <2>4. B * (k + 1) <= B * size
    <3>1. k + 1 \in Nat
      BY <2>2
    <3> DEFINE m == k + 1
    <3> HIDE DEF m
    <3>2. B * m <= B * size
      BY <1>2, <2>3, <3>1, TimesMono DEF m
    <3> QED
      BY <3>2 DEF m
  <2>5. B * (k + 1) = B * k + B
    BY <2>2
  <2>6. y + B <= x
    BY <2>2, <2>4, <2>5
  <2> HIDE DEF x
  <2> QED
    BY <1>4, <2>1, <2>6
<1>7. size >= 1
  BY <1>2, <1>5
<1>8. x >= L
  <2> HIDE DEF x
  <2> QED
    BY <1>4
<1> QED
  BY <1>2, <1>3, <1>6, <1>7, <1>8
(* A round of the decoder leaves a state. *)
States == [ok : BOOLEAN, path : Seq({0, 1}), out : Seq(Bytes)]

LEMMA StepStays ==
  ASSUME NEW c, c.bits \in Seq({0, 1}), NEW i \in 1 .. Len(c.bits), NEW d \in States
  PROVE  HuffmanStep(c, d, i) \in States
<1> DEFINE p == Append(d.path, c.bits[i])
           Leaves(q) == {x \in Coded(c.lengths) : Code(c.lengths, x) = q}
           leaf == Leaves(p)
           chosen == CHOOSE x \in leaf : TRUE
           o == Append(d.out, chosen)
           ok == \E x \in Coded(c.lengths) : IsPrefix(p, Code(c.lengths, x))
           more == (i - 1) % ByteBits = 0 \/ Len(d.out) < c.orig_size
<1>1. d.path \in Seq({0, 1}) /\ d.out \in Seq(Bytes)
  BY DEF States
<1>2. p \in Seq({0, 1})
  <2>1. c.bits[i] \in {0, 1}
    OBVIOUS
  <2> QED
    BY <1>1, <2>1
<1>3. HuffmanStep(c, d, i) =
        IF ~d.ok \/ ~more THEN d
        ELSE IF leaf # {} THEN [d EXCEPT !.path = <<>>, !.out = o]
        ELSE [d EXCEPT !.path = p, !.ok = ok]
  BY DEF HuffmanStep
<1>4. ok \in BOOLEAN
  OBVIOUS
<1>5. leaf # {} => o \in Seq(Bytes)
  <2>1. leaf \subseteq Bytes
    BY DEF Coded
  <2>2. leaf # {} => chosen \in leaf
    <3> HIDE DEF leaf
    <3> QED
      OBVIOUS
  <2>3. leaf # {} => chosen \in Bytes
    BY <2>1, <2>2
  <2> HIDE DEF chosen, leaf
  <2> QED
    BY <1>1, <2>3
<1> HIDE DEF p, o, leaf, ok, more
<1>6. <<>> \in Seq({0, 1})
  OBVIOUS
<1>7. leaf # {} => [d EXCEPT !.path = <<>>, !.out = o] \in States
  BY <1>5, <1>6 DEF States
<1>8. [d EXCEPT !.path = p, !.ok = ok] \in States
  BY <1>2, <1>4 DEF States
<1> QED
  BY <1>3, <1>7, <1>8

LEMMA HuffmanDecodes ==
  ASSUME NEW c, c.bits \in Seq({0, 1})
  PROVE  \E f \in [0 .. Len(c.bits) -> States] :
           /\ f[0] = After(<<>>, <<>>)
           /\ \A i \in 1 .. Len(c.bits) : f[i] = HuffmanStep(c, f[i - 1], i)
           /\ HuffmanDecoded(c) =
                [ok |-> Rebuilt(c.lengths) /\ f[Len(c.bits)].ok /\ Len(f[Len(c.bits)].out) = c.orig_size,
                 out |-> f[Len(c.bits)].out]
<1> DEFINE n == Len(c.bits)
           d0 == After(<<>>, <<>>)
           F == [i \in 1 .. n |-> [d \in States |-> HuffmanStep(c, d, i)]]
           Eq(f) == f = [i \in 0 .. n |-> IF i = 0 THEN d0 ELSE HuffmanStep(c, f[i - 1], i)]
           g == CHOOSE f : Eq(f)
           Result(all) == [ok |-> Rebuilt(c.lengths) /\ all.ok /\ Len(all.out) = c.orig_size,
                           out |-> all.out]
<1>1. n \in Nat
  OBVIOUS
<1>2. HuffmanDecoded(c) = Result(g[n])
  BY DEF HuffmanDecoded, After
<1>3. F \in [1 .. n -> [States -> States]]
  <2>1. \A i \in 1 .. n : \A d \in States : HuffmanStep(c, d, i) \in States
    BY StepStays
  <2> HIDE DEF n
  <2> QED
    BY <2>1
<1>4. d0 \in States
  BY DEF After, States
<1> HIDE DEF n, d0, Result
<1>5. PICK f \in [0 .. n -> States] : Turns(F, d0, n, f)
  <2> HIDE DEF F
  <2> QED
    BY <1>1, <1>3, <1>4, Runs
<1>6. \A i \in 1 .. n : i - 1 \in 0 .. n /\ i \in 0 .. n /\ i # 0
  BY <1>1
<1>7. Eq(f)
  <2>2. \A i \in 1 .. n : f[i] = HuffmanStep(c, f[i - 1], i)
    BY <1>5, <1>6 DEF Turns
  <2>3. \A i \in 0 .. n : i = 0 \/ i \in 1 .. n
    BY <1>1
  <2>4. \A i \in 0 .. n : f[i] = IF i = 0 THEN d0 ELSE HuffmanStep(c, f[i - 1], i)
    BY <1>5, <2>2, <2>3 DEF Turns
  <2>5. f = [i \in 0 .. n |-> f[i]]
    OBVIOUS
  <2> QED
    BY <2>4, <2>5
<1>8. Eq(g)
  BY <1>7
<1> HIDE DEF g, F
<1>9. g[0] = d0 /\ \A i \in 1 .. n : g[i] = HuffmanStep(c, g[i - 1], i)
  <2>1. \A i \in 0 .. n : g[i] = IF i = 0 THEN d0 ELSE HuffmanStep(c, g[i - 1], i)
    BY <1>8
  <2>2. 0 \in 0 .. n
    BY <1>1
  <2> QED
    BY <1>6, <2>1, <2>2
<1>10. g \in [0 .. n -> States]
  <2>1. Upto(n, g)
    BY <1>8 DEF Upto
  <2>2. \A i \in 1 .. n : g[i - 1] \in States => g[i] \in States
    <3> SUFFICES ASSUME NEW i \in 1 .. n, g[i - 1] \in States PROVE g[i] \in States
      OBVIOUS
    <3>1. HuffmanStep(c, g[i - 1], i) \in States
      BY StepStays DEF n
    <3> QED
      BY <1>9, <3>1
  <2> HIDE DEF Eq
  <2> QED
    BY <1>1, <1>4, <1>9, <2>1, <2>2, Stays
<1> HIDE DEF Eq
<1> QED
  BY <1>2, <1>9, <1>10 DEF n, d0, Result
(* The codes of s lie one after another in c.bits; f has them up to each. *)
Packed(c, s, f) ==
  /\ f \in [0 .. Len(s) -> Seq({0, 1})] /\ f[0] = <<>>
  /\ \A j \in 1 .. Len(s) : f[j] = f[j - 1] \o Code(c.lengths, s[j])
  /\ c.bits \in Seq({0, 1}) /\ Len(f[Len(s)]) <= Len(c.bits)
  /\ \A k \in 1 .. Len(f[Len(s)]) : c.bits[k] = f[Len(s)][k]
  /\ c.orig_size = Len(s)
  /\ \A i \in Len(f[Len(s)]) + 1 .. Len(c.bits) : (i - 1) % ByteBits # 0

InPlace(c, s, f, j) ==
  /\ Len(f[j - 1]) \in Nat /\ Len(f[j]) \in Nat
  /\ Len(f[j]) = Len(f[j - 1]) + Len(Code(c.lengths, s[j]))
  /\ Len(f[j]) <= Len(f[Len(s)])
  /\ \A t \in 1 .. Len(Code(c.lengths, s[j])) :
       c.bits[Len(f[j - 1]) + t] = Code(c.lengths, s[j])[t]

LEMMA BitsInPlace ==
  ASSUME NEW c, NEW u, Levels(c.lengths, u), NEW s \in Seq(Bytes),
         \A j \in 1 .. Len(s) : s[j] \in Coded(c.lengths), NEW f, Packed(c, s, f),
         NEW j \in 1 .. Len(s)
  PROVE  InPlace(c, s, f, j)
<1> DEFINE n == Len(s)
           B == Seq({0, 1})
           C(i) == Code(c.lengths, s[i])
           P == {i \in 0 .. n : Len(f[i]) <= Len(f[n]) /\ \A k \in 1 .. Len(f[i]) : f[n][k] = f[i][k]}
<1>1. n \in Nat /\ \A i \in 0 .. n : f[i] \in B
  BY DEF Packed
<1>2. \A i \in 1 .. n : C(i) \in B
  BY CodeOK
<1>3. \A i \in 1 .. n : f[i] = f[i - 1] \o C(i)
  BY DEF Packed
<1> HIDE DEF n, C
<1>4. \A i \in 1 .. n : /\ Len(f[i - 1]) \in Nat /\ Len(f[i]) \in Nat /\ Len(C(i)) \in Nat
                        /\ Len(f[i]) = Len(f[i - 1]) + Len(C(i))
                        /\ \A k \in 1 .. Len(f[i - 1]) : f[i][k] = f[i - 1][k]
                        /\ \A k \in 1 .. Len(C(i)) : f[i][Len(f[i - 1]) + k] = C(i)[k]
  <2> SUFFICES ASSUME NEW i \in 1 .. n
               PROVE  /\ Len(f[i - 1]) \in Nat /\ Len(f[i]) \in Nat /\ Len(C(i)) \in Nat
                      /\ Len(f[i]) = Len(f[i - 1]) + Len(C(i))
                      /\ \A k \in 1 .. Len(f[i - 1]) : f[i][k] = f[i - 1][k]
                      /\ \A k \in 1 .. Len(C(i)) : f[i][Len(f[i - 1]) + k] = C(i)[k]
    OBVIOUS
  <2> DEFINE p == f[i - 1]
             q == C(i)
  <2>1. p \in B /\ q \in B
    <3>1. i - 1 \in 0 .. n
      BY <1>1
    <3> QED
      BY <1>1, <1>2, <3>1
  <2>2. f[i] = p \o q
    BY <1>3
  <2> HIDE DEF p, q
  <2>3. /\ Len(p) \in Nat /\ Len(q) \in Nat /\ Len(p \o q) = Len(p) + Len(q)
        /\ \A k \in 1 .. Len(p) : (p \o q)[k] = p[k]
        /\ \A k \in 1 .. Len(q) : (p \o q)[Len(p) + k] = q[k]
    BY <2>1, PastFirst
  <2>4. Len(p) + Len(q) \in Nat
    BY <2>3
  <2> QED
    BY <2>2, <2>3, <2>4 DEF p, q
<1>5. n \in P
  <2>1. n \in 0 .. n /\ Len(f[n]) \in Nat
    BY <1>1
  <2> QED
    BY <2>1
<1>6. ASSUME NEW i \in 0 .. n - 1, i + 1 \in P PROVE i \in P
  <2> DEFINE h == i + 1
  <2>1. h \in 1 .. n /\ h - 1 = i /\ i \in 0 .. n /\ h \in P
    BY <1>1, <1>6
  <2> HIDE DEF h
  <2>2. Len(f[i]) \in Nat /\ Len(f[h]) \in Nat /\ Len(f[i]) <= Len(f[h])
        /\ \A k \in 1 .. Len(f[i]) : f[h][k] = f[i][k]
    BY <1>4, <2>1
  <2>3. Len(f[h]) <= Len(f[n]) /\ \A k \in 1 .. Len(f[h]) : f[n][k] = f[h][k]
    BY <2>1
  <2>4. Len(f[n]) \in Nat
    BY <1>1
  <2>5. Len(f[i]) <= Len(f[n])
    BY <2>2, <2>3, <2>4
  <2>6. \A k \in 1 .. Len(f[i]) : k \in 1 .. Len(f[h])
    BY <2>2
  <2>7. \A k \in 1 .. Len(f[i]) : f[n][k] = f[i][k]
    BY <2>2, <2>3, <2>6
  <2> QED
    BY <2>1, <2>5, <2>7
<1>7. \A i \in 0 .. n : i \in P
  <2> HIDE DEF P
  <2> QED
    BY <1>1, <1>5, <1>6, Descend
<1>8. j \in 1 .. n /\ j \in 0 .. n /\ j \in P
  <2>1. j \in 1 .. n
    BY DEF n
  <2>2. j \in 0 .. n
    BY <1>1, <2>1
  <2> QED
    BY <1>7, <2>1, <2>2
<1>9. Len(f[j]) <= Len(f[n]) /\ \A k \in 1 .. Len(f[j]) : f[n][k] = f[j][k]
  BY <1>8
<1>10. Len(f[n]) \in Nat /\ \A k \in 1 .. Len(f[n]) : c.bits[k] = f[n][k]
  BY <1>1 DEF Packed, n
<1>11. ASSUME NEW t \in 1 .. Len(C(j)) PROVE c.bits[Len(f[j - 1]) + t] = C(j)[t]
  <2> DEFINE k == Len(f[j - 1]) + t
  <2>1. f[j][k] = C(j)[t]
    BY <1>4, <1>8
  <2>2. k \in 1 .. Len(f[j])
    BY <1>4, <1>8
  <2>3. k \in 1 .. Len(f[n])
    <3> HIDE DEF k
    <3>1. Len(f[j]) \in Nat
      BY <1>4, <1>8
    <3> QED
      BY <1>9, <1>10, <2>2, <3>1
  <2> HIDE DEF k
  <2>4. c.bits[k] = C(j)[t]
    BY <1>9, <1>10, <2>1, <2>2, <2>3
  <2> QED
    BY <2>4 DEF k
<1> QED
  BY <1>4, <1>8, <1>9, <1>11 DEF n, C, InPlace
(* Where the decoder is after a number of bits: t bits into code j + 1. *)
Reached(c, s, f, i, j, t, d) ==
  /\ i = Len(f[j]) + t
  /\ \/ j = Len(s) /\ t = 0 /\ d = After(<<>>, s)
     \/ /\ j < Len(s) /\ t < Len(Code(c.lengths, s[j + 1]))
        /\ d = After(SubSeq(Code(c.lengths, s[j + 1]), 1, t), SubSeq(s, 1, j))

LEMMA OneBit ==
  ASSUME NEW c, NEW u, Levels(c.lengths, u), NEW s \in Seq(Bytes),
         \A j \in 1 .. Len(s) : s[j] \in Coded(c.lengths), NEW f, Packed(c, s, f),
         NEW i \in Nat, i < Len(f[Len(s)]), NEW j \in 0 .. Len(s), NEW t \in Nat, NEW d,
         Reached(c, s, f, i, j, t, d)
  PROVE  \E l \in 0 .. Len(s) : \E v \in Nat :
           Reached(c, s, f, i + 1, l, v, HuffmanStep(c, d, i + 1))
<1> DEFINE n == Len(s)
           h == j + 1
           C(k) == Code(c.lengths, s[k])
           code == C(h)
           out == SubSeq(s, 1, j)
           v == t + 1
<1>1. n \in Nat /\ f[n] \in Seq({0, 1}) /\ f[j] \in Seq({0, 1}) /\ c.orig_size = n
  <2>1. n \in Nat
    OBVIOUS
  <2>2. f \in [0 .. n -> Seq({0, 1})] /\ c.orig_size = n
    BY DEF Packed
  <2>3. j \in 0 .. n
    OBVIOUS
  <2> HIDE DEF n
  <2> QED
    BY <2>1, <2>2, <2>3
<1>2. j < n /\ t < Len(code) /\ i = Len(f[j]) + t /\ d = After(SubSeq(code, 1, t), out)
  <2>1. j # n
    <3> SUFFICES ASSUME j = n PROVE FALSE
      OBVIOUS
    <3>1. i = Len(f[n]) + 0 /\ Len(f[n]) \in Nat
      BY <1>1 DEF Reached
    <3> QED
      BY <3>1
  <2> QED
    BY <2>1 DEF Reached
<1>3. h \in 1 .. n /\ h - 1 = j /\ h \in 0 .. n /\ j \in Nat
  BY <1>1, <1>2
<1>4. s[h] \in Coded(c.lengths) /\ code = Code(c.lengths, s[h])
  BY <1>3
<1>5. code \in Seq({0, 1}) /\ Len(code) \in Nat /\ Len(code) >= 1 /\ s[h] \in Bytes
  BY <1>4, CodeOK
<1>6. /\ Len(f[j]) \in Nat /\ Len(f[h]) = Len(f[j]) + Len(code)
      /\ \A k \in 1 .. Len(code) : c.bits[Len(f[j]) + k] = code[k]
  <2>1. InPlace(c, s, f, h)
    <3> HIDE DEF h
    <3> QED
      BY <1>3, BitsInPlace
  <2> QED
    BY <1>3, <2>1 DEF InPlace
<1>7. out \in Seq(Bytes) /\ Len(out) = j /\ Append(out, s[h]) = SubSeq(s, 1, h)
  <2>1. j \in 0 .. Len(s)
    OBVIOUS
  <2>2. out \in Seq(Bytes) /\ Len(out) = j
    BY <2>1, FirstOf
  <2>3. j + 1 <= Len(s)
    BY <1>3
  <2>4. Append(SubSeq(s, 1, j), s[j + 1]) = SubSeq(s, 1, j + 1)
    BY <1>3, <2>3, OneMore
  <2> QED
    BY <2>2, <2>4
<1> HIDE DEF code, out, h
<1>11. /\ v \in Nat /\ v \in 1 .. Len(code) /\ i + 1 = Len(f[j]) + v
       /\ (v # Len(code) => v < Len(code)) /\ (v = Len(code) => i + 1 = Len(f[h]))
  <2> DEFINE x == Len(f[j])
             y == Len(code)
  <2>1. x \in Nat /\ y \in Nat /\ t < y /\ i = x + t /\ Len(f[h]) = x + y
    BY <1>2, <1>5, <1>6
  <2> HIDE DEF x, y
  <2>2. /\ v \in Nat /\ v \in 1 .. y /\ i + 1 = x + v
        /\ (v # y => v < y) /\ (v = y => i + 1 = Len(f[h]))
    BY <2>1
  <2> QED
    BY <2>2 DEF x, y
<1>8. HuffmanStep(c, d, i + 1) =
        IF v = Len(code) THEN After(<<>>, Append(out, s[h])) ELSE After(SubSeq(code, 1, v), out)
  <2> DEFINE r == i + 1
             b == s[h]
  <2>1. c.bits[r] = code[t + 1]
    <3> HIDE DEF v
    <3>1. v \in 1 .. Len(code) /\ r = Len(f[j]) + v
      BY <1>11
    <3>2. c.bits[r] = code[v]
      BY <1>6, <3>1
    <3> QED
      BY <3>2 DEF v
  <2>2. Len(out) < c.orig_size
    BY <1>1, <1>2, <1>7
  <2>3. b \in Coded(c.lengths) /\ code = Code(c.lengths, b)
    BY <1>4
  <2> HIDE DEF r, b
  <2>4. GoesDown(c, code, b, t, out, r)
    BY <1>2, <1>7, <2>1, <2>2, <2>3, StepsDown
  <2> QED
    BY <1>2, <2>4 DEF r, b, GoesDown
<1> HIDE DEF v
<1>9. CASE v # Len(code)
  <2>1. v \in Nat /\ i + 1 = Len(f[j]) + v /\ v < Len(code)
    BY <1>11, <1>9
  <2>2. HuffmanStep(c, d, i + 1) = After(SubSeq(code, 1, v), out)
    BY <1>8, <1>9
  <2>3. Reached(c, s, f, i + 1, j, v, HuffmanStep(c, d, i + 1))
    BY <1>2, <2>1, <2>2 DEF Reached, code, out, h
  <2> QED
    BY <2>1, <2>3
<1>10. CASE v = Len(code)
  <2>1. i + 1 = Len(f[h]) + 0
    <3> DEFINE x == Len(f[h])
    <3>1. x \in Nat /\ i + 1 = x
      BY <1>5, <1>6, <1>11, <1>10
    <3> HIDE DEF x
    <3>2. i + 1 = x + 0
      BY <3>1
    <3> QED
      BY <3>2 DEF x
  <2>2. HuffmanStep(c, d, i + 1) = After(<<>>, SubSeq(s, 1, h))
    BY <1>7, <1>8, <1>10
  <2>3. CASE h = n
    <3>1. SubSeq(s, 1, n) = s
      BY SubSeqFull
    <3>2. HuffmanStep(c, d, i + 1) = After(<<>>, s)
      BY <2>2, <2>3, <3>1
    <3> HIDE DEF h
    <3>3. Reached(c, s, f, i + 1, h, 0, HuffmanStep(c, d, i + 1))
      BY <2>1, <2>3, <3>2 DEF Reached
    <3> QED
      BY <1>3, <3>3
  <2>4. CASE h # n
    <3> DEFINE g == h + 1
               next == C(g)
    <3>1. h < n /\ g \in 1 .. n
      BY <1>1, <1>3, <2>4
    <3>2. s[g] \in Coded(c.lengths)
      BY <3>1
    <3>3. next \in Seq({0, 1}) /\ Len(next) \in Nat /\ Len(next) >= 1
      BY <3>2, CodeOK
    <3> HIDE DEF next
    <3>4. SubSeq(next, 1, 0) = <<>> /\ 0 < Len(next)
      BY <3>3, SubSeqEmpty
    <3>5. HuffmanStep(c, d, i + 1) = After(SubSeq(next, 1, 0), SubSeq(s, 1, h))
      BY <2>2, <3>4
    <3> HIDE DEF h
    <3>6. Reached(c, s, f, i + 1, h, 0, HuffmanStep(c, d, i + 1))
      BY <2>1, <3>1, <3>4, <3>5 DEF Reached, next
    <3> QED
      BY <1>3, <3>6
  <2> QED
    BY <2>3, <2>4
<1> QED
  BY <1>9, <1>10

LEMMA DecodesTo ==
  ASSUME NEW c, NEW u, Levels(c.lengths, u), NEW s \in Seq(Bytes), Len(s) > 0,
         \A j \in 1 .. Len(s) : s[j] \in Coded(c.lengths), NEW f, Packed(c, s, f)
  PROVE  HuffmanDecoded(c) = [ok |-> TRUE, out |-> s]
<1> DEFINE n == Len(s)
           m == Len(c.bits)
           L == Len(f[n])
<1>1. PICK g \in [0 .. m -> States] :
           /\ g[0] = After(<<>>, <<>>)
           /\ \A i \in 1 .. m : g[i] = HuffmanStep(c, g[i - 1], i)
           /\ HuffmanDecoded(c) =
                [ok |-> Rebuilt(c.lengths) /\ g[m].ok /\ Len(g[m].out) = c.orig_size, out |-> g[m].out]
  <2>1. c.bits \in Seq({0, 1})
    BY DEF Packed
  <2> QED
    BY <2>1, HuffmanDecodes
<1>2. /\ n \in Nat /\ m \in Nat /\ L \in Nat /\ L <= m /\ c.orig_size = n
      /\ \A i \in L + 1 .. m : (i - 1) % ByteBits # 0
  BY DEF Packed
<1> HIDE DEF n, m, L
<1> DEFINE Here(i) == \E j \in 0 .. n : \E t \in Nat : Reached(c, s, f, i, j, t, g[i])
           P == {i \in 0 .. m : (i <= L /\ Here(i)) \/ (i >= L /\ g[i] = After(<<>>, s))}
<1>3. 0 \in P
  <2>1. f[0] = <<>> /\ Len(f[0]) = 0
    BY DEF Packed
  <2>2. 1 \in 1 .. n /\ 0 + 1 = 1 /\ 0 < n /\ 0 \in 0 .. n
    BY <1>2 DEF n
  <2>3. s[1] \in Coded(c.lengths)
    BY <2>2 DEF n
  <2> DEFINE code == Code(c.lengths, s[1])
  <2>4. code \in Seq({0, 1}) /\ Len(code) \in Nat /\ Len(code) >= 1
    BY <2>3, CodeOK
  <2> HIDE DEF code
  <2>5. SubSeq(code, 1, 0) = <<>> /\ 0 < Len(code) /\ SubSeq(s, 1, 0) = <<>>
    BY <2>4, SubSeqEmpty
  <2>6. g[0] = After(SubSeq(code, 1, 0), SubSeq(s, 1, 0))
    BY <1>1, <2>5
  <2>7. Reached(c, s, f, 0, 0, 0, g[0])
    <3>1. Code(c.lengths, s[0 + 1]) = code /\ 0 = Len(f[0]) + 0
      BY <2>1 DEF code
    <3> QED
      BY <2>2, <2>5, <2>6, <3>1 DEF Reached, n
  <2> QED
    BY <1>2, <2>2, <2>7
<1>12. ASSUME NEW k \in 0 .. m, k = L, Here(k) PROVE g[k] = After(<<>>, s)
  <2>1. PICK j \in 0 .. n, t \in Nat : Reached(c, s, f, k, j, t, g[k])
    BY <1>12
  <2>3. ~(j < n)
    <3> SUFFICES ASSUME j < n PROVE FALSE
      OBVIOUS
    <3> DEFINE h == j + 1
    <3>1. h \in 1 .. n /\ h - 1 = j
      BY <1>2
    <3>2. k = Len(f[j]) + t /\ t < Len(Code(c.lengths, s[h]))
      BY <2>1 DEF Reached, n
    <3> DEFINE x == Len(Code(c.lengths, s[h]))
    <3>3. Len(f[h - 1]) \in Nat /\ Len(f[h]) = Len(f[h - 1]) + x /\ Len(f[h]) <= L /\ Len(f[h]) \in Nat
      <4>1. InPlace(c, s, f, h)
        <5> HIDE DEF h
        <5> QED
          BY <3>1, BitsInPlace DEF n
      <4> QED
        BY <4>1 DEF InPlace, n, L
    <3>4. x \in Nat
      BY <3>1, CodeOK DEF n
    <3> HIDE DEF x
    <3>5. Len(f[j]) \in Nat /\ Len(f[j]) + x <= L
      BY <3>1, <3>3
    <3>6. k < Len(f[j]) + x
      <4> DEFINE y == Len(f[j])
      <4>1. k = y + t /\ t < x
        BY <3>2 DEF x
      <4>2. y \in Nat
        BY <3>5
      <4> HIDE DEF y
      <4>3. k < y + x
        BY <3>4, <4>1, <4>2
      <4> QED
        BY <4>3 DEF y
    <3> QED
      BY <1>2, <1>12, <3>4, <3>5, <3>6
  <2> QED
    BY <2>1, <2>3 DEF Reached, n
<1>4. ASSUME NEW i \in 1 .. m, i - 1 \in P PROVE i \in P
  <2> DEFINE k == i - 1
  <2>1. k \in Nat /\ i = k + 1 /\ g[i] = HuffmanStep(c, g[k], i) /\ k \in P /\ i \in 0 .. m
    BY <1>1, <1>2, <1>4
  <2> HIDE DEF k
  <2>2. CASE k < L
    <3>1. PICK j \in 0 .. n, t \in Nat : Reached(c, s, f, k, j, t, g[k])
      BY <1>2, <2>1, <2>2
    <3>2. \E l \in 0 .. n : \E v \in Nat : Reached(c, s, f, k + 1, l, v, HuffmanStep(c, g[k], k + 1))
      <4> DEFINE d == g[k]
      <4>1. Reached(c, s, f, k, j, t, d)
        BY <3>1
      <4> HIDE DEF d
      <4>2. \E l \in 0 .. n : \E v \in Nat : Reached(c, s, f, k + 1, l, v, HuffmanStep(c, d, k + 1))
        BY <2>1, <2>2, <4>1, OneBit DEF n, L
      <4> QED
        BY <4>2 DEF d
    <3>3. Here(i)
      BY <2>1, <3>2
    <3>4. i <= L
      BY <1>2, <2>1, <2>2
    <3> HIDE DEF Here
    <3> QED
      BY <2>1, <3>3, <3>4
  <2>3. CASE ~(k < L)
    <3>1. g[k] = After(<<>>, s)
      <4>1. CASE k >= L /\ g[k] = After(<<>>, s)
        BY <4>1
      <4>2. CASE k <= L /\ Here(k)
        <5>1. k = L
          BY <1>2, <2>1, <2>3, <4>2
        <5>2. k \in 0 .. m
          BY <2>1
        <5> HIDE DEF Here
        <5> QED
          BY <4>2, <5>1, <5>2, <1>12
      <4> QED
        BY <2>1, <4>1, <4>2
    <3>2. i \in L + 1 .. m
      BY <1>2, <2>1, <2>3
    <3>3. HuffmanStep(c, After(<<>>, s), i) = After(<<>>, s)
      <4>1. (i - 1) % ByteBits # 0
        BY <1>2, <3>2
      <4>2. Len(s) = c.orig_size /\ c.orig_size \in Nat
        BY <1>2 DEF n
      <4> QED
        BY <4>1, <4>2, StepsOver
    <3>4. g[i] = After(<<>>, s) /\ i >= L
      BY <1>2, <2>1, <3>1, <3>2, <3>3
    <3> QED
      BY <2>1, <3>4
  <2> QED
    BY <2>2, <2>3
<1>5. \A i \in 0 .. m : i \in P
  <2> HIDE DEF P
  <2> QED
    BY <1>2, <1>3, <1>4, Climb
<1>6. g[m] = After(<<>>, s)
  <2>1. m \in P /\ m \in 0 .. m
    BY <1>2, <1>5
  <2>2. CASE m >= L /\ g[m] = After(<<>>, s)
    BY <2>2
  <2>3. CASE m <= L /\ Here(m)
    <3>1. m = L
      BY <1>2, <2>3
    <3> HIDE DEF Here
    <3> QED
      BY <1>12, <2>1, <2>3, <3>1
  <2> QED
    BY <2>1, <2>2, <2>3
<1>7. g[m].ok /\ Len(g[m].out) = c.orig_size /\ g[m].out = s
  BY <1>2, <1>6 DEF After, n
<1>8. Rebuilt(c.lengths)
  BY PrefixFree
<1> QED
  BY <1>1, <1>7, <1>8
(* The encoder's codes, one after another, and its zeros behind them. *)
EncodedAs(c, s, f) ==
  /\ Packed(c, s, f) /\ c.lengths = Lengths(s) /\ c.orig_size = Len(s)
  /\ c.encoded_size \in Nat /\ c.encoded_size >= 1
  /\ Len(c.bits) = c.encoded_size * ByteBits

LEMMA ByteBitsOK == ByteBits \in Nat /\ ByteBits > 0
<1>1. ByteBits \in Nat /\ 2 ^ ByteBits = Alphabet
  BY CodecsAssumption
<1>2. ByteBits # 0
  <2> SUFFICES ASSUME ByteBits = 0 PROVE FALSE
    OBVIOUS
  <2>1. 2 ^ ByteBits = 1
    BY PowerZero
  <2>2. Alphabet = 1
    BY <1>1, <2>1
  <2> QED
    BY <2>2, AlphabetNat
<1> QED
  BY <1>1, <1>2

LEMMA ZerosBehind ==
  ASSUME NEW p \in Seq({0, 1}), NEW m \in Nat, NEW q, q = p \o [i \in 1 .. m |-> 0]
  PROVE  /\ q \in Seq({0, 1}) /\ Len(q) = Len(p) + m /\ Len(p) \in Nat
         /\ \A k \in 1 .. Len(p) : q[k] = p[k]
<1> DEFINE z == [i \in 1 .. m |-> 0]
<1>1. z \in Seq({0, 1}) /\ Len(z) = m
  OBVIOUS
<1> HIDE DEF z
<1>2. q = p \o z
  BY DEF z
<1> QED
  BY <1>1, <1>2, PastFirst

LEMMA HuffmanEncodes ==
  ASSUME NEW s \in Seq(Bytes), Len(s) > 0
  PROVE  \E f : EncodedAs(HuffmanEncoded(s), s, f)
<1> DEFINE n == Len(s)
           lengths == Lengths(s)
           q == [i \in 1 .. n |-> Code(lengths, s[i])]
           c == HuffmanEncoded(s)
<1>1. n \in Nat /\ n > 0
  OBVIOUS
<1>2. PICK u : Levels(lengths, u)
  BY LengthsOK
<1>3. \A i \in 1 .. n : s[i] \in Coded(lengths)
  <2>1. Coded(lengths) = Used(s) /\ Used(s) = {b \in Bytes : \E i \in 1 .. Len(s) : s[i] = b}
    BY LengthsOK, UsedOK
  <2>2. \A i \in 1 .. n : s[i] \in Bytes
    OBVIOUS
  <2> QED
    BY <2>1, <2>2
<1> HIDE DEF lengths
<1>4. \A i \in 1 .. n : /\ Code(lengths, s[i]) \in Seq({0, 1})
                        /\ Len(Code(lengths, s[i])) \in Nat /\ Len(Code(lengths, s[i])) >= 1
  BY <1>2, <1>3, CodeOK
<1> HIDE DEF n
<1>5. q \in [1 .. n -> Seq({0, 1})]
  BY <1>4
<1>6. PICK f \in [0 .. n -> Seq({0, 1})] : Strung(f, q, n) /\ FlattenSeq(q) = f[n]
  <2> HIDE DEF q
  <2> QED
    BY <1>1, <1>5, Flattened
<1> DEFINE packed == f[n]
           size == (Len(packed) + ByteBits - 1) \div ByteBits
           zeros == [i \in 1 .. size * ByteBits - Len(packed) |-> 0]
<1>7. /\ c.lengths = lengths /\ c.orig_size = n /\ c.encoded_size = size
      /\ c.bits = packed \o zeros
  <2>1. [i \in 1 .. Len(s) |-> [b \in ToSet(s) |-> Code(lengths, b)][s[i]]] = q
    <3>1. \A i \in 1 .. Len(s) : s[i] \in ToSet(s)
      BY DEF ToSet
    <3> QED
      BY <3>1 DEF n
  <2>2. FlattenSeq([i \in 1 .. Len(s) |-> [b \in ToSet(s) |-> Code(lengths, b)][s[i]]]) = packed
    BY <1>6, <2>1
  <2> DEFINE w == FlattenSeq([i \in 1 .. Len(s) |-> [b \in ToSet(s) |-> Code(lengths, b)][s[i]]])
             Size(x) == (Len(x) + ByteBits - 1) \div ByteBits
             Made(x) == [lengths |-> lengths, orig_size |-> n, encoded_size |-> Size(x),
                         bits |-> x \o [i \in 1 .. Size(x) * ByteBits - Len(x) |-> 0]]
  <2>3. c = Made(w)
    BY DEF HuffmanEncoded, lengths, n
  <2>4. w = packed
    BY <2>2
  <2> HIDE DEF w, c, packed, q
  <2>5. c = Made(packed)
    <3> HIDE DEF Made
    <3> QED
      BY <2>3, <2>4
  <2> QED
    BY <2>5
<1>8. packed \in Seq({0, 1}) /\ Len(packed) \in Nat
  BY <1>1
<1>9. Len(packed) > 0
  <2> DEFINE p == f[n - 1]
             x == q[n]
  <2>1. n \in 1 .. n /\ n - 1 \in 0 .. n
    BY <1>1
  <2>2. packed = p \o x /\ p \in Seq({0, 1}) /\ x = Code(lengths, s[n])
    BY <1>6, <2>1 DEF Strung
  <2>3. x \in Seq({0, 1}) /\ Len(x) \in Nat /\ Len(x) >= 1
    BY <1>4, <2>1, <2>2
  <2> HIDE DEF p, x, packed
  <2>4. Len(packed) = Len(p) + Len(x) /\ Len(p) \in Nat
    BY <2>2, <2>3, ConcatProperties
  <2> QED
    BY <2>3, <2>4
<1> DEFINE L == Len(packed)
<1> HIDE DEF packed, q, c
<1>10. /\ size \in Nat /\ size >= 1 /\ size * ByteBits >= L
       /\ \A i \in L + 1 .. size * ByteBits : (i - 1) % ByteBits # 0
  <2>1. L \in Nat /\ L > 0 /\ size = (L + ByteBits - 1) \div ByteBits
    BY <1>8, <1>9
  <2> HIDE DEF L, size
  <2> QED
    BY <2>1, ByteBitsOK, WithinAByte
<1> DEFINE m == size * ByteBits
<1>11. m \in Nat /\ m >= L /\ m - L \in Nat /\ L + (m - L) = m
  <2>1. m \in Nat
    <3> HIDE DEF size
    <3> QED
      BY <1>10, ByteBitsOK
  <2>2. m >= L
    BY <1>10
  <2> HIDE DEF m
  <2> QED
    BY <1>8, <2>1, <2>2
<1>12. /\ c.bits \in Seq({0, 1}) /\ Len(c.bits) = m
       /\ \A k \in 1 .. L : c.bits[k] = packed[k]
  <2> DEFINE d == m - L
             bits == c.bits
  <2>1. bits = packed \o [i \in 1 .. d |-> 0]
    BY <1>7
  <2>2. d \in Nat /\ L + d = m
    BY <1>11
  <2> HIDE DEF d, bits, m
  <2>3. /\ bits \in Seq({0, 1}) /\ Len(bits) = L + d
        /\ \A k \in 1 .. L : bits[k] = packed[k]
    BY <1>8, <2>1, <2>2, ZerosBehind
  <2> QED
    BY <2>2, <2>3 DEF bits
<1>13. \A j \in 1 .. n : f[j] = f[j - 1] \o Code(c.lengths, s[j])
  BY <1>6, <1>7 DEF Strung, q
<1>14. Packed(c, s, f)
  <2>1. f \in [0 .. Len(s) -> Seq({0, 1})] /\ f[0] = <<>>
    BY <1>6 DEF Strung, n
  <2>2. \A i \in Len(f[Len(s)]) + 1 .. Len(c.bits) : (i - 1) % ByteBits # 0
    BY <1>10, <1>12 DEF packed, n
  <2>3. Len(f[Len(s)]) <= Len(c.bits)
    BY <1>11, <1>12 DEF packed, n
  <2>4. \A k \in 1 .. Len(f[Len(s)]) : c.bits[k] = f[Len(s)][k]
    BY <1>12 DEF packed, n
  <2> QED
    BY <1>7, <1>12, <1>13, <2>1, <2>2, <2>3, <2>4 DEF Packed, n
<1>15. EncodedAs(c, s, f)
  <2> HIDE DEF size
  <2> QED
    BY <1>7, <1>10, <1>12, <1>14 DEF EncodedAs, lengths, n
<1> QED
  BY <1>15 DEF c

(* Whatever has the fields of what the encoder made is decoded to what it  *)
(* took: the index of a chunk, for one, makes no difference.               *)
LEMMA EncodedReads ==
  ASSUME NEW s \in Seq(Bytes), Len(s) > 0, NEW c, NEW f, EncodedAs(c, s, f)
  PROVE  /\ HuffmanDecoded(c) = [ok |-> TRUE, out |-> s]
         /\ \E u : /\ Levels(c.lengths, u)
                  /\ Cardinality(Used(s)) > 1 => Complete(c.lengths, u)
         /\ Coded(c.lengths) = Used(s)
         /\ c.lengths \in [Bytes -> 0 .. Alphabet - 1]
         /\ c.bits \in Seq({0, 1})
<1>1. c.lengths = Lengths(s)
  BY DEF EncodedAs
<1>2. PICK u : /\ Levels(c.lengths, u)
               /\ Cardinality(Used(s)) > 1 => Complete(c.lengths, u)
  BY <1>1, LengthsOK
<1>3. Coded(c.lengths) = Used(s)
  BY <1>1, LengthsOK
<1>4. \A j \in 1 .. Len(s) : s[j] \in Coded(c.lengths)
  <2>1. Used(s) = {b \in Bytes : \E i \in 1 .. Len(s) : s[i] = b}
    BY UsedOK
  <2> QED
    BY <1>3, <2>1
<1>5. Packed(c, s, f)
  BY DEF EncodedAs
<1>6. HuffmanDecoded(c) = [ok |-> TRUE, out |-> s]
  BY <1>2, <1>4, <1>5, DecodesTo
<1>7. c.lengths \in [Bytes -> 0 .. Alphabet - 1]
  <2>1. \A b \in Bytes : c.lengths[b] \in Nat /\ c.lengths[b] <= Alphabet - 1
    BY <1>1, LengthsOK
  <2>2. c.lengths \in [Bytes -> 0 .. Alphabet]
    BY <1>2 DEF Levels
  <2>3. \A b \in Bytes : c.lengths[b] \in 0 .. Alphabet - 1
    BY <2>1, AlphabetNat
  <2> QED
    BY <2>2, <2>3
<1>8. c.bits \in Seq({0, 1})
  BY <1>5 DEF Packed
<1> QED
  BY <1>2, <1>3, <1>6, <1>7, <1>8

(* Huffman's codes are undone (encoders/bra_huffman.c): the decoder gives  *)
(* back what the encoder took, padding left out, and the header says how   *)
(* long that is and how many bytes the codes fill.                         *)
THEOREM HuffmanUndone ==
  ASSUME NEW s \in Seq(Bytes), Len(s) > 0
  PROVE  /\ HuffmanDecoded(HuffmanEncoded(s)) = [ok |-> TRUE, out |-> s]
         /\ HuffmanEncoded(s).lengths = Lengths(s) /\ HuffmanEncoded(s).orig_size = Len(s)
         /\ HuffmanEncoded(s).encoded_size \in Nat /\ HuffmanEncoded(s).encoded_size >= 1
         /\ HuffmanEncoded(s).bits \in Seq({0, 1})
<1> DEFINE c == HuffmanEncoded(s)
<1>1. PICK f : EncodedAs(c, s, f)
  BY HuffmanEncodes
<1> HIDE DEF c
<1>2. HuffmanDecoded(c) = [ok |-> TRUE, out |-> s] /\ c.bits \in Seq({0, 1})
  BY <1>1, EncodedReads
<1> QED
  BY <1>1, <1>2 DEF EncodedAs, c

----------------------------------------------------------------------------
(* Sums.  A finite set is built up one element at a time. *)
LEMMA EverySet ==
  ASSUME NEW S, IsFiniteSet(S), NEW P, {} \in P,
         \A s \in SUBSET S : \A x \in S \ s : s \in P => s \cup {x} \in P
  PROVE  S \in P
<1> DEFINE n == Cardinality(S)
           Q == {k \in 0 .. n : \A s \in SUBSET S : Cardinality(s) = k => s \in P}
<1>1. n \in Nat
  BY FS_CardinalityType
<1> HIDE DEF n
<1>2. 0 \in Q
  <2>1. \A s \in SUBSET S : Cardinality(s) = 0 => s = {}
    BY FS_Subset, FS_EmptySet
  <2> QED
    BY <1>1, <2>1
<1>3. ASSUME NEW k \in 1 .. n, k - 1 \in Q PROVE k \in Q
  <2> SUFFICES ASSUME NEW s \in SUBSET S, Cardinality(s) = k PROVE s \in P
    BY <1>1
  <2>1. IsFiniteSet(s)
    BY FS_Subset
  <2>2. PICK x \in s : TRUE
    <3>1. k # 0 /\ IsFiniteSet(s)
      BY <1>1, <2>1
    <3>2. s # {}
      BY <3>1, FS_EmptySet
    <3> QED
      BY <3>2
  <2> DEFINE t == s \ {x}
  <2>3. Cardinality(t) = k - 1
    BY <2>1, <2>2, FS_RemoveElement
  <2>4. t \in SUBSET S /\ x \in S \ t /\ s = t \cup {x}
    BY <2>2
  <2>5. t \in P
    BY <1>3, <2>3, <2>4
  <2> HIDE DEF t
  <2> QED
    BY <2>4, <2>5
<1>4. \A k \in 0 .. n : k \in Q
  <2> HIDE DEF Q
  <2> QED
    BY <1>1, <1>2, <1>3, Climb
<1>5. n \in Q
  <2>1. n \in 0 .. n
    BY <1>1
  <2> QED
    BY <1>4, <2>1
<1> QED
  BY <1>5 DEF n

Pick(s) == CHOOSE x \in s : TRUE
Iterates(f, D, g) ==
  g = [s \in D |-> IF s = {} THEN 0 ELSE f[Pick(s)] + g[s \ {Pick(s)}]]

LEMMA SumIs ==
  ASSUME NEW f, NEW S
  PROVE  SumFunctionOnSet(f, S) = (CHOOSE g : Iterates(f, SUBSET S, g))[S]
BY DEF SumFunctionOnSet, FoldFunctionOnSet, MapThenFoldSet, Iterates, Pick

LEMMA PickOK ==
  ASSUME NEW s, IsFiniteSet(s), s # {}
  PROVE  /\ Pick(s) \in s
         /\ Cardinality(s) \in Nat /\ Cardinality(s) > 0
         /\ IsFiniteSet(s \ {Pick(s)}) /\ Cardinality(s \ {Pick(s)}) = Cardinality(s) - 1
<1>1. Pick(s) \in s
  BY DEF Pick
<1> QED
  BY <1>1, FS_RemoveElement, FS_CardinalityType, FS_EmptySet

LEMMA SumExists ==
  ASSUME NEW f, NEW S, IsFiniteSet(S)
  PROVE  \E g : Iterates(f, SUBSET S, g)
<1> DEFINE n == Cardinality(S)
           L(k) == {s \in SUBSET S : Cardinality(s) <= k}
           P == {k \in 0 .. n : \E g : Iterates(f, L(k), g)}
<1>1. n \in Nat /\ \A s \in SUBSET S : IsFiniteSet(s) /\ Cardinality(s) \in Nat
  BY FS_CardinalityType, FS_Subset
<1>2. ASSUME NEW k \in 0 .. n, NEW s \in L(k), s # {}
      PROVE  k # 0 /\ Cardinality(s) \in Nat /\ Cardinality(s) <= k /\ s \ {Pick(s)} \in L(k - 1)
  <2> DEFINE t == s \ {Pick(s)}
  <2>1. s \in SUBSET S /\ IsFiniteSet(s) /\ Cardinality(s) <= k
    BY <1>1
  <2>2. /\ Cardinality(s) \in Nat /\ Cardinality(s) > 0
        /\ Cardinality(t) = Cardinality(s) - 1
    BY <1>2, <2>1, PickOK
  <2>3. t \in SUBSET S
    BY <2>1
  <2> HIDE DEF t
  <2>4. k # 0 /\ Cardinality(t) <= k - 1
    BY <2>1, <2>2
  <2> QED
    BY <2>1, <2>2, <2>3, <2>4 DEF t
<1>3. 0 \in P
  <2> DEFINE g == [s \in L(0) |-> 0]
  <2>1. \A s \in L(0) : s = {}
    <3>1. 0 \in 0 .. n
      BY <1>1
    <3> QED
      BY <1>2, <3>1
  <2> HIDE DEF L
  <2>2. g = [s \in L(0) |-> IF s = {} THEN 0 ELSE f[Pick(s)] + g[s \ {Pick(s)}]]
    BY <2>1
  <2> QED
    BY <1>1, <2>2 DEF Iterates
<1>4. ASSUME NEW k \in 1 .. n, k - 1 \in P PROVE k \in P
  <2>1. PICK g : Iterates(f, L(k - 1), g)
    BY <1>4
  <2> DEFINE h == [s \in L(k) |-> IF s = {} THEN 0 ELSE f[Pick(s)] + g[s \ {Pick(s)}]]
  <2>2. \A s \in L(k - 1) : s \in L(k)
    <3> SUFFICES ASSUME NEW s \in L(k - 1) PROVE s \in L(k)
      OBVIOUS
    <3>1. Cardinality(s) \in Nat /\ Cardinality(s) <= k - 1
      BY <1>1
    <3>2. Cardinality(s) <= k
      BY <1>1, <3>1
    <3> QED
      BY <3>2
  <2>3. \A s \in L(k) : s # {} => s \ {Pick(s)} \in L(k - 1)
    BY <1>1, <1>2
  <2> HIDE DEF L
  <2>4. \A s \in L(k - 1) : g[s] = h[s]
    BY <2>1, <2>2 DEF Iterates
  <2>5. h = [s \in L(k) |-> IF s = {} THEN 0 ELSE f[Pick(s)] + h[s \ {Pick(s)}]]
    <3>1. \A s \in L(k) : s # {} => g[s \ {Pick(s)}] = h[s \ {Pick(s)}]
      BY <2>3, <2>4
    <3> HIDE DEF h
    <3>2. \A s \in L(k) : h[s] = IF s = {} THEN 0 ELSE f[Pick(s)] + h[s \ {Pick(s)}]
      BY <3>1 DEF h
    <3>3. h = [s \in L(k) |-> h[s]]
      BY DEF h
    <3> QED
      BY <3>2, <3>3
  <2> HIDE DEF h
  <2> QED
    BY <1>1, <2>5 DEF Iterates
<1>5. \A k \in 0 .. n : k \in P
  <2> HIDE DEF P
  <2> QED
    BY <1>1, <1>3, <1>4, Climb
<1>6. L(n) = SUBSET S
  <2>1. \A s \in SUBSET S : Cardinality(s) <= n
    BY FS_Subset
  <2> QED
    BY <2>1
<1>7. n \in P
  <2>1. n \in 0 .. n
    BY <1>1
  <2> HIDE DEF n, P
  <2> QED
    BY <1>5, <2>1
<1> HIDE DEF L
<1> QED
  BY <1>6, <1>7

LEMMA SameIterates ==
  ASSUME NEW f, NEW e, NEW g, NEW h, NEW S, NEW T, IsFiniteSet(S), S \subseteq T,
         Iterates(f, SUBSET S, g), Iterates(e, SUBSET T, h), \A x \in S : f[x] = e[x]
  PROVE  \A s \in SUBSET S : g[s] = h[s]
<1> DEFINE n == Cardinality(S)
           P == {k \in 0 .. n : \A s \in SUBSET S : Cardinality(s) <= k => g[s] = h[s]}
<1>1. /\ n \in Nat
      /\ \A s \in SUBSET S : IsFiniteSet(s) /\ Cardinality(s) \in Nat /\ Cardinality(s) <= n
  BY FS_CardinalityType, FS_Subset
<1>2. \A s \in SUBSET S : /\ g[s] = IF s = {} THEN 0 ELSE f[Pick(s)] + g[s \ {Pick(s)}]
                          /\ h[s] = IF s = {} THEN 0 ELSE e[Pick(s)] + h[s \ {Pick(s)}]
  BY DEF Iterates
<1> HIDE DEF n
<1>3. 0 \in P
  <2>1. \A s \in SUBSET S : Cardinality(s) <= 0 => s = {}
    <3> SUFFICES ASSUME NEW s \in SUBSET S, Cardinality(s) <= 0 PROVE s = {}
      OBVIOUS
    <3>1. IsFiniteSet(s) /\ Cardinality(s) = 0
      BY <1>1
    <3> QED
      BY <3>1, FS_EmptySet
  <2>2. 0 \in 0 .. n
    BY <1>1
  <2> QED
    BY <1>2, <2>1, <2>2
<1>4. ASSUME NEW k \in 1 .. n, k - 1 \in P PROVE k \in P
  <2> SUFFICES ASSUME NEW s \in SUBSET S, Cardinality(s) <= k PROVE g[s] = h[s]
    BY <1>1
  <2>1. CASE s = {}
    BY <1>2, <2>1
  <2>2. CASE s # {}
    <3> DEFINE x == Pick(s)
               t == s \ {x}
    <3>1. /\ x \in s /\ t \in SUBSET S /\ Cardinality(t) = Cardinality(s) - 1
          /\ Cardinality(s) \in Nat
      BY <1>1, <2>2, PickOK
    <3>2. Cardinality(t) <= k - 1
      BY <1>1, <3>1
    <3>3. g[t] = h[t]
      BY <1>4, <3>1, <3>2
    <3>4. f[x] = e[x]
      BY <3>1
    <3>5. g[s] = f[x] + g[t] /\ h[s] = e[x] + h[t]
      BY <1>2, <2>2
    <3> HIDE DEF x, t
    <3> QED
      BY <3>3, <3>4, <3>5
  <2> QED
    BY <2>1, <2>2
<1>5. \A k \in 0 .. n : k \in P
  <2> HIDE DEF P
  <2> QED
    BY <1>1, <1>3, <1>4, Climb
<1>6. n \in P
  <2>1. n \in 0 .. n
    BY <1>1
  <2> HIDE DEF P
  <2> QED
    BY <1>5, <2>1
<1> QED
  BY <1>1, <1>6

LEMMA SumIterates ==
  ASSUME NEW f, NEW S, IsFiniteSet(S)
  PROVE  \E g : Iterates(f, SUBSET S, g) /\ SumFunctionOnSet(f, S) = g[S]
<1> DEFINE Eq(g) == Iterates(f, SUBSET S, g)
<1>1. \E g : Eq(g)
  BY SumExists
<1> HIDE DEF Eq
<1>2. Eq(CHOOSE g : Eq(g))
  BY <1>1, Zenon
<1>3. SumFunctionOnSet(f, S) = (CHOOSE g : Eq(g))[S]
  BY SumIs DEF Eq
<1> QED
  BY <1>2, <1>3 DEF Eq

(* A sum depends on the values on its set only. *)
LEMMA SumSame ==
  ASSUME NEW f, NEW e, NEW S, IsFiniteSet(S), \A x \in S : f[x] = e[x]
  PROVE  SumFunctionOnSet(f, S) = SumFunctionOnSet(e, S)
<1>1. PICK g : Iterates(f, SUBSET S, g) /\ SumFunctionOnSet(f, S) = g[S]
  BY SumIterates
<1>2. PICK h : Iterates(e, SUBSET S, h) /\ SumFunctionOnSet(e, S) = h[S]
  BY SumIterates
<1>3. \A s \in SUBSET S : g[s] = h[s]
  BY <1>1, <1>2, SameIterates
<1> QED
  BY <1>1, <1>2, <1>3

LEMMA SumPick ==
  ASSUME NEW f, NEW S, IsFiniteSet(S)
  PROVE  SumFunctionOnSet(f, S) =
           IF S = {} THEN 0 ELSE f[Pick(S)] + SumFunctionOnSet(f, S \ {Pick(S)})
<1>1. PICK g : Iterates(f, SUBSET S, g) /\ SumFunctionOnSet(f, S) = g[S]
  BY SumIterates
<1>2. g[S] = IF S = {} THEN 0 ELSE f[Pick(S)] + g[S \ {Pick(S)}]
  BY <1>1 DEF Iterates
<1>3. ASSUME S # {} PROVE SumFunctionOnSet(f, S \ {Pick(S)}) = g[S \ {Pick(S)}]
  <2> DEFINE t == S \ {Pick(S)}
  <2>1. IsFiniteSet(t) /\ t \subseteq S
    BY <1>3, PickOK
  <2> HIDE DEF t
  <2>2. PICK h : Iterates(f, SUBSET t, h) /\ SumFunctionOnSet(f, t) = h[t]
    BY <2>1, SumIterates
  <2>3. \A s \in SUBSET t : h[s] = g[s]
    BY <1>1, <2>1, <2>2, SameIterates
  <2>4. SumFunctionOnSet(f, t) = g[t]
    BY <2>2, <2>3
  <2> QED
    BY <2>4 DEF t
<1> QED
  BY <1>1, <1>2, <1>3

LEMMA SumNone == ASSUME NEW f PROVE SumFunctionOnSet(f, {}) = 0
BY SumPick, FS_EmptySet

(* Any element may be taken first. *)
LEMMA SumTake ==
  ASSUME NEW S, IsFiniteSet(S), NEW f, \A x \in S : f[x] \in Nat
  PROVE  /\ SumFunctionOnSet(f, S) \in Nat
         /\ \A x \in S : SumFunctionOnSet(f, S) = f[x] + SumFunctionOnSet(f, S \ {x})
<1> DEFINE T(s) == SumFunctionOnSet(f, s)
           n == Cardinality(S)
           Good(s) == T(s) \in Nat /\ \A x \in s : T(s) = f[x] + T(s \ {x})
           P == {k \in 0 .. n : \A s \in SUBSET S : Cardinality(s) <= k => Good(s)}
<1>1. /\ n \in Nat
      /\ \A s \in SUBSET S : IsFiniteSet(s) /\ Cardinality(s) \in Nat /\ Cardinality(s) <= n
  BY FS_CardinalityType, FS_Subset
<1> HIDE DEF n
<1>2. Good({})
  BY SumNone
<1>3. 0 \in P
  <2>1. \A s \in SUBSET S : Cardinality(s) <= 0 => s = {}
    <3> SUFFICES ASSUME NEW s \in SUBSET S, Cardinality(s) <= 0 PROVE s = {}
      OBVIOUS
    <3>1. IsFiniteSet(s) /\ Cardinality(s) = 0
      BY <1>1
    <3> QED
      BY <3>1, FS_EmptySet
  <2>2. 0 \in 0 .. n
    BY <1>1
  <2> HIDE DEF Good
  <2> QED
    BY <1>2, <2>1, <2>2
<1>4. ASSUME NEW k \in 1 .. n, k - 1 \in P PROVE k \in P
  <2> SUFFICES ASSUME NEW s \in SUBSET S, Cardinality(s) <= k PROVE Good(s)
    BY <1>1
  <2>1. CASE s = {}
    <3> HIDE DEF Good
    <3> QED
      BY <1>2, <2>1
  <2>2. CASE s # {}
    <3> DEFINE y == Pick(s)
    <3>1. y \in s /\ IsFiniteSet(s) /\ Cardinality(s) \in Nat
      BY <1>1, <2>2, PickOK
    <3>2. T(s) = f[y] + T(s \ {y})
      BY <2>2, <3>1, SumPick
    <3> HIDE DEF y
    <3>3. ASSUME NEW x \in s PROVE Good(s \ {x})
      <4> DEFINE t == s \ {x}
      <4>1. t \in SUBSET S /\ Cardinality(t) = Cardinality(s) - 1
        BY <3>1, <3>3, FS_RemoveElement
      <4>2. Cardinality(t) <= k - 1
        BY <1>1, <3>1, <4>1
      <4> HIDE DEF t, Good
      <4>3. Good(t)
        BY <1>4, <4>1, <4>2
      <4> QED
        BY <4>3 DEF t
    <3>4. T(s) \in Nat
      BY <3>1, <3>2, <3>3
    <3>5. ASSUME NEW x \in s PROVE T(s) = f[x] + T(s \ {x})
      <4>1. CASE x = y
        BY <3>2, <4>1
      <4>2. CASE x # y
        <5> DEFINE r == s \ {x, y}
        <5>1. (s \ {y}) \ {x} = r /\ (s \ {x}) \ {y} = r /\ x \in s \ {y} /\ y \in s \ {x}
          BY <3>1, <4>2
        <5>2. T(s \ {y}) = f[x] + T(r)
          BY <3>1, <3>3, <5>1
        <5>3. T(s \ {x}) = f[y] + T(r)
          BY <3>3, <5>1
        <5>4. T(r) \in Nat
          <6>1. r \in SUBSET S /\ Cardinality(r) <= k - 1
            <7>1. Cardinality(s \ {y}) = Cardinality(s) - 1 /\ IsFiniteSet(s \ {y})
              BY <3>1, FS_RemoveElement
            <7>2. Cardinality((s \ {y}) \ {x}) = Cardinality(s \ {y}) - 1
              BY ONLY <5>1, <7>1, FS_RemoveElement
            <7> QED
              BY <1>1, <3>1, <5>1, <7>1, <7>2
          <6> HIDE DEF r, Good
          <6>2. Good(r)
            BY <1>4, <6>1
          <6> QED
            BY <6>2 DEF Good
        <5>5. f[x] \in Nat /\ f[y] \in Nat
          BY <3>1, <3>5
        <5> QED
          BY ONLY <3>2, <5>2, <5>3, <5>4, <5>5
      <4> QED
        BY <4>1, <4>2
    <3> QED
      BY <3>4, <3>5
  <2> QED
    BY <2>1, <2>2
<1>5. \A k \in 0 .. n : k \in P
  <2> HIDE DEF P
  <2> QED
    BY <1>1, <1>3, <1>4, Climb
<1>6. n \in P
  <2>1. n \in 0 .. n
    BY <1>1
  <2> HIDE DEF P
  <2> QED
    BY <1>5, <2>1
<1> QED
  BY <1>1, <1>6

LEMMA SumOne ==
  ASSUME NEW f, NEW x, f[x] \in Nat
  PROVE  SumFunctionOnSet(f, {x}) = f[x]
<1> DEFINE S == {x}
<1>1. IsFiniteSet(S) /\ x \in S /\ \A y \in S : f[y] \in Nat
  BY FS_Singleton
<1>2. S \ {x} = {}
  OBVIOUS
<1> HIDE DEF S
<1>3. SumFunctionOnSet(f, S) = f[x] + SumFunctionOnSet(f, S \ {x})
  BY <1>1, SumTake
<1>4. SumFunctionOnSet(f, S) = f[x]
  BY <1>2, <1>3, SumNone
<1> QED
  BY <1>4 DEF S

LEMMA SumTwo ==
  ASSUME NEW S, IsFiniteSet(S), NEW f, \A x \in S : f[x] \in Nat,
         NEW x \in S, NEW y \in S, x # y
  PROVE  /\ SumFunctionOnSet(f, S \ {x, y}) \in Nat
         /\ SumFunctionOnSet(f, S) = f[x] + f[y] + SumFunctionOnSet(f, S \ {x, y})
<1> DEFINE r == S \ {x}
<1>1. IsFiniteSet(r) /\ y \in r /\ \A z \in r : f[z] \in Nat
  BY FS_RemoveElement
<1>2. SumFunctionOnSet(f, S) = f[x] + SumFunctionOnSet(f, r)
  BY SumTake
<1>3. r \ {y} = S \ {x, y} /\ IsFiniteSet(r \ {y})
  BY <1>1, FS_RemoveElement
<1> HIDE DEF r
<1>4. SumFunctionOnSet(f, r) = f[y] + SumFunctionOnSet(f, r \ {y})
  BY <1>1, SumTake
<1>5. SumFunctionOnSet(f, r \ {y}) \in Nat
  <2> DEFINE q == r \ {y}
  <2>1. IsFiniteSet(q) /\ \A z \in q : f[z] \in Nat
    BY <1>1, <1>3
  <2> HIDE DEF q
  <2>2. SumFunctionOnSet(f, q) \in Nat
    BY <2>1, SumTake
  <2> QED
    BY <2>2 DEF q
<1>6. f[x] \in Nat /\ f[y] \in Nat
  OBVIOUS
<1> QED
  BY ONLY <1>2, <1>3, <1>4, <1>5, <1>6

(* Adding an element to a set adds its value. *)
LEMMA SumMore ==
  ASSUME NEW S, NEW f, IsFiniteSet(S), NEW s \in SUBSET S, NEW x \in S \ s,
         \A y \in S : f[y] \in Nat
  PROVE  /\ SumFunctionOnSet(f, s \cup {x}) = f[x] + SumFunctionOnSet(f, s)
         /\ SumFunctionOnSet(f, s) \in Nat /\ f[x] \in Nat
<1> DEFINE t == s \cup {x}
<1>1. IsFiniteSet(t) /\ x \in t /\ t \ {x} = s /\ \A y \in t : f[y] \in Nat
  BY FS_Subset
<1>2. IsFiniteSet(s) /\ \A y \in s : f[y] \in Nat
  BY FS_Subset
<1> HIDE DEF t
<1>3. SumFunctionOnSet(f, t) = f[x] + SumFunctionOnSet(f, t \ {x})
  BY <1>1, SumTake
<1>4. SumFunctionOnSet(f, s) \in Nat
  BY <1>2, SumTake
<1> QED
  BY <1>1, <1>3, <1>4 DEF t

LEMMA SumPlus ==
  ASSUME NEW S, IsFiniteSet(S), NEW f, NEW e, NEW g,
         \A x \in S : f[x] \in Nat /\ e[x] \in Nat /\ g[x] = f[x] + e[x]
  PROVE  SumFunctionOnSet(g, S) = SumFunctionOnSet(f, S) + SumFunctionOnSet(e, S)
<1> DEFINE P == {s \in SUBSET S : SumFunctionOnSet(g, s) =
                                  SumFunctionOnSet(f, s) + SumFunctionOnSet(e, s)}
<1>1. {} \in P
  BY SumNone
<1>2. ASSUME NEW s \in SUBSET S, NEW x \in S \ s, s \in P PROVE s \cup {x} \in P
  <2>1. \A y \in S : f[y] \in Nat /\ e[y] \in Nat /\ g[y] \in Nat
    OBVIOUS
  <2>2. /\ SumFunctionOnSet(f, s \cup {x}) = f[x] + SumFunctionOnSet(f, s)
        /\ SumFunctionOnSet(f, s) \in Nat /\ f[x] \in Nat
    BY <2>1, SumMore
  <2>3. /\ SumFunctionOnSet(e, s \cup {x}) = e[x] + SumFunctionOnSet(e, s)
        /\ SumFunctionOnSet(e, s) \in Nat /\ e[x] \in Nat
    BY <2>1, SumMore
  <2>4. SumFunctionOnSet(g, s \cup {x}) = g[x] + SumFunctionOnSet(g, s)
    BY <2>1, SumMore
  <2>5. SumFunctionOnSet(g, s) = SumFunctionOnSet(f, s) + SumFunctionOnSet(e, s)
    BY <1>2
  <2>6. g[x] = f[x] + e[x]
    OBVIOUS
  <2>7. SumFunctionOnSet(g, s \cup {x}) =
          SumFunctionOnSet(f, s \cup {x}) + SumFunctionOnSet(e, s \cup {x})
    BY ONLY <2>2, <2>3, <2>4, <2>5, <2>6
  <2>8. s \cup {x} \in SUBSET S
    OBVIOUS
  <2> QED
    BY <2>7, <2>8
<1>3. S \in P
  <2> HIDE DEF P
  <2> QED
    BY <1>1, <1>2, EverySet
<1> QED
  BY <1>3

LEMMA SumTimes ==
  ASSUME NEW S, IsFiniteSet(S), NEW f, NEW g, NEW a \in Nat,
         \A x \in S : f[x] \in Nat /\ g[x] = a * f[x]
  PROVE  SumFunctionOnSet(g, S) = a * SumFunctionOnSet(f, S)
<1> DEFINE P == {s \in SUBSET S : SumFunctionOnSet(g, s) = a * SumFunctionOnSet(f, s)}
<1>1. {} \in P
  <2>1. SumFunctionOnSet(g, {}) = 0 /\ SumFunctionOnSet(f, {}) = 0
    BY SumNone
  <2>2. 0 = a * 0
    OBVIOUS
  <2> QED
    BY <2>1, <2>2
<1>2. ASSUME NEW s \in SUBSET S, NEW x \in S \ s, s \in P PROVE s \cup {x} \in P
  <2>1. \A y \in S : f[y] \in Nat /\ g[y] \in Nat
    OBVIOUS
  <2>2. /\ SumFunctionOnSet(f, s \cup {x}) = f[x] + SumFunctionOnSet(f, s)
        /\ SumFunctionOnSet(f, s) \in Nat /\ f[x] \in Nat
    BY <2>1, SumMore
  <2>4. SumFunctionOnSet(g, s \cup {x}) = g[x] + SumFunctionOnSet(g, s)
    BY <2>1, SumMore
  <2>5. SumFunctionOnSet(g, s) = a * SumFunctionOnSet(f, s)
    BY <1>2
  <2>6. g[x] = a * f[x]
    OBVIOUS
  <2>7. SumFunctionOnSet(g, s \cup {x}) = a * SumFunctionOnSet(f, s \cup {x})
    <3>1. \A p, q \in Nat : a * (p + q) = a * p + a * q
      OBVIOUS
    <3> QED
      BY ONLY <2>2, <2>4, <2>5, <2>6, <3>1
  <2>8. s \cup {x} \in SUBSET S
    OBVIOUS
  <2> QED
    BY <2>7, <2>8
<1>3. S \in P
  <2> HIDE DEF P
  <2> QED
    BY <1>1, <1>2, EverySet
<1> QED
  BY <1>3

LEMMA SumApart ==
  ASSUME NEW S, NEW T, IsFiniteSet(S), IsFiniteSet(T), S \cap T = {},
         NEW f, \A x \in S \cup T : f[x] \in Nat
  PROVE  /\ SumFunctionOnSet(f, S) \in Nat /\ SumFunctionOnSet(f, T) \in Nat
         /\ SumFunctionOnSet(f, S \cup T) = SumFunctionOnSet(f, S) + SumFunctionOnSet(f, T)
<1> DEFINE U == S \cup T
           P == {s \in SUBSET S : SumFunctionOnSet(f, s \cup T) =
                                  SumFunctionOnSet(f, s) + SumFunctionOnSet(f, T)}
<1>1. IsFiniteSet(U) /\ S \subseteq U /\ \A x \in U : f[x] \in Nat
  BY FS_Union
<1>2. SumFunctionOnSet(f, S) \in Nat /\ SumFunctionOnSet(f, T) \in Nat
  BY SumTake
<1>3. {} \in P
  <2>1. {} \cup T = T
    OBVIOUS
  <2> QED
    BY <1>2, <2>1, SumNone
<1>4. ASSUME NEW s \in SUBSET S, NEW x \in S \ s, s \in P PROVE s \cup {x} \in P
  <2>1. /\ SumFunctionOnSet(f, s \cup {x}) = f[x] + SumFunctionOnSet(f, s)
        /\ SumFunctionOnSet(f, s) \in Nat /\ f[x] \in Nat
    BY SumMore
  <2> DEFINE r == s \cup T
  <2>2. r \in SUBSET U /\ x \in U \ r /\ (s \cup {x}) \cup T = r \cup {x}
    BY <1>1
  <2> HIDE DEF r, U
  <2>3. SumFunctionOnSet(f, r \cup {x}) = f[x] + SumFunctionOnSet(f, r)
    BY <1>1, <2>2, SumMore
  <2>4. SumFunctionOnSet(f, r) = SumFunctionOnSet(f, s) + SumFunctionOnSet(f, T)
    BY <1>4 DEF r
  <2>5. SumFunctionOnSet(f, (s \cup {x}) \cup T) =
          SumFunctionOnSet(f, s \cup {x}) + SumFunctionOnSet(f, T)
    BY ONLY <1>2, <2>1, <2>2, <2>3, <2>4
  <2>6. s \cup {x} \in SUBSET S
    OBVIOUS
  <2> QED
    BY <2>5, <2>6
<1>5. S \in P
  <2> HIDE DEF P
  <2> QED
    BY <1>3, <1>4, EverySet
<1> QED
  BY <1>2, <1>5

LEMMA ImageFinite ==
  ASSUME NEW S, IsFiniteSet(S), NEW m
  PROVE  IsFiniteSet({m[x] : x \in S})
<1> DEFINE f == [x \in S |-> m[x]]
           T == {m[x] : x \in S}
<1>1. f \in [S -> T] /\ \A y \in T : \E x \in S : f[x] = y
  OBVIOUS
<1>2. f \in Surjection(S, T)
  BY <1>1 DEF Surjection
<1> HIDE DEF f, T
<1>3. IsFiniteSet(T)
  BY <1>2, FS_Surjection
<1> QED
  BY <1>3 DEF T

(* The same sum over other names for the elements. *)
LEMMA SumOver ==
  ASSUME NEW S, IsFiniteSet(S), NEW m, \A x, y \in S : m[x] = m[y] => x = y,
         NEW f, NEW g, \A x \in S : f[m[x]] \in Nat /\ g[x] = f[m[x]]
  PROVE  /\ IsFiniteSet({m[x] : x \in S})
         /\ SumFunctionOnSet(f, {m[x] : x \in S}) = SumFunctionOnSet(g, S)
<1> DEFINE M(s) == {m[x] : x \in s}
           P == {s \in SUBSET S : IsFiniteSet(M(s)) /\ SumFunctionOnSet(f, M(s)) = SumFunctionOnSet(g, s)}
<1>1. {} \in P
  <2>1. M({}) = {}
    OBVIOUS
  <2> HIDE DEF M
  <2> QED
    BY <2>1, SumNone, FS_EmptySet
<1>2. ASSUME NEW s \in SUBSET S, NEW x \in S \ s, s \in P PROVE s \cup {x} \in P
  <2> DEFINE t == M(s)
             u == t \cup {m[x]}
  <2>1. M(s \cup {x}) = u /\ m[x] \notin t /\ \A y \in u : f[y] \in Nat
    OBVIOUS
  <2>2. IsFiniteSet(t) /\ SumFunctionOnSet(f, t) = SumFunctionOnSet(g, s)
    BY <1>2
  <2> HIDE DEF t, M
  <2>3. IsFiniteSet(u)
    BY <2>2, FS_AddElement
  <2>4. u \ {m[x]} = t /\ m[x] \in u
    BY <2>1
  <2> HIDE DEF u
  <2>5. SumFunctionOnSet(f, u) = f[m[x]] + SumFunctionOnSet(f, t)
    BY <2>1, <2>3, <2>4, SumTake
  <2>6. SumFunctionOnSet(g, s \cup {x}) = g[x] + SumFunctionOnSet(g, s)
    <3>1. \A y \in S : g[y] \in Nat
      OBVIOUS
    <3> QED
      BY <3>1, SumMore
  <2>7. g[x] = f[m[x]] /\ s \cup {x} \in SUBSET S
    OBVIOUS
  <2> QED
    BY <2>1, <2>2, <2>3, <2>5, <2>6, <2>7
<1>3. S \in P
  <2> HIDE DEF P
  <2> QED
    BY <1>1, <1>2, EverySet
<1> QED
  BY <1>3

----------------------------------------------------------------------------
(* Lengths of codes for weights.  Of 2 ^ top places at the lowest depth a  *)
(* code takes as many as are below it; what a prefix code takes fits.      *)
Filled(l, H, top) == SumFunctionOnSet([x \in H |-> 2 ^ (top - l[x])], H)
Weight(w, l, H) == SumFunctionOnSet([x \in H |-> w[x] * l[x]], H)
Fits(l, H, top) == l \in [H -> 0 .. top] /\ Filled(l, H, top) <= 2 ^ top

LEMMA PlaceIn ==
  ASSUME NEW top \in Nat, NEW k \in 0 .. top
  PROVE  2 ^ (top - k) \in Nat /\ 2 ^ (top - k) > 0 /\ 2 ^ top \in Nat /\ top - k \in Nat
<1>1. top - k \in Nat
  OBVIOUS
<1> QED
  BY <1>1, PowerOK

LEMMA Highest ==
  ASSUME NEW H, H # {}, NEW top \in Nat, NEW l, \A z \in H : l[z] \in 0 .. top
  PROVE  \E x \in H : \A z \in H : l[z] <= l[x]
<1> DEFINE R == {top - l[z] : z \in H}
<1>1. PICK r \in R : \A q \in R : r <= q
  <2>1. R \subseteq Nat /\ R # {}
    OBVIOUS
  <2> HIDE DEF R
  <2> QED
    BY <2>1, LeastNat
<1>2. PICK x \in H : r = top - l[x]
  OBVIOUS
<1>3. \A z \in H : top - l[x] <= top - l[z]
  BY <1>1, <1>2
<1>4. \A z \in H : l[z] <= l[x]
  BY <1>3
<1> QED
  BY <1>4

LEMMA Crossed ==
  ASSUME NEW p \in Nat, NEW q \in Nat, NEW m \in Nat, NEW n \in Nat, p <= q, m <= n
  PROVE  p * n + q * m <= p * m + q * n
<1> DEFINE d == q - p
           e == n - m
<1>1. d \in Nat /\ e \in Nat /\ q = p + d /\ n = m + e
  OBVIOUS
<1> HIDE DEF d, e
<1>2. d * e \in Nat
  BY <1>1
<1>3. (p * m + (p + d) * (m + e)) = (p * (m + e) + (p + d) * m) + d * e
  BY <1>1
<1>4. p * (m + e) + (p + d) * m \in Nat
  BY <1>1
<1> QED
  BY <1>1, <1>2, <1>3, <1>4

(* The lighter of two may as well have the longer code. *)
LEMMA Exchange ==
  ASSUME NEW H, IsFiniteSet(H), NEW top \in Nat, NEW w \in [H -> Nat], NEW l, Fits(l, H, top),
         NEW a \in H, NEW x \in H, w[a] <= w[x], l[a] <= l[x]
  PROVE  \E e : /\ Fits(e, H, top) /\ Weight(w, e, H) <= Weight(w, l, H)
                /\ e[a] = l[x] /\ e[x] = l[a] /\ \A z \in H : z # a /\ z # x => e[z] = l[z]
<1>1. l \in [H -> 0 .. top] /\ Filled(l, H, top) <= 2 ^ top
  BY DEF Fits
<1>2. \A z \in H : l[z] \in Nat /\ 2 ^ (top - l[z]) \in Nat /\ w[z] * l[z] \in Nat
  <2>1. \A z \in H : l[z] \in 0 .. top /\ w[z] \in Nat
    BY <1>1
  <2> QED
    BY <2>1, PlaceIn
<1>3. CASE a = x
  <2>1. Weight(w, l, H) \in Nat
    <3> DEFINE f == [z \in H |-> w[z] * l[z]]
    <3>1. \A z \in H : f[z] \in Nat
      BY <1>2
    <3> HIDE DEF f
    <3>2. SumFunctionOnSet(f, H) \in Nat
      BY <3>1, SumTake
    <3> QED
      BY <3>2 DEF f, Weight
  <2>2. Weight(w, l, H) <= Weight(w, l, H)
    BY <2>1
  <2> QED
    BY <1>3, <2>2
<1>4. CASE a # x
  <2> DEFINE e == [z \in H |-> IF z = a THEN l[x] ELSE IF z = x THEN l[a] ELSE l[z]]
             r == H \ {a, x}
  <2>1. /\ e \in [H -> 0 .. top] /\ e[a] = l[x] /\ e[x] = l[a]
        /\ \A z \in H : z # a /\ z # x => e[z] = l[z]
    BY <1>1, <1>4
  <2> HIDE DEF e
  <2>2. IsFiniteSet(r)
    BY FS_Subset
  <2>3. Filled(e, H, top) = Filled(l, H, top)
    <3> DEFINE f == [z \in H |-> 2 ^ (top - l[z])]
               g == [z \in H |-> 2 ^ (top - e[z])]
    <3>1. \A z \in H : f[z] \in Nat /\ g[z] \in Nat
      BY <1>2, <2>1
    <3>2. g[a] = f[x] /\ g[x] = f[a] /\ \A z \in r : g[z] = f[z]
      BY <2>1
    <3> HIDE DEF f, g
    <3>3. SumFunctionOnSet(f, r) = SumFunctionOnSet(g, r)
      BY <2>2, <3>2, SumSame
    <3> HIDE DEF r
    <3>4. /\ SumFunctionOnSet(f, r) \in Nat
          /\ SumFunctionOnSet(f, H) = f[a] + f[x] + SumFunctionOnSet(f, r)
      BY <1>4, <3>1, SumTwo DEF r
    <3>5. SumFunctionOnSet(g, H) = g[a] + g[x] + SumFunctionOnSet(g, r)
      BY <1>4, <3>1, SumTwo DEF r
    <3>6. f[a] \in Nat /\ f[x] \in Nat
      BY <3>1
    <3>7. SumFunctionOnSet(g, H) = SumFunctionOnSet(f, H)
      BY ONLY <3>2, <3>3, <3>4, <3>5, <3>6
    <3> QED
      BY <3>7 DEF Filled, f, g
  <2>4. Weight(w, e, H) <= Weight(w, l, H)
    <3> DEFINE f == [z \in H |-> w[z] * l[z]]
               g == [z \in H |-> w[z] * e[z]]
    <3>1. \A z \in H : f[z] \in Nat /\ g[z] \in Nat
      <4>1. \A z \in H : e[z] \in Nat /\ w[z] \in Nat
        BY <2>1
      <4> QED
        BY <1>2, <4>1
    <3>2. g[a] = w[a] * l[x] /\ g[x] = w[x] * l[a] /\ \A z \in r : g[z] = f[z]
      BY <2>1
    <3>3. f[a] = w[a] * l[a] /\ f[x] = w[x] * l[x]
      OBVIOUS
    <3> HIDE DEF f, g
    <3>4. SumFunctionOnSet(f, r) = SumFunctionOnSet(g, r)
      BY <2>2, <3>2, SumSame
    <3> HIDE DEF r
    <3>5. /\ SumFunctionOnSet(f, r) \in Nat
          /\ SumFunctionOnSet(f, H) = f[a] + f[x] + SumFunctionOnSet(f, r)
      BY <1>4, <3>1, SumTwo DEF r
    <3>6. SumFunctionOnSet(g, H) = g[a] + g[x] + SumFunctionOnSet(g, r)
      BY <1>4, <3>1, SumTwo DEF r
    <3>7. w[a] * l[x] + w[x] * l[a] <= w[a] * l[a] + w[x] * l[x]
      <4>1. w[a] \in Nat /\ w[x] \in Nat /\ l[a] \in Nat /\ l[x] \in Nat
        BY <1>2
      <4> QED
        BY <4>1, Crossed
    <3>8. f[a] \in Nat /\ f[x] \in Nat /\ g[a] \in Nat /\ g[x] \in Nat
      BY <3>1
    <3>9. g[a] + g[x] <= f[a] + f[x]
      BY ONLY <3>2, <3>3, <3>7
    <3>10. SumFunctionOnSet(g, H) <= SumFunctionOnSet(f, H)
      BY ONLY <3>4, <3>5, <3>6, <3>8, <3>9
    <3> QED
      BY <3>10 DEF Weight, f, g
  <2>5. Fits(e, H, top)
    BY <1>1, <2>1, <2>3 DEF Fits
  <2> QED
    BY <2>1, <2>4, <2>5
<1> QED
  BY <1>3, <1>4

LEMMA WeightIn ==
  ASSUME NEW H, IsFiniteSet(H), NEW top \in Nat, NEW w \in [H -> Nat], NEW l \in [H -> 0 .. top]
  PROVE  Weight(w, l, H) \in Nat /\ Filled(l, H, top) \in Nat
<1> DEFINE f == [z \in H |-> w[z] * l[z]]
           g == [z \in H |-> 2 ^ (top - l[z])]
<1>1. \A z \in H : f[z] \in Nat /\ g[z] \in Nat
  <2>1. \A z \in H : w[z] \in Nat /\ l[z] \in Nat /\ l[z] \in 0 .. top
    OBVIOUS
  <2>2. \A z \in H : f[z] \in Nat
    BY <2>1
  <2>3. \A z \in H : 2 ^ (top - l[z]) \in Nat
    BY <2>1, PlaceIn
  <2> QED
    BY <2>2, <2>3
<1> HIDE DEF f, g
<1>2. SumFunctionOnSet(f, H) \in Nat /\ SumFunctionOnSet(g, H) \in Nat
  BY <1>1, SumTake
<1> QED
  BY <1>2 DEF Weight, Filled, f, g

(* All but the longest code take a multiple of the places below the second *)
(* longest: there is room to make the longest as short as that.            *)
LEMMA Shorten ==
  ASSUME NEW H, IsFiniteSet(H), NEW top \in Nat, NEW w \in [H -> Nat], NEW l, Fits(l, H, top),
         NEW a \in H, NEW b \in H, a # b, l[b] <= l[a], \A z \in H : z # a => l[z] <= l[b]
  PROVE  LET e == [l EXCEPT ![a] = l[b]]
         IN  Fits(e, H, top) /\ Weight(w, e, H) <= Weight(w, l, H) /\ l[b] > 0
<1> DEFINE e == [l EXCEPT ![a] = l[b]]
           m == l[b]
           r == H \ {a}
           P == 2 ^ (top - m)
           f == [z \in H |-> 2 ^ (top - l[z])]
           g == [z \in H |-> 2 ^ (top - e[z])]
           h == [z \in r |-> 2 ^ (m - l[z])]
           q == SumFunctionOnSet(h, r)
<1>1. l \in [H -> 0 .. top] /\ Filled(l, H, top) <= 2 ^ top
  BY DEF Fits
<1>2. /\ e \in [H -> 0 .. top] /\ e[a] = m /\ (\A z \in r : e[z] = l[z])
      /\ m \in 0 .. top /\ m \in Nat /\ top - m \in Nat
  BY <1>1
<1> HIDE DEF e
<1>3. IsFiniteSet(r) /\ b \in r
  BY FS_RemoveElement
<1>4. P \in Nat /\ P > 0 /\ 2 ^ m \in Nat /\ 2 ^ top = P * 2 ^ m
  <2>1. top = (top - m) + m
    BY <1>2
  <2>2. 2 ^ ((top - m) + m) = 2 ^ (top - m) * 2 ^ m
    BY <1>2, PowerAdds
  <2>3. P \in Nat /\ P > 0 /\ 2 ^ m \in Nat
    BY <1>2, PowerOK
  <2> QED
    BY <2>1, <2>2, <2>3
<1>5. \A z \in r : h[z] \in Nat /\ f[z] = P * h[z]
  <2> SUFFICES ASSUME NEW z \in r PROVE h[z] \in Nat /\ f[z] = P * h[z]
    OBVIOUS
  <2>1. l[z] \in Nat /\ l[z] <= m /\ m - l[z] \in Nat /\ top - l[z] = (top - m) + (m - l[z])
    BY <1>1, <1>2
  <2>2. 2 ^ ((top - m) + (m - l[z])) = 2 ^ (top - m) * 2 ^ (m - l[z]) /\ 2 ^ (m - l[z]) \in Nat
    BY <1>2, <2>1, PowerAdds, PowerOK
  <2> QED
    BY <2>1, <2>2
<1>6. h[b] = 1
  <2>1. m - l[b] = 0
    BY <1>2
  <2>2. h[b] = 2 ^ (m - l[b])
    BY <1>3
  <2> QED
    BY <2>1, <2>2, PowerZero
<1>7. \A z \in H : f[z] \in Nat /\ g[z] \in Nat /\ f[z] > 0
  <2>1. \A z \in H : l[z] \in 0 .. top /\ e[z] \in 0 .. top
    BY <1>1, <1>2
  <2> QED
    BY <2>1, PlaceIn
<1>8. g[a] = P /\ \A z \in r : g[z] = f[z]
  BY <1>2
<1>9. Filled(l, H, top) = SumFunctionOnSet(f, H) /\ Filled(e, H, top) = SumFunctionOnSet(g, H)
  BY DEF Filled
<1> HIDE DEF f, g, h, P, r
<1>10. q \in Nat /\ q >= 1
  <2>1. q \in Nat /\ q = h[b] + SumFunctionOnSet(h, r \ {b})
    BY <1>3, <1>5, SumTake
  <2>2. SumFunctionOnSet(h, r \ {b}) \in Nat
    <3> DEFINE t == r \ {b}
    <3>1. IsFiniteSet(t) /\ \A z \in t : h[z] \in Nat
      BY <1>3, <1>5, FS_RemoveElement
    <3> HIDE DEF t
    <3>2. SumFunctionOnSet(h, t) \in Nat
      BY <3>1, SumTake
    <3> QED
      BY <3>2 DEF t
  <2> QED
    BY <1>6, <2>1, <2>2
<1>11. SumFunctionOnSet(f, r) = P * q
  BY <1>3, <1>4, <1>5, SumTimes
<1>12. SumFunctionOnSet(g, r) = P * q
  BY <1>3, <1>8, <1>11, SumSame
<1> HIDE DEF q
<1>13. SumFunctionOnSet(f, H) = f[a] + P * q /\ SumFunctionOnSet(g, H) = P + P * q
  <2>1. SumFunctionOnSet(f, H) = f[a] + SumFunctionOnSet(f, r)
    BY <1>7, SumTake DEF r
  <2>2. SumFunctionOnSet(g, H) = g[a] + SumFunctionOnSet(g, r)
    BY <1>7, SumTake DEF r
  <2> QED
    BY <1>8, <1>11, <1>12, <2>1, <2>2
<1>14. q < 2 ^ m
  <2>1. f[a] + P * q <= P * 2 ^ m /\ f[a] \in Nat /\ f[a] > 0
    BY <1>1, <1>4, <1>7, <1>9, <1>13
  <2>2. ASSUME ~(q < 2 ^ m) PROVE FALSE
    <3>1. P * 2 ^ m <= P * q
      BY <1>4, <1>10, <2>2, TimesMono
    <3>2. P * q \in Nat /\ P * 2 ^ m \in Nat
      BY <1>4, <1>10
    <3> QED
      BY ONLY <2>1, <3>1, <3>2
  <2> QED
    BY <2>2
<1>15. P * (q + 1) <= P * 2 ^ m
  BY <1>4, <1>10, <1>14, TimesMono
<1>16. Fits(e, H, top)
  <2>1. P * (q + 1) = P + P * q
    BY <1>4, <1>10
  <2> QED
    BY <1>2, <1>4, <1>9, <1>13, <1>15, <2>1 DEF Fits
<1>17. m > 0
  <2>1. ASSUME m = 0 PROVE FALSE
    <3>1. 2 ^ m = 1
      BY <2>1, PowerZero
    <3> HIDE DEF m
    <3> QED
      BY <1>10, <1>14, <3>1
  <2> QED
    BY <1>2, <2>1
<1>18. Weight(w, e, H) <= Weight(w, l, H)
  <2> DEFINE u == [z \in H |-> w[z] * l[z]]
             v == [z \in H |-> w[z] * e[z]]
  <2>1. \A z \in H : u[z] \in Nat /\ v[z] \in Nat
    <3>1. \A z \in H : e[z] \in Nat /\ l[z] \in Nat /\ w[z] \in Nat
      BY <1>1, <1>2
    <3> QED
      BY <3>1
  <2>2. \A z \in r : v[z] = u[z]
    BY <1>2 DEF r
  <2>3. v[a] <= u[a]
    <3>1. w[a] \in Nat /\ m \in Nat /\ l[a] \in Nat /\ m <= l[a]
      BY <1>1, <1>2
    <3>2. w[a] * m <= w[a] * l[a]
      BY <3>1, TimesMono
    <3> QED
      BY <1>2, <3>2
  <2> HIDE DEF u, v
  <2>4. SumFunctionOnSet(u, H) = u[a] + SumFunctionOnSet(u, r)
    BY <2>1, SumTake DEF r
  <2>5. SumFunctionOnSet(v, H) = v[a] + SumFunctionOnSet(v, r)
    BY <2>1, SumTake DEF r
  <2>6. SumFunctionOnSet(v, r) = SumFunctionOnSet(u, r) /\ SumFunctionOnSet(u, r) \in Nat
    <3>1. \A z \in r : u[z] \in Nat
      BY <2>1 DEF r
    <3> QED
      BY <1>3, <2>2, <3>1, SumSame, SumTake
  <2>7. SumFunctionOnSet(v, H) <= SumFunctionOnSet(u, H)
    <3>1. u[a] \in Nat /\ v[a] \in Nat
      BY <2>1
    <3> QED
      BY ONLY <2>3, <2>4, <2>5, <2>6, <3>1
  <2> QED
    BY <2>7 DEF Weight, u, v
<1> QED
  BY <1>16, <1>17, <1>18 DEF e

(* The two lightest may as well have codes of the same length. *)
LEMMA TwoLast ==
  ASSUME NEW H, IsFiniteSet(H), NEW top \in Nat, NEW w \in [H -> Nat], NEW l, Fits(l, H, top),
         NEW a \in H, NEW b \in H, a # b, w[a] <= w[b],
         \A z \in H : z # a /\ z # b => w[b] <= w[z]
  PROVE  \E e : /\ Fits(e, H, top) /\ Weight(w, e, H) <= Weight(w, l, H)
                /\ e[a] = e[b] /\ e[b] > 0
<1>1. \A z \in H : w[a] <= w[z] /\ (z # a => w[b] <= w[z])
  <2>1. \A z \in H : w[z] \in Nat
    OBVIOUS
  <2> QED
    BY <2>1
<1>2. PICK x \in H : \A z \in H : l[z] <= l[x]
  BY Highest DEF Fits
<1>3. PICK k : /\ Fits(k, H, top) /\ Weight(w, k, H) <= Weight(w, l, H)
               /\ k[a] = l[x] /\ k[x] = l[a] /\ \A z \in H : z # a /\ z # x => k[z] = l[z]
  BY <1>1, <1>2, Exchange
<1>4. \A z \in H : k[z] <= k[a]
  BY <1>2, <1>3
<1>5. PICK y \in H \ {a} : \A z \in H \ {a} : k[z] <= k[y]
  <2> DEFINE r == H \ {a}
  <2>1. r # {} /\ \A z \in r : k[z] \in 0 .. top
    BY <1>3 DEF Fits
  <2> HIDE DEF r
  <2>2. \E y \in r : \A z \in r : k[z] <= k[y]
    BY <2>1, Highest
  <2> QED
    BY <2>2 DEF r
<1>6. PICK n : /\ Fits(n, H, top) /\ Weight(w, n, H) <= Weight(w, k, H)
               /\ n[b] = k[y] /\ n[y] = k[b] /\ \A z \in H : z # b /\ z # y => n[z] = k[z]
  <2>1. y \in H /\ w[b] <= w[y] /\ k[b] <= k[y]
    BY <1>1, <1>5
  <2> QED
    BY <1>3, <2>1, Exchange
<1>7. n[b] <= n[a] /\ \A z \in H : z # a => n[z] <= n[b]
  <2>1. n[a] = k[a]
    BY <1>5, <1>6
  <2>2. n[b] <= n[a]
    BY <1>4, <1>5, <1>6, <2>1
  <2>3. \A z \in H : z # a => n[z] <= k[y]
    BY <1>5, <1>6
  <2> QED
    BY <1>6, <2>2, <2>3
<1> DEFINE e == [n EXCEPT ![a] = n[b]]
<1>8. Fits(e, H, top) /\ Weight(w, e, H) <= Weight(w, n, H) /\ n[b] > 0
  BY <1>6, <1>7, Shorten
<1>9. e[a] = n[b] /\ e[b] = n[b]
  BY <1>6 DEF Fits
<1> HIDE DEF e
<1>10. Weight(w, e, H) <= Weight(w, l, H)
  <2>1. /\ Weight(w, e, H) \in Nat /\ Weight(w, n, H) \in Nat
        /\ Weight(w, k, H) \in Nat /\ Weight(w, l, H) \in Nat
    BY <1>3, <1>6, <1>8, WeightIn DEF Fits
  <2> QED
    BY ONLY <1>3, <1>6, <1>8, <2>1
<1> QED
  BY <1>8, <1>9, <1>10

(* Elements a and b become one, j, of the weight of both. *)
Merged(H, w, a, b, j, K, v) ==
  /\ IsFiniteSet(H) /\ w \in [H -> Nat] /\ a \in H /\ b \in H /\ a # b
  /\ j \notin H \ {a, b} /\ K = (H \ {a, b}) \cup {j} /\ v \in [K -> Nat]
  /\ v[j] = w[a] + w[b] /\ \A z \in H \ {a, b} : v[z] = w[z]

(* Two codes of the same length leave their common beginning to another. *)
LEMMA JoinedFits ==
  ASSUME NEW H, NEW w, NEW a, NEW b, NEW j, NEW K, NEW v, Merged(H, w, a, b, j, K, v),
         NEW top \in Nat, NEW e, Fits(e, H, top), e[a] = e[b], e[b] > 0
  PROVE  \E k : Fits(k, K, top) /\ Weight(v, k, K) + w[a] + w[b] = Weight(w, e, H)
<1> DEFINE r == H \ {a, b}
           m == e[b] - 1
           k == [z \in K |-> IF z = j THEN m ELSE e[z]]
           f == [z \in H |-> 2 ^ (top - e[z])]
           g == [z \in K |-> 2 ^ (top - k[z])]
           p == [z \in H |-> w[z] * e[z]]
           q == [z \in K |-> v[z] * k[z]]
<1>0. /\ IsFiniteSet(H) /\ w \in [H -> Nat] /\ a \in H /\ b \in H /\ a # b
      /\ j \notin r /\ K = r \cup {j} /\ v \in [K -> Nat] /\ r = H \ {a, b}
      /\ v[j] = w[a] + w[b] /\ \A z \in r : v[z] = w[z]
  BY DEF Merged
<1>1. e \in [H -> 0 .. top] /\ Filled(e, H, top) <= 2 ^ top
  BY DEF Fits
<1> HIDE DEF r
<1>2. m \in 0 .. top /\ m + 1 \in 0 .. top /\ e[a] = m + 1 /\ e[b] = m + 1
  BY <1>0, <1>1
<1>3. r \subseteq H /\ K = r \cup {j} /\ j \notin r /\ IsFiniteSet(r) /\ \A z \in r : z \in K /\ z # j
  <2>1. IsFiniteSet(r)
    BY <1>0, FS_Subset
  <2> QED
    BY <1>0, <2>1
<1>4. j \in K /\ K \ {j} = r /\ IsFiniteSet(K)
  <2>1. IsFiniteSet(r \cup {j})
    BY <1>0, <1>3, FS_AddElement
  <2> QED
    BY <1>0, <1>3, <2>1
<1> HIDE DEF m
<1>5. k \in [K -> 0 .. top] /\ k[j] = m /\ \A z \in r : k[z] = e[z]
  <2>1. \A z \in K : (z = j \/ z \in r)
    BY <1>0, <1>3
  <2> QED
    BY <1>0, <1>1, <1>2, <1>3, <2>1
<1> HIDE DEF k
<1>6. \A z \in H : f[z] \in Nat /\ p[z] \in Nat
  <2>1. \A z \in H : e[z] \in 0 .. top /\ e[z] \in Nat /\ w[z] \in Nat
    BY <1>0, <1>1
  <2>2. \A z \in H : 2 ^ (top - e[z]) \in Nat
    BY <1>0, <2>1, PlaceIn
  <2> QED
    BY <1>0, <2>1, <2>2
<1>7. \A z \in K : g[z] \in Nat /\ q[z] \in Nat
  <2>1. \A z \in K : k[z] \in 0 .. top /\ k[z] \in Nat /\ v[z] \in Nat
    BY <1>0, <1>5
  <2>2. \A z \in K : 2 ^ (top - k[z]) \in Nat
    BY <1>0, <2>1, PlaceIn
  <2> QED
    BY <1>0, <2>1, <2>2
<1>8. \A z \in r : g[z] = f[z] /\ q[z] = p[z]
  <2>1. \A z \in r : k[z] = e[z] /\ v[z] = w[z] /\ z \in H /\ z \in K
    BY <1>0, <1>3, <1>5
  <2> QED
    BY <1>0, <2>1
<1>9. g[j] = f[a] + f[b]
  <2> DEFINE d == top - (m + 1)
  <2>1. d \in Nat /\ top - m = d + 1
    BY <1>0, <1>2
  <2>2. f[a] = 2 ^ d /\ f[b] = 2 ^ d /\ g[j] = 2 ^ (top - m)
    BY <1>0, <1>2, <1>4, <1>5
  <2> HIDE DEF d
  <2>3. 2 ^ (d + 1) = 2 * 2 ^ d /\ 2 ^ d \in Nat
    BY <1>0, <2>1, PowerOK
  <2> QED
    BY <1>0, <2>1, <2>2, <2>3
<1>10. q[j] + w[a] + w[b] = p[a] + p[b]
  <2>1. q[j] = (w[a] + w[b]) * m /\ p[a] = w[a] * (m + 1) /\ p[b] = w[b] * (m + 1)
    BY <1>0, <1>2, <1>4, <1>5
  <2>2. w[a] \in Nat /\ w[b] \in Nat /\ m \in Nat
    BY <1>0, <1>2
  <2> QED
    BY ONLY <1>0, <2>1, <2>2
<1>11. /\ SumFunctionOnSet(f, H) = f[a] + f[b] + SumFunctionOnSet(f, r)
       /\ SumFunctionOnSet(f, r) \in Nat
  <2> HIDE DEF f
  <2> QED
    BY <1>0, <1>6, SumTwo
<1>12. /\ SumFunctionOnSet(p, H) = p[a] + p[b] + SumFunctionOnSet(p, r)
       /\ SumFunctionOnSet(p, r) \in Nat
  <2> HIDE DEF p
  <2> QED
    BY <1>0, <1>6, SumTwo
<1>13. /\ SumFunctionOnSet(g, K) = g[j] + SumFunctionOnSet(g, r)
       /\ SumFunctionOnSet(q, K) = q[j] + SumFunctionOnSet(q, r)
  <2> HIDE DEF g, q
  <2>1. SumFunctionOnSet(g, K) = g[j] + SumFunctionOnSet(g, K \ {j})
    BY ONLY <1>4, <1>7, SumTake
  <2>2. SumFunctionOnSet(q, K) = q[j] + SumFunctionOnSet(q, K \ {j})
    BY ONLY <1>4, <1>7, SumTake
  <2> QED
    BY <1>4, <2>1, <2>2
<1>14. SumFunctionOnSet(g, r) = SumFunctionOnSet(f, r) /\ SumFunctionOnSet(q, r) = SumFunctionOnSet(p, r)
  <2>1. \A z \in r : f[z] \in Nat /\ p[z] \in Nat
    BY <1>0, <1>3, <1>6
  <2> HIDE DEF f, g, p, q
  <2> QED
    BY <1>0, <1>3, <1>8, <2>1, SumSame
<1> HIDE DEF f, g, p, q
<1>15. f[a] \in Nat /\ f[b] \in Nat /\ p[a] \in Nat /\ p[b] \in Nat /\ q[j] \in Nat
  BY <1>0, <1>4, <1>6, <1>7
<1>16. SumFunctionOnSet(g, K) = SumFunctionOnSet(f, H)
  BY <1>0, <1>9, <1>11, <1>13, <1>14
<1>17. SumFunctionOnSet(q, K) + w[a] + w[b] = SumFunctionOnSet(p, H)
  <2>1. w[a] \in Nat /\ w[b] \in Nat
    BY <1>0
  <2> QED
    BY ONLY <1>0, <1>10, <1>12, <1>13, <1>14, <1>15, <2>1
<1>18. Fits(k, K, top)
  BY <1>0, <1>1, <1>5, <1>16 DEF Fits, Filled, f, g
<1>19. Weight(v, k, K) + w[a] + w[b] = Weight(w, e, H)
  BY <1>0, <1>17 DEF Weight, p, q
<1> QED
  BY <1>0, <1>18, <1>19

----------------------------------------------------------------------------
(* A list of nodes in order stays in order. *)
Sorted(h) == \A i, j \in 1 .. Len(h) : i < j => h[i].freq <= h[j].freq

LEMMA InsertWhere ==
  ASSUME NEW h \in Seq(Nodes), NEW n \in Nodes, Sorted(h)
  PROVE  \E k \in 1 .. Len(h) + 1 :
           /\ Inserted(h, n, k, Insert(h, n))
           /\ \A i \in 1 .. Len(h) : IF i < k THEN h[i].freq <= n.freq ELSE n.freq <= h[i].freq
<1>1. /\ n.freq \in Nat /\ Len(h) \in Nat
      /\ \A i \in 1 .. Len(h) : h[i] \in Nodes /\ h[i].freq \in Nat
  BY NodeOK
<1>2. CASE h = <<>>
  <2>1. PICK k \in 1 .. Len(h) + 1 : Inserted(h, n, k, Insert(h, n))
    BY InsertOK
  <2>2. Len(h) = 0
    BY <1>2
  <2> QED
    BY <2>1, <2>2
<1>3. CASE h # <<>> /\ Head(h).freq > n.freq
  <2>1. Insert(h, n) = <<n>> \o h
    BY <1>3 DEF Insert
  <2>2. Inserted(h, n, 1, <<n>> \o h)
    BY DEF Inserted
  <2>3. 1 \in 1 .. Len(h) /\ h[1] = Head(h)
    BY <1>3, EmptySeq
  <2>4. \A i \in 1 .. Len(h) : h[1].freq <= h[i].freq
    <3>1. \A i \in 1 .. Len(h) : i = 1 \/ 1 < i
      OBVIOUS
    <3> QED
      BY <1>1, <2>3, <3>1 DEF Sorted
  <2>5. \A i \in 1 .. Len(h) : ~(i < 1) /\ n.freq <= h[i].freq
    BY <1>1, <1>3, <2>3, <2>4
  <2>6. 1 \in 1 .. Len(h) + 1
    BY <1>1
  <2> QED
    BY <2>1, <2>2, <2>5, <2>6
<1>4. CASE h # <<>> /\ ~(Head(h).freq > n.freq)
  <2> DEFINE K == {j \in 1 .. Len(h) : j = Len(h) \/ h[j + 1].freq >= n.freq}
             k == Min(K)
             c == k + 1
             m == Len(h)
  <2>1. Insert(h, n) = InsertAt(h, c, n)
    BY <1>4 DEF Insert
  <2>2. k \in K /\ \A j \in K : k <= j
    <3>1. Len(h) \in K
      BY <1>4, EmptySeq
    <3>2. K \subseteq Nat /\ K # {}
      BY <3>1
    <3> HIDE DEF K
    <3> QED
      BY <3>2, MinOK
  <2>3. Insert(h, n) = SubSeq(h, 1, c - 1) \o <<n>> \o SubSeq(h, c, Len(h))
    BY <2>1 DEF InsertAt
  <2>4. k \in 1 .. m /\ (k = m \/ h[k + 1].freq >= n.freq)
    BY <2>2
  <2>5. \A j \in 1 .. m : j < k => j # m /\ ~(h[j + 1].freq >= n.freq)
    BY <2>2, <2>4
  <2> HIDE DEF K, k
  <2>6. c \in 1 .. Len(h) + 1
    BY <2>4
  <2>7. Inserted(h, n, c, Insert(h, n))
    <3> HIDE DEF c
    <3> QED
      BY <2>3, <2>6, PutIn
  <2>8. h[1] = Head(h) /\ h[1].freq <= n.freq
    <3>1. 1 \in 1 .. m /\ h[1] = Head(h)
      BY <1>4, EmptySeq
    <3> QED
      BY <1>1, <1>4, <3>1
  <2>9. ASSUME NEW i \in 1 .. m, i < c PROVE h[i].freq <= n.freq
    <3>1. CASE i = 1
      BY <2>8, <3>1
    <3>2. CASE i # 1
      <4> DEFINE j == i - 1
      <4>1. j \in 1 .. m /\ j < k /\ j + 1 = i
        BY <2>4, <2>9, <3>2
      <4>2. ~(h[i].freq >= n.freq)
        BY <2>5, <4>1
      <4> QED
        BY <1>1, <4>2
    <3> QED
      BY <3>1, <3>2
  <2>10. ASSUME NEW i \in 1 .. m, ~(i < c) PROVE n.freq <= h[i].freq
    <3>1. k # m /\ k + 1 \in 1 .. m /\ (i = k + 1 \/ k + 1 < i)
      BY <1>1, <2>4, <2>10
    <3>2. n.freq <= h[k + 1].freq
      BY <1>1, <2>4, <3>1
    <3>3. h[k + 1].freq <= h[i].freq
      BY <1>1, <3>1 DEF Sorted
    <3>4. h[k + 1].freq \in Nat /\ h[i].freq \in Nat
      BY <1>1, <3>1
    <3> QED
      BY <1>1, <3>2, <3>3, <3>4
  <2> HIDE DEF c
  <2> QED
    BY <2>6, <2>7, <2>9, <2>10
<1> QED
  BY <1>2, <1>3, <1>4

ItemsOf(h) == {h[i] : i \in 1 .. Len(h)}

LEMMA InsertSorted ==
  ASSUME NEW h \in Seq(Nodes), NEW n \in Nodes, Sorted(h)
  PROVE  /\ Insert(h, n) \in Seq(Nodes) /\ Sorted(Insert(h, n))
         /\ ItemsOf(Insert(h, n)) = ItemsOf(h) \cup {n}
<1> DEFINE g == Insert(h, n)
           m == Len(h)
<1>1. g \in Seq(Nodes)
  BY InsertOK
<1>2. PICK k \in 1 .. m + 1 :
        /\ Inserted(h, n, k, g)
        /\ \A i \in 1 .. m : IF i < k THEN h[i].freq <= n.freq ELSE n.freq <= h[i].freq
  BY InsertWhere
<1>3. /\ n.freq \in Nat /\ m \in Nat
      /\ \A i \in 1 .. m : h[i] \in Nodes /\ h[i].freq \in Nat
  BY NodeOK
<1> HIDE DEF g
<1>4. /\ Len(g) = m + 1 /\ k \in Nat
      /\ \A i \in 1 .. m + 1 : g[i] = IF i < k THEN h[i] ELSE IF i = k THEN n ELSE h[i - 1]
  BY <1>2 DEF Inserted
<1>5. \A i, j \in 1 .. m : i < j => h[i].freq <= h[j].freq
  BY DEF Sorted
<1> HIDE DEF m
<1>6. ASSUME NEW i \in 1 .. m + 1, NEW j \in 1 .. m + 1, i < j PROVE g[i].freq <= g[j].freq
  <2>1. CASE i < k /\ j < k
    <3>1. i \in 1 .. m /\ j \in 1 .. m
      BY <1>3, <1>4, <2>1
    <3> QED
      BY <1>4, <1>5, <1>6, <2>1, <3>1
  <2>2. CASE i < k /\ j = k
    <3>1. i \in 1 .. m
      BY <1>3, <1>4, <2>2
    <3> QED
      BY <1>2, <1>4, <2>2, <3>1
  <2>3. CASE i < k /\ j > k
    <3>1. i \in 1 .. m /\ j - 1 \in 1 .. m /\ ~(j - 1 < k) /\ ~(j < k) /\ j # k
      BY <1>3, <1>4, <2>3
    <3>2. h[i].freq <= n.freq /\ n.freq <= h[j - 1].freq
      BY <1>2, <2>3, <3>1
    <3>3. g[i] = h[i] /\ g[j] = h[j - 1]
      BY <1>4, <2>3, <3>1
    <3>4. h[i].freq \in Nat /\ h[j - 1].freq \in Nat
      BY <1>3, <3>1
    <3> QED
      BY <1>3, <3>2, <3>3, <3>4
  <2>4. CASE i = k
    <3>1. j - 1 \in 1 .. m /\ ~(j - 1 < k) /\ ~(j < k) /\ j # k /\ ~(i < k)
      BY <1>3, <1>4, <1>6, <2>4
    <3> QED
      BY <1>2, <1>4, <2>4, <3>1
  <2>5. CASE i > k
    <3>1. i - 1 \in 1 .. m /\ j - 1 \in 1 .. m /\ i - 1 < j - 1
      BY <1>3, <1>4, <1>6, <2>5
    <3>2. ~(i < k) /\ i # k /\ ~(j < k) /\ j # k
      BY <1>3, <1>4, <1>6, <2>5
    <3>3. g[i] = h[i - 1] /\ g[j] = h[j - 1]
      BY <1>4, <3>2
    <3> QED
      BY <1>5, <3>1, <3>3
  <2> QED
    BY <1>4, <2>1, <2>2, <2>3, <2>4, <2>5
<1>7. Sorted(g)
  BY <1>4, <1>6 DEF Sorted
<1>8. ItemsOf(g) = ItemsOf(h) \cup {n}
  <2>1. ASSUME NEW x \in ItemsOf(g) PROVE x \in ItemsOf(h) \cup {n}
    <3>1. PICK i \in 1 .. m + 1 : x = g[i]
      BY <1>4 DEF ItemsOf
    <3>2. i = k \/ (i < k /\ i \in 1 .. m) \/ (~(i < k) /\ i # k /\ i - 1 \in 1 .. m)
      BY <1>3, <1>4
    <3> QED
      BY <1>4, <3>1, <3>2 DEF ItemsOf, m
  <2>2. ASSUME NEW x \in ItemsOf(h) PROVE x \in ItemsOf(g)
    <3>1. PICK i \in 1 .. m : x = h[i]
      BY DEF ItemsOf, m
    <3>2. CASE i < k
      <4>1. i \in 1 .. m + 1 /\ g[i] = h[i]
        BY <1>3, <1>4, <3>2
      <4> QED
        BY <1>4, <3>1, <4>1 DEF ItemsOf
    <3>3. CASE ~(i < k)
      <4>1. i + 1 \in 1 .. m + 1 /\ ~(i + 1 < k) /\ i + 1 # k /\ (i + 1) - 1 = i
        BY <1>3, <1>4, <3>3
      <4>2. g[i + 1] = h[i]
        BY <1>4, <4>1
      <4> QED
        BY <1>4, <3>1, <4>1, <4>2 DEF ItemsOf
    <3> QED
      BY <3>2, <3>3
  <2>3. n \in ItemsOf(g)
    <3>1. k \in 1 .. m + 1 /\ g[k] = n
      BY <1>2, <1>4 DEF m
    <3> QED
      BY <1>4, <3>1 DEF ItemsOf
  <2> QED
    BY <2>1, <2>2, <2>3
<1> QED
  BY <1>1, <1>7, <1>8 DEF g

----------------------------------------------------------------------------
(* What the symbols of a node cost below it. *)
Times(s, D) == SumFunctionOnSet([b \in D |-> Count(s, b)], D)
Inside(s, n) ==
  SumFunctionOnSet([b \in DOMAIN n.depth |-> Count(s, b) * n.depth[b]], DOMAIN n.depth)
Fair(s, n) == n \in Nodes /\ n.freq = Times(s, DOMAIN n.depth)

LEMMA CountIn ==
  ASSUME NEW s \in Seq(Bytes), NEW b
  PROVE  Count(s, b) \in Nat
<1>1. {i \in 1 .. Len(s) : s[i] = b} \in SUBSET (1 .. Len(s)) /\ Len(s) \in Int /\ 1 \in Int
  OBVIOUS
<1>2. IsFiniteSet(1 .. Len(s))
  BY <1>1, FS_Interval
<1> QED
  BY <1>1, <1>2, FS_Subset, FS_CardinalityType DEF Count

LEMMA DepthsOK ==
  ASSUME NEW n \in Nodes
  PROVE  /\ DOMAIN n.depth \in SUBSET Bytes /\ IsFiniteSet(DOMAIN n.depth) /\ DOMAIN n.depth # {}
         /\ \A b \in DOMAIN n.depth : n.depth[b] \in Nat
<1>1. Tree(n.depth)
  BY NodeOK
<1>2. DOMAIN n.depth \in SUBSET Bytes /\ DOMAIN n.depth # {} /\ n.depth \in [DOMAIN n.depth -> Nat]
  BY <1>1 DEF Tree
<1>3. IsFiniteSet(DOMAIN n.depth)
  BY <1>2, BytesFinite, FS_Subset
<1> QED
  BY <1>2, <1>3

LEMMA InsideIn ==
  ASSUME NEW s \in Seq(Bytes), NEW n \in Nodes
  PROVE  Inside(s, n) \in Nat
<1> DEFINE D == DOMAIN n.depth
           f == [b \in D |-> Count(s, b) * n.depth[b]]
<1>1. IsFiniteSet(D) /\ \A b \in D : n.depth[b] \in Nat
  BY DepthsOK
<1>2. \A b \in D : Count(s, b) \in Nat
  BY CountIn
<1>3. \A b \in D : f[b] \in Nat
  BY <1>1, <1>2
<1> HIDE DEF D, f
<1>4. SumFunctionOnSet(f, D) \in Nat
  BY <1>1, <1>3, SumTake
<1> QED
  BY <1>4 DEF Inside, f, D

(* Every symbol of a joined node is one level deeper. *)
LEMMA JoinedCost ==
  ASSUME NEW s \in Seq(Bytes), NEW l, NEW r, Fair(s, l), Fair(s, r),
         DOMAIN l.depth \cap DOMAIN r.depth = {}
  PROVE  /\ Fair(s, Joined(l, r))
         /\ Inside(s, Joined(l, r)) = Inside(s, l) + Inside(s, r) + l.freq + r.freq
<1> DEFINE A == DOMAIN l.depth
           B == DOMAIN r.depth
           D == A \cup B
           j == Joined(l, r)
           c == [b \in D |-> Count(s, b)]
           g == [b \in D |-> Count(s, b) * IF b \in A THEN l.depth[b] ELSE r.depth[b]]
           h == [b \in D |-> Count(s, b) * j.depth[b]]
<1>1. l \in Nodes /\ r \in Nodes /\ l.freq = Times(s, A) /\ r.freq = Times(s, B)
  BY DEF Fair
<1>2. j \in Nodes /\ DOMAIN j.depth = D
  BY <1>1, JoinedNode
<1>3. j.freq = l.freq + r.freq /\ \A b \in D : j.depth[b] = 1 + IF b \in A THEN l.depth[b] ELSE r.depth[b]
  BY DEF Joined
<1>4. /\ IsFiniteSet(A) /\ IsFiniteSet(B) /\ IsFiniteSet(D)
      /\ (\A b \in A : l.depth[b] \in Nat) /\ \A b \in B : r.depth[b] \in Nat
  BY <1>1, DepthsOK, FS_Union
<1>5. \A b \in D : /\ Count(s, b) \in Nat
                   /\ (IF b \in A THEN l.depth[b] ELSE r.depth[b]) \in Nat
  BY <1>4, CountIn
<1>6. \A b \in D : c[b] \in Nat /\ g[b] \in Nat /\ h[b] = g[b] + c[b]
  <2> SUFFICES ASSUME NEW b \in D PROVE c[b] \in Nat /\ g[b] \in Nat /\ h[b] = g[b] + c[b]
    OBVIOUS
  <2> DEFINE x == IF b \in A THEN l.depth[b] ELSE r.depth[b]
             y == Count(s, b)
  <2>1. x \in Nat /\ y \in Nat
    BY <1>5
  <2>2. c[b] = y /\ g[b] = y * x /\ h[b] = y * (1 + x)
    BY <1>3
  <2> HIDE DEF x, y, c, g, h
  <2> QED
    BY <2>1, <2>2
<1>7. SumFunctionOnSet(h, D) = SumFunctionOnSet(g, D) + SumFunctionOnSet(c, D)
  <2> HIDE DEF c, g, h, D
  <2> QED
    BY <1>4, <1>6, SumPlus
<1>8. /\ SumFunctionOnSet(c, A) \in Nat /\ SumFunctionOnSet(c, B) \in Nat
      /\ SumFunctionOnSet(c, D) = SumFunctionOnSet(c, A) + SumFunctionOnSet(c, B)
  <2> HIDE DEF c, A, B
  <2> QED
    BY <1>4, <1>6, SumApart DEF A, B
<1>9. /\ SumFunctionOnSet(g, A) \in Nat /\ SumFunctionOnSet(g, B) \in Nat
      /\ SumFunctionOnSet(g, D) = SumFunctionOnSet(g, A) + SumFunctionOnSet(g, B)
  <2> HIDE DEF g, A, B
  <2> QED
    BY <1>4, <1>6, SumApart DEF A, B
<1>10. SumFunctionOnSet(c, A) = l.freq /\ SumFunctionOnSet(c, B) = r.freq
  <2> DEFINE p == [b \in A |-> Count(s, b)]
             q == [b \in B |-> Count(s, b)]
  <2>1. (\A b \in A : c[b] = p[b]) /\ \A b \in B : c[b] = q[b]
    OBVIOUS
  <2>2. l.freq = SumFunctionOnSet(p, A) /\ r.freq = SumFunctionOnSet(q, B)
    BY <1>1 DEF Times
  <2> HIDE DEF p, q, c, A, B
  <2>3. SumFunctionOnSet(c, A) = SumFunctionOnSet(p, A)
    BY <1>4, <2>1, SumSame
  <2>4. SumFunctionOnSet(c, B) = SumFunctionOnSet(q, B)
    BY <1>4, <2>1, SumSame
  <2> QED
    BY <2>2, <2>3, <2>4
<1>11. SumFunctionOnSet(g, A) = Inside(s, l) /\ SumFunctionOnSet(g, B) = Inside(s, r)
  <2> DEFINE p == [b \in A |-> Count(s, b) * l.depth[b]]
             q == [b \in B |-> Count(s, b) * r.depth[b]]
  <2>1. (\A b \in A : g[b] = p[b]) /\ \A b \in B : g[b] = q[b]
    <3>1. \A b \in B : b \notin A
      OBVIOUS
    <3> QED
      BY <3>1
  <2>2. Inside(s, l) = SumFunctionOnSet(p, A) /\ Inside(s, r) = SumFunctionOnSet(q, B)
    BY DEF Inside
  <2> HIDE DEF p, q, g, A, B
  <2>3. SumFunctionOnSet(g, A) = SumFunctionOnSet(p, A)
    BY <1>4, <2>1, SumSame
  <2>4. SumFunctionOnSet(g, B) = SumFunctionOnSet(q, B)
    BY <1>4, <2>1, SumSame
  <2> QED
    BY <2>2, <2>3, <2>4
<1>12. j.freq = Times(s, DOMAIN j.depth)
  <2>1. Times(s, D) = SumFunctionOnSet(c, D)
    BY DEF Times
  <2> HIDE DEF D, j, c
  <2> QED
    BY <1>2, <1>3, <1>8, <1>10, <2>1
<1>13. Inside(s, j) = SumFunctionOnSet(h, D)
  <2>1. Inside(s, j) = SumFunctionOnSet([b \in DOMAIN j.depth |-> Count(s, b) * j.depth[b]], DOMAIN j.depth)
    BY DEF Inside
  <2> HIDE DEF j, D
  <2> QED
    BY <1>2, <2>1
<1> HIDE DEF j, D, c, g, h
<1>14. Inside(s, j) = Inside(s, l) + Inside(s, r) + l.freq + r.freq
  BY ONLY <1>7, <1>8, <1>9, <1>10, <1>11, <1>13
<1>15. Fair(s, j)
  BY <1>2, <1>12 DEF Fair
<1> QED
  BY <1>14, <1>15 DEF j

----------------------------------------------------------------------------
(* A round of the joining: what the codes cost that go down to the nodes,  *)
(* and what the symbols cost below them.                                   *)
Freqs(H) == [n \in H |-> n.freq]
Insides(s, H) == SumFunctionOnSet([n \in H |-> Inside(s, n)], H)
Bill(s, H, l) == Weight(Freqs(H), l, H) + Insides(s, H)

LEMMA BillIn ==
  ASSUME NEW s \in Seq(Bytes), NEW H \in SUBSET Nodes, IsFiniteSet(H), NEW top \in Nat, NEW l, Fits(l, H, top)
  PROVE  /\ Freqs(H) \in [H -> Nat] /\ Weight(Freqs(H), l, H) \in Nat
         /\ Insides(s, H) \in Nat /\ Bill(s, H, l) \in Nat
<1>1. \A n \in H : n.freq \in Nat /\ Inside(s, n) \in Nat
  BY NodeOK, InsideIn
<1>2. Freqs(H) \in [H -> Nat]
  BY <1>1 DEF Freqs
<1>3. Weight(Freqs(H), l, H) \in Nat
  BY <1>2, WeightIn DEF Fits
<1>4. Insides(s, H) \in Nat
  <2> DEFINE f == [n \in H |-> Inside(s, n)]
  <2>1. \A n \in H : f[n] \in Nat
    BY <1>1
  <2> HIDE DEF f
  <2>2. SumFunctionOnSet(f, H) \in Nat
    BY <2>1, SumTake
  <2> QED
    BY <2>2 DEF Insides, f
<1> QED
  BY <1>2, <1>3, <1>4 DEF Bill

LEMMA JoinedBill ==
  ASSUME NEW s \in Seq(Bytes), NEW H, IsFiniteSet(H), \A n \in H : Fair(s, n),
         \A x, y \in H : x # y => DOMAIN x.depth \cap DOMAIN y.depth = {},
         NEW a \in H, NEW b \in H, a # b, a.freq <= b.freq,
         \A z \in H : z # a /\ z # b => b.freq <= z.freq,
         NEW top \in Nat, NEW l, Fits(l, H, top),
         NEW K, K = (H \ {a, b}) \cup {Joined(a, b)}
  PROVE  IsFiniteSet(K) /\ \E k : Fits(k, K, top) /\ Bill(s, K, k) <= Bill(s, H, l)
<1> DEFINE r == H \ {a, b}
           j == Joined(a, b)
           w == Freqs(H)
           v == Freqs(K)
<1>1. H \in SUBSET Nodes
  BY DEF Fair
<1>2. /\ j \in Nodes /\ Fair(s, j) /\ j.freq = a.freq + b.freq
      /\ Inside(s, j) = Inside(s, a) + Inside(s, b) + a.freq + b.freq
      /\ DOMAIN j.depth = DOMAIN a.depth \cup DOMAIN b.depth
  <2>1. DOMAIN a.depth \cap DOMAIN b.depth = {} /\ Fair(s, a) /\ Fair(s, b)
    OBVIOUS
  <2>2. j.freq = a.freq + b.freq
    BY DEF Joined
  <2> HIDE DEF j
  <2> QED
    BY <1>1, <2>1, <2>2, JoinedCost, JoinedNode DEF j
<1> HIDE DEF j
<1>3. j \notin r
  <2> SUFFICES ASSUME j \in r PROVE FALSE
    OBVIOUS
  <2>1. DOMAIN j.depth \cap DOMAIN a.depth = {}
    OBVIOUS
  <2>2. DOMAIN a.depth # {}
    BY <1>1, DepthsOK
  <2> QED
    BY <1>2, <2>1, <2>2
<1>4. K = r \cup {j} /\ K \in SUBSET Nodes /\ r \in SUBSET H
  BY <1>1, <1>2 DEF j
<1>5. IsFiniteSet(r) /\ IsFiniteSet(K) /\ j \in K /\ K \ {j} = r
  <2>1. IsFiniteSet(r)
    BY FS_Subset
  <2> HIDE DEF r
  <2>2. IsFiniteSet(r \cup {j})
    BY <2>1, FS_AddElement
  <2> QED
    BY <1>3, <1>4, <2>1, <2>2
<1>6. /\ w \in [H -> Nat] /\ v \in [K -> Nat]
      /\ w[a] = a.freq /\ w[b] = b.freq /\ v[j] = a.freq + b.freq
      /\ \A z \in H : w[z] = z.freq
      /\ \A z \in r : v[z] = w[z]
  <2>1. (\A n \in H : n.freq \in Nat) /\ \A n \in K : n.freq \in Nat
    BY <1>1, <1>4, NodeOK
  <2> QED
    BY <1>2, <1>4, <1>5, <2>1 DEF Freqs
<1>7. PICK e : /\ Fits(e, H, top) /\ Weight(w, e, H) <= Weight(w, l, H)
               /\ e[a] = e[b] /\ e[b] > 0
  <2>1. w[a] <= w[b] /\ \A z \in H : z # a /\ z # b => w[b] <= w[z]
    BY <1>6
  <2> HIDE DEF w, v, r
  <2> QED
    BY <1>6, <2>1, TwoLast
<1>8. PICK k : Fits(k, K, top) /\ Weight(v, k, K) + w[a] + w[b] = Weight(w, e, H)
  <2>1. Merged(H, w, a, b, j, K, v)
    BY <1>3, <1>4, <1>6 DEF Merged
  <2> HIDE DEF w, v, r
  <2> QED
    BY <1>7, <2>1, JoinedFits
<1>9. Insides(s, K) = Insides(s, H) + a.freq + b.freq
  <2> DEFINE f == [n \in H |-> Inside(s, n)]
             g == [n \in K |-> Inside(s, n)]
  <2>1. (\A n \in H : f[n] \in Nat) /\ \A n \in K : g[n] \in Nat
    BY <1>1, <1>4, InsideIn
  <2>2. g[j] = f[a] + f[b] + a.freq + b.freq /\ \A n \in r : g[n] = f[n]
    BY <1>2, <1>4, <1>5
  <2>3. a.freq \in Nat /\ b.freq \in Nat
    BY <1>1, NodeOK
  <2>4. f[a] \in Nat /\ f[b] \in Nat
    BY <2>1
  <2>5. Insides(s, H) = SumFunctionOnSet(f, H) /\ Insides(s, K) = SumFunctionOnSet(g, K)
    BY DEF Insides
  <2> HIDE DEF f, g
  <2>6. /\ SumFunctionOnSet(f, r) \in Nat
        /\ SumFunctionOnSet(f, H) = f[a] + f[b] + SumFunctionOnSet(f, r)
    BY <2>1, SumTwo
  <2> HIDE DEF r
  <2>7. SumFunctionOnSet(g, K) = g[j] + SumFunctionOnSet(g, r)
    <3>1. SumFunctionOnSet(g, K) = g[j] + SumFunctionOnSet(g, K \ {j})
      BY ONLY <1>5, <2>1, SumTake
    <3> QED
      BY <1>5, <3>1
  <2>8. SumFunctionOnSet(g, r) = SumFunctionOnSet(f, r)
    BY <1>5, <2>2, SumSame
  <2> QED
    BY ONLY <2>2, <2>3, <2>4, <2>5, <2>6, <2>7, <2>8
<1>10. /\ Weight(w, e, H) \in Nat /\ Weight(w, l, H) \in Nat /\ Insides(s, H) \in Nat
  BY <1>1, <1>7, BillIn
<1>11. Weight(v, k, K) \in Nat /\ Insides(s, K) \in Nat
  BY <1>4, <1>5, <1>8, BillIn
<1>12. a.freq \in Nat /\ b.freq \in Nat
  BY <1>1, NodeOK
<1>13. Bill(s, K, k) <= Bill(s, H, l)
  <2>1. Weight(v, k, K) + a.freq + b.freq = Weight(w, e, H)
    BY <1>6, <1>8
  <2>2. Weight(v, k, K) + Insides(s, K) <= Weight(w, l, H) + Insides(s, H)
    <3>1. Weight(w, e, H) <= Weight(w, l, H)
      BY <1>7
    <3> HIDE DEF w, v, r
    <3> QED
      BY ONLY <1>9, <1>10, <1>11, <1>12, <2>1, <3>1
  <2> QED
    BY <2>2 DEF Bill
<1> QED
  BY <1>5, <1>8, <1>13

----------------------------------------------------------------------------
(* The list that is joined. *)
Listed(s, h) == Forest(h) /\ Sorted(h) /\ \A x \in ItemsOf(h) : Fair(s, x)

LEMMA ItemsApart ==
  ASSUME NEW h, Forest(h)
  PROVE  /\ ItemsOf(h) \in SUBSET Nodes /\ IsFiniteSet(ItemsOf(h))
         /\ \A x, y \in ItemsOf(h) : x # y => DOMAIN x.depth \cap DOMAIN y.depth = {}
         /\ \A i, j \in 1 .. Len(h) : i # j => h[i] # h[j]
<1>1. /\ h \in Seq(Nodes) /\ Len(h) \in Nat
      /\ \A i \in 1 .. Len(h) : h[i] \in Nodes
      /\ \A i, j \in 1 .. Len(h) : i # j => DOMAIN h[i].depth \cap DOMAIN h[j].depth = {}
  BY ForestSymbols
<1>2. IsFiniteSet(ItemsOf(h))
  <2>1. IsFiniteSet(1 .. Len(h))
    BY <1>1, FS_Interval
  <2> QED
    BY <2>1, ImageFinite DEF ItemsOf
<1>3. \A x, y \in ItemsOf(h) : x # y => DOMAIN x.depth \cap DOMAIN y.depth = {}
  BY <1>1 DEF ItemsOf
<1>4. \A i, j \in 1 .. Len(h) : i # j => h[i] # h[j]
  <2>1. \A i \in 1 .. Len(h) : DOMAIN h[i].depth # {}
    BY <1>1, NodeOK
  <2> QED
    BY <1>1, <2>1
<1> QED
  BY <1>1, <1>2, <1>3, <1>4 DEF ItemsOf

LEMMA JoinStep ==
  ASSUME NEW s \in Seq(Bytes), NEW h, Listed(s, h), Len(h) >= 2,
         NEW top \in Nat, NEW l, Fits(l, ItemsOf(h), top)
  PROVE  /\ Listed(s, JoinFirstTwo(h))
         /\ \E k : /\ Fits(k, ItemsOf(JoinFirstTwo(h)), top)
                   /\ Bill(s, ItemsOf(JoinFirstTwo(h)), k) <= Bill(s, ItemsOf(h), l)
<1> DEFINE m == Len(h)
           H == ItemsOf(h)
           a == h[1]
           b == h[2]
           j == Joined(a, b)
           rest == SubSeq(h, 3, m)
           g == JoinFirstTwo(h)
           r == H \ {a, b}
           K == r \cup {j}
<1>1. /\ Forest(h) /\ h \in Seq(Nodes) /\ m \in Nat /\ m >= 2 /\ 1 \in 1 .. m /\ 2 \in 1 .. m
      /\ \A i \in 1 .. m : h[i] \in Nodes /\ h[i] \in H /\ Fair(s, h[i])
  BY ForestSymbols DEF Listed, ItemsOf
<1>2. /\ H \in SUBSET Nodes /\ IsFiniteSet(H)
      /\ \A x, y \in H : x # y => DOMAIN x.depth \cap DOMAIN y.depth = {}
      /\ \A i, k \in 1 .. m : i # k => h[i] # h[k]
  BY <1>1, ItemsApart
<1>3. \A i, k \in 1 .. m : i < k => h[i].freq <= h[k].freq
  BY DEF Listed, Sorted
<1>4. rest \in Seq(Nodes) /\ Len(rest) = m - 2 /\ \A i \in 1 .. m - 2 : rest[i] = h[i + 2]
  BY ONLY <1>1, FromThird DEF rest, m
<1>5. g = Insert(rest, j)
  BY DEF JoinFirstTwo
<1>6. \A x \in H : \E i \in 1 .. m : x = h[i]
  BY DEF ItemsOf
<1> HIDE DEF m, rest, H, g
<1>7. a \in H /\ b \in H /\ a # b /\ a.freq <= b.freq /\ Fair(s, a) /\ Fair(s, b)
  BY <1>1, <1>2, <1>3
<1>8. \A z \in H : z # a /\ z # b => b.freq <= z.freq
  <2> SUFFICES ASSUME NEW z \in H, z # a, z # b PROVE b.freq <= z.freq
    OBVIOUS
  <2>1. PICK i \in 1 .. m : z = h[i]
    BY <1>6
  <2>2. i # 1 /\ i # 2
    BY <2>1
  <2>3. 2 < i
    BY <1>1, <2>2
  <2> QED
    BY <1>1, <1>3, <2>1, <2>3
<1>9. ItemsOf(rest) = r
  <2>1. ASSUME NEW x \in ItemsOf(rest) PROVE x \in r
    <3>1. PICK i \in 1 .. m - 2 : x = rest[i]
      BY <1>4 DEF ItemsOf
    <3>2. i + 2 \in 1 .. m /\ i + 2 # 1 /\ i + 2 # 2 /\ x = h[i + 2]
      BY <1>1, <1>4, <3>1
    <3>3. x # a /\ x # b /\ x \in H
      BY <1>1, <1>2, <3>2
    <3> QED
      BY <3>3
  <2>2. ASSUME NEW x \in r PROVE x \in ItemsOf(rest)
    <3>1. PICK i \in 1 .. m : x = h[i]
      BY <1>6
    <3>2. i # 1 /\ i # 2
      BY <3>1
    <3>3. i - 2 \in 1 .. m - 2 /\ (i - 2) + 2 = i
      BY <1>1, <3>2
    <3>4. x = rest[i - 2]
      BY <1>4, <3>1, <3>3
    <3> QED
      BY <1>4, <3>3, <3>4 DEF ItemsOf
  <2> QED
    BY <2>1, <2>2
<1>10. Sorted(rest)
  <2> SUFFICES ASSUME NEW i \in 1 .. m - 2, NEW k \in 1 .. m - 2, i < k
               PROVE  rest[i].freq <= rest[k].freq
    BY <1>4 DEF Sorted
  <2>1. i + 2 \in 1 .. m /\ k + 2 \in 1 .. m /\ i + 2 < k + 2
    BY <1>1
  <2>2. rest[i] = h[i + 2] /\ rest[k] = h[k + 2]
    BY <1>4
  <2> QED
    BY <1>3, <2>1, <2>2
<1>11. j \in Nodes /\ Fair(s, j)
  <2>1. DOMAIN a.depth \cap DOMAIN b.depth = {}
    BY <1>2, <1>7
  <2> HIDE DEF a, b
  <2> QED
    BY <1>7, <2>1, JoinedCost DEF Fair
<1>12. Sorted(g) /\ ItemsOf(g) = K
  <2> HIDE DEF j, r
  <2> QED
    BY <1>4, <1>5, <1>9, <1>10, <1>11, InsertSorted
<1>13. Forest(g)
  BY <1>1, JoinTwo DEF g, m
<1>14. \A x \in K : Fair(s, x)
  <2>1. \A x \in H : Fair(s, x)
    BY <1>1, <1>6
  <2> QED
    BY <1>11, <2>1
<1>15. Listed(s, g)
  BY <1>12, <1>13, <1>14 DEF Listed
<1>16. \E k : Fits(k, K, top) /\ Bill(s, K, k) <= Bill(s, H, l)
  <2>1. \A x \in H : Fair(s, x)
    BY <1>1, <1>6
  <2>2. Fits(l, H, top)
    BY DEF H
  <2> HIDE DEF a, b
  <2> QED
    BY <1>2, <1>7, <1>8, <2>1, <2>2, JoinedBill
<1> QED
  BY <1>12, <1>15, <1>16 DEF g, H

----------------------------------------------------------------------------
(* The list it starts with. *)
LEMMA LeafFair ==
  ASSUME NEW s \in Seq(Bytes), NEW b \in Bytes
  PROVE  /\ Fair(s, Leaf(s, b)) /\ Leaf(s, b) \in Nodes /\ Inside(s, Leaf(s, b)) = 0
         /\ Leaf(s, b).freq = Count(s, b) /\ DOMAIN Leaf(s, b).depth = {b}
<1> DEFINE n == Leaf(s, b)
           f == [x \in {b} |-> Count(s, x)]
           g == [x \in {b} |-> Count(s, x) * n.depth[x]]
<1>1. n \in Nodes /\ DOMAIN n.depth = {b}
  BY LeafNode
<1>2. n.freq = Count(s, b) /\ n.depth[b] = 0 /\ Count(s, b) \in Nat
  BY CountIn DEF Leaf
<1>3. Times(s, {b}) = SumFunctionOnSet(f, {b})
  BY DEF Times
<1>4. Inside(s, n) = SumFunctionOnSet(g, {b})
  <2>1. Inside(s, n) = SumFunctionOnSet([x \in DOMAIN n.depth |-> Count(s, x) * n.depth[x]], DOMAIN n.depth)
    BY DEF Inside
  <2> HIDE DEF n
  <2> QED
    BY <1>1, <2>1
<1> HIDE DEF n
<1>5. f[b] = Count(s, b) /\ g[b] = 0 /\ \A x \in {b} : f[x] \in Nat /\ g[x] \in Nat
  BY <1>2
<1> HIDE DEF f, g
<1>6. SumFunctionOnSet(f, {b}) = f[b] /\ SumFunctionOnSet(g, {b}) = g[b]
  BY <1>5, SumOne
<1>7. Times(s, {b}) = Count(s, b) /\ Inside(s, n) = 0
  BY <1>2, <1>3, <1>4, <1>5, <1>6
<1>8. Fair(s, n)
  BY <1>1, <1>2, <1>7 DEF Fair
<1> QED
  BY <1>1, <1>2, <1>7, <1>8 DEF n

LEMMA LeavesListed ==
  ASSUME NEW s \in Seq(Bytes)
  PROVE  Listed(s, LeafList(s)) /\ ItemsOf(LeafList(s)) = {Leaf(s, b) : b \in Used(s)}
<1> DEFINE n == Alphabet
           UpTo(i) == {Leaf(s, b) : b \in {x \in Used(s) : x < i}}
<1>1. n \in Nat /\ \A i \in 1 .. n : i - 1 \in Bytes
  BY AlphabetNat DEF Bytes
<1>2. PICK g : /\ g[0] = <<>> /\ LeafList(s) = g[n]
               /\ \A i \in 1 .. n : g[i] = AddLeaf(s, g[i - 1], i - 1)
  BY LeavesAre
<1>3. \A b \in Used(s) : b \in Nat /\ b < n
  BY AlphabetNat DEF Used, Bytes
<1> HIDE DEF n
<1> DEFINE P == {i \in 0 .. n : g[i] \in Seq(Nodes) /\ Sorted(g[i]) /\ ItemsOf(g[i]) = UpTo(i)}
<1>4. 0 \in P
  <2>1. <<>> \in Seq(Nodes) /\ Sorted(<<>>) /\ ItemsOf(<<>>) = {}
    BY DEF Sorted, ItemsOf
  <2>2. UpTo(0) = {} /\ 0 \in 0 .. n
    BY <1>1, <1>3
  <2> HIDE DEF UpTo
  <2>3. g[0] \in Seq(Nodes) /\ Sorted(g[0]) /\ ItemsOf(g[0]) = UpTo(0)
    BY <1>2, <2>1, <2>2
  <2> QED
    BY <2>2, <2>3
<1>5. ASSUME NEW i \in 1 .. n, i - 1 \in P PROVE i \in P
  <2> DEFINE b == i - 1
             h == g[b]
  <2>1. b \in Bytes /\ g[i] = AddLeaf(s, h, b) /\ i \in 0 .. n /\ i \in Nat /\ b \in Nat /\ i = b + 1
    BY <1>1, <1>2
  <2>2. h \in Seq(Nodes) /\ Sorted(h) /\ ItemsOf(h) = UpTo(b)
    BY <1>5
  <2> HIDE DEF b, h
  <2>3. \A x \in Used(s) : x < i <=> x < b \/ x = b
    BY <1>3, <2>1
  <2>4. CASE Count(s, b) = 0
    <3>1. g[i] = h
      BY <2>1, <2>4 DEF AddLeaf
    <3>2. b \notin Used(s)
      BY <2>4 DEF Used
    <3>3. UpTo(i) = UpTo(b)
      BY <2>3, <3>2
    <3> HIDE DEF UpTo
    <3> QED
      BY <2>1, <2>2, <3>1, <3>3
  <2>5. CASE Count(s, b) # 0
    <3>1. g[i] = Insert(h, Leaf(s, b))
      BY <2>1, <2>5 DEF AddLeaf
    <3>2. b \in Used(s)
      BY <2>1, <2>5 DEF Used
    <3>3. UpTo(i) = UpTo(b) \cup {Leaf(s, b)}
      BY <2>3, <3>2
    <3>4. Leaf(s, b) \in Nodes
      BY <2>1, LeafNode
    <3> HIDE DEF UpTo
    <3>5. /\ Insert(h, Leaf(s, b)) \in Seq(Nodes) /\ Sorted(Insert(h, Leaf(s, b)))
          /\ ItemsOf(Insert(h, Leaf(s, b))) = ItemsOf(h) \cup {Leaf(s, b)}
      BY <2>2, <3>4, InsertSorted
    <3> QED
      BY <2>1, <2>2, <3>1, <3>3, <3>5
  <2> QED
    BY <2>4, <2>5
<1>6. \A i \in 0 .. n : i \in P
  <2> HIDE DEF P
  <2> QED
    BY <1>1, <1>4, <1>5, Climb
<1>7. Sorted(g[n]) /\ ItemsOf(g[n]) = UpTo(n)
  <2>1. n \in 0 .. n
    BY <1>1
  <2> QED
    BY <1>6, <2>1
<1>8. UpTo(n) = {Leaf(s, b) : b \in Used(s)}
  BY <1>3
<1>9. \A x \in {Leaf(s, b) : b \in Used(s)} : Fair(s, x)
  <2>1. \A b \in Used(s) : b \in Bytes
    BY DEF Used
  <2> QED
    BY <2>1, LeafFair
<1> HIDE DEF UpTo
<1> QED
  BY <1>2, <1>7, <1>8, <1>9, LeavesOK DEF Listed

(* What is left in the end costs no more than any codes for the list. *)
LEMMA JoinedLast ==
  ASSUME NEW s \in Seq(Bytes), NEW l, Listed(s, l), Len(l) >= 1,
         NEW top \in Nat, NEW e, Fits(e, ItemsOf(l), top)
  PROVE  AllJoined(l) \in Nodes /\ Inside(s, AllJoined(l)) <= Bill(s, ItemsOf(l), e)
<1> DEFINE n == Len(l) - 1
           c == Bill(s, ItemsOf(l), e)
<1>1. n \in Nat /\ Forest(l) /\ Len(l) = n + 1
  BY ForestSymbols DEF Listed
<1>2. PICK g : /\ g[0] = l /\ AllJoined(l) = g[n][1]
               /\ \A k \in 1 .. n : g[k] = JoinFirstTwo(g[k - 1])
  BY <1>1, JoinsAre
<1>3. c \in Nat
  BY <1>1, ItemsApart, BillIn
<1> HIDE DEF n
<1> DEFINE P == {k \in 0 .. n : /\ Listed(s, g[k]) /\ Len(g[k]) = n + 1 - k
                                /\ \E x : Fits(x, ItemsOf(g[k]), top) /\ Bill(s, ItemsOf(g[k]), x) <= c}
<1>4. 0 \in P
  <2>1. c <= c /\ 0 \in 0 .. n /\ n + 1 - 0 = n + 1
    BY <1>1, <1>3
  <2> QED
    BY <1>1, <1>2, <2>1
<1> HIDE DEF c
<1>5. ASSUME NEW k \in 1 .. n, k - 1 \in P PROVE k \in P
  <2> DEFINE h == g[k - 1]
             f == JoinFirstTwo(h)
             H == ItemsOf(h)
             K == ItemsOf(f)
  <2>1. Listed(s, h) /\ Len(h) = n + 1 - (k - 1)
    BY <1>5
  <2>2. PICK x : Fits(x, H, top) /\ Bill(s, H, x) <= c
    BY <1>5
  <2>3. Len(h) >= 2 /\ Len(h) - 1 = n + 1 - k /\ k \in 0 .. n /\ g[k] = f
    BY <1>1, <1>2, <2>1
  <2> HIDE DEF h, f
  <2>4. Listed(s, f) /\ \E y : Fits(y, K, top) /\ Bill(s, K, y) <= Bill(s, H, x)
    BY <2>1, <2>2, <2>3, JoinStep DEF f
  <2>5. PICK y : Fits(y, K, top) /\ Bill(s, K, y) <= Bill(s, H, x)
    BY <2>4
  <2>6. Len(f) = n + 1 - k
    BY <2>1, <2>3, JoinTwo DEF Listed, f
  <2>7. Bill(s, H, x) \in Nat /\ Bill(s, K, y) \in Nat
    BY <2>1, <2>2, <2>4, <2>5, ItemsApart, BillIn DEF Listed
  <2>8. Bill(s, K, y) <= c
    BY ONLY <1>3, <2>2, <2>5, <2>7
  <2> QED
    BY <2>3, <2>4, <2>5, <2>6, <2>8
<1>6. \A k \in 0 .. n : k \in P
  <2> HIDE DEF P
  <2> QED
    BY <1>1, <1>4, <1>5, Climb
<1> DEFINE h == g[n]
           K == ItemsOf(h)
           r == h[1]
<1>7. /\ Listed(s, h) /\ Len(h) = 1
      /\ \E x : Fits(x, K, top) /\ Bill(s, K, x) <= c
  <2>1. n \in 0 .. n /\ n + 1 - n = 1
    BY <1>1
  <2> QED
    BY <1>6, <2>1
<1> HIDE DEF h, P
<1>8. PICK x : Fits(x, K, top) /\ Bill(s, K, x) <= c
  BY <1>7
<1>9. K = {r} /\ r \in Nodes /\ K \in SUBSET Nodes /\ IsFiniteSet(K)
  <2>1. K = {r}
    BY <1>7 DEF ItemsOf
  <2> QED
    BY <1>7, <2>1, ItemsApart DEF Listed
<1>10. Insides(s, K) = Inside(s, r)
  <2> DEFINE f == [y \in K |-> Inside(s, y)]
  <2>1. Insides(s, K) = SumFunctionOnSet(f, K)
    BY DEF Insides
  <2>2. f[r] = Inside(s, r) /\ \A y \in K : f[y] \in Nat
    BY <1>9, InsideIn
  <2> HIDE DEF f, K
  <2>3. SumFunctionOnSet(f, K) = f[r]
    BY <1>9, <2>2, SumOne
  <2> QED
    BY <2>1, <2>2, <2>3
<1>11. Weight(Freqs(K), x, K) \in Nat /\ Insides(s, K) \in Nat
  BY <1>8, <1>9, BillIn
<1>12. Inside(s, r) <= c
  BY <1>3, <1>8, <1>10, <1>11 DEF Bill
<1> QED
  BY <1>2, <1>9, <1>12 DEF c, h

(* The same lengths, of the leaves and of their symbols. *)
LEMMA LeafLengths ==
  ASSUME NEW s \in Seq(Bytes), NEW top \in Nat, NEW lengths \in [Used(s) -> 1 .. top],
         SumFunctionOnSet([b \in Used(s) |-> 2 ^ (top - lengths[b])], Used(s)) <= 2 ^ top
  PROVE  LET H == {Leaf(s, b) : b \in Used(s)}
         IN  \E e : /\ Fits(e, H, top)
                    /\ Bill(s, H, e) =
                         SumFunctionOnSet([b \in Used(s) |-> Count(s, b) * lengths[b]], Used(s))
<1> DEFINE U == Used(s)
           H == {Leaf(s, b) : b \in U}
           m == [b \in U |-> Leaf(s, b)]
           e == [x \in H |-> lengths[CHOOSE b \in U : x = Leaf(s, b)]]
           p == [b \in U |-> 2 ^ (top - lengths[b])]
           q == [b \in U |-> Count(s, b) * lengths[b]]
           f == [x \in H |-> 2 ^ (top - e[x])]
           g == [x \in H |-> Freqs(H)[x] * e[x]]
           z == [x \in H |-> Inside(s, x)]
<1>1. IsFiniteSet(U) /\ U \subseteq Bytes
  <2>1. U \in SUBSET Bytes
    BY DEF Used
  <2> QED
    BY <2>1, BytesFinite, FS_Subset
<1>2. \A b \in U : /\ Leaf(s, b) \in Nodes /\ Inside(s, Leaf(s, b)) = 0
                   /\ Leaf(s, b).freq = Count(s, b) /\ DOMAIN Leaf(s, b).depth = {b}
  BY <1>1, LeafFair
<1> HIDE DEF U
<1>3. \A b, c \in U : Leaf(s, b) = Leaf(s, c) => b = c
  <2> SUFFICES ASSUME NEW b \in U, NEW c \in U, Leaf(s, b) = Leaf(s, c) PROVE b = c
    OBVIOUS
  <2>1. {b} = {c}
    BY <1>2
  <2> QED
    BY <2>1
<1>4. \A b \in U : Leaf(s, b) \in H /\ e[Leaf(s, b)] = lengths[b]
  <2> SUFFICES ASSUME NEW b \in U PROVE Leaf(s, b) \in H /\ e[Leaf(s, b)] = lengths[b]
    OBVIOUS
  <2> DEFINE c == CHOOSE c \in U : Leaf(s, b) = Leaf(s, c)
  <2>1. c \in U /\ Leaf(s, b) = Leaf(s, c)
    OBVIOUS
  <2>2. Leaf(s, b) \in H /\ e[Leaf(s, b)] = lengths[c]
    OBVIOUS
  <2> HIDE DEF c, e, H
  <2>3. c = b
    BY <1>3, <2>1
  <2> QED
    BY <2>2, <2>3
<1>5. {m[b] : b \in U} = H /\ \A b \in U : m[b] = Leaf(s, b)
  OBVIOUS
<1>6. \A x, y \in U : m[x] = m[y] => x = y
  BY <1>3, <1>5
<1>7. \A b \in U : lengths[b] \in Nat /\ lengths[b] \in 0 .. top /\ Count(s, b) \in Nat
  <2>1. \A b \in U : lengths[b] \in 1 .. top
    BY DEF U
  <2> QED
    BY <2>1, CountIn
<1>8. \A x \in H : \E b \in U : x = Leaf(s, b)
  OBVIOUS
<1>9. e \in [H -> 0 .. top]
  <2>1. e = [x \in H |-> e[x]]
    OBVIOUS
  <2> HIDE DEF e, H
  <2> QED
    BY <1>4, <1>7, <1>8, <2>1
<1> HIDE DEF e, m
<1>10. \A b \in U : f[m[b]] \in Nat /\ p[b] = f[m[b]]
  <2> SUFFICES ASSUME NEW b \in U PROVE f[m[b]] \in Nat /\ p[b] = f[m[b]]
    OBVIOUS
  <2>1. f[m[b]] = 2 ^ (top - lengths[b]) /\ p[b] = 2 ^ (top - lengths[b])
    BY <1>4, <1>5
  <2>2. 2 ^ (top - lengths[b]) \in Nat
    BY <1>7, PlaceIn
  <2> QED
    BY <2>1, <2>2
<1>11. \A b \in U : g[m[b]] \in Nat /\ q[b] = g[m[b]]
  <2> SUFFICES ASSUME NEW b \in U PROVE g[m[b]] \in Nat /\ q[b] = g[m[b]]
    OBVIOUS
  <2>1. g[m[b]] = Leaf(s, b).freq * lengths[b]
    BY <1>4, <1>5 DEF Freqs
  <2>2. g[m[b]] = Count(s, b) * lengths[b] /\ q[b] = Count(s, b) * lengths[b]
    BY <1>2, <2>1
  <2> QED
    BY <1>7, <2>2
<1>12. \A x \in H : z[x] = 0 /\ z[x] \in Nat
  BY <1>2
<1>13. Filled(e, H, top) = SumFunctionOnSet(f, H) /\ Weight(Freqs(H), e, H) = SumFunctionOnSet(g, H)
       /\ Insides(s, H) = SumFunctionOnSet(z, H)
  BY DEF Filled, Weight, Insides
<1> HIDE DEF f, g, p, q, z, H
<1>14. IsFiniteSet(H) /\ SumFunctionOnSet(f, H) = SumFunctionOnSet(p, U)
  <2>1. IsFiniteSet({m[b] : b \in U})
    BY <1>1, ImageFinite
  <2>2. SumFunctionOnSet(f, {m[b] : b \in U}) = SumFunctionOnSet(p, U)
    BY ONLY <1>1, <1>6, <1>10, SumOver
  <2> QED
    BY <1>5, <2>1, <2>2
<1>15. SumFunctionOnSet(g, H) = SumFunctionOnSet(q, U)
  BY ONLY <1>1, <1>5, <1>6, <1>11, SumOver
<1>16. SumFunctionOnSet(z, H) = 0
  <2>1. \A x \in H : z[x] \in Nat /\ z[x] = 0 * z[x]
    BY <1>12
  <2>2. SumFunctionOnSet(z, H) = 0 * SumFunctionOnSet(z, H) /\ SumFunctionOnSet(z, H) \in Nat
    BY <1>14, <2>1, SumTimes, SumTake
  <2> QED
    BY <2>2
<1>17. SumFunctionOnSet(q, U) \in Nat
  <2>1. \A b \in U : q[b] \in Nat
    BY <1>7 DEF q
  <2> QED
    BY <1>1, <2>1, SumTake
<1>18. Fits(e, H, top)
  <2>1. SumFunctionOnSet(p, U) <= 2 ^ top
    BY DEF p, U
  <2> QED
    BY <1>9, <1>13, <1>14, <2>1 DEF Fits
<1>19. Bill(s, H, e) = SumFunctionOnSet(q, U)
  BY <1>13, <1>15, <1>16, <1>17 DEF Bill
<1> QED
  BY <1>18, <1>19 DEF H, q, U

(* huffman.c:110: what the sorted list is joined to is the cheapest of all *)
(* prefix codes for these bytes.  (Lengths that a prefix code can have     *)
(* leave room for each other among the words of the longest length.)       *)
THEOREM HuffmanCheapest ==
  ASSUME NEW s \in Seq(Bytes), Len(s) > 0, NEW top \in Nat, NEW U, U = Coded(Lengths(s)),
         NEW lengths \in [U -> 1 .. top],
         SumFunction([b \in U |-> 2 ^ (top - lengths[b])]) <= 2 ^ top
  PROVE  SumFunction([b \in U |-> Count(s, b) * Lengths(s)[b]]) <=
           SumFunction([b \in U |-> Count(s, b) * lengths[b]])
<1> DEFINE l == LeafList(s)
           r == AllJoined(l)
           d == r.depth
           p == [b \in U |-> Count(s, b) * Lengths(s)[b]]
           q == [b \in U |-> Count(s, b) * lengths[b]]
<1>1. U = Used(s)
  BY LengthsOK
<1>2. U # {} /\ U \in SUBSET Bytes /\ Cardinality(U) \in Nat /\ Cardinality(U) >= 1 /\ IsFiniteSet(U)
  BY <1>1, UsedOK, CountOK
<1>3. Listed(s, l) /\ ItemsOf(l) = {Leaf(s, b) : b \in U} /\ Forest(l) /\ Len(l) = Cardinality(U)
      /\ Symbols(l) = U
  BY <1>1, LeavesListed, LeavesOK
<1> HIDE DEF l
<1>4. r \in Nodes /\ DOMAIN d = U
  BY <1>2, <1>3, JoinsOK
<1>5. Lengths(s) = [b \in Bytes |-> IF b \notin U THEN 0 ELSE IF Cardinality(U) = 1 THEN 1 ELSE d[b]]
  BY <1>3, <1>4, LengthsAre DEF l
<1>6. \A b \in U : lengths[b] \in Nat /\ lengths[b] >= 1 /\ Count(s, b) \in Nat
  BY CountIn
<1>7. SumFunction(p) = SumFunctionOnSet(p, U) /\ SumFunction(q) = SumFunctionOnSet(q, U)
  BY DEF SumFunction
<1> HIDE DEF r
<1>8. CASE Cardinality(U) = 1
  <2>1. PICK x : U = {x}
    BY <1>2, <1>8, FS_Singleton
  <2>2. x \in U /\ Lengths(s)[x] = 1 /\ U \ {x} = {}
    BY <1>2, <1>5, <1>8, <2>1
  <2>3. p[x] = Count(s, x) * 1 /\ q[x] = Count(s, x) * lengths[x]
    BY <2>2
  <2>4. p[x] \in Nat /\ q[x] \in Nat /\ p[x] <= q[x]
    <3>1. Count(s, x) * 1 <= Count(s, x) * lengths[x]
      BY <1>6, <2>2, TimesMono
    <3> QED
      BY <1>6, <2>2, <2>3, <3>1
  <2> HIDE DEF p, q
  <2>5. SumFunctionOnSet(p, U) = p[x] /\ SumFunctionOnSet(q, U) = q[x]
    BY <2>1, <2>4, SumOne
  <2>6. SumFunctionOnSet(p, U) <= SumFunctionOnSet(q, U)
    BY <2>4, <2>5
  <2> QED
    BY <1>7, <2>6 DEF p, q
<1>9. CASE Cardinality(U) # 1
  <2>1. SumFunctionOnSet(p, U) = Inside(s, r)
    <3>1. \A b \in U : Lengths(s)[b] = d[b]
      BY <1>2, <1>5, <1>9
    <3>2. p = [b \in U |-> Count(s, b) * d[b]]
      BY <3>1
    <3> QED
      BY <1>4, <3>2 DEF Inside
  <2>2. SumFunctionOnSet([b \in U |-> 2 ^ (top - lengths[b])], U) <= 2 ^ top
    BY DEF SumFunction
  <2>3. PICK e : Fits(e, ItemsOf(l), top) /\ Bill(s, ItemsOf(l), e) = SumFunctionOnSet(q, U)
    BY <1>1, <1>3, <2>2, LeafLengths
  <2>4. Inside(s, r) <= Bill(s, ItemsOf(l), e)
    BY <1>2, <1>3, <2>3, JoinedLast DEF r
  <2> HIDE DEF p, q
  <2>5. SumFunctionOnSet(p, U) <= SumFunctionOnSet(q, U)
    BY <2>1, <2>3, <2>4
  <2> QED
    BY <1>7, <2>5 DEF p, q
<1> QED
  BY <1>8, <1>9

=============================================================================
