--------------------------- MODULE BraChunksProofs ---------------------------
(***************************************************************************)
(* What BraChunks keeps to, for every alphabet, every size of a chunk and  *)
(* every file: the encoders give back what they took, the sums agree, the  *)
(* reader takes what the writer wrote, and of what was changed it misses   *)
(* only what has the same sum.                                             *)
(***************************************************************************)
EXTENDS BraChunks, BraHuffmanProofs

----------------------------------------------------------------------------
(* Octets *)
Bytewise == 0 .. 255

LEMMA BytesBytewise == Bytes \subseteq Bytewise /\ Alphabet \in Nat /\ Alphabet <= 256
BY ChunksAssumption, AlphabetNat DEF Bytes, Bytewise

LEMMA OctetWord ==
  ASSUME NEW n \in Bytewise
  PROVE  Octet[n] \in OctetWords
BY DEF Bytewise, Octet, OctetWords

LEMMA OctetsWords ==
  ASSUME NEW s \in Seq(Bytewise)
  PROVE  /\ OctetsOf(s) \in Seq(OctetWords) /\ Len(OctetsOf(s)) = Len(s)
         /\ \A i \in 1 .. Len(s) : OctetsOf(s)[i] = Octet[s[i]]
<1>1. \A i \in 1 .. Len(s) : s[i] \in Bytewise
  OBVIOUS
<1>2. \A i \in 1 .. Len(s) : Octet[s[i]] \in OctetWords
  BY <1>1, OctetWord
<1>3. OctetsOf(s) = [i \in 1 .. Len(s) |-> Octet[s[i]]]
  BY DEF OctetsOf
<1>4. OctetsOf(s) \in [1 .. Len(s) -> OctetWords]
  BY <1>2, <1>3
<1>5. Len(s) \in Nat
  OBVIOUS
<1> QED
  BY <1>3, <1>4, <1>5

LEMMA BytesWords ==
  ASSUME NEW s \in Seq(Bytes)
  PROVE  /\ s \in Seq(Bytewise)
         /\ OctetsOf(s) \in Seq(OctetWords) /\ Len(OctetsOf(s)) = Len(s)
<1>1. s \in Seq(Bytewise)
  BY BytesBytewise
<1> QED
  BY <1>1, OctetsWords

LEMMA JoinIs ==
  ASSUME NEW S, NEW p \in Seq(S), NEW q \in Seq(S), NEW r \in Seq(S),
         Len(r) = Len(p) + Len(q),
         \A k \in 1 .. Len(p) : r[k] = p[k], \A k \in 1 .. Len(q) : r[Len(p) + k] = q[k]
  PROVE  r = p \o q
<1> DEFINE w == p \o q
<1>1. /\ w \in Seq(S) /\ Len(w) = Len(p) + Len(q)
      /\ \A k \in 1 .. Len(p) : w[k] = p[k]
      /\ \A k \in 1 .. Len(q) : w[Len(p) + k] = q[k]
  BY PastFirst
<1> HIDE DEF w
<1>2. ASSUME NEW i \in 1 .. Len(r) PROVE r[i] = w[i]
  <2>1. Len(p) \in Nat /\ Len(q) \in Nat
    OBVIOUS
  <2>2. CASE i <= Len(p)
    <3>1. i \in 1 .. Len(p)
      BY <2>1, <2>2
    <3> QED
      BY <1>1, <3>1
  <2>3. CASE i > Len(p)
    <3> DEFINE k == i - Len(p)
    <3>1. k \in 1 .. Len(q) /\ i = Len(p) + k
      BY <1>2, <2>1, <2>3
    <3> HIDE DEF k
    <3> QED
      BY <1>1, <3>1
  <2> QED
    BY <2>1, <2>2, <2>3
<1>3. Len(r) = Len(w)
  BY <1>1
<1>4. r = w
  BY <1>1, <1>2, <1>3, SeqEqual
<1> QED
  BY <1>4 DEF w

LEMMA OctetsJoin ==
  ASSUME NEW s \in Seq(Bytewise), NEW t \in Seq(Bytewise)
  PROVE  OctetsOf(s \o t) = OctetsOf(s) \o OctetsOf(t)
<1> DEFINE a == OctetsOf(s)
           b == OctetsOf(t)
           d == s \o t
           c == OctetsOf(d)
<1>1. /\ d \in Seq(Bytewise) /\ Len(d) = Len(s) + Len(t)
      /\ \A k \in 1 .. Len(s) : d[k] = s[k]
      /\ \A k \in 1 .. Len(t) : d[Len(s) + k] = t[k]
      /\ Len(s) \in Nat /\ Len(t) \in Nat
  BY PastFirst
<1>2. /\ a \in Seq(OctetWords) /\ Len(a) = Len(s) /\ \A i \in 1 .. Len(s) : a[i] = Octet[s[i]]
      /\ b \in Seq(OctetWords) /\ Len(b) = Len(t) /\ \A i \in 1 .. Len(t) : b[i] = Octet[t[i]]
  BY OctetsWords
<1> HIDE DEF d
<1>3. /\ c \in Seq(OctetWords) /\ Len(c) = Len(d)
      /\ \A i \in 1 .. Len(d) : c[i] = Octet[d[i]]
  BY <1>1, OctetsWords
<1> HIDE DEF a, b, c
<1>4. ASSUME NEW k \in 1 .. Len(a) PROVE c[k] = a[k]
  <2>1. k \in 1 .. Len(s) /\ k \in 1 .. Len(d)
    BY <1>1, <1>2
  <2> QED
    BY <1>1, <1>2, <1>3, <2>1
<1>5. ASSUME NEW k \in 1 .. Len(b) PROVE c[Len(a) + k] = b[k]
  <2>1. k \in 1 .. Len(t) /\ Len(s) + k \in 1 .. Len(d)
    BY <1>1, <1>2
  <2> QED
    BY <1>1, <1>2, <1>3, <2>1
<1>6. Len(c) = Len(a) + Len(b)
  BY <1>1, <1>2, <1>3
<1>7. c = a \o b
  BY <1>2, <1>3, <1>4, <1>5, <1>6, JoinIs
<1> QED
  BY <1>7 DEF a, b, c, d

(* Numbers below 256 that differ have octets that differ. *)
LEMMA OctetsDiffer ==
  ASSUME NEW p \in Bytewise, NEW q \in Bytewise, Octet[p] = Octet[q]
  PROVE  p = q
<1>1. 2 ^ 8 = 256 /\ 8 \in Nat
  <2>1. 2 ^ 0 = 1
    BY PowerZero
  <2>2. \A n \in Nat : 2 ^ (n + 1) = 2 * 2 ^ n
    BY PowerOK
  <2>3. 2 ^ 1 = 2
    BY <2>1, <2>2
  <2>4. 2 ^ 2 = 4
    BY <2>2, <2>3
  <2>5. 2 ^ 3 = 8
    BY <2>2, <2>4
  <2>6. 2 ^ 4 = 16
    BY <2>2, <2>5
  <2>7. 2 ^ 5 = 32
    BY <2>2, <2>6
  <2>8. 2 ^ 6 = 64
    BY <2>2, <2>7
  <2>9. 2 ^ 7 = 128
    BY <2>2, <2>8
  <2> QED
    BY <2>2, <2>9
<1>2. p \in 0 .. 2 ^ 8 - 1 /\ q \in 0 .. 2 ^ 8 - 1
  BY <1>1 DEF Bytewise
<1> DEFINE m == 8
<1>3. ASSUME NEW j \in 1 .. m PROVE Digits(p, m)[j] = Digits(q, m)[j]
  <2> DEFINE b == 8 - j
  <2>1. b \in 0 .. 7 /\ b \in Nat
    OBVIOUS
  <2>2. /\ Octet[p] = {c \in 0 .. 7 : (p \div 2 ^ c) % 2 = 1}
        /\ Octet[q] = {c \in 0 .. 7 : (q \div 2 ^ c) % 2 = 1}
    BY DEF Octet, Bytewise
  <2>3. Digits(p, 8)[j] = (p \div 2 ^ b) % 2 /\ Digits(q, 8)[j] = (q \div 2 ^ b) % 2
    BY DEF Digits
  <2> HIDE DEF b
  <2>4. (p \div 2 ^ b) % 2 \in {0, 1} /\ (q \div 2 ^ b) % 2 \in {0, 1}
    BY <2>1, HalfOf DEF Bytewise
  <2>5. (p \div 2 ^ b) % 2 = 1 <=> (q \div 2 ^ b) % 2 = 1
    BY <2>1, <2>2
  <2> QED
    BY <2>3, <2>4, <2>5
<1>4. m \in Nat /\ p \in 0 .. 2 ^ m - 1 /\ q \in 0 .. 2 ^ m - 1
  BY <1>1, <1>2
<1> HIDE DEF m
<1> QED
  BY <1>3, <1>4, SameNumber
LEMMA LittleEndianOK ==
  ASSUME NEW n \in Nat, NEW size \in Nat, size >= 1
  PROVE  LittleEndian(n, size) \in Seq(OctetWords) /\ Len(LittleEndian(n, size)) = size
<1> DEFINE Eq(f) == f = [k \in 1 .. size |-> IF k = 1 THEN n ELSE f[k - 1] \div 256]
           g == CHOOSE f : Eq(f)
           F == [i \in 1 .. size - 1 |-> [v \in Nat |-> v \div 256]]
<1>1. LittleEndian(n, size) = [k \in 1 .. size |-> Octet[g[k] % 256]]
  BY DEF LittleEndian
<1>2. \A v \in Nat : v \div 256 \in Nat /\ v % 256 \in Bytewise
  BY DEF Bytewise
<1> DEFINE m == size - 1
<1>3. PICK f \in [0 .. m -> Nat] : Turns(F, n, m, f)
  <2>1. F \in [1 .. m -> [Nat -> Nat]] /\ m \in Nat
    BY <1>2
  <2> HIDE DEF F, m
  <2> QED
    BY <2>1, Runs
<1> DEFINE h == [k \in 1 .. size |-> f[k - 1]]
<1>4. Eq(h)
  <2>1. \A k \in 1 .. size : h[k] = IF k = 1 THEN n ELSE h[k - 1] \div 256
    <3> SUFFICES ASSUME NEW k \in 1 .. size
                 PROVE  h[k] = IF k = 1 THEN n ELSE h[k - 1] \div 256
      OBVIOUS
    <3>1. CASE k = 1
      BY <1>3, <3>1 DEF Turns
    <3>2. CASE k # 1
      <4> DEFINE i == k - 1
      <4>1. i \in 1 .. size - 1 /\ i \in 1 .. size /\ i - 1 \in 0 .. size - 1
        BY <3>2
      <4> HIDE DEF i
      <4>2. f[i] = F[i][f[i - 1]] /\ f[i - 1] \in Nat
        BY <1>3, <4>1 DEF Turns
      <4>3. f[i] = f[i - 1] \div 256 /\ h[i] = f[i - 1]
        BY <4>1, <4>2
      <4>4. h[k] = f[i]
        BY DEF i
      <4> HIDE DEF h
      <4> QED
        BY <3>2, <4>3, <4>4 DEF i
    <3> QED
      BY <3>1, <3>2
  <2>2. h = [k \in 1 .. size |-> h[k]]
    OBVIOUS
  <2> DEFINE D(v) == v \div 256
  <2>3. \A k \in 1 .. size : h[k] = IF k = 1 THEN n ELSE D(h[k - 1])
    BY <2>1
  <2> HIDE DEF h, D
  <2>4. h = [k \in 1 .. size |-> IF k = 1 THEN n ELSE D(h[k - 1])]
    BY <2>2, <2>3
  <2> QED
    BY <2>4 DEF D
<1>5. Eq(g)
  <2>1. \E e : Eq(e)
    BY <1>4
  <2> HIDE DEF Eq
  <2>2. Eq(CHOOSE e : Eq(e))
    BY <2>1, Zenon
  <2> QED
    BY <2>2
<1> HIDE DEF g
<1>6. g = [k \in 1 .. size |-> IF k = 1 THEN n ELSE g[k - 1] \div 256]
  BY <1>5
<1> HIDE DEF Eq
<1> DEFINE P == {i \in 0 .. size - 1 : g[i + 1] \in Nat}
<1>7. 0 \in P
  <2>1. g[1] = n
    BY <1>6
  <2> QED
    BY <2>1
<1>8. ASSUME NEW i \in 1 .. size - 1, i - 1 \in P PROVE i \in P
  <2>1. (i - 1) + 1 = i /\ i + 1 \in 1 .. size /\ i + 1 # 1 /\ (i + 1) - 1 = i /\ i \in 0 .. size - 1
    OBVIOUS
  <2>2. g[i + 1] = g[i] \div 256
    BY <1>6, <2>1
  <2>3. g[(i - 1) + 1] \in Nat
    BY <1>8
  <2>4. g[i] \in Nat
    BY <2>1, <2>3
  <2>5. g[i + 1] \in Nat
    BY <1>2, <2>2, <2>4
  <2> QED
    BY <2>1, <2>5
<1>9. \A i \in 0 .. size - 1 : i \in P
  <2>1. size - 1 \in Nat
    OBVIOUS
  <2> HIDE DEF P
  <2> QED
    BY <1>7, <1>8, <2>1, Climb
<1>10. ASSUME NEW k \in 1 .. size PROVE Octet[g[k] % 256] \in OctetWords
  <2>1. k - 1 \in 0 .. size - 1 /\ (k - 1) + 1 = k
    OBVIOUS
  <2>2. k - 1 \in P
    BY <1>9, <2>1
  <2>3. g[(k - 1) + 1] \in Nat
    BY <2>2
  <2>4. g[k] \in Nat
    BY <2>1, <2>3
  <2> QED
    BY <1>2, <2>4, OctetWord
<1>11. LittleEndian(n, size) \in [1 .. size -> OctetWords]
  BY <1>1, <1>10
<1> QED
  BY <1>11

(* A chunk as it lies in the archive. *)
ChunkSet ==
  [primary_index : Nat, lengths : [Bytes -> Bytewise], orig_size : Nat,
   encoded_size : Nat \ {0}, bits : Seq({0, 1})]

LEMMA ChunkFields ==
  ASSUME NEW c \in ChunkSet
  PROVE  /\ c.primary_index \in Nat /\ c.orig_size \in Nat /\ c.encoded_size \in Nat
         /\ c.encoded_size >= 1 /\ c.lengths \in [Bytes -> Bytewise] /\ c.bits \in Seq({0, 1})
BY DEF ChunkSet

LEMMA WordsJoin ==
  ASSUME NEW p \in Seq(OctetWords), NEW q \in Seq(OctetWords)
  PROVE  p \o q \in Seq(OctetWords) /\ Len(p \o q) = Len(p) + Len(q)
OBVIOUS

LEMMA HeaderOctetsOK ==
  ASSUME NEW c \in ChunkSet
  PROVE  HeaderOctets(c) \in Seq(OctetWords) /\ Len(HeaderOctets(c)) = sizeof_chunk_header
<1> DEFINE w == [i \in 1 .. Alphabet |-> c.lengths[i - 1]]
           p == LittleEndian(c.primary_index, 4)
           o == LittleEndian(c.orig_size, 4)
           e == LittleEndian(c.encoded_size, 4)
           l == OctetsOf(w)
<1>1. /\ p \in Seq(OctetWords) /\ Len(p) = 4
      /\ o \in Seq(OctetWords) /\ Len(o) = 4
      /\ e \in Seq(OctetWords) /\ Len(e) = 4
  <2>1. 4 \in Nat /\ 4 >= 1
    OBVIOUS
  <2>2. c.primary_index \in Nat /\ c.orig_size \in Nat /\ c.encoded_size \in Nat
    BY ChunkFields
  <2> DEFINE q(n) == LittleEndian(n, 4) \in Seq(OctetWords) /\ Len(LittleEndian(n, 4)) = 4
  <2>3. \A n \in Nat : q(n)
    BY <2>1, LittleEndianOK
  <2> HIDE DEF q
  <2>4. q(c.primary_index) /\ q(c.orig_size) /\ q(c.encoded_size)
    BY <2>2, <2>3
  <2> QED
    BY <2>4 DEF q
<1>2. l \in Seq(OctetWords) /\ Len(l) = Alphabet
  <2>1. Alphabet \in Nat
    BY BytesBytewise
  <2>2. \A i \in 1 .. Alphabet : i - 1 \in Bytes
    BY <2>1 DEF Bytes
  <2>3. w \in [1 .. Alphabet -> Bytewise]
    BY <2>2, ChunkFields
  <2>4. w \in Seq(Bytewise) /\ Len(w) = Alphabet
    BY <2>1, <2>3
  <2> HIDE DEF w
  <2> QED
    BY <2>4, OctetsWords
<1>3. HeaderOctets(c) = ((p \o l) \o o) \o e
  BY DEF HeaderOctets
<1> HIDE DEF p, o, e, l
<1>4. p \o l \in Seq(OctetWords) /\ Len(p \o l) = 4 + Alphabet
  BY <1>1, <1>2, WordsJoin
<1>5. (p \o l) \o o \in Seq(OctetWords) /\ Len((p \o l) \o o) = (4 + Alphabet) + 4
  BY <1>1, <1>4, WordsJoin
<1>6. ((p \o l) \o o) \o e \in Seq(OctetWords) /\ Len(((p \o l) \o o) \o e) = ((4 + Alphabet) + 4) + 4
  BY <1>1, <1>5, WordsJoin
<1> QED
  BY <1>3, <1>6, BytesBytewise DEF sizeof_chunk_header

LEMMA NameWord ==
  ASSUME NEW comp
  PROVE  NameSum(comp) \in Words
<1> DEFINE name == <<IF comp = "compressed" THEN {2} ELSE {}, {0}, {}, {1, 2, 5, 6}>>
<1>1. {} \in OctetWords /\ {0} \in OctetWords /\ {2} \in OctetWords /\ {1, 2, 5, 6} \in OctetWords
  BY DEF OctetWords
<1>2. name \in Seq(OctetWords)
  BY <1>1
<1>3. BRA_CRC32C_INIT \in Words
  BY DEF BRA_CRC32C_INIT, Words
<1>4. NameSum(comp) = bra_crc32c_table(name, BRA_CRC32C_INIT)
  BY DEF NameSum, Crc
<1> HIDE DEF name
<1> QED
  BY <1>2, <1>3, <1>4, TableWord
----------------------------------------------------------------------------
(* Where the chunks of a file begin and end.                               *)
Sized(S, chunks) ==
  /\ S \in [0 .. Len(chunks) -> Nat] /\ S[0] = 0
  /\ \A k \in 1 .. Len(chunks) : S[k] = S[k - 1] + HeaderSize + chunks[k].encoded_size

LEMMA FileSizeIs ==
  ASSUME NEW chunks \in Seq(ChunkSet)
  PROVE  \E S : Sized(S, chunks) /\ FileSize(chunks) = S[Len(chunks)]
<1> DEFINE n == Len(chunks)
           Add(k, v) == v + HeaderSize + chunks[k].encoded_size
           Eq(f) == f = [k \in 0 .. n |-> IF k = 0 THEN 0 ELSE Add(k, f[k - 1])]
           g == CHOOSE f : Eq(f)
           F == [i \in 1 .. n |-> [v \in Nat |-> Add(i, v)]]
<1>1. FileSize(chunks) = g[n]
  BY DEF FileSize
<1>2. n \in Nat /\ \A i \in 1 .. n : \A v \in Nat : Add(i, v) \in Nat
  <2>1. HeaderSize \in Nat
    BY ChunksAssumption
  <2>2. \A i \in 1 .. n : chunks[i] \in ChunkSet
    OBVIOUS
  <2>3. \A i \in 1 .. n : chunks[i].encoded_size \in Nat
    BY <2>2, ChunkFields
  <2> QED
    BY <2>1, <2>3
<1> HIDE DEF Add, n
<1>3. PICK f \in [0 .. n -> Nat] : Turns(F, 0, n, f)
  <2>1. F \in [1 .. n -> [Nat -> Nat]] /\ 0 \in Nat
    BY <1>2
  <2> HIDE DEF F
  <2> QED
    BY <1>2, <2>1, Runs
<1>4. f[0] = 0 /\ \A i \in 1 .. n : f[i] = Add(i, f[i - 1])
  <2>1. \A i \in 1 .. n : f[i - 1] \in Nat /\ f[i] = F[i][f[i - 1]]
    <3> SUFFICES ASSUME NEW i \in 1 .. n PROVE f[i - 1] \in Nat /\ f[i] = F[i][f[i - 1]]
      OBVIOUS
    <3>1. i - 1 \in 0 .. n
      BY <1>2
    <3> QED
      BY <1>3, <3>1 DEF Turns
  <2> QED
    BY <1>3, <2>1 DEF Turns
<1>5. Eq(f)
  BY <1>3, <1>4
<1>6. Eq(g)
  BY <1>5
<1> HIDE DEF g
<1>7. g[0] = 0 /\ \A i \in 1 .. n : g[i] = Add(i, g[i - 1])
  <2>1. g = [k \in 0 .. n |-> IF k = 0 THEN 0 ELSE Add(k, g[k - 1])]
    BY <1>6
  <2>2. \A k \in 0 .. n : g[k] = IF k = 0 THEN 0 ELSE Add(k, g[k - 1])
    BY <2>1
  <2>3. 0 \in 0 .. n /\ \A i \in 1 .. n : i \in 0 .. n /\ i # 0
    BY <1>2
  <2> QED
    BY <2>2, <2>3
<1>8. g \in [0 .. n -> Nat]
  <2>1. Upto(n, g)
    <3>1. DOMAIN g = 0 .. n /\ g = [k \in 0 .. n |-> IF k = 0 THEN 0 ELSE Add(k, g[k - 1])]
      BY <1>6
    <3> QED
      BY <3>1 DEF Upto
  <2>2. \A i \in 1 .. n : g[i - 1] \in Nat => g[i] \in Nat
    BY <1>2, <1>7
  <2>3. n \in Nat /\ g[0] \in Nat
    BY <1>2, <1>7
  <2> DEFINE T == Nat
  <2>4. g[0] \in T /\ \A i \in 1 .. n : g[i - 1] \in T => g[i] \in T
    BY <2>2, <2>3
  <2> HIDE DEF T
  <2>5. g \in [0 .. n -> T]
    BY ONLY <2>1, <2>3, <2>4, Stays
  <2> QED
    BY <2>5 DEF T
<1>9. Sized(g, chunks)
  BY <1>7, <1>8 DEF Sized, Add, n
<1> QED
  BY <1>1, <1>9 DEF n

LEMMA SizedSame ==
  ASSUME NEW a, NEW b, NEW S, NEW T, Sized(S, a), Sized(T, b), NEW m \in Nat,
         Len(a) \in Nat, Len(b) \in Nat, m <= Len(a), m <= Len(b),
         \A k \in 1 .. m : a[k].encoded_size = b[k].encoded_size
  PROVE  S[m] = T[m]
<1> DEFINE P == {k \in 0 .. m : S[k] = T[k]}
<1>1. 0 \in P
  BY DEF Sized
<1>2. ASSUME NEW i \in 1 .. m, i - 1 \in P PROVE i \in P
  <2>1. i \in 1 .. Len(a) /\ i \in 1 .. Len(b) /\ S[i - 1] = T[i - 1]
    BY <1>2
  <2>2. /\ S[i] = S[i - 1] + HeaderSize + a[i].encoded_size
        /\ T[i] = T[i - 1] + HeaderSize + b[i].encoded_size
    BY <2>1 DEF Sized
  <2>3. S[i] = T[i]
    BY <2>1, <2>2
  <2> QED
    BY <2>3
<1> HIDE DEF P
<1>3. \A i \in 0 .. m : i \in P
  BY <1>1, <1>2, Climb
<1> QED
  BY <1>3 DEF P

(* Where the chunk after the first k begins. *)
SizeAt(chunks, k) == FileSize(SubSeq(chunks, 1, k))

LEMMA SizesAre ==
  ASSUME NEW chunks \in Seq(ChunkSet)
  PROVE  \E S : /\ Sized(S, chunks)
                /\ \A k \in 0 .. Len(chunks) : SizeAt(chunks, k) = S[k]
<1>1. PICK S : Sized(S, chunks) /\ FileSize(chunks) = S[Len(chunks)]
  BY FileSizeIs
<1>2. ASSUME NEW k \in 0 .. Len(chunks) PROVE SizeAt(chunks, k) = S[k]
  <2> DEFINE first == SubSeq(chunks, 1, k)
  <2>1. /\ first \in Seq(ChunkSet) /\ Len(first) = k
        /\ \A j \in 1 .. k : first[j] = chunks[j]
    BY FirstOf
  <2> HIDE DEF first
  <2>2. PICK T : Sized(T, first) /\ FileSize(first) = T[k]
    BY <2>1, FileSizeIs
  <2>3. k \in Nat /\ Len(chunks) \in Nat /\ k <= Len(chunks) /\ k <= Len(first) /\ Len(first) \in Nat
    BY <2>1
  <2>4. \A j \in 1 .. k : chunks[j].encoded_size = first[j].encoded_size
    BY <2>1
  <2>5. S[k] = T[k]
    BY <1>1, <2>2, <2>3, <2>4, SizedSame
  <2> QED
    BY <2>2, <2>5 DEF SizeAt, first
<1> QED
  BY <1>1, <1>2

LEMMA SizeAtOK ==
  ASSUME NEW chunks \in Seq(ChunkSet)
  PROVE  /\ SizeAt(chunks, 0) = 0 /\ SizeAt(chunks, Len(chunks)) = FileSize(chunks)
         /\ \A k \in 0 .. Len(chunks) : SizeAt(chunks, k) \in Nat
         /\ \A k \in 1 .. Len(chunks) :
              SizeAt(chunks, k) = SizeAt(chunks, k - 1) + HeaderSize + chunks[k].encoded_size
<1>1. PICK S : /\ Sized(S, chunks)
               /\ \A k \in 0 .. Len(chunks) : SizeAt(chunks, k) = S[k]
  BY SizesAre
<1>2. Len(chunks) \in Nat /\ 0 \in 0 .. Len(chunks)
  OBVIOUS
<1>3. \A k \in 1 .. Len(chunks) : k \in 0 .. Len(chunks) /\ k - 1 \in 0 .. Len(chunks)
  BY <1>2
<1>4. SizeAt(chunks, Len(chunks)) = FileSize(chunks)
  BY SubSeqFull DEF SizeAt
<1> QED
  BY <1>1, <1>2, <1>3, <1>4 DEF Sized

LEMMA SizesRise ==
  ASSUME NEW chunks \in Seq(ChunkSet), NEW i \in 0 .. Len(chunks), NEW k \in 0 .. Len(chunks),
         i < k
  PROVE  SizeAt(chunks, i) < SizeAt(chunks, k)
<1> DEFINE n == k - i - 1
           P == {j \in 0 .. n : SizeAt(chunks, i) < SizeAt(chunks, i + 1 + j)}
<1>1. n \in Nat /\ Len(chunks) \in Nat
  OBVIOUS
<1>2. \A j \in 0 .. n : /\ i + 1 + j \in 1 .. Len(chunks) /\ i + 1 + j \in 0 .. Len(chunks)
                        /\ (i + 1 + j) - 1 \in 0 .. Len(chunks) /\ (i + 1 + j) - 1 = i + j
  BY <1>1
<1>3. ASSUME NEW j \in 0 .. n
      PROVE  /\ SizeAt(chunks, i + j) \in Nat /\ SizeAt(chunks, i + 1 + j) \in Nat
             /\ SizeAt(chunks, i + j) < SizeAt(chunks, i + 1 + j)
  <2> DEFINE l == i + 1 + j
  <2>1. l \in 1 .. Len(chunks) /\ l \in 0 .. Len(chunks) /\ l - 1 \in 0 .. Len(chunks) /\ l - 1 = i + j
    BY <1>2
  <2> HIDE DEF l
  <2>2. SizeAt(chunks, l) = SizeAt(chunks, l - 1) + HeaderSize + chunks[l].encoded_size
    BY <2>1, SizeAtOK
  <2>3. SizeAt(chunks, l) \in Nat /\ SizeAt(chunks, l - 1) \in Nat
    BY <2>1, SizeAtOK
  <2>4. HeaderSize \in Nat /\ chunks[l].encoded_size \in Nat /\ chunks[l].encoded_size >= 1
    <3>1. chunks[l] \in ChunkSet
      BY <2>1
    <3> QED
      BY <3>1, ChunkFields, ChunksAssumption
  <2>5. SizeAt(chunks, l - 1) < SizeAt(chunks, l)
    BY <2>2, <2>3, <2>4
  <2> QED
    BY <2>1, <2>3, <2>5 DEF l
<1>4. 0 \in P
  <2>1. 0 \in 0 .. n /\ i + 0 = i /\ i + 1 + 0 = i + 1
    BY <1>1
  <2> QED
    BY <1>3, <2>1
<1>5. ASSUME NEW j \in 1 .. n, j - 1 \in P PROVE j \in P
  <2>1. j \in 0 .. n /\ i + 1 + (j - 1) = i + j /\ i \in 0 .. Len(chunks)
    BY <1>1
  <2>2. SizeAt(chunks, i) < SizeAt(chunks, i + j) /\ SizeAt(chunks, i) \in Nat
    BY <1>5, <2>1, SizeAtOK
  <2>3. SizeAt(chunks, i) < SizeAt(chunks, i + 1 + j)
    BY <1>3, <2>1, <2>2
  <2> QED
    BY <2>1, <2>3
<1> HIDE DEF P
<1>6. \A j \in 0 .. n : j \in P
  BY <1>1, <1>4, <1>5, Climb
<1>7. n \in P /\ i + 1 + n = k
  BY <1>1, <1>6
<1> QED
  BY <1>7 DEF P

(* The position tells the chunk. *)
StartsAt(data, x, j) == FileSize(SubSeq(data, 1, j - 1)) = x

LEMMA OneStarts ==
  ASSUME NEW data \in Seq(ChunkSet), NEW m \in 0 .. Len(data),
         NEW x, x = SizeAt(data, m), x < FileSize(data)
  PROVE  /\ m + 1 \in 1 .. Len(data)
         /\ StartsAt(data, x, m + 1)
         /\ \A j \in 1 .. Len(data) : StartsAt(data, x, j) => j = m + 1
         /\ x + data[m + 1].encoded_size + HeaderSize = SizeAt(data, m + 1)
<1>1. Len(data) \in Nat /\ SizeAt(data, Len(data)) = FileSize(data) /\ SizeAt(data, m) \in Nat
  BY SizeAtOK
<1>2. m # Len(data)
  BY <1>1
<1>3. m + 1 \in 1 .. Len(data) /\ (m + 1) - 1 = m
  BY <1>1, <1>2
<1>4. StartsAt(data, x, m + 1)
  BY <1>3 DEF SizeAt, StartsAt
<1>5. ASSUME NEW j \in 1 .. Len(data), StartsAt(data, x, j) PROVE j = m + 1
  <2>1. j - 1 \in 0 .. Len(data) /\ SizeAt(data, j - 1) = SizeAt(data, m)
    BY <1>1, <1>5 DEF SizeAt, StartsAt
  <2>2. ~(j - 1 < m) /\ ~(m < j - 1)
    BY <1>1, <2>1, SizesRise
  <2> QED
    BY <1>1, <2>2
<1>6. SizeAt(data, m + 1) = SizeAt(data, m) + HeaderSize + data[m + 1].encoded_size
  BY <1>3, SizeAtOK
<1>7. data[m + 1].encoded_size \in Nat /\ HeaderSize \in Nat
  <2>1. data[m + 1] \in ChunkSet
    BY <1>3
  <2> QED
    BY <2>1, ChunkFields, ChunksAssumption
<1> QED
  BY <1>1, <1>3, <1>4, <1>5, <1>6, <1>7

LEMMA ChunkAtIs ==
  ASSUME NEW data \in Seq(ChunkSet), data = entry.data, NEW m \in 0 .. Len(data),
         NEW x, x = at, x = SizeAt(data, m), x < FileSize(data)
  PROVE  /\ m + 1 \in 1 .. Len(data) /\ ChunkAt = data[m + 1]
         /\ x + data[m + 1].encoded_size + HeaderSize = SizeAt(data, m + 1)
<1> DEFINE k == CHOOSE j \in DOMAIN data : StartsAt(data, x, j)
<1>1. ChunkAt = data[k]
  BY DEF ChunkAt, StartsAt
<1>2. DOMAIN data = 1 .. Len(data)
  OBVIOUS
<1>3. k \in DOMAIN data /\ StartsAt(data, x, k)
  BY <1>2, OneStarts
<1> HIDE DEF k
<1>4. k = m + 1
  BY <1>2, <1>3, OneStarts
<1> QED
  BY <1>1, <1>4, OneStarts
----------------------------------------------------------------------------
(* What the encoders make of the bytes of a chunk, and back.               *)
RleOf(b) == RleEncoded(MtfEncoded(LastColumn(b)))

(* A chunk stands for some bytes, apart from where the index is; and with  *)
(* the index.                                                              *)
Codes(c, b) ==
  c \in ChunkSet /\ b \in Seq(Bytes) /\ Len(b) > 0 /\ \E f : EncodedAs(c, RleOf(b), f)
StandsFor(c, b) == Codes(c, b) /\ c.primary_index \in PrimaryIndices(b)

LEMMA RleOfOK ==
  ASSUME NEW b \in Seq(Bytes)
  PROVE  /\ MtfEncoded(LastColumn(b)) \in Seq(Bytes) /\ Len(MtfEncoded(LastColumn(b))) = Len(b)
         /\ MtfDecoded(MtfEncoded(LastColumn(b))) = LastColumn(b)
         /\ RleOf(b) \in Seq(Bytes)
         /\ RleDecoded(RleOf(b)) = [ok |-> TRUE, out |-> MtfEncoded(LastColumn(b))]
         /\ Len(b) > 0 => Len(RleOf(b)) > 0
<1> DEFINE l == LastColumn(b)
           m == MtfEncoded(l)
<1>1. l \in Seq(Bytes) /\ Len(l) = Len(b)
  BY LastOK
<1> HIDE DEF l
<1>2. m \in Seq(Bytes) /\ Len(m) = Len(l)
  BY <1>1, MtfEncodes
<1>3. MtfDecoded(m) = l
  BY <1>1, MtfUndone
<1> HIDE DEF m
<1>4. RleEncoded(m) \in Seq(Bytes) /\ RleDecoded(RleEncoded(m)) = [ok |-> TRUE, out |-> m]
  BY <1>2, RleUndone
<1>5. ASSUME RleEncoded(m) = <<>> PROVE m = <<>>
  <2>1. <<>> \in Seq(Bytes) /\ Len(<<>>) = 0
    OBVIOUS
  <2> DEFINE e == <<>>
  <2>2. RleDecoded(e) = [ok |-> TRUE, out |-> <<>>]
    <3>1. e \in Seq(Bytes) /\ Len(e) + 1 = 1
      BY <2>1
    <3> HIDE DEF e
    <3>2. PICK f : f[Len(e) + 1] = [ok |-> TRUE, out |-> <<>>] /\ RleDecoded(e) = f[1]
      BY <3>1, RleDecodes
    <3> QED
      BY <3>1, <3>2
  <2> QED
    BY <1>4, <1>5, <2>2
<1>6. Len(b) > 0 => Len(RleEncoded(m)) > 0
  <2>1. Len(b) > 0 => m # <<>>
    BY <1>1, <1>2
  <2>2. Len(b) > 0 => RleEncoded(m) # <<>>
    BY <1>5, <2>1
  <2> QED
    BY <1>4, <2>2
<1>7. RleOf(b) = RleEncoded(m)
  BY DEF RleOf, m, l
<1> QED
  BY <1>1, <1>2, <1>3, <1>4, <1>6, <1>7 DEF m, l

LEMMA CodesGive ==
  ASSUME NEW c, NEW b, Codes(c, b)
  PROVE  /\ HuffmanDecoded(c).ok = TRUE /\ HuffmanDecoded(c).out = RleOf(b)
         /\ RleDecoded(HuffmanDecoded(c).out).ok = TRUE
         /\ RleDecoded(HuffmanDecoded(c).out).out = MtfEncoded(LastColumn(b))
         /\ Len(RleDecoded(HuffmanDecoded(c).out).out) = Len(b)
<1>1. b \in Seq(Bytes) /\ Len(b) > 0
  BY DEF Codes
<1>2. PICK f : EncodedAs(c, RleOf(b), f)
  BY DEF Codes
<1>3. HuffmanDecoded(c) = [ok |-> TRUE, out |-> RleOf(b)]
  BY <1>1, <1>2, RleOfOK, EncodedReads
<1>4. /\ RleDecoded(RleOf(b)) = [ok |-> TRUE, out |-> MtfEncoded(LastColumn(b))]
      /\ Len(MtfEncoded(LastColumn(b))) = Len(b)
  BY <1>1, RleOfOK
<1> QED
  BY <1>3, <1>4

LEMMA StandsForGives ==
  ASSUME NEW c, NEW b, StandsFor(c, b)
  PROVE  /\ c.primary_index < Len(RleDecoded(HuffmanDecoded(c).out).out)
         /\ Unpacked(c, RleDecoded(HuffmanDecoded(c).out).out) = b
<1>1. Codes(c, b) /\ c.primary_index \in PrimaryIndices(b) /\ b \in Seq(Bytes)
  BY DEF StandsFor, Codes
<1>2. /\ RleDecoded(HuffmanDecoded(c).out).out = MtfEncoded(LastColumn(b))
      /\ Len(RleDecoded(HuffmanDecoded(c).out).out) = Len(b)
  BY <1>1, CodesGive
<1>3. /\ c.primary_index \in 0 .. Len(b) - 1
      /\ BwtDecoded(LastColumn(b), c.primary_index) = b
  BY <1>1, BwtUndone
<1>4. MtfDecoded(MtfEncoded(LastColumn(b))) = LastColumn(b)
  BY <1>1, RleOfOK
<1>5. Unpacked(c, MtfEncoded(LastColumn(b))) = b
  BY <1>3, <1>4 DEF Unpacked
<1> QED
  BY <1>1, <1>2, <1>3, <1>5

(* The fields of a chunk other than the index. *)
SameButIndex(c, h) ==
  /\ c.lengths = h.lengths /\ c.orig_size = h.orig_size
  /\ c.encoded_size = h.encoded_size /\ c.bits = h.bits

LEMMA SameEncoded ==
  ASSUME NEW c, NEW h, SameButIndex(c, h), NEW s, NEW f, EncodedAs(h, s, f)
  PROVE  EncodedAs(c, s, f)
<1>1. Packed(h, s, f)
  BY DEF EncodedAs
<1>2. Packed(c, s, f)
  BY <1>1 DEF Packed, SameButIndex
<1> QED
  BY <1>2 DEF EncodedAs, SameButIndex

LEMMA ChunkMade ==
  ASSUME NEW b \in Seq(Bytes), Len(b) > 0, NEW p \in PrimaryIndices(b),
         NEW h, h = HuffmanEncoded(RleOf(b)),
         NEW c, c = [primary_index |-> p, lengths |-> h.lengths, orig_size |-> h.orig_size,
                     encoded_size |-> h.encoded_size, bits |-> h.bits]
  PROVE  StandsFor(c, b)
<1>1. RleOf(b) \in Seq(Bytes) /\ Len(RleOf(b)) > 0
  BY RleOfOK
<1>2. PICK f : EncodedAs(h, RleOf(b), f)
  BY <1>1, HuffmanEncodes
<1>3. c.primary_index = p /\ SameButIndex(c, h)
  BY DEF SameButIndex
<1>4. EncodedAs(c, RleOf(b), f)
  BY <1>2, <1>3, SameEncoded
<1>5. c \in ChunkSet
  <2>1. p \in Nat
    BY BwtUndone
  <2>2. h.orig_size \in Nat /\ h.encoded_size \in Nat \ {0}
    <3>1. h.orig_size = Len(RleOf(b)) /\ h.encoded_size \in Nat /\ h.encoded_size >= 1
      BY <1>2 DEF EncodedAs
    <3> QED
      BY <1>1, <3>1
  <2>3. h.bits \in Seq({0, 1}) /\ h.lengths \in [Bytes -> 0 .. Alphabet - 1]
    BY <1>1, <1>2, EncodedReads
  <2>4. h.lengths \in [Bytes -> Bytewise]
    BY <2>3, BytesBytewise DEF Bytes
  <2> QED
    BY <2>1, <2>2, <2>3, <2>4 DEF ChunkSet
<1> QED
  BY <1>3, <1>4, <1>5 DEF StandsFor, Codes
----------------------------------------------------------------------------
(* Slices *)
LEMMA SliceOK ==
  ASSUME NEW S, NEW s \in Seq(S), NEW a \in Nat, NEW n \in Nat, a + n <= Len(s)
  PROVE  /\ SubSeq(s, a + 1, a + n) \in Seq(S) /\ Len(SubSeq(s, a + 1, a + n)) = n
         /\ \A i \in 1 .. n : SubSeq(s, a + 1, a + n)[i] = s[a + i]
<1>1. Len(s) \in Nat /\ \A i \in 1 .. n : a + i \in 1 .. Len(s) /\ (a + 1) + i - 1 = a + i
  OBVIOUS
<1>2. (a + n) - (a + 1) + 1 = n
  OBVIOUS
<1>3. \A i \in 1 .. n : s[a + i] \in S
  BY <1>1
<1> DEFINE q == [i \in 1 .. n |-> s[a + i]]
<1>4. q \in Seq(S) /\ Len(q) = n
  BY <1>3
<1>5. SubSeq(s, a + 1, a + n) = q
  BY <1>1, <1>2
<1> QED
  BY <1>4, <1>5

(* What follows, and what goes before. *)
LEMMA SliceBehind ==
  ASSUME NEW S, NEW p \in Seq(S), NEW q \in Seq(S), NEW m \in Nat, m = Len(p \o q)
  PROVE  SubSeq(p \o q, Len(p) + 1, m) = q
<1> DEFINE w == p \o q
<1>1. /\ w \in Seq(S) /\ Len(w) = Len(p) + Len(q) /\ Len(p) \in Nat /\ Len(q) \in Nat
      /\ \A i \in 1 .. Len(q) : w[Len(p) + i] = q[i]
  BY PastFirst
<1> DEFINE r == SubSeq(w, Len(p) + 1, Len(p) + Len(q))
<1>2. m = Len(p) + Len(q)
  BY <1>1
<1> HIDE DEF w
<1>3. /\ r \in Seq(S) /\ Len(r) = Len(q)
      /\ \A i \in 1 .. Len(q) : r[i] = w[Len(p) + i]
  BY <1>1, SliceOK
<1> HIDE DEF r
<1>4. \A i \in 1 .. Len(r) : r[i] = q[i]
  BY <1>1, <1>3
<1>5. r = q
  BY <1>3, <1>4, SeqEqual
<1> QED
  BY <1>2, <1>5 DEF r, w

LEMMA SliceNext ==
  ASSUME NEW S, NEW s \in Seq(S), NEW a \in Nat, NEW n \in Nat, a + n <= Len(s)
  PROVE  SubSeq(s, 1, a) \o SubSeq(s, a + 1, a + n) = SubSeq(s, 1, a + n)
<1> DEFINE p == SubSeq(s, 1, a)
           q == SubSeq(s, a + 1, a + n)
           r == SubSeq(s, 1, a + n)
<1>1. a \in 0 .. Len(s) /\ a + n \in 0 .. Len(s)
  OBVIOUS
<1>2. /\ p \in Seq(S) /\ Len(p) = a /\ \A i \in 1 .. a : p[i] = s[i]
      /\ r \in Seq(S) /\ Len(r) = a + n /\ \A i \in 1 .. a + n : r[i] = s[i]
  <2>1. p \in Seq(S) /\ Len(p) = a /\ \A i \in 1 .. a : p[i] = s[i]
    BY <1>1, FirstOf
  <2> DEFINE m == a + n
  <2>2. m \in 0 .. Len(s)
    BY <1>1
  <2> HIDE DEF m
  <2>3. LET f == SubSeq(s, 1, m) IN f \in Seq(S) /\ Len(f) = m /\ \A i \in 1 .. m : f[i] = s[i]
    BY <2>2, FirstOf
  <2> QED
    BY <2>1, <2>3 DEF m
<1>3. q \in Seq(S) /\ Len(q) = n /\ \A i \in 1 .. n : q[i] = s[a + i]
  BY SliceOK
<1> HIDE DEF p, q, r
<1>4. Len(r) = Len(p) + Len(q)
  BY <1>2, <1>3
<1>5. \A k \in 1 .. Len(p) : r[k] = p[k]
  BY <1>2
<1>6. ASSUME NEW k \in 1 .. Len(q) PROVE r[Len(p) + k] = q[k]
  <2>1. k \in 1 .. n /\ a + k \in 1 .. a + n
    BY <1>3
  <2> QED
    BY <1>2, <1>3, <2>1
<1>7. r = p \o q
  BY <1>2, <1>3, <1>4, <1>5, <1>6, JoinIs
<1> QED
  BY <1>7 DEF p, q, r

LEMMA FilesOK == \A s \in Files : s \in Seq(Bytes)
BY ChunksAssumption

(* A round of either loop takes a byte or more, and none behind the size.  *)
LEMMA PieceOK ==
  ASSUME at \in Nat, me.data_size \in Nat, More
  PROVE  /\ Piece \in Nat /\ Piece >= 1 /\ Piece <= MaxChunk /\ at + Piece <= me.data_size
         /\ Piece = MaxChunk \/ at + Piece = me.data_size
<1> DEFINE rest == me.data_size - at
<1>1. rest \in Nat /\ rest >= 1 /\ at + rest = me.data_size
  BY DEF More
<1>2. MaxChunk \in Nat /\ MaxChunk >= 1
  BY ChunksAssumption
<1> HIDE DEF rest
<1>3. Min({MaxChunk, rest}) = IF MaxChunk <= rest THEN MaxChunk ELSE rest
  BY <1>1, <1>2, MinPair
<1>4. Piece = IF MaxChunk <= rest THEN MaxChunk ELSE rest
  BY <1>3 DEF Piece, rest
<1> QED
  BY <1>1, <1>2, <1>4
(* What the decoders make of any chunk is bytes. *)
LEMMA HuffmanOut ==
  ASSUME NEW c \in ChunkSet
  PROVE  HuffmanDecoded(c).out \in Seq(Bytes)
<1>1. c.bits \in Seq({0, 1})
  BY ChunkFields
<1>2. PICK f \in [0 .. Len(c.bits) -> States] :
        HuffmanDecoded(c) =
          [ok |-> Rebuilt(c.lengths) /\ f[Len(c.bits)].ok /\ Len(f[Len(c.bits)].out) = c.orig_size,
           out |-> f[Len(c.bits)].out]
  BY <1>1, HuffmanDecodes
<1>3. f[Len(c.bits)] \in States
  BY <1>1
<1>4. HuffmanDecoded(c).out = f[Len(c.bits)].out
  BY <1>2
<1> QED
  BY <1>3, <1>4 DEF States

LEMMA RleOut ==
  ASSUME NEW s \in Seq(Bytes)
  PROVE  RleDecoded(s).out \in Seq(Bytes) /\ Len(RleDecoded(s).out) \in Nat
<1>1. PICK f \in [1 .. Len(s) + 1 -> RleResults] : RleDecoded(s) = f[1]
  BY RleDecodes
<1>2. 1 \in 1 .. Len(s) + 1
  OBVIOUS
<1>3. RleDecoded(s) \in RleResults
  BY <1>1, <1>2
<1> QED
  BY <1>3 DEF RleResults

LEMMA UnpackedOut ==
  ASSUME NEW c \in ChunkSet, NEW s \in Seq(Bytes), c.primary_index < Len(s)
  PROVE  Unpacked(c, s) \in Seq(Bytes)
<1>1. MtfDecoded(s) \in Seq(Bytes) /\ Len(MtfDecoded(s)) = Len(s)
  BY MtfDecodes
<1>2. c.primary_index \in 0 .. Len(MtfDecoded(s)) - 1
  BY <1>1, ChunkFields
<1> QED
  BY <1>1, <1>2, BwtDecodes DEF Unpacked

LEMMA SumsWords ==
  /\ BRA_CRC32C_INIT \in Words
  /\ \A s \in Seq(Bytes), w \in Words : Crc(Summed(s), w) \in Words
  /\ \A n \in Nat, w \in Words : Crc(LittleEndian(n, 8), w) \in Words
  /\ \A c \in ChunkSet, w \in Words : Crc(HeaderOctets(c), w) \in Words
<1>1. BRA_CRC32C_INIT \in Words
  BY DEF BRA_CRC32C_INIT, Words
<1>2. ASSUME NEW s \in Seq(Bytes), NEW w \in Words PROVE Crc(Summed(s), w) \in Words
  BY BytesWords, TableWord DEF Crc, Summed
<1>3. ASSUME NEW n \in Nat, NEW w \in Words PROVE Crc(LittleEndian(n, 8), w) \in Words
  <2>1. LittleEndian(n, 8) \in Seq(OctetWords)
    BY LittleEndianOK
  <2> QED
    BY <2>1, TableWord DEF Crc
<1>4. ASSUME NEW c \in ChunkSet, NEW w \in Words PROVE Crc(HeaderOctets(c), w) \in Words
  BY HeaderOctetsOK, TableWord DEF Crc
<1> QED
  BY <1>1, <1>2, <1>3, <1>4

----------------------------------------------------------------------------
(* Types.  A chunk is only found where one begins, so that where the       *)
(* reader is belongs to them.                                              *)
Comps == {"stored", "compressed"}
MeSet == [comp : Comps, data_size : Nat, crc32 : Words]
EntrySet ==
  [comp : Comps, data_size : Nat, data : Seq(Bytes) \union Seq(ChunkSet), crc32 : Words]

Ended == {"sealed", "reading", "accepted", "listed", "refused"}
Stages == {"new", "flush", "stored", "compressed", "crc", "failed"} \union Ended

TypeOfSource == source \in Files /\ changed \in SUBSET {"source", "archive"} /\ stage \in Stages
TypeOfMe == me \in MeSet /\ at \in Nat
TypeOfWriter ==
  /\ g_buf \in Seq(Bytes) /\ buf_rle \in Seq(Bytes)
  /\ chunk \in ChunkSet \union {NoChunk} /\ crc32 \in Words
  /\ tmpfile \in Seq(ChunkSet) /\ kept \in Seq(Bytes)
TypeOfEntry ==
  /\ entry \in EntrySet
  /\ entry.comp = "stored" => entry.data \in Seq(Bytes)
  /\ entry.comp = "compressed" => entry.data \in Seq(ChunkSet)
TypeOfReader == decode \in BOOLEAN /\ file_orig_size \in Nat /\ out \in Seq(Bytes)

Types == TypeOfSource /\ TypeOfMe /\ TypeOfWriter /\ TypeOfEntry /\ TypeOfReader

AtAChunk == \E m \in 0 .. Len(entry.data) : at = SizeAt(entry.data, m)

StoredSoFar ==
  Len(entry.data) = at /\ entry.data_size = me.data_size /\ at <= me.data_size

Places ==
  /\ stage \in {"stored", "compressed"} => me.comp = stage /\ entry.comp = stage
  /\ stage = "stored" => StoredSoFar
  /\ stage \in Ended \union {"crc"} /\ entry.comp = "stored" => Len(entry.data) = entry.data_size
  /\ stage = "crc" /\ entry.comp = "compressed" => entry.data_size = FileSize(entry.data)
  /\ stage \in Ended /\ entry.comp = "compressed" => entry.data_size = FileSize(entry.data)
  /\ stage = "reading" => /\ me.comp = entry.comp /\ me.data_size = entry.data_size
                          /\ me.comp = "compressed" => AtAChunk

TypesAndPlaces == Types /\ Places

LEMMA MeIs ==
  ASSUME NEW d \in MeSet
  PROVE  /\ d.comp \in Comps /\ d.data_size \in Nat /\ d.crc32 \in Words
         /\ \A c \in Comps : [d EXCEPT !.comp = c] \in MeSet
         /\ \A n \in Nat : [d EXCEPT !.data_size = n] \in MeSet
         /\ \A w \in Words : [d EXCEPT !.crc32 = w] \in MeSet
         /\ \A n \in Nat, w \in Words : [d EXCEPT !.data_size = n, !.crc32 = w] \in MeSet
         /\ \A c \in Comps, n \in Nat : [d EXCEPT !.comp = c, !.data_size = n] \in MeSet
BY DEF MeSet

LEMMA TypesInit == Init => TypesAndPlaces
<1> SUFFICES ASSUME Init PROVE TypesAndPlaces
  OBVIOUS
<1>1. BRA_CRC32C_INIT \in Words
  BY SumsWords
<1>2. <<>> \in Seq(Bytes) /\ <<>> \in Seq(ChunkSet)
  OBVIOUS
<1>3. TypeOfSource
  BY DEF Init, TypeOfSource, Stages
<1>4. TypeOfMe
  BY <1>1 DEF Init, TypeOfMe, MeSet, Comps
<1>5. TypeOfWriter
  BY <1>1, <1>2 DEF Init, TypeOfWriter
<1>6. TypeOfEntry
  BY <1>1, <1>2 DEF Init, TypeOfEntry, EntrySet, Comps
<1>7. TypeOfReader
  BY <1>2 DEF Init, TypeOfReader
<1>8. Places
  BY DEF Init, Places, Ended
<1> QED
  BY <1>3, <1>4, <1>5, <1>6, <1>7, <1>8 DEF TypesAndPlaces, Types
LEMMA EntryIs ==
  ASSUME NEW d \in EntrySet
  PROVE  /\ d.comp \in Comps /\ d.data_size \in Nat /\ d.crc32 \in Words
         /\ \A w \in Words : [d EXCEPT !.crc32 = w] \in EntrySet
         /\ \A n \in Nat, q \in Seq(Bytes) \union Seq(ChunkSet) :
              [d EXCEPT !.data_size = n, !.data = q] \in EntrySet
         /\ \A q \in Seq(Bytes) \union Seq(ChunkSet) : [d EXCEPT !.data = q] \in EntrySet
         /\ \A c \in Comps, n \in Nat, q \in Seq(Bytes) \union Seq(ChunkSet) :
              [d EXCEPT !.comp = c, !.data_size = n, !.data = q] \in EntrySet
BY DEF EntrySet

LEMMA TakeSizeTypes ==
  ASSUME TypesAndPlaces, TakeSize
  PROVE  TypesAndPlaces'
<1> USE DEF TypesAndPlaces, Types, TakeSize, wvars, rvars
<1>1. Len(source) \in Nat
  BY FilesOK DEF TypeOfSource
<1>2. TypeOfSource'
  BY DEF TypeOfSource, Stages
<1>3. TypeOfMe'
  <2>1. PICK comp \in Comps : me' = [me EXCEPT !.comp = comp, !.data_size = Len(source)]
    BY DEF Comps
  <2>2. me' \in MeSet
    BY <1>1, <2>1 DEF TypeOfMe, MeSet
  <2> QED
    BY <2>2 DEF TypeOfMe
<1>4. TypeOfWriter' /\ TypeOfEntry' /\ TypeOfReader'
  BY DEF TypeOfWriter, TypeOfEntry, TypeOfReader
<1>5. Places'
  BY DEF Places, Ended
<1> QED
  BY <1>2, <1>3, <1>4, <1>5

LEMMA FlushTypes ==
  ASSUME TypesAndPlaces, FlushEntry
  PROVE  TypesAndPlaces'
<1> USE DEF TypesAndPlaces, Types, FlushEntry, Flush, rvars
<1>1. <<>> \in Seq(Bytes) /\ <<>> \in Seq(ChunkSet)
  OBVIOUS
<1>2. TypeOfSource'
  BY MeIs DEF TypeOfSource, TypeOfMe, Stages, Comps
<1>3. TypeOfMe'
  <2>1. NameSum(me.comp) \in Words
    BY NameWord
  <2>2. Crc(LittleEndian(me.data_size, 8), NameSum(me.comp)) \in Words
    BY <2>1, SumsWords, MeIs DEF TypeOfMe
  <2> QED
    BY <2>1, <2>2, MeIs DEF TypeOfMe
<1>4. TypeOfWriter'
  BY <1>1, SumsWords DEF TypeOfWriter
<1>5. TypeOfEntry'
  <2>1. me.comp \in Comps /\ me.data_size \in Nat
    BY MeIs DEF TypeOfMe
  <2>2. entry' \in EntrySet
    BY <1>1, <2>1, EntryIs DEF TypeOfEntry
  <2>3. entry'.data = <<>>
    BY DEF TypeOfEntry, EntrySet
  <2> QED
    BY <1>1, <2>2, <2>3 DEF TypeOfEntry
<1>6. TypeOfReader'
  BY DEF TypeOfReader
<1>7. Places'
  <2>1. me'.comp = me.comp /\ entry'.comp = me.comp /\ me.comp \in Comps
    BY MeIs DEF TypeOfMe, TypeOfEntry, MeSet, EntrySet
  <2>2. /\ entry'.data = <<>> /\ entry'.data_size = me.data_size
        /\ me'.data_size = me.data_size /\ me.data_size \in Nat /\ at' = 0
    BY MeIs DEF TypeOfMe, TypeOfEntry, MeSet, EntrySet
  <2>3. StoredSoFar'
    BY <2>2 DEF StoredSoFar
  <2> QED
    BY <2>1, <2>3 DEF Places, Ended, Comps
<1> QED
  BY <1>2, <1>3, <1>4, <1>5, <1>6, <1>7

LEMMA ShortReadTypes ==
  ASSUME TypesAndPlaces, ShortRead
  PROVE  TypesAndPlaces'
<1> USE DEF TypesAndPlaces, Types, ShortRead, wvars, rvars
<1>1. TypeOfSource'
  BY DEF TypeOfSource, Stages
<1>2. TypeOfMe' /\ TypeOfWriter' /\ TypeOfEntry' /\ TypeOfReader'
  BY DEF TypeOfMe, TypeOfWriter, TypeOfEntry, TypeOfReader
<1>3. Places'
  BY DEF Places, Ended
<1> QED
  BY <1>1, <1>2, <1>3

(* A round of compress_file, all of it. *)
Compressed(b) ==
  /\ b = SubSeq(source, at + 1, at + Len(b)) /\ b \in Seq(Bytes) /\ Len(b) \in Nat
  /\ Len(b) = Piece /\ at + Len(b) <= Len(source)
  /\ g_buf' = MtfEncoded(LastColumn(b)) /\ buf_rle' = RleOf(b)
  /\ StandsFor(chunk', b)
  /\ crc32' = bra_crc32c_combine(Crc(HeaderOctets(chunk'), crc32),
                                 Crc(Summed(b), BRA_CRC32C_INIT), Len(b))
  /\ tmpfile' = Append(tmpfile, chunk') /\ kept' = kept \o b
  /\ at' = at + Len(b)

LEMMA CompressDoes ==
  ASSUME TypesAndPlaces, CompressChunk
  PROVE  \E b : Compressed(b)
<1> DEFINE b == SubSeq(source, at + 1, at + Piece)
           h == HuffmanEncoded(RleOf(b))
<1>1. at \in Nat /\ me.data_size \in Nat /\ More /\ at + Piece <= Len(source) /\ source \in Seq(Bytes)
  <2>1. Len(source) >= at + Piece /\ More
    BY DEF CompressChunk
  <2>2. source \in Seq(Bytes)
    BY FilesOK DEF TypesAndPlaces, Types, TypeOfSource
  <2>3. at \in Nat /\ me.data_size \in Nat
    BY MeIs DEF TypesAndPlaces, Types, TypeOfMe
  <2>4. Piece \in Nat /\ Len(source) \in Nat
    BY <2>1, <2>2, <2>3, PieceOK
  <2> QED
    BY <2>1, <2>2, <2>3, <2>4
<1>2. Piece \in Nat /\ Piece >= 1
  BY <1>1, PieceOK
<1>3. b \in Seq(Bytes) /\ Len(b) = Piece /\ Len(b) > 0
  BY <1>1, <1>2, SliceOK
<1>4. g_buf' = MtfEncoded(LastColumn(b)) /\ buf_rle' = RleOf(b)
  BY DEF CompressChunk, RleOf
<1>5. PICK p \in PrimaryIndices(b) :
        chunk' = [primary_index |-> p, lengths |-> h.lengths, orig_size |-> h.orig_size,
                  encoded_size |-> h.encoded_size, bits |-> h.bits]
  BY DEF CompressChunk, RleOf
<1>6. /\ crc32' = bra_crc32c_combine(Crc(HeaderOctets(chunk'), crc32),
                                     Crc(Summed(b), BRA_CRC32C_INIT), Piece)
      /\ tmpfile' = Append(tmpfile, chunk') /\ kept' = kept \o b /\ at' = at + Piece
  BY DEF CompressChunk
<1>7. b = SubSeq(source, at + 1, at + Piece)
  OBVIOUS
<1> HIDE DEF b
<1>8. StandsFor(chunk', b)
  <2> HIDE DEF h
  <2>1. h = HuffmanEncoded(RleOf(b))
    BY DEF h
  <2> QED
    BY <1>3, <1>5, <2>1, ChunkMade
<1>9. Compressed(b)
  BY <1>1, <1>2, <1>3, <1>4, <1>6, <1>7, <1>8 DEF Compressed
<1> QED
  BY <1>9
LEMMA CompressTypes ==
  ASSUME TypesAndPlaces, CompressChunk
  PROVE  TypesAndPlaces'
<1> USE DEF TypesAndPlaces, Types
<1>1. PICK b : Compressed(b)
  BY CompressDoes
<1>2. UNCHANGED <<source, changed, stage, me, entry, decode, file_orig_size, out>>
  BY DEF CompressChunk, rvars
<1>3. TypeOfSource' /\ TypeOfEntry' /\ TypeOfReader'
  BY <1>2 DEF TypeOfSource, TypeOfEntry, TypeOfReader
<1>4. TypeOfMe'
  BY <1>1, <1>2 DEF TypeOfMe, Compressed
<1>5. TypeOfWriter'
  <2>1. b \in Seq(Bytes) /\ Len(b) \in Nat /\ StandsFor(chunk', b)
    BY <1>1 DEF Compressed
  <2>2. chunk' \in ChunkSet
    BY <2>1 DEF StandsFor, Codes
  <2>3. g_buf' \in Seq(Bytes) /\ buf_rle' \in Seq(Bytes)
    BY <1>1, <2>1, RleOfOK DEF Compressed
  <2>4. crc32' \in Words
    <3>1. Crc(HeaderOctets(chunk'), crc32) \in Words /\ Crc(Summed(b), BRA_CRC32C_INIT) \in Words
      BY <2>1, <2>2, SumsWords DEF TypeOfWriter
    <3> QED
      BY <1>1, <2>1, <3>1, CombineWord DEF Compressed
  <2>5. tmpfile' \in Seq(ChunkSet) /\ kept' \in Seq(Bytes)
    BY <1>1, <2>1, <2>2 DEF Compressed, TypeOfWriter
  <2> QED
    BY <2>2, <2>3, <2>4, <2>5 DEF TypeOfWriter
<1>6. Places'
  <2>1. stage = "compressed"
    BY DEF CompressChunk
  <2> QED
    BY <1>2, <2>1 DEF Places, Ended
<1> QED
  BY <1>3, <1>4, <1>5, <1>6

LEMMA SummedLengthOK ==
  ASSUME NEW n \in Nat
  PROVE  SummedLength(n) \in Nat /\ SummedLength(n) >= n
<1> DEFINE chunks == (n + MaxChunk - 1) \div MaxChunk
<1>1. chunks \in Nat
  <2>1. MaxChunk \in Nat /\ MaxChunk > 0 /\ n + MaxChunk - 1 \in Nat
    BY ChunksAssumption
  <2> HIDE DEF chunks
  <2> QED
    BY <2>1, DivTwo DEF chunks
<1>2. sizeof_chunk_header \in Nat
  BY BytesBytewise DEF sizeof_chunk_header
<1>3. SummedLength(n) = n + chunks * sizeof_chunk_header
  BY DEF SummedLength
<1> HIDE DEF chunks
<1>4. chunks * sizeof_chunk_header \in Nat
  BY <1>1, <1>2
<1> QED
  BY <1>3, <1>4

LEMMA KeepTypes ==
  ASSUME TypesAndPlaces, KeepCompressed
  PROVE  TypesAndPlaces'
<1> USE DEF TypesAndPlaces, Types
<1> DEFINE size == FileSize(tmpfile)
           sum == bra_crc32c_combine(Crc(LittleEndian(size, 8), me.crc32), crc32,
                                     SummedLength(me.data_size))
<1>1. /\ stage = "compressed" /\ stage' = "crc"
      /\ me' = [me EXCEPT !.data_size = size, !.crc32 = sum]
      /\ entry' = [entry EXCEPT !.data_size = size, !.data = tmpfile]
      /\ UNCHANGED <<source, changed, g_buf, buf_rle, chunk, crc32, tmpfile, kept,
                     decode, file_orig_size, out, at>>
  BY DEF KeepCompressed, wvars, rvars
<1>2. tmpfile \in Seq(ChunkSet) /\ me \in MeSet /\ crc32 \in Words /\ at \in Nat /\ entry \in EntrySet
  BY DEF TypeOfWriter, TypeOfMe, TypeOfEntry
<1>3. size \in Nat
  <2>1. Len(tmpfile) \in 0 .. Len(tmpfile)
    BY <1>2
  <2> QED
    BY <1>2, <2>1, SizeAtOK
<1>4. sum \in Words
  <2>1. Crc(LittleEndian(size, 8), me.crc32) \in Words
    BY <1>2, <1>3, MeIs, SumsWords
  <2>2. SummedLength(me.data_size) \in Nat
    BY <1>2, MeIs, SummedLengthOK
  <2> QED
    BY <1>2, <2>1, <2>2, CombineWord
<1> HIDE DEF size, sum
<1>5. TypeOfSource'
  BY <1>1 DEF TypeOfSource, Stages
<1>6. TypeOfMe'
  <2>1. me' \in MeSet
    BY <1>1, <1>2, <1>3, <1>4 DEF MeSet
  <2> QED
    BY <1>1, <1>2, <2>1 DEF TypeOfMe
<1>7. TypeOfWriter' /\ TypeOfReader'
  BY <1>1 DEF TypeOfWriter, TypeOfReader
<1>8. entry'.comp = "compressed" /\ entry'.data = tmpfile /\ entry'.data_size = size
  <2>1. entry.comp = "compressed"
    BY <1>1 DEF Places
  <2> QED
    BY <1>1, <1>2, <2>1 DEF EntrySet
<1>9. TypeOfEntry'
  <2>1. entry' \in EntrySet
    BY <1>1, <1>2, <1>3 DEF EntrySet
  <2> QED
    BY <1>2, <1>8, <2>1 DEF TypeOfEntry
<1>10. Places'
  BY <1>1, <1>8 DEF Places, Ended, size
<1> QED
  BY <1>5, <1>6, <1>7, <1>9, <1>10

LEMMA FallBackTypes ==
  ASSUME TypesAndPlaces, FallBack
  PROVE  TypesAndPlaces'
<1> USE DEF TypesAndPlaces, Types, FallBack, wvars, rvars
<1>1. TypeOfSource'
  BY DEF TypeOfSource, Stages
<1>2. TypeOfMe'
  <2>1. me' \in MeSet
    BY DEF TypeOfMe, MeSet, Comps
  <2> QED
    BY <2>1 DEF TypeOfMe
<1>3. TypeOfWriter' /\ TypeOfEntry' /\ TypeOfReader'
  BY DEF TypeOfWriter, TypeOfEntry, TypeOfReader
<1>4. Places'
  BY DEF Places, Ended
<1> QED
  BY <1>1, <1>2, <1>3, <1>4

(* A round of copy_file out of the source, all of it. *)
Stored(b) ==
  /\ b = SubSeq(source, at + 1, at + Len(b)) /\ b \in Seq(Bytes) /\ Len(b) \in Nat
  /\ Len(b) = Piece /\ at + Len(b) <= Len(source)
  /\ me' = [me EXCEPT !.crc32 = Crc(Summed(b), me.crc32)]
  /\ entry' = [entry EXCEPT !.data = entry.data \o b]
  /\ kept' = kept \o b /\ at' = at + Len(b)

LEMMA StoreDoes ==
  ASSUME TypesAndPlaces, StoreChunk
  PROVE  \E b : Stored(b)
<1> DEFINE b == SubSeq(source, at + 1, at + Piece)
<1>1. at \in Nat /\ me.data_size \in Nat /\ More /\ at + Piece <= Len(source) /\ source \in Seq(Bytes)
  <2>1. Len(source) >= at + Piece /\ More
    BY DEF StoreChunk
  <2>2. source \in Seq(Bytes)
    BY FilesOK DEF TypesAndPlaces, Types, TypeOfSource
  <2>3. at \in Nat /\ me.data_size \in Nat
    BY MeIs DEF TypesAndPlaces, Types, TypeOfMe
  <2>4. Piece \in Nat /\ Len(source) \in Nat
    BY <2>1, <2>2, <2>3, PieceOK
  <2> QED
    BY <2>1, <2>2, <2>3, <2>4
<1>2. Piece \in Nat /\ Piece >= 1
  BY <1>1, PieceOK
<1>3. b \in Seq(Bytes) /\ Len(b) = Piece
  BY <1>1, <1>2, SliceOK
<1>4. /\ me' = [me EXCEPT !.crc32 = Crc(Summed(b), me.crc32)]
      /\ entry' = [entry EXCEPT !.data = entry.data \o b]
      /\ kept' = kept \o b /\ at' = at + Piece
  BY DEF StoreChunk
<1>5. b = SubSeq(source, at + 1, at + Piece)
  OBVIOUS
<1> HIDE DEF b
<1>6. Stored(b)
  BY <1>1, <1>2, <1>3, <1>4, <1>5 DEF Stored
<1> QED
  BY <1>6

LEMMA StoreTypes ==
  ASSUME TypesAndPlaces, StoreChunk
  PROVE  TypesAndPlaces'
<1> USE DEF TypesAndPlaces, Types
<1>1. PICK b : Stored(b)
  BY StoreDoes
<1>2. /\ stage = "stored"
      /\ UNCHANGED <<source, changed, stage, g_buf, buf_rle, chunk, crc32, tmpfile,
                     decode, file_orig_size, out>>
  BY DEF StoreChunk, rvars
<1>3. b \in Seq(Bytes) /\ Len(b) \in Nat
  BY <1>1 DEF Stored
<1>4. TypeOfSource' /\ TypeOfReader'
  BY <1>2 DEF TypeOfSource, TypeOfReader
<1>5. TypeOfMe'
  <2>1. Crc(Summed(b), me.crc32) \in Words /\ me \in MeSet /\ at \in Nat
    BY <1>3, SumsWords, MeIs DEF TypeOfMe
  <2>2. me' \in MeSet
    BY <1>1, <2>1 DEF Stored, MeSet
  <2>3. at' \in Nat
    BY <1>1, <1>3, <2>1 DEF Stored
  <2> QED
    BY <2>2, <2>3 DEF TypeOfMe
<1>6. TypeOfWriter'
  BY <1>1, <1>2, <1>3 DEF TypeOfWriter, Stored
<1>7. TypeOfEntry' /\ entry'.comp = "stored"
  <2>1. entry.comp = "stored" /\ entry \in EntrySet
    BY <1>2 DEF Places, TypeOfEntry
  <2>2. entry.data \o b \in Seq(Bytes)
    BY <1>3, <2>1 DEF TypeOfEntry
  <2>3. entry' \in EntrySet /\ entry'.comp = "stored" /\ entry'.data = entry.data \o b
    BY <1>1, <2>1, <2>2 DEF Stored, EntrySet
  <2> QED
    BY <2>2, <2>3 DEF TypeOfEntry
<1>8. Places'
  <2>1. me'.comp = me.comp /\ me'.data_size = me.data_size
    BY <1>1 DEF Stored, TypeOfMe, MeSet
  <2>2. at \in Nat /\ me.data_size \in Nat /\ More
    BY MeIs DEF TypeOfMe, StoreChunk
  <2>3. at' = at + Len(b) /\ at + Len(b) <= me.data_size
    BY <1>1, <2>2, PieceOK DEF Stored
  <2>4. /\ entry'.data = entry.data \o b /\ entry'.data_size = entry.data_size
        /\ entry.data \in Seq(Bytes)
    BY <1>1, <1>2 DEF Stored, TypeOfEntry, EntrySet, Places
  <2>5. Len(entry'.data) = Len(entry.data) + Len(b)
    BY <1>3, <2>4
  <2>6. StoredSoFar
    BY <1>2 DEF Places
  <2>7. StoredSoFar'
    BY <2>1, <2>3, <2>4, <2>5, <2>6 DEF StoredSoFar
  <2> QED
    BY <1>2, <1>7, <2>1, <2>7 DEF Places, Ended
<1> QED
  BY <1>4, <1>5, <1>6, <1>7, <1>8

LEMMA EndTypes ==
  ASSUME TypesAndPlaces, StoreEnd \/ WriteCrc
  PROVE  TypesAndPlaces'
<1> USE DEF TypesAndPlaces, Types
<1>1. CASE StoreEnd
  <2> USE DEF StoreEnd, wvars, rvars
  <2>1. TypeOfSource'
    BY <1>1 DEF TypeOfSource, Stages
  <2>2. TypeOfMe' /\ TypeOfWriter' /\ TypeOfEntry' /\ TypeOfReader'
    BY <1>1 DEF TypeOfMe, TypeOfWriter, TypeOfEntry, TypeOfReader
  <2>3. Len(entry.data) = entry.data_size
    <3>1. StoredSoFar /\ ~More
      BY <1>1 DEF Places
    <3>2. at \in Nat /\ me.data_size \in Nat
      BY MeIs DEF TypeOfMe
    <3> QED
      BY <3>1, <3>2 DEF StoredSoFar, More
  <2>4. Places'
    BY <1>1, <2>3 DEF Places, Ended
  <2> QED
    BY <2>1, <2>2, <2>4
<1>2. CASE WriteCrc
  <2> USE DEF WriteCrc, wvars, rvars
  <2>1. TypeOfSource'
    BY <1>2 DEF TypeOfSource, Stages, Ended
  <2>2. TypeOfMe' /\ TypeOfWriter' /\ TypeOfReader'
    BY <1>2 DEF TypeOfMe, TypeOfWriter, TypeOfReader
  <2>3. /\ entry' \in EntrySet /\ entry'.comp = entry.comp /\ entry'.data = entry.data
        /\ entry'.data_size = entry.data_size
    BY <1>2, MeIs DEF TypeOfEntry, TypeOfMe, EntrySet
  <2>4. TypeOfEntry'
    BY <2>3 DEF TypeOfEntry
  <2>5. Places'
    BY <1>2, <2>3 DEF Places, Ended
  <2> QED
    BY <2>1, <2>2, <2>4, <2>5
<1> QED
  BY <1>1, <1>2
LEMMA ChangeTypes ==
  ASSUME TypesAndPlaces, Change
  PROVE  TypesAndPlaces'
<1> USE DEF TypesAndPlaces, Types, Change, wvars, rvars
<1>1. TypeOfSource'
  BY ChunksAssumption DEF TypeOfSource, Stages
<1>2. TypeOfMe' /\ TypeOfWriter' /\ TypeOfEntry' /\ TypeOfReader'
  BY DEF TypeOfMe, TypeOfWriter, TypeOfEntry, TypeOfReader
<1>3. Places'
  BY DEF Places, Ended, StoredSoFar
<1> QED
  BY <1>1, <1>2, <1>3

(* Chunks that differ in their indices only, and lie in the same places. *)
Redone(d, data) ==
  /\ d \in Seq(ChunkSet) /\ Len(d) = Len(data)
  /\ \A k \in 1 .. Len(data) : SameButIndex(d[k], data[k])

LEMMA SameSizes ==
  ASSUME NEW data \in Seq(ChunkSet), NEW d, Redone(d, data)
  PROVE  /\ FileSize(d) = FileSize(data)
         /\ \A k \in 0 .. Len(data) : SizeAt(d, k) = SizeAt(data, k)
<1>1. d \in Seq(ChunkSet) /\ Len(d) = Len(data) /\ Len(data) \in Nat
  BY DEF Redone
<1>2. PICK S : /\ Sized(S, data)
               /\ \A k \in 0 .. Len(data) : SizeAt(data, k) = S[k]
  BY SizesAre
<1>3. PICK T : /\ Sized(T, d)
               /\ \A k \in 0 .. Len(d) : SizeAt(d, k) = T[k]
  BY <1>1, SizesAre
<1>4. ASSUME NEW k \in 0 .. Len(data) PROVE SizeAt(d, k) = SizeAt(data, k)
  <2>1. \A j \in 1 .. k : d[j].encoded_size = data[j].encoded_size
    BY <1>1 DEF Redone, SameButIndex
  <2>2. k \in Nat /\ k <= Len(d) /\ k <= Len(data) /\ Len(d) \in Nat
    BY <1>1
  <2>3. T[k] = S[k]
    BY <1>1, <1>2, <1>3, <2>1, <2>2, SizedSame
  <2> QED
    BY <1>1, <1>2, <1>3, <2>3
<1>5. FileSize(d) = FileSize(data)
  <2>1. SizeAt(d, Len(d)) = FileSize(d) /\ SizeAt(data, Len(data)) = FileSize(data)
    BY <1>1, SizeAtOK
  <2>2. Len(data) \in 0 .. Len(data)
    BY <1>1
  <2> QED
    BY <1>1, <1>4, <2>1, <2>2
<1> QED
  BY <1>4, <1>5

LEMMA IndexSet ==
  ASSUME NEW c \in ChunkSet, NEW p \in Nat
  PROVE  [c EXCEPT !.primary_index = p] \in ChunkSet /\ SameButIndex([c EXCEPT !.primary_index = p], c)
BY DEF ChunkSet, SameButIndex

(* A byte of the archive has changed. *)
ByteChanged ==
  \E i \in 1 .. Len(entry.data), b \in Bytes :
    b # entry.data[i] /\ entry' = [entry EXCEPT !.data = [entry.data EXCEPT ![i] = b]]
IndexChanged == \E d : Redone(d, entry.data) /\ entry' = [entry EXCEPT !.data = d]

LEMMA DamageDoes ==
  ASSUME TypesAndPlaces, Damage
  PROVE  /\ stage = "sealed" /\ "archive" \notin changed
         /\ changed' = changed \union {"archive"}
         /\ UNCHANGED <<source, stage, me, at, g_buf, buf_rle, chunk, crc32, tmpfile, kept,
                        decode, file_orig_size, out>>
         /\ \/ entry.comp = "stored" /\ ByteChanged
            \/ entry.comp = "compressed" /\ IndexChanged
<1>1. /\ stage = "sealed" /\ "archive" \notin changed
      /\ changed' = changed \union {"archive"}
      /\ UNCHANGED <<source, stage, me, at, g_buf, buf_rle, chunk, crc32, tmpfile, kept,
                     decode, file_orig_size, out>>
  BY DEF Damage, wvars, rvars
<1>2. /\ entry \in EntrySet
      /\ entry.comp = "stored" => entry.data \in Seq(Bytes)
      /\ entry.comp = "compressed" => entry.data \in Seq(ChunkSet)
  BY DEF TypesAndPlaces, Types, TypeOfEntry
<1>3. ASSUME entry.comp = "stored",
             NEW i \in DOMAIN entry.data, NEW b \in Bytes,
             b # entry.data[i], entry' = [entry EXCEPT !.data[i] = b]
      PROVE  ByteChanged
  <2>1. i \in 1 .. Len(entry.data)
    BY <1>2, <1>3
  <2>2. entry' = [entry EXCEPT !.data = [entry.data EXCEPT ![i] = b]]
    BY <1>3
  <2> QED
    BY <1>3, <2>1, <2>2 DEF ByteChanged
<1>4. ASSUME entry.comp = "compressed", entry.data # <<>>,
             NEW p \in 0 .. MaxChunk - 1, entry' = [entry EXCEPT !.data[1].primary_index = p]
      PROVE  IndexChanged
  <2> DEFINE data == entry.data
             c == [data[1] EXCEPT !.primary_index = p]
             d == [data EXCEPT ![1] = c]
  <2>1. data \in Seq(ChunkSet) /\ Len(data) \in Nat /\ 1 \in 1 .. Len(data) /\ data[1] \in ChunkSet
    BY <1>2, <1>4
  <2>2. entry' = [entry EXCEPT !.data = d]
    BY <1>4
  <2>3. c \in ChunkSet /\ SameButIndex(c, data[1])
    <3>1. p \in Nat
      BY ChunksAssumption
    <3> HIDE DEF data
    <3> QED
      BY <2>1, <3>1, IndexSet
  <2>4. SameButIndex(c, data[1])
    BY <2>3
  <2> HIDE DEF c, data
  <2>5. d \in Seq(ChunkSet) /\ Len(d) = Len(data)
    BY <2>1, <2>3
  <2>6. ASSUME NEW k \in 1 .. Len(data) PROVE SameButIndex(d[k], data[k])
    <3>1. d[k] = IF k = 1 THEN c ELSE data[k]
      BY <2>1
    <3> HIDE DEF d
    <3> QED
      BY <2>4, <3>1 DEF SameButIndex
  <2>7. Redone(d, data)
    BY <2>5, <2>6 DEF Redone
  <2> HIDE DEF d
  <2> QED
    BY <2>2, <2>7 DEF IndexChanged, data
<1>5. \/ entry.comp = "stored" /\ ByteChanged
      \/ entry.comp = "compressed" /\ IndexChanged
  <2>1. CASE entry.comp = "stored" /\ \E i \in DOMAIN entry.data, b \in Bytes :
               b # entry.data[i] /\ entry' = [entry EXCEPT !.data[i] = b]
    BY <1>3, <2>1
  <2>2. CASE entry.comp = "compressed" /\ entry.data # <<>> /\
               \E p \in 0 .. MaxChunk - 1 : entry' = [entry EXCEPT !.data[1].primary_index = p]
    BY <1>4, <2>2
  <2> QED
    BY <2>1, <2>2 DEF Damage
<1> QED
  BY <1>1, <1>5

LEMMA DamageTypes ==
  ASSUME TypesAndPlaces, Damage
  PROVE  TypesAndPlaces'
<1> USE DEF TypesAndPlaces, Types
<1>1. /\ stage = "sealed" /\ changed' = changed \union {"archive"}
      /\ UNCHANGED <<source, stage, me, at, g_buf, buf_rle, chunk, crc32, tmpfile, kept,
                     decode, file_orig_size, out>>
  BY DamageDoes
<1>2. TypeOfSource'
  BY <1>1 DEF TypeOfSource
<1>3. TypeOfMe' /\ TypeOfWriter' /\ TypeOfReader'
  BY <1>1 DEF TypeOfMe, TypeOfWriter, TypeOfReader
<1>4. CASE entry.comp = "stored" /\ ByteChanged
  <2>1. PICK i \in 1 .. Len(entry.data), b \in Bytes :
          entry' = [entry EXCEPT !.data = [entry.data EXCEPT ![i] = b]]
    BY <1>4 DEF ByteChanged
  <2> DEFINE d == [entry.data EXCEPT ![i] = b]
  <2>2. d \in Seq(Bytes) /\ entry \in EntrySet
    BY <1>4 DEF TypeOfEntry
  <2>3. entry' = [entry EXCEPT !.data = d]
    BY <2>1
  <2> HIDE DEF d
  <2>4. /\ entry' \in EntrySet /\ entry'.comp = "stored" /\ entry'.data = d
        /\ entry'.data_size = entry.data_size
    BY <1>4, <2>2, <2>3 DEF EntrySet
  <2>6. Len(d) = Len(entry.data)
    BY <1>4 DEF TypeOfEntry, d
  <2>7. Len(entry.data) = entry.data_size
    BY <1>1, <1>4 DEF Places, Ended
  <2>5. TypeOfEntry' /\ Places'
    BY <1>1, <2>2, <2>4, <2>6, <2>7 DEF TypeOfEntry, Places, Ended
  <2> QED
    BY <1>2, <1>3, <2>5
<1>5. CASE entry.comp = "compressed" /\ IndexChanged
  <2>1. PICK d : Redone(d, entry.data) /\ entry' = [entry EXCEPT !.data = d]
    BY <1>5 DEF IndexChanged
  <2>2. d \in Seq(ChunkSet) /\ entry \in EntrySet /\ entry.data \in Seq(ChunkSet)
    BY <1>5, <2>1 DEF TypeOfEntry, Redone
  <2>3. entry' \in EntrySet /\ entry'.comp = "compressed" /\ entry'.data = d
        /\ entry'.data_size = entry.data_size
    BY <1>5, <2>1, <2>2 DEF EntrySet
  <2>4. FileSize(d) = FileSize(entry.data)
    BY <2>1, <2>2, SameSizes
  <2>5. entry.data_size = FileSize(entry.data)
    BY <1>1, <1>5 DEF Places, Ended
  <2>6. TypeOfEntry'
    BY <2>2, <2>3 DEF TypeOfEntry
  <2>7. Places'
    BY <1>1, <2>3, <2>4, <2>5 DEF Places, Ended
  <2> QED
    BY <1>2, <1>3, <2>6, <2>7
<1> QED
  BY <1>4, <1>5, DamageDoes
----------------------------------------------------------------------------
(* The reader *)
LEMMA ReadEntryTypes ==
  ASSUME TypesAndPlaces, ReadEntry
  PROVE  TypesAndPlaces'
<1> USE DEF TypesAndPlaces, Types, ReadEntry, wvars
<1>1. TypeOfSource'
  BY DEF TypeOfSource, Stages, Ended
<1>2. entry \in EntrySet /\ entry.comp \in Comps /\ entry.data_size \in Nat
  BY EntryIs DEF TypeOfEntry
<1>3. TypeOfMe'
  <2> DEFINE w == IF decode' THEN Crc(LittleEndian(entry.data_size, 8), NameSum(entry.comp))
                             ELSE BRA_CRC32C_INIT
  <2>1. w \in Words
    BY <1>2, SumsWords, NameWord
  <2>2. me' = [comp |-> entry.comp, data_size |-> entry.data_size, crc32 |-> w] /\ at' = 0
    OBVIOUS
  <2> HIDE DEF w
  <2> QED
    BY <1>2, <2>1, <2>2 DEF TypeOfMe, MeSet
<1>4. TypeOfWriter' /\ TypeOfEntry'
  BY DEF TypeOfWriter, TypeOfEntry
<1>5. TypeOfReader'
  BY DEF TypeOfReader
<1>6. me'.comp = entry.comp /\ me'.data_size = entry.data_size /\ entry' = entry
  OBVIOUS
<1>7. entry.comp = "compressed" => AtAChunk'
  <2> SUFFICES ASSUME entry.comp = "compressed" PROVE AtAChunk'
    OBVIOUS
  <2>1. entry.data \in Seq(ChunkSet)
    BY DEF TypeOfEntry
  <2>2. 0 \in 0 .. Len(entry.data) /\ SizeAt(entry.data, 0) = 0
    BY <2>1, SizeAtOK
  <2> QED
    BY <2>2 DEF AtAChunk
<1>8. Places'
  BY <1>6, <1>7 DEF Places, Ended
<1> QED
  BY <1>1, <1>3, <1>4, <1>5, <1>8

(* A round of copy_file out of the archive. *)
CopiedOut(b) ==
  /\ b = SubSeq(entry.data, at + 1, at + Len(b)) /\ b \in Seq(Bytes) /\ Len(b) \in Nat
  /\ at + Len(b) <= Len(entry.data) /\ at' = at + Len(b)
  /\ decode => me' = [me EXCEPT !.crc32 = Crc(Summed(b), me.crc32)] /\ out' = out \o b
  /\ ~decode => me' = me /\ out' = out

LEMMA CopyDoes ==
  ASSUME TypesAndPlaces, CopyChunk
  PROVE  \E b : CopiedOut(b)
<1> DEFINE b == SubSeq(entry.data, at + 1, at + Piece)
<1>1. /\ stage = "reading" /\ me.comp = "stored" /\ More
      /\ me' = IF decode THEN [me EXCEPT !.crc32 = Crc(Summed(b), me.crc32)] ELSE me
      /\ out' = IF decode THEN out \o b ELSE out
      /\ at' = at + Piece
  BY DEF CopyChunk
<1>2. /\ entry.comp = "stored" /\ entry.data \in Seq(Bytes)
      /\ Len(entry.data) = me.data_size
  BY <1>1 DEF TypesAndPlaces, Types, TypeOfEntry, Places, Ended
<1>3. at \in Nat /\ me.data_size \in Nat
  BY MeIs DEF TypesAndPlaces, Types, TypeOfMe
<1>4. Piece \in Nat /\ at + Piece <= Len(entry.data)
  BY <1>1, <1>2, <1>3, PieceOK
<1>5. b \in Seq(Bytes) /\ Len(b) = Piece
  <2> DEFINE data == entry.data
             n == Piece
  <2>1. data \in Seq(Bytes) /\ n \in Nat /\ at + n <= Len(data)
    BY <1>2, <1>4
  <2> HIDE DEF data, n
  <2>2. SubSeq(data, at + 1, at + n) \in Seq(Bytes) /\ Len(SubSeq(data, at + 1, at + n)) = n
    BY <1>3, <2>1, SliceOK
  <2> QED
    BY <2>2 DEF data, n
<1>6. b = SubSeq(entry.data, at + 1, at + Piece)
  OBVIOUS
<1> HIDE DEF b
<1>7. CopiedOut(b)
  BY <1>1, <1>4, <1>5, <1>6 DEF CopiedOut
<1> QED
  BY <1>7

LEMMA CopyTypes ==
  ASSUME TypesAndPlaces, CopyChunk
  PROVE  TypesAndPlaces'
<1> USE DEF TypesAndPlaces, Types
<1>1. PICK b : CopiedOut(b)
  BY CopyDoes
<1>2. /\ stage = "reading" /\ me.comp = "stored"
      /\ UNCHANGED <<source, changed, stage, g_buf, buf_rle, chunk, crc32, tmpfile, kept,
                     entry, decode, file_orig_size>>
  BY DEF CopyChunk, wvars
<1>3. b \in Seq(Bytes) /\ Len(b) \in Nat
  BY <1>1 DEF CopiedOut
<1>4. TypeOfSource' /\ TypeOfWriter' /\ TypeOfEntry'
  BY <1>2 DEF TypeOfSource, TypeOfWriter, TypeOfEntry
<1>5. me' \in MeSet /\ me'.comp = me.comp /\ me'.data_size = me.data_size
  <2>1. Crc(Summed(b), me.crc32) \in Words /\ me \in MeSet
    BY <1>3, SumsWords, MeIs DEF TypeOfMe
  <2>2. me' = [me EXCEPT !.crc32 = Crc(Summed(b), me.crc32)] \/ me' = me
    BY <1>1 DEF CopiedOut, TypeOfReader
  <2> QED
    BY <2>1, <2>2 DEF MeSet
<1>6. TypeOfMe'
  BY <1>1, <1>3, <1>5 DEF TypeOfMe, CopiedOut
<1>7. TypeOfReader'
  <2>1. out' = out \o b \/ out' = out
    BY <1>1 DEF TypeOfReader, CopiedOut
  <2>2. out \in Seq(Bytes)
    BY DEF TypeOfReader
  <2>3. out \o b \in Seq(Bytes)
    BY ONLY <1>3, <2>2
  <2>4. out' \in Seq(Bytes)
    BY ONLY <2>1, <2>2, <2>3
  <2> QED
    BY <1>2, <2>4 DEF TypeOfReader
<1>8. Places'
  <2>1. me'.comp # "compressed"
    BY <1>2, <1>5
  <2> QED
    BY <1>2, <1>5, <2>1 DEF Places, Ended
<1> QED
  BY <1>4, <1>6, <1>7, <1>8

(* A round of decompress_file: chunk m + 1 of the entry, what is read of   *)
(* it, and how it is refused.                                              *)
Bad(c) ==
  LET rle == RleDecoded(HuffmanDecoded(c).out)
  IN  \/ ~ValidHeader(c) \/ ~HuffmanDecoded(c).ok
      \/ decode /\ (~rle.ok \/ c.primary_index >= Len(rle.out))
Unpacks(c) ==
  LET rle == RleDecoded(HuffmanDecoded(c).out)
  IN  /\ decode =>
           /\ rle.ok /\ c.primary_index < Len(rle.out)
           /\ file_orig_size' = file_orig_size + Len(rle.out)
           /\ out' = out \o Unpacked(c, rle.out)
           /\ me' = [me EXCEPT !.crc32 = Crc(Summed(Unpacked(c, rle.out)),
                                             Crc(HeaderOctets(c), me.crc32))]
      /\ ~decode =>
           /\ file_orig_size' = file_orig_size + IF rle.ok THEN Len(rle.out) ELSE 0
           /\ out' = out /\ me' = me
      /\ UNCHANGED <<stage, decode>>
IsChunk(c, m) ==
  /\ m \in Nat /\ m + 1 \in 1 .. Len(entry.data) /\ m \in 0 .. Len(entry.data)
  /\ at = SizeAt(entry.data, m)
  /\ c = entry.data[m + 1] /\ c \in ChunkSet
UnpackedChunk(c, m) ==
  /\ IsChunk(c, m)
  /\ \/ Bad(c) /\ Refuse
     \/ ~Bad(c) /\ Unpacks(c) /\ at' = SizeAt(entry.data, m + 1)

LEMMA UnpackDoes ==
  ASSUME TypesAndPlaces, UnpackChunk
  PROVE  \E c, m : UnpackedChunk(c, m)
<1> DEFINE data == entry.data
<1>1. /\ stage = "reading" /\ me.comp = "compressed" /\ at < me.data_size
      /\ entry.comp = "compressed" /\ data \in Seq(ChunkSet)
      /\ me.data_size = FileSize(data) /\ AtAChunk /\ out \in Seq(Bytes)
  BY DEF TypesAndPlaces, Types, TypeOfEntry, TypeOfReader, Places, Ended, UnpackChunk, More
<1>2. PICK m \in 0 .. Len(data) : at = SizeAt(data, m)
  BY <1>1 DEF AtAChunk
<1>3. data = entry.data
  OBVIOUS
<1> DEFINE x == at
<1>4. x = at /\ x = SizeAt(data, m) /\ x < FileSize(data)
  BY <1>1, <1>2
<1> HIDE DEF data, x
<1>5. /\ m + 1 \in 1 .. Len(data) /\ ChunkAt = data[m + 1]
      /\ x + data[m + 1].encoded_size + HeaderSize = SizeAt(data, m + 1)
  BY <1>1, <1>3, <1>4, ChunkAtIs
<1> DEFINE c == ChunkAt
<1>6. c = data[m + 1] /\ c \in ChunkSet
  BY <1>1, <1>5
<1>7. IsChunk(c, m)
  BY <1>1, <1>2, <1>3, <1>5, <1>6 DEF IsChunk
<1> DEFINE huffman == HuffmanDecoded(c)
           rle == RleDecoded(huffman.out)
<1>8. /\ huffman.out \in Seq(Bytes) /\ rle \in RleResults
      /\ rle.out \in Seq(Bytes) /\ Len(rle.out) \in Nat
  <2>1. huffman.out \in Seq(Bytes)
    BY <1>6, HuffmanOut
  <2> HIDE DEF huffman
  <2>2. PICK f \in [1 .. Len(huffman.out) + 1 -> RleResults] : RleDecoded(huffman.out) = f[1]
    BY <2>1, RleDecodes
  <2>3. 1 \in 1 .. Len(huffman.out) + 1
    BY <2>1
  <2> QED
    BY <2>1, <2>2, <2>3, RleOut
<1>9. c.primary_index \in Nat
  BY <1>6, ChunkFields
<1>10. \/ Bad(c) /\ Refuse
       \/ /\ ~Bad(c)
          /\ file_orig_size' = file_orig_size
               + IF decode THEN Len(rle.out) ELSE IF rle.ok THEN Len(rle.out) ELSE 0
          /\ out' = IF decode THEN out \o Unpacked(c, rle.out) ELSE out
          /\ me' = IF ~decode THEN me
                   ELSE [me EXCEPT !.crc32 =
                           Crc(Summed(SubSeq(out', Len(out) + 1, Len(out'))),
                               Crc(HeaderOctets(c), me.crc32))]
          /\ at' = at + c.encoded_size + HeaderSize
          /\ UNCHANGED <<stage, decode>>
  BY DEF UnpackChunk, Bad, Measured
<1>11. at + c.encoded_size + HeaderSize = SizeAt(entry.data, m + 1)
  BY <1>3, <1>4, <1>5, <1>6
<1> HIDE DEF c, huffman
<1>12. CASE Bad(c) /\ Refuse
  BY <1>7, <1>12 DEF UnpackedChunk
<1>13. CASE ~(Bad(c) /\ Refuse)
  <2>1. ~Bad(c) /\ at' = SizeAt(entry.data, m + 1) /\ UNCHANGED <<stage, decode>>
    BY <1>10, <1>11, <1>13
  <2>2. rle = RleDecoded(HuffmanDecoded(c).out)
    BY DEF huffman
  <2> HIDE DEF rle
  <2>3. ASSUME decode
        PROVE  /\ rle.ok /\ c.primary_index < Len(rle.out)
               /\ file_orig_size' = file_orig_size + Len(rle.out)
               /\ out' = out \o Unpacked(c, rle.out)
               /\ me' = [me EXCEPT !.crc32 = Crc(Summed(Unpacked(c, rle.out)),
                                                 Crc(HeaderOctets(c), me.crc32))]
    <3>1. rle.ok /\ c.primary_index < Len(rle.out)
      BY <1>8, <1>9, <2>1, <2>2, <2>3 DEF Bad
    <3> DEFINE u == Unpacked(c, rle.out)
    <3>2. u \in Seq(Bytes)
      BY <1>6, <1>8, <3>1, UnpackedOut DEF c
    <3>3. out' = out \o u /\ out \in Seq(Bytes)
      BY <1>1, <1>10, <1>13, <2>3
    <3>4. SubSeq(out', Len(out) + 1, Len(out')) = u
      <4> HIDE DEF u
      <4> DEFINE o == out
                 n == Len(o \o u)
      <4>1. o \in Seq(Bytes) /\ n \in Nat /\ n = Len(o \o u)
        BY <3>2, <3>3
      <4> HIDE DEF o, n
      <4>2. SubSeq(o \o u, Len(o) + 1, n) = u
        BY <3>2, <4>1, SliceBehind
      <4> QED
        BY <3>3, <4>2 DEF o, n
    <3> QED
      BY <1>10, <1>13, <2>3, <3>1, <3>4
  <2>4. ASSUME ~decode
        PROVE  /\ file_orig_size' = file_orig_size + IF rle.ok THEN Len(rle.out) ELSE 0
               /\ out' = out /\ me' = me
    BY <1>10, <1>13, <2>4
  <2>5. Unpacks(c)
    BY <2>1, <2>2, <2>3, <2>4 DEF Unpacks
  <2>6. UnpackedChunk(c, m)
    BY <1>7, <2>1, <2>5 DEF UnpackedChunk
  <2> QED
    BY <2>6
<1> QED
  BY <1>12, <1>13
LEMMA UnpackTypes ==
  ASSUME TypesAndPlaces, UnpackChunk
  PROVE  TypesAndPlaces'
<1> USE DEF TypesAndPlaces, Types
<1>1. PICK c, m : UnpackedChunk(c, m)
  BY UnpackDoes
<1>2. /\ stage = "reading" /\ me.comp = "compressed"
      /\ UNCHANGED <<source, changed, g_buf, buf_rle, chunk, crc32, tmpfile, kept, entry>>
  BY DEF UnpackChunk, wvars
<1>3. TypeOfWriter' /\ TypeOfEntry'
  BY <1>2 DEF TypeOfWriter, TypeOfEntry
<1>4. CASE Bad(c) /\ Refuse
  <2>1. TypeOfSource'
    BY <1>2, <1>4 DEF TypeOfSource, Refuse, Stages, Ended
  <2>2. TypeOfMe' /\ TypeOfReader'
    BY <1>4 DEF TypeOfMe, TypeOfReader, Refuse, rvars
  <2>3. Places'
    BY <1>2, <1>4 DEF Places, Refuse, rvars, Ended
  <2> QED
    BY <1>3, <2>1, <2>2, <2>3
<1>5. CASE ~Bad(c) /\ Unpacks(c) /\ at' = SizeAt(entry.data, m + 1)
  <2> DEFINE rle == RleDecoded(HuffmanDecoded(c).out)
             u == Unpacked(c, rle.out)
  <2>1. c \in ChunkSet /\ entry.data \in Seq(ChunkSet) /\ m + 1 \in 1 .. Len(entry.data) /\ m \in Nat
    BY <1>1, <1>2 DEF UnpackedChunk, IsChunk, Places, TypeOfEntry
  <2>2. rle.out \in Seq(Bytes) /\ Len(rle.out) \in Nat
    BY <2>1, HuffmanOut, RleOut
  <2>3. stage' = stage /\ decode' = decode
    BY <1>5 DEF Unpacks
  <2>4. TypeOfSource'
    BY <1>2, <2>3 DEF TypeOfSource
  <2>5. at' \in Nat /\ AtAChunk'
    <3>1. m + 1 \in 0 .. Len(entry.data)
      BY <2>1
    <3>2. SizeAt(entry.data, m + 1) \in Nat
      BY <2>1, <3>1, SizeAtOK
    <3> QED
      BY <1>2, <1>5, <3>1, <3>2 DEF AtAChunk
  <2>6. CASE decode
    <3> HIDE DEF rle
    <3>1. /\ c.primary_index < Len(rle.out)
          /\ file_orig_size' = file_orig_size + Len(rle.out) /\ out' = out \o u
          /\ me' = [me EXCEPT !.crc32 = Crc(Summed(u), Crc(HeaderOctets(c), me.crc32))]
      BY <1>5, <2>6 DEF Unpacks, rle
    <3>2. u \in Seq(Bytes)
      BY <2>1, <2>2, <3>1, UnpackedOut
    <3> HIDE DEF u
    <3>3. Crc(Summed(u), Crc(HeaderOctets(c), me.crc32)) \in Words /\ me \in MeSet
      <4>1. me.crc32 \in Words /\ me \in MeSet
        BY MeIs DEF TypeOfMe
      <4>2. Crc(HeaderOctets(c), me.crc32) \in Words
        BY <2>1, <4>1, SumsWords
      <4> QED
        BY <3>2, <4>1, <4>2, SumsWords
    <3>4. me' \in MeSet /\ me'.comp = me.comp /\ me'.data_size = me.data_size
      BY <3>1, <3>3 DEF MeSet
    <3>5. out \in Seq(Bytes) /\ file_orig_size \in Nat
      BY DEF TypeOfReader
    <3>6. out' \in Seq(Bytes) /\ file_orig_size' \in Nat
      BY ONLY <2>2, <3>1, <3>2, <3>5
    <3> QED
      BY <1>2, <1>3, <2>3, <2>4, <2>5, <3>4, <3>6 DEF TypeOfMe, TypeOfReader, Places, Ended
  <2>7. CASE ~decode
    <3> HIDE DEF rle
    <3>1. /\ file_orig_size' = file_orig_size + IF rle.ok THEN Len(rle.out) ELSE 0
          /\ out' = out /\ me' = me
      BY <1>5, <2>7 DEF Unpacks, rle
    <3>2. out \in Seq(Bytes) /\ file_orig_size \in Nat
      BY DEF TypeOfReader
    <3>3. out' \in Seq(Bytes) /\ file_orig_size' \in Nat
      BY ONLY <2>2, <3>1, <3>2
    <3> QED
      BY <1>2, <1>3, <2>3, <2>4, <2>5, <3>1, <3>3 DEF TypeOfMe, TypeOfReader, Places, Ended
  <2> QED
    BY <2>6, <2>7
<1> QED
  BY <1>1, <1>4, <1>5 DEF UnpackedChunk

LEMMA EndReadTypes ==
  ASSUME TypesAndPlaces, EndRead
  PROVE  TypesAndPlaces'
<1> USE DEF TypesAndPlaces, Types, wvars, rvars
<1>1. /\ stage = "reading" /\ stage' \in {"refused", "accepted", "listed"}
      /\ UNCHANGED <<source, changed, me, at, wvars, entry, rvars>>
  BY DEF EndRead, Refuse
<1>2. TypeOfSource'
  BY <1>1 DEF TypeOfSource, Stages, Ended
<1>3. TypeOfMe' /\ TypeOfWriter' /\ TypeOfEntry' /\ TypeOfReader'
  BY <1>1 DEF TypeOfMe, TypeOfWriter, TypeOfEntry, TypeOfReader
<1>4. Places'
  BY <1>1 DEF Places, Ended
<1> QED
  BY <1>2, <1>3, <1>4

LEMMA SameTypes ==
  ASSUME TypesAndPlaces, UNCHANGED fvars
  PROVE  TypesAndPlaces'
<1> USE DEF TypesAndPlaces, Types, fvars, wvars, rvars
<1>1. TypeOfSource' /\ TypeOfMe' /\ TypeOfWriter' /\ TypeOfEntry' /\ TypeOfReader'
  BY DEF TypeOfSource, TypeOfMe, TypeOfWriter, TypeOfEntry, TypeOfReader
<1>2. Places'
  BY DEF Places, StoredSoFar, AtAChunk
<1> QED
  BY <1>1, <1>2

LEMMA TypesStep == TypesAndPlaces /\ [Next]_fvars => TypesAndPlaces'
<1> SUFFICES ASSUME TypesAndPlaces, [Next]_fvars PROVE TypesAndPlaces'
  OBVIOUS
<1>1. CASE Write
  BY <1>1, TakeSizeTypes, FlushTypes, ShortReadTypes, CompressTypes, KeepTypes, FallBackTypes,
     StoreTypes, EndTypes DEF Write
<1>2. CASE Change \/ Damage
  BY <1>2, ChangeTypes, DamageTypes
<1>3. CASE Read
  BY <1>3, ReadEntryTypes, CopyTypes, UnpackTypes, EndReadTypes DEF Read
<1>4. CASE Finished \/ UNCHANGED fvars
  BY <1>4, SameTypes DEF Finished
<1> QED
  BY <1>1, <1>2, <1>3, <1>4 DEF Next

(* The types hold, and a reader stands where a chunk begins or at the end. *)
THEOREM TypesHold == Spec => []TypesAndPlaces
<1> QED
  BY TypesInit, TypesStep, PTL DEF Spec

LEMMA TypesGive == TypesAndPlaces => CTypeOK
<1> SUFFICES ASSUME TypesAndPlaces PROVE CTypeOK
  OBVIOUS
<1> USE DEF TypesAndPlaces, Types
<1>1. \A c \in ChunkSet : ChunkTypeOK(c)
  <2> SUFFICES ASSUME NEW c \in ChunkSet PROVE ChunkTypeOK(c)
    OBVIOUS
  <2>1. DOMAIN c = DOMAIN NoChunk
    BY DEF ChunkSet, NoChunk
  <2>2. c.lengths \in [Bytes -> Nat]
    <3>1. c.lengths \in [Bytes -> Bytewise]
      BY ChunkFields
    <3>2. \A n \in Bytewise : n \in Nat
      BY DEF Bytewise
    <3> DEFINE l == c.lengths
    <3>3. l \in [Bytes -> Bytewise]
      BY <3>1
    <3> HIDE DEF l
    <3>4. l \in [Bytes -> Nat]
      BY ONLY <3>2, <3>3
    <3> QED
      BY <3>4 DEF l
  <2> QED
    BY <2>1, <2>2, ChunkFields DEF ChunkTypeOK
<1>2. ChunkTypeOK(NoChunk)
  BY DEF ChunkTypeOK, NoChunk
<1>3. ChunkTypeOK(chunk)
  BY <1>1, <1>2 DEF TypeOfWriter
<1>4. \A k \in DOMAIN tmpfile : ChunkTypeOK(tmpfile[k])
  BY <1>1 DEF TypeOfWriter
<1>5. /\ source \in Files /\ changed \subseteq {"source", "archive"}
      /\ stage \in {"new", "flush", "stored", "compressed", "crc", "sealed", "reading",
                    "accepted", "listed", "refused", "failed"}
  BY DEF TypeOfSource, Stages, Ended
<1>6. me.comp \in {"stored", "compressed"} /\ me.data_size \in Nat /\ me.crc32 \in Words
  BY MeIs DEF TypeOfMe, Comps
<1>7. entry.crc32 \in Words
  BY EntryIs DEF TypeOfEntry
<1> QED
  BY <1>3, <1>4, <1>5, <1>6, <1>7 DEF CTypeOK, TypeOfMe, TypeOfWriter, TypeOfReader

(* A chunk is bytes all the way, a sum is a word, and what the writer and  *)
(* the reader of the payload keep in memory and in the archive is of its   *)
(* kind, whatever the file, the size of a chunk and the alphabet           *)
(* (bra_io_chunk_header_t, chunks.c:194, chunks.c:346).                    *)
THEOREM ChunksKeepTheirTypes == Spec => []CTypeOK
<1> QED
  BY TypesHold, TypesGive, PTL
----------------------------------------------------------------------------
(* The last chunk *)
LastChunk ==
  Encoded =>
    \E p, b : /\ p \in Seq(Bytes) /\ b \in Seq(Bytes) /\ kept = p \o b
              /\ g_buf = MtfEncoded(LastColumn(b)) /\ buf_rle = RleOf(b) /\ StandsFor(chunk, b)

LEMMA LastChunkInit == Init => LastChunk /\ RleBound
<1> SUFFICES ASSUME Init PROVE LastChunk /\ RleBound
  OBVIOUS
<1>1. LastChunk
  BY DEF Init, LastChunk, Encoded
<1>2. RleBound
  <2>1. MaxRuns \in Nat /\ MaxRuns > 0 /\ MaxRuns - 1 \in Nat
    BY CodecsAssumption
  <2> DEFINE d == (0 + MaxRuns - 1) \div MaxRuns
  <2>2. d \in Nat
    BY <2>1, DivTwo
  <2>3. g_buf = <<>> /\ buf_rle = <<>> /\ Len(<<>>) = 0
    BY DEF Init
  <2> DEFINE n == Len(g_buf)
  <2>4. n = 0
    BY <2>3
  <2>5. Len(buf_rle) = 0 /\ (n + MaxRuns - 1) \div MaxRuns \in Nat
    BY <2>2, <2>3, <2>4
  <2> QED
    BY <2>4, <2>5 DEF RleBound
<1> QED
  BY <1>1, <1>2

LEMMA CompressLast ==
  ASSUME TypesAndPlaces, CompressChunk
  PROVE  LastChunk' /\ RleBound'
<1>1. PICK b : Compressed(b)
  BY CompressDoes
<1>2. /\ b \in Seq(Bytes) /\ kept' = kept \o b /\ StandsFor(chunk', b)
      /\ g_buf' = MtfEncoded(LastColumn(b)) /\ buf_rle' = RleOf(b)
  BY <1>1 DEF Compressed
<1>3. kept \in Seq(Bytes)
  BY DEF TypesAndPlaces, Types, TypeOfWriter
<1>4. LastChunk'
  BY <1>2, <1>3 DEF LastChunk
<1>5. RleBound'
  <2>1. g_buf' \in Seq(Bytes)
    BY <1>2, RleOfOK
  <2>2. Len(RleEncoded(g_buf')) <= Len(g_buf') + (Len(g_buf') + MaxRuns - 1) \div MaxRuns
    BY <2>1, RleIsBounded
  <2>3. buf_rle' = RleEncoded(g_buf')
    BY <1>2 DEF RleOf
  <2> QED
    BY <2>2, <2>3 DEF RleBound
<1> QED
  BY <1>4, <1>5

LEMMA LastChunkStep ==
  TypesAndPlaces /\ LastChunk /\ RleBound /\ [Next]_fvars => LastChunk' /\ RleBound'
<1> SUFFICES ASSUME TypesAndPlaces, LastChunk, RleBound, [Next]_fvars
             PROVE  LastChunk' /\ RleBound'
  OBVIOUS
<1>1. CASE UNCHANGED <<g_buf, buf_rle, chunk, kept, tmpfile>> /\ (stage' = "compressed" => stage = "compressed")
  BY <1>1 DEF LastChunk, Encoded, RleBound
<1>2. CASE FlushEntry
  <2>1. tmpfile' = <<>> /\ UNCHANGED <<g_buf, buf_rle>>
    BY <1>2 DEF FlushEntry, Flush
  <2> QED
    BY <2>1 DEF LastChunk, Encoded, RleBound
<1>3. CASE CompressChunk
  BY <1>3, CompressLast
<1>4. CASE Write
  <2>1. CASE TakeSize
    BY <1>1, <2>1 DEF TakeSize, wvars
  <2>2. CASE ShortRead
    BY <1>1, <2>2 DEF ShortRead, wvars
  <2>3. CASE KeepCompressed \/ FallBack \/ StoreEnd \/ WriteCrc
    BY <1>1, <2>3 DEF KeepCompressed, FallBack, StoreEnd, WriteCrc, wvars
  <2>4. CASE StoreChunk
    <3>1. UNCHANGED <<g_buf, buf_rle>> /\ stage' = "stored"
      BY <2>4 DEF StoreChunk
    <3> QED
      BY <3>1 DEF LastChunk, Encoded, RleBound
  <2> QED
    BY <1>2, <1>3, <1>4, <2>1, <2>2, <2>3, <2>4 DEF Write
<1>5. CASE Change \/ Damage
  BY <1>1, <1>5 DEF Change, Damage, wvars
<1>6. CASE Read
  <2>1. CASE ReadEntry
    BY <1>1, <2>1 DEF ReadEntry, wvars
  <2>2. CASE CopyChunk
    BY <1>1, <2>2 DEF CopyChunk, wvars
  <2>3. CASE UnpackChunk
    <3>1. stage = "reading" /\ UNCHANGED <<g_buf, buf_rle, chunk, kept, tmpfile>>
      BY <2>3 DEF UnpackChunk, wvars
    <3>2. stage' = "refused" \/ stage' = "reading"
      <4>1. PICK c, m : UnpackedChunk(c, m)
        BY <2>3, UnpackDoes
      <4> QED
        BY <3>1, <4>1 DEF UnpackedChunk, Refuse, Unpacks
    <3> QED
      BY <1>1, <3>1, <3>2
  <2>4. CASE EndRead
    BY <1>1, <2>4 DEF EndRead, Refuse, wvars
  <2> QED
    BY <1>6, <2>1, <2>2, <2>3, <2>4 DEF Read
<1>7. CASE Finished \/ UNCHANGED fvars
  BY <1>1, <1>7 DEF Finished, fvars, wvars
<1> QED
  BY <1>4, <1>5, <1>6, <1>7 DEF Next

(* The chunk in the buffers is the last piece that was read, in any order  *)
(* the rotations were sorted (chunks.c:233), and its RLE form is within    *)
(* its bound.                                                              *)
THEOREM LastChunkHolds == Spec => [](LastChunk /\ RleBound)
<1>1. Spec => []TypesAndPlaces
  BY TypesHold
<1>2. Init => LastChunk /\ RleBound
  BY LastChunkInit
<1>3. TypesAndPlaces /\ LastChunk /\ RleBound /\ [Next]_fvars => LastChunk' /\ RleBound'
  BY LastChunkStep
<1> QED
  BY <1>1, <1>2, <1>3, PTL DEF Spec

(* RLE makes a chunk longer by one byte in MaxRuns at most, whatever its   *)
(* bytes (bra_rle.c:60, chunks.c:40): by BRA_RLE_MAX_RUNS of the code, a   *)
(* chunk of BRA_MAX_CHUNK_SIZE by a 128th.                                 *)
THEOREM ChunksAreBounded == Spec => []RleBound
<1> QED
  BY LastChunkHolds, PTL

LEMMA LastChunkIs ==
  ASSUME LastChunk, Encoded
  PROVE  StandsFor(chunk, ChunkBytes)
<1>1. PICK p, b : /\ p \in Seq(Bytes) /\ b \in Seq(Bytes) /\ kept = p \o b
                  /\ g_buf = MtfEncoded(LastColumn(b)) /\ StandsFor(chunk, b)
  BY DEF LastChunk
<1>2. Len(g_buf) = Len(b)
  BY <1>1, RleOfOK
<1> DEFINE n == Len(p \o b)
<1>3. n \in Nat /\ n = Len(p) + Len(b) /\ Len(p) \in Nat /\ Len(b) \in Nat
  BY <1>1
<1>4. Len(kept) = n /\ Len(kept) - Len(g_buf) = Len(p)
  <2>1. Len(kept) = n
    BY <1>1
  <2> HIDE DEF n
  <2> QED
    BY <1>2, <1>3, <2>1
<1>5. n = Len(p \o b)
  OBVIOUS
<1> HIDE DEF n
<1>6. SubSeq(p \o b, Len(p) + 1, n) = b
  BY <1>1, <1>3, <1>5, SliceBehind
<1>7. ChunkBytes = b
  BY <1>1, <1>4, <1>6 DEF ChunkBytes
<1> QED
  BY <1>1, <1>7

LEMMA LastChunkBack == LastChunk => RoundTrip
<1> SUFFICES ASSUME LastChunk, Encoded
             PROVE  /\ HuffmanDecoded(chunk).ok /\ RleDecoded(HuffmanDecoded(chunk).out).ok
                    /\ Unpacked(chunk, RleDecoded(HuffmanDecoded(chunk).out).out) = ChunkBytes
  BY DEF RoundTrip
<1> DEFINE b == ChunkBytes
<1>1. StandsFor(chunk, b)
  BY LastChunkIs
<1> HIDE DEF b
<1>2. Codes(chunk, b)
  BY <1>1 DEF StandsFor
<1>3. HuffmanDecoded(chunk).ok = TRUE /\ RleDecoded(HuffmanDecoded(chunk).out).ok = TRUE
  BY <1>2, CodesGive
<1>4. Unpacked(chunk, RleDecoded(HuffmanDecoded(chunk).out).out) = b
  BY <1>1, StandsForGives
<1> QED
  BY <1>3, <1>4 DEF b

(* Every chunk that is encoded decodes to its bytes: whatever order qsort  *)
(* gives equal rotations (bra_bwt.c:62), whichever tree the frequencies    *)
(* make (bra_huffman.c:139), for every chunk of every file (chunks.c:233). *)
THEOREM ChunksComeBack == Spec => []RoundTrip
<1> QED
  BY LastChunkHolds, LastChunkBack, PTL

LEMMA CodesAreApart ==
  ASSUME NEW c, NEW b, Codes(c, b)
  PROVE  LET used == Coded(c.lengths)
             top == Max({c.lengths[x] : x \in used})
         IN  /\ Rebuilt(c.lengths)
             /\ Cardinality(used) > 1 =>
                  \A w \in [1 .. top -> {0, 1}] : \E x \in used : IsPrefix(Code(c.lengths, x), w)
<1> DEFINE lengths == c.lengths
           used == Coded(lengths)
           all == {lengths[x] : x \in used}
           top == Max(all)
<1>1. b \in Seq(Bytes) /\ Len(b) > 0
  BY DEF Codes
<1>2. PICK f : EncodedAs(c, RleOf(b), f)
  BY DEF Codes
<1>3. RleOf(b) \in Seq(Bytes) /\ Len(RleOf(b)) > 0
  BY <1>1, RleOfOK
<1>4. /\ \E u : /\ Levels(lengths, u)
                /\ Cardinality(Used(RleOf(b))) > 1 => Complete(lengths, u)
      /\ used = Used(RleOf(b)) /\ lengths \in [Bytes -> 0 .. Alphabet - 1]
  <2> DEFINE s == RleOf(b)
  <2>1. s \in Seq(Bytes) /\ Len(s) > 0 /\ EncodedAs(c, s, f)
    BY <1>2, <1>3
  <2> HIDE DEF s
  <2>2. \E u : Levels(c.lengths, u) /\ (Cardinality(Used(s)) > 1 => Complete(c.lengths, u))
    <3>1. c.lengths = Lengths(s)
      BY <2>1 DEF EncodedAs
    <3>2. \E u : Levels(Lengths(s), u) /\ (Cardinality(Used(s)) > 1 => Complete(Lengths(s), u))
      BY ONLY <2>1, LengthsOK
    <3> QED
      BY <3>1, <3>2
  <2>3. Coded(c.lengths) = Used(s) /\ c.lengths \in [Bytes -> 0 .. Alphabet - 1]
    BY <2>1, EncodedReads
  <2> QED
    BY <2>2, <2>3 DEF s
<1>5. PICK u : Levels(lengths, u) /\ (Cardinality(used) > 1 => Complete(lengths, u))
  BY <1>4
<1>6. used # {} /\ Alphabet \in Nat /\ Alphabet > 0
  BY <1>3, <1>4, UsedOK, AlphabetNat
<1> HIDE DEF lengths
<1>7. \A x \in used : x \in Bytes /\ lengths[x] \in 1 .. Alphabet - 1
  BY <1>4 DEF Coded
<1>8. \A x \in Bytes : x \in used \/ lengths[x] = 0
  BY <1>4 DEF Coded
<1>9. top \in 1 .. Alphabet /\ \A x \in used : lengths[x] <= top
  <2> DEFINE m == Alphabet - 1
  <2>1. m \in Nat /\ all \subseteq 0 .. m /\ all # {}
    BY <1>6, <1>7
  <2>2. \A x \in used : lengths[x] \in all
    OBVIOUS
  <2>3. \A y \in all : y \in 1 .. m
    BY <1>7
  <2> HIDE DEF all, m
  <2>4. top \in all /\ \A y \in all : top >= y
    BY <2>1, MaxOK
  <2>5. top \in 1 .. m
    BY <2>3, <2>4
  <2>6. \A x \in used : lengths[x] <= top
    <3> SUFFICES ASSUME NEW x \in used PROVE lengths[x] <= top
      OBVIOUS
    <3>1. lengths[x] \in all /\ lengths[x] \in 1 .. m
      BY <2>2, <2>3
    <3> HIDE DEF top
    <3> QED
      BY <2>1, <2>4, <2>5, <3>1
  <2> HIDE DEF top
  <2> QED
    BY <1>6, <2>5, <2>6 DEF m
<1> HIDE DEF top, used
<1>10. \A x \in Bytes : lengths[x] <= top
  BY <1>7, <1>8, <1>9
<1>11. Rebuilt(lengths)
  BY <1>5, PrefixFree
<1>12. ASSUME Cardinality(used) > 1, NEW w \in [1 .. top -> {0, 1}]
       PROVE  \E x \in used : IsPrefix(Code(lengths, x), w)
  <2>1. Complete(lengths, u)
    BY <1>5, <1>12
  <2>2. \E x \in Coded(lengths) : IsPrefix(Code(lengths, x), w)
    BY <1>5, <1>9, <1>10, <2>1, NoDeadEnd
  <2> QED
    BY <2>2 DEF used
<1> QED
  BY <1>11, <1>12 DEF top, used, lengths

LEMMA LastChunkCodes == LastChunk => CodesArePrefixFree
<1> SUFFICES ASSUME LastChunk, Encoded PROVE CodesArePrefixFree
  BY DEF CodesArePrefixFree
<1>1. PICK b : StandsFor(chunk, b)
  BY LastChunkIs
<1>2. Codes(chunk, b)
  BY <1>1 DEF StandsFor
<1> QED
  BY <1>2, CodesAreApart DEF CodesArePrefixFree

(* The codes of every chunk are free of prefixes and complete: the tree    *)
(* that bra_huffman.c:205 rebuilds from their lengths has a leaf for each  *)
(* of them and no dead end, so that no bits the decoder meets lead nowhere *)
(* (bra_huffman.c:470).                                                    *)
THEOREM CodesStayApart == Spec => []CodesArePrefixFree
<1> QED
  BY LastChunkHolds, LastChunkCodes, PTL

LEMMA LastChunkCheapest == LastChunk => HuffmanIsMinimal
<1> DEFINE used == Coded(chunk.lengths)
           top == Cardinality(used)
<1> SUFFICES ASSUME LastChunk, Encoded, NEW lengths \in [used -> 1 .. top],
                    SumFunction([b \in used |-> 2 ^ (top - lengths[b])]) <= 2 ^ top
             PROVE  Cost(used, chunk.lengths) <= Cost(used, lengths)
  BY DEF HuffmanIsMinimal
<1>1. PICK p, b : b \in Seq(Bytes) /\ buf_rle = RleOf(b) /\ StandsFor(chunk, b)
  BY DEF LastChunk
<1>2. Len(b) > 0 /\ \E f : EncodedAs(chunk, RleOf(b), f)
  BY <1>1 DEF StandsFor, Codes
<1>3. chunk.lengths = Lengths(buf_rle)
  BY <1>1, <1>2 DEF EncodedAs
<1>4. buf_rle \in Seq(Bytes) /\ Len(buf_rle) > 0
  BY <1>1, <1>2, RleOfOK
<1>5. used = Coded(Lengths(buf_rle)) /\ top \in Nat
  <2>1. used = Used(buf_rle)
    BY <1>3, <1>4, LengthsOK
  <2>2. IsFiniteSet(used)
    BY <2>1, BytesFinite, FS_Subset DEF Used
  <2> QED
    BY <1>3, <2>2, FS_CardinalityType
<1> HIDE DEF used, top
<1>6. SumFunction([b_1 \in used |-> Count(buf_rle, b_1) * Lengths(buf_rle)[b_1]]) <=
        SumFunction([b_1 \in used |-> Count(buf_rle, b_1) * lengths[b_1]])
  BY <1>4, <1>5, HuffmanCheapest
<1> QED
  BY <1>3, <1>6 DEF Cost

(* No lengths that a prefix code can have make a chunk shorter than those  *)
(* that the writer gives its bytes (chunks.c:233): the list is in order    *)
(* (bra_huffman.c:110), and so the two rarest nodes are joined each time.  *)
THEOREM CodesAreCheapest == Spec => []HuffmanIsMinimal
<1> QED
  BY LastChunkHolds, LastChunkCheapest, PTL

----------------------------------------------------------------------------
LEMMA PathsMeet == TypesAndPlaces => PathsAgree
<1> SUFFICES ASSUME TypesAndPlaces,
                    NEW align \in {4, 8}, NEW addr \in 0 .. align - 1,
                    SevenAtMost(align, addr, Len(kept))
             PROVE  bra_crc32c_sse42(OctetsOf(kept), addr, align, entry.crc32)
                      = bra_crc32c_table(OctetsOf(kept), entry.crc32)
  BY DEF PathsAgree
<1> DEFINE o == OctetsOf(kept)
           w == entry.crc32
<1>1. o \in Seq(OctetWords) /\ Len(o) = Len(kept) /\ w \in Words
  BY BytesWords, EntryIs DEF TypesAndPlaces, Types, TypeOfWriter, TypeOfEntry
<1>2. align = 8 \/ Len(o) - Before(align, addr, Len(o)) <= 7
  BY <1>1 DEF SevenAtMost
<1>3. addr \in Nat
  OBVIOUS
<1> HIDE DEF o, w
<1>4. bra_crc32c_sse42(o, addr, align, w) = Divided(o, w)
  BY <1>1, <1>2, <1>3, InstructionsDivide
<1>5. bra_crc32c_table(o, w) = Divided(o, w)
  BY <1>1, TableDivides
<1> QED
  BY <1>4, <1>5 DEF o, w

(* Wherever a buffer begins, the instructions and the table give the same  *)
(* sum of it, whatever it holds and however long it is (crc32c.c:117,      *)
(* crc32c.c:45).                                                           *)
THEOREM PathsAlwaysAgree == Spec => []PathsAgree
<1> QED
  BY TypesHold, PathsMeet, PTL
----------------------------------------------------------------------------
(* What was read for the entry: the file, while nothing changes it.        *)
Going == {"stored", "compressed"}

Origin ==
  /\ stage \notin Ended => "archive" \notin changed
  /\ stage \in Going \union {"flush"} /\ "source" \notin changed => me.data_size = Len(source)
  /\ stage \in Going => /\ Len(kept) = at /\ at <= me.data_size
                        /\ "source" \notin changed => kept = SubSeq(source, 1, at)
  /\ stage \in Ended \union {"crc"} /\ "source" \notin changed => kept = source

LEMMA KeptGoesOn ==
  ASSUME TypesAndPlaces, Origin, stage \in Going, More,
         NEW b, b = SubSeq(source, at + 1, at + Len(b)), b \in Seq(Bytes), Len(b) = Piece,
         at + Len(b) <= Len(source), kept' = kept \o b, at' = at + Len(b),
         me'.data_size = me.data_size, UNCHANGED <<source, changed, stage>>
  PROVE  Origin'
<1>1. at \in Nat /\ me.data_size \in Nat
  BY MeIs DEF TypesAndPlaces, Types, TypeOfMe
<1>2. Len(b) \in Nat /\ at + Len(b) <= me.data_size
  BY <1>1, PieceOK
<1>3. kept \in Seq(Bytes) /\ Len(kept) = at
  BY DEF Origin, TypesAndPlaces, Types, TypeOfWriter
<1>4. Len(kept') = at'
  <2>0. b \in Seq(Bytes)
    OBVIOUS
  <2>1. Len(kept \o b) = Len(kept) + Len(b)
    BY ONLY <1>3, <2>0
  <2>2. kept' = kept \o b /\ at' = at + Len(b)
    OBVIOUS
  <2> QED
    BY ONLY <1>3, <2>1, <2>2
<1>5. ASSUME "source" \notin changed PROVE kept' = SubSeq(source, 1, at')
  <2> DEFINE n == Len(b)
             s == source
  <2>1. s \in Seq(Bytes)
    BY FilesOK DEF TypesAndPlaces, Types, TypeOfSource
  <2>2. n \in Nat /\ at + n <= Len(s)
    BY <1>2
  <2>3. kept = SubSeq(s, 1, at) /\ b = SubSeq(s, at + 1, at + n) /\ kept' = kept \o b /\ at' = at + n
    BY <1>5 DEF Origin
  <2> HIDE DEF n, s
  <2>4. SubSeq(s, 1, at) \o SubSeq(s, at + 1, at + n) = SubSeq(s, 1, at + n)
    BY <1>1, <2>1, <2>2, SliceNext
  <2>5. kept' = SubSeq(s, 1, at')
    BY <2>3, <2>4
  <2> QED
    BY <2>5 DEF s
<1> QED
  BY <1>1, <1>2, <1>4, <1>5 DEF Origin, Going, Ended

LEMMA KeptIsAll ==
  ASSUME TypesAndPlaces, Origin, stage \in Going, ~More
  PROVE  /\ Len(kept) = me.data_size /\ at = me.data_size
         /\ "source" \notin changed => kept = source
<1>1. at \in Nat /\ me.data_size \in Nat /\ at <= me.data_size /\ Len(kept) = at
  BY MeIs DEF TypesAndPlaces, Types, TypeOfMe, Origin
<1>2. at = me.data_size
  BY <1>1 DEF More
<1>3. ASSUME "source" \notin changed PROVE kept = source
  <2>1. source \in Seq(Bytes)
    BY FilesOK DEF TypesAndPlaces, Types, TypeOfSource
  <2>2. at = Len(source) /\ kept = SubSeq(source, 1, at)
    BY <1>2, <1>3 DEF Origin
  <2> DEFINE s == source
  <2>3. SubSeq(s, 1, Len(s)) = s
    BY <2>1, SubSeqFull
  <2> QED
    BY <2>2, <2>3
<1> QED
  BY <1>1, <1>2, <1>3

LEMMA OriginWrites ==
  ASSUME TypesAndPlaces, Origin, Write
  PROVE  Origin'
<1>0. me \in MeSet /\ at \in Nat
  BY DEF TypesAndPlaces, Types, TypeOfMe
<1>1. CASE TakeSize
  <2>1. me'.data_size = Len(source)
    BY <1>0, <1>1 DEF TakeSize, MeSet
  <2> QED
    BY <1>1, <2>1 DEF TakeSize, wvars, Origin, Going, Ended
<1>2. CASE FlushEntry
  <2>1. /\ me'.data_size = me.data_size /\ stage = "flush" /\ stage' = me.comp
        /\ at' = 0 /\ kept' = <<>> /\ UNCHANGED <<source, changed>>
    BY <1>0, <1>2 DEF FlushEntry, Flush, MeSet
  <2>2. stage' \in Going /\ me.data_size \in Nat
    BY <1>0, <2>1 DEF MeSet, Comps, Going
  <2>3. SubSeq(source, 1, 0) = <<>> /\ Len(<<>>) = 0
    OBVIOUS
  <2> QED
    BY <2>1, <2>2, <2>3 DEF Origin, Going, Ended
<1>3. CASE ShortRead
  BY <1>3 DEF ShortRead, Origin, Going, Ended, wvars
<1>4. CASE CompressChunk
  <2>1. PICK b : Compressed(b)
    BY <1>4, CompressDoes
  <2>2. stage \in Going /\ More /\ UNCHANGED <<source, changed, stage, me>>
    BY <1>4 DEF CompressChunk, Going
  <2> QED
    BY <2>1, <2>2, KeptGoesOn DEF Compressed
<1>5. CASE StoreChunk
  <2>1. PICK b : Stored(b)
    BY <1>5, StoreDoes
  <2>2. stage \in Going /\ More /\ UNCHANGED <<source, changed, stage>>
    BY <1>5 DEF StoreChunk, Going
  <2>3. me'.data_size = me.data_size
    BY <1>0, <2>1 DEF Stored, MeSet
  <2> QED
    BY <2>1, <2>2, <2>3, KeptGoesOn DEF Stored
<1>6. CASE KeepCompressed \/ StoreEnd
  <2>1. stage \in Going /\ ~More /\ stage' = "crc" /\ UNCHANGED <<source, changed, kept>>
    BY <1>6 DEF KeepCompressed, StoreEnd, wvars, Going
  <2>2. "source" \notin changed => kept = source
    BY <2>1, KeptIsAll
  <2> QED
    BY <2>1, <2>2 DEF Origin, Going, Ended
<1>7. CASE FallBack
  <2>1. /\ stage = "compressed" /\ stage' = "flush" /\ UNCHANGED <<source, changed>>
        /\ me'.data_size = me.data_size
    BY <1>0, <1>7 DEF FallBack, MeSet
  <2> QED
    BY <2>1 DEF Origin, Going, Ended
<1>8. CASE WriteCrc
  BY <1>8 DEF WriteCrc, wvars, Origin, Going, Ended
<1> QED
  BY <1>1, <1>2, <1>3, <1>4, <1>5, <1>6, <1>7, <1>8 DEF Write

(* The reader goes from one stage that has ended to another. *)
LEMMA ReadFrame ==
  ASSUME TypesAndPlaces, Read
  PROVE  /\ stage \in Ended /\ stage' \in Ended \ {"sealed"}
         /\ UNCHANGED <<source, changed, wvars, entry>>
<1>1. CASE ReadEntry
  BY <1>1 DEF ReadEntry, Ended
<1>2. CASE CopyChunk
  BY <1>2 DEF CopyChunk, Ended
<1>3. CASE UnpackChunk
  <2>1. PICK c, m : UnpackedChunk(c, m)
    BY <1>3, UnpackDoes
  <2> QED
    BY <1>3, <2>1 DEF UnpackChunk, UnpackedChunk, Refuse, Unpacks, Ended
<1>4. CASE EndRead
  BY <1>4 DEF EndRead, Refuse, Ended
<1> QED
  BY <1>1, <1>2, <1>3, <1>4 DEF Read

LEMMA OriginStep == TypesAndPlaces /\ Origin /\ [Next]_fvars => Origin'
<1> SUFFICES ASSUME TypesAndPlaces, Origin, [Next]_fvars PROVE Origin'
  OBVIOUS
<1>1. CASE Write
  BY <1>1, OriginWrites
<1>2. CASE Change
  BY <1>2 DEF Change, wvars, Origin, Going, Ended
<1>3. CASE Damage
  BY <1>3 DEF Damage, wvars, Origin, Going, Ended
<1>4. CASE Read
  <2>1. stage \in Ended /\ stage' \in Ended /\ UNCHANGED <<source, changed, kept>>
    BY <1>4, ReadFrame DEF wvars
  <2> QED
    BY <2>1 DEF Origin, Going, Ended
<1>5. CASE Finished \/ UNCHANGED fvars
  BY <1>5 DEF Finished, fvars, wvars, Origin
<1> QED
  BY <1>1, <1>2, <1>3, <1>4, <1>5 DEF Next

(* Nothing is lost between the file and the entry: while the file stays as *)
(* it is, what was read for the entry is the file up to where the loop has *)
(* come, and in the end all of it, after a second go as well.              *)
THEOREM OriginHolds == Spec => []Origin
<1>1. Init => Origin
  BY DEF Init, Origin, Going, Ended
<1> QED
  BY <1>1, TypesHold, OriginStep, PTL DEF Spec

----------------------------------------------------------------------------
(* A byte that has changed shows in the sum.                               *)

\* r is p, the one element of o, and q.
InOneRow(r, p, o, q) ==
  /\ Len(r) = Len(p) + 1 + Len(q)
  /\ \A j \in 1 .. Len(p) : r[j] = p[j]
  /\ r[Len(p) + 1] = o[1]
  /\ \A j \in 1 .. Len(q) : r[Len(p) + 1 + j] = q[j]

LEMMA PutTogether ==
  ASSUME NEW S, NEW p \in Seq(S), NEW q \in Seq(S), NEW r \in Seq(S), NEW o \in Seq(S),
         Len(o) = 1, InOneRow(r, p, o, q)
  PROVE  r = (p \o o) \o q
<1> USE DEF InOneRow
<1> DEFINE h == p \o o
<1>1. /\ h \in Seq(S) /\ Len(h) = Len(p) + Len(o)
      /\ \A j \in 1 .. Len(p) : h[j] = p[j]
      /\ \A j \in 1 .. Len(o) : h[Len(p) + j] = o[j]
  <2>1. p \in Seq(S) /\ o \in Seq(S)
    OBVIOUS
  <2> QED
    BY ONLY <2>1
<1>2. Len(p) \in Nat /\ Len(q) \in Nat /\ Len(h) = Len(p) + 1 /\ h[Len(p) + 1] = o[1]
  BY <1>1
<1> HIDE DEF h
<1>4. ASSUME NEW j \in 1 .. Len(h) PROVE r[j] = h[j]
  <2>1. CASE j \in 1 .. Len(p)
    BY <1>1, <2>1
  <2>2. CASE j = Len(p) + 1
    BY <1>2, <2>2
  <2>3. j \in 1 .. Len(p) \/ j = Len(p) + 1
    BY <1>2
  <2> QED
    BY <2>1, <2>2, <2>3
<1>5. \A j \in 1 .. Len(q) : r[Len(h) + j] = q[j]
  BY <1>2
<1>6. Len(r) = Len(h) + Len(q)
  BY <1>2
<1>7. r = h \o q
  BY <1>1, <1>4, <1>5, <1>6, JoinIs
<1> QED
  BY <1>7 DEF h

LEMMA OctetsAround ==
  ASSUME NEW p \in Seq(Bytewise), NEW q \in Seq(Bytewise), NEW x \in Bytewise
  PROVE  OctetsOf((p \o <<x>>) \o q) = (OctetsOf(p) \o <<Octet[x]>>) \o OctetsOf(q)
<1> DEFINE o == <<x>>
           h == p \o o
<1>1. o \in Seq(Bytewise) /\ Len(o) = 1 /\ o[1] = x
  OBVIOUS
<1>2. OctetsOf(o) = <<Octet[x]>>
  <2>1. OctetsOf(o) = [i \in 1 .. 1 |-> Octet[o[i]]]
    BY <1>1 DEF OctetsOf
  <2>2. \A i \in 1 .. 1 : o[i] = x
    BY <1>1
  <2> DEFINE y == Octet[x]
  <2>3. OctetsOf(o) = [i \in 1 .. 1 |-> y]
    BY <2>1, <2>2
  <2> HIDE DEF y, o
  <2>4. OctetsOf(o) = <<y>>
    BY <2>3
  <2> QED
    BY <2>4 DEF y
<1> HIDE DEF o
<1>3. OctetsOf(h) = OctetsOf(p) \o OctetsOf(o) /\ h \in Seq(Bytewise)
  BY <1>1, OctetsJoin
<1> HIDE DEF h
<1>4. OctetsOf(h \o q) = OctetsOf(h) \o OctetsOf(q)
  BY <1>3, OctetsJoin
<1> QED
  BY <1>2, <1>3, <1>4 DEF h, o

LEMMA OneByteTells ==
  ASSUME NEW k \in Seq(Bytes), NEW i \in 1 .. Len(k), NEW b \in Bytes, b # k[i],
         NEW d, d = [k EXCEPT ![i] = b], NEW w \in Words
  PROVE  Crc(OctetsOf(d), w) # Crc(OctetsOf(k), w)
<1> DEFINE n == Len(k)
           p == SubSeq(k, 1, i - 1)
           m == n - i
           q == SubSeq(k, i + 1, i + m)
           x == k[i]
<1>1. n \in Nat /\ i - 1 \in 0 .. Len(k) /\ m \in Nat /\ i \in Nat /\ i + m <= Len(k) /\ x \in Bytes
  OBVIOUS
<1>2. p \in Seq(Bytes) /\ Len(p) = i - 1 /\ \A j \in 1 .. i - 1 : p[j] = k[j]
  BY <1>1, FirstOf
<1>3. n = i + m
  BY <1>1
<1> HIDE DEF m
<1>4. q \in Seq(Bytes) /\ Len(q) = m /\ \A j \in 1 .. m : q[j] = k[i + j]
  BY <1>1, SliceOK
<1>5. /\ d \in Seq(Bytes) /\ Len(d) = n /\ d[i] = b
      /\ \A j \in 1 .. n : j # i => d[j] = k[j]
  OBVIOUS
<1> HIDE DEF p, q, n
<1>6. k = (p \o <<x>>) \o q
  <2>1. Len(k) = Len(p) + 1 + Len(q)
    BY <1>1, <1>2, <1>3, <1>4 DEF n
  <2>2. k[Len(p) + 1] = x
    BY <1>1, <1>2
  <2>3. \A j \in 1 .. Len(p) : k[j] = p[j]
    BY <1>2
  <2>4. \A j \in 1 .. Len(q) : k[Len(p) + 1 + j] = q[j]
    <3>1. Len(p) + 1 = i /\ Len(q) = m
      BY <1>1, <1>2, <1>4
    <3> QED
      BY <1>4, <3>1
  <2> HIDE DEF x
  <2> QED
    <3> DEFINE o == <<x>>
    <3>1. o \in Seq(Bytes) /\ Len(o) = 1 /\ o[1] = x
      BY <1>1
    <3> HIDE DEF o
    <3>2. k[Len(p) + 1] = o[1]
      BY <2>2, <3>1
    <3>3. k \in Seq(Bytes) /\ p \in Seq(Bytes) /\ q \in Seq(Bytes)
      BY <1>2, <1>4
    <3>4. InOneRow(k, p, o, q)
      BY <2>1, <2>3, <2>4, <3>2 DEF InOneRow
    <3>5. k = (p \o o) \o q
      BY ONLY <3>1, <3>3, <3>4, PutTogether
    <3> QED
      BY <3>5 DEF o
<1>7. d = (p \o <<b>>) \o q
  <2>1. Len(d) = Len(p) + 1 + Len(q)
    BY <1>1, <1>2, <1>3, <1>4, <1>5
  <2>2. d[Len(p) + 1] = b
    BY <1>1, <1>2, <1>5
  <2>3. \A j \in 1 .. Len(p) : d[j] = p[j]
    <3> SUFFICES ASSUME NEW j \in 1 .. Len(p) PROVE d[j] = p[j]
      OBVIOUS
    <3>1. j \in 1 .. i - 1 /\ j \in 1 .. n /\ j # i
      BY <1>1, <1>2, <1>3
    <3> QED
      BY <1>2, <1>5, <3>1
  <2>4. \A j \in 1 .. Len(q) : d[Len(p) + 1 + j] = q[j]
    <3> SUFFICES ASSUME NEW j \in 1 .. Len(q) PROVE d[Len(p) + 1 + j] = q[j]
      OBVIOUS
    <3>1. Len(p) + 1 + j = i + j /\ j \in 1 .. m
      BY <1>1, <1>2, <1>4
    <3>2. i + j \in 1 .. n /\ i + j # i
      BY <1>1, <1>3, <3>1
    <3> QED
      BY <1>4, <1>5, <3>1, <3>2
  <2> QED
    <3> DEFINE o == <<b>>
    <3>1. o \in Seq(Bytes) /\ Len(o) = 1 /\ o[1] = b
      OBVIOUS
    <3> HIDE DEF o
    <3>2. d[Len(p) + 1] = o[1]
      BY <2>2, <3>1
    <3>3. d \in Seq(Bytes) /\ p \in Seq(Bytes) /\ q \in Seq(Bytes)
      BY <1>2, <1>4, <1>5
    <3>4. InOneRow(d, p, o, q)
      BY <2>1, <2>3, <2>4, <3>2 DEF InOneRow
    <3>5. d = (p \o o) \o q
      BY ONLY <3>1, <3>3, <3>4, PutTogether
    <3> QED
      BY <3>5 DEF o
<1>8. /\ p \in Seq(Bytewise) /\ q \in Seq(Bytewise) /\ x \in Bytewise /\ b \in Bytewise
      /\ OctetsOf(p) \in Seq(OctetWords) /\ OctetsOf(q) \in Seq(OctetWords)
  BY <1>1, <1>2, <1>4, BytesWords, BytesBytewise
<1>9. SUFFICES ASSUME Crc(OctetsOf(d), w) = Crc(OctetsOf(k), w) PROVE FALSE
  OBVIOUS
<1> DEFINE op == OctetsOf(p)
           oq == OctetsOf(q)
           ox == Octet[x]
           ob == Octet[b]
<1>10. /\ OctetsOf(k) = (op \o <<ox>>) \o oq
       /\ OctetsOf(d) = (op \o <<ob>>) \o oq
  <2>1. OctetsOf((p \o <<x>>) \o q) = (op \o <<ox>>) \o oq
    BY <1>8, OctetsAround
  <2>2. OctetsOf((p \o <<b>>) \o q) = (op \o <<ob>>) \o oq
    BY <1>8, OctetsAround
  <2> QED
    BY ONLY <1>6, <1>7, <2>1, <2>2
<1>11. ox \in OctetWords /\ ob \in OctetWords /\ op \in Seq(OctetWords) /\ oq \in Seq(OctetWords)
  BY <1>8, OctetWord
<1> HIDE DEF op, oq, ox, ob, x
<1>12. bra_crc32c_table((op \o <<ob>>) \o oq, w) = bra_crc32c_table((op \o <<ox>>) \o oq, w)
  BY <1>9, <1>10 DEF Crc
<1>13. ob = ox
  BY <1>11, <1>12, ChangedOctet
<1>14. b = x
  BY <1>8, <1>13, OctetsDiffer DEF ob, ox
<1> QED
  BY <1>14 DEF x

----------------------------------------------------------------------------
(* An entry that is stored.                                                *)
StartSum(size, comp) == Crc(LittleEndian(size, 8), NameSum(comp))
BytesSum(bytes, sum) == Crc(OctetsOf(bytes), sum)

LEMMA CrcNone ==
  ASSUME NEW w \in Words
  PROVE  bra_crc32c_table(<<>>, w) = w
<1> DEFINE e == <<>>
<1>1. e \in Seq(OctetWords) /\ Len(e) = 0
  OBVIOUS
<1> HIDE DEF e
<1>2. PICK t : Sums(e, Not(w), t) /\ bra_crc32c_table(e, w) = Not(t[Len(e)])
  BY <1>1, TableSums
<1>3. t[0] = Not(w)
  BY <1>2 DEF Sums, Loop
<1>4. Not(Not(w)) = w
  BY NotNot
<1>5. bra_crc32c_table(e, w) = w
  BY <1>1, <1>2, <1>3, <1>4
<1> QED
  BY <1>5 DEF e

LEMMA BytesSumOK ==
  ASSUME NEW w \in Words
  PROVE  /\ BytesSum(<<>>, w) = w
         /\ \A s \in Seq(Bytes) : BytesSum(s, w) \in Words
         /\ \A s \in Seq(Bytes), t \in Seq(Bytes) :
              Crc(Summed(t), BytesSum(s, w)) = BytesSum(s \o t, w)
<1>1. BytesSum(<<>>, w) = w
  <2>1. OctetsOf(<<>>) = <<>>
    BY DEF OctetsOf
  <2> QED
    BY <2>1, CrcNone DEF BytesSum, Crc
<1>2. ASSUME NEW s \in Seq(Bytes) PROVE BytesSum(s, w) \in Words
  BY SumsWords DEF BytesSum, Summed
<1>3. ASSUME NEW s \in Seq(Bytes), NEW t \in Seq(Bytes)
      PROVE  Crc(Summed(t), BytesSum(s, w)) = BytesSum(s \o t, w)
  <2> DEFINE a == OctetsOf(s)
             b == OctetsOf(t)
  <2>1. /\ s \in Seq(Bytewise) /\ t \in Seq(Bytewise)
        /\ a \in Seq(OctetWords) /\ b \in Seq(OctetWords)
    BY BytesWords
  <2>2. OctetsOf(s \o t) = a \o b
    BY <2>1, OctetsJoin
  <2> HIDE DEF a, b
  <2>3. bra_crc32c_table(b, bra_crc32c_table(a, w)) = bra_crc32c_table(a \o b, w)
    BY <2>1, Chained
  <2> QED
    BY <2>2, <2>3 DEF a, b, BytesSum, Crc, Summed
<1> QED
  BY <1>1, <1>2, <1>3

LEMMA StartSumOK ==
  ASSUME NEW size \in Nat, NEW comp
  PROVE  StartSum(size, comp) \in Words
BY SumsWords, NameWord DEF StartSum

OneByteOff(d, k) == \E i \in 1 .. Len(k), b \in Bytes : b # k[i] /\ d = [k EXCEPT ![i] = b]

LEMMA OneByteShows ==
  ASSUME NEW k \in Seq(Bytes), NEW d, OneByteOff(d, k), NEW w \in Words
  PROVE  BytesSum(d, w) # BytesSum(k, w)
BY OneByteTells DEF OneByteOff, BytesSum

(* All of a stored entry so far, as its stages leave it. *)
StoredSum == BytesSum(kept, StartSum(entry.data_size, "stored"))
StoredStarts == stage = "stored" => entry.data = kept /\ me.crc32 = StoredSum
StoredEnds == stage = "crc" /\ entry.comp = "stored" => entry.data = kept /\ me.crc32 = StoredSum
StoredSealed ==
  stage \in Ended /\ entry.comp = "stored" =>
    /\ entry.crc32 = StoredSum
    /\ IF "archive" \in changed THEN OneByteOff(entry.data, kept) ELSE entry.data = kept
StoredRead ==
  stage = "reading" /\ entry.comp = "stored" =>
    /\ at <= Len(entry.data)
    /\ decode => /\ out = SubSeq(entry.data, 1, at)
                 /\ me.crc32 = BytesSum(out, StartSum(entry.data_size, "stored"))
StoredTaken ==
  /\ stage = "accepted" /\ entry.comp = "stored" => out = kept /\ "archive" \notin changed
  /\ stage = "refused" /\ entry.comp = "stored" => "archive" \in changed

StoredStory == StoredStarts /\ StoredEnds /\ StoredSealed /\ StoredRead /\ StoredTaken

LEMMA StoredIs ==
  ASSUME TypesAndPlaces
  PROVE  /\ kept \in Seq(Bytes) /\ out \in Seq(Bytes) /\ at \in Nat
         /\ entry.data_size \in Nat /\ me.data_size \in Nat
         /\ StartSum(entry.data_size, "stored") \in Words
         /\ entry.comp = "stored" => entry.data \in Seq(Bytes)
         /\ me \in MeSet /\ entry \in EntrySet
<1>1. me \in MeSet /\ entry \in EntrySet /\ at \in Nat /\ kept \in Seq(Bytes) /\ out \in Seq(Bytes)
  BY DEF TypesAndPlaces, Types, TypeOfMe, TypeOfEntry, TypeOfWriter, TypeOfReader
<1>2. entry.data_size \in Nat /\ me.data_size \in Nat
  BY <1>1 DEF MeSet, EntrySet
<1>3. StartSum(entry.data_size, "stored") \in Words
  BY <1>2, StartSumOK
<1> QED
  BY <1>1, <1>2, <1>3 DEF TypesAndPlaces, Types, TypeOfEntry

(* Elsewhere than in these stages there is nothing to tell. *)
LEMMA NotStored ==
  ASSUME \/ stage' \in {"new", "flush", "compressed", "failed"}
         \/ stage' # "stored" /\ entry'.comp # "stored"
  PROVE  StoredStory'
BY DEF StoredStory, StoredStarts, StoredEnds, StoredSealed, StoredRead, StoredTaken, Ended

LEMMA StoredFlush ==
  ASSUME TypesAndPlaces, FlushEntry
  PROVE  StoredStory'
<1>1. /\ stage' = me.comp /\ entry'.data = <<>> /\ entry'.data_size = me.data_size
      /\ kept' = <<>> /\ me.comp \in Comps
      /\ me.comp = "stored" => me'.crc32 = StartSum(me.data_size, "stored")
  BY StoredIs DEF FlushEntry, Flush, MeSet, EntrySet, StartSum
<1>2. CASE me.comp = "compressed"
  BY <1>1, <1>2, NotStored
<1>3. CASE me.comp = "stored"
  <2>1. StartSum(me.data_size, "stored") \in Words
    BY StoredIs, StartSumOK
  <2>2. BytesSum(<<>>, StartSum(me.data_size, "stored")) = StartSum(me.data_size, "stored")
    BY <2>1, BytesSumOK
  <2>3. StoredStarts'
    BY <1>1, <1>3, <2>2 DEF StoredStarts, StoredSum
  <2> QED
    BY <1>1, <1>3, <2>3 DEF StoredStory, StoredEnds, StoredSealed, StoredRead, StoredTaken, Ended
<1> QED
  BY <1>1, <1>2, <1>3 DEF Comps

LEMMA StoredGoesOn ==
  ASSUME TypesAndPlaces, StoredStory, StoreChunk
  PROVE  StoredStory'
<1>1. PICK b : Stored(b)
  BY StoreDoes
<1>2. stage = "stored" /\ stage' = "stored"
  BY DEF StoreChunk
<1>3. entry.data = kept /\ me.crc32 = StoredSum
  BY <1>2 DEF StoredStory, StoredStarts
<1>4. /\ entry'.data = kept' /\ kept' = kept \o b /\ entry'.data_size = entry.data_size
      /\ b \in Seq(Bytes) /\ me'.crc32 = Crc(Summed(b), StoredSum)
  BY <1>1, <1>3, StoredIs DEF Stored, MeSet, EntrySet
<1>5. Crc(Summed(b), StoredSum) = StoredSum'
  <2> DEFINE w == StartSum(entry.data_size, "stored")
             k == kept
  <2>1. w \in Words /\ k \in Seq(Bytes)
    BY StoredIs
  <2> HIDE DEF w, k
  <2>2. Crc(Summed(b), BytesSum(k, w)) = BytesSum(k \o b, w)
    BY <1>4, <2>1, BytesSumOK
  <2>3. StoredSum' = BytesSum(k \o b, w)
    BY <1>4 DEF StoredSum, w, k
  <2> QED
    BY <2>2, <2>3 DEF StoredSum, w, k
<1>6. StoredStarts'
  BY <1>4, <1>5 DEF StoredStarts
<1> QED
  BY <1>2, <1>6 DEF StoredStory, StoredEnds, StoredSealed, StoredRead, StoredTaken, Ended

LEMMA StoredCloses ==
  ASSUME TypesAndPlaces, Origin, StoredStory, StoreEnd \/ WriteCrc
  PROVE  StoredStory'
<1>1. CASE StoreEnd
  <2>1. stage = "stored" /\ stage' = "crc" /\ UNCHANGED <<entry, kept, me>>
    BY <1>1 DEF StoreEnd, wvars
  <2>2. StoredEnds'
    BY <2>1 DEF StoredStory, StoredStarts, StoredEnds, StoredSum
  <2> QED
    BY <2>1, <2>2 DEF StoredStory, StoredStarts, StoredSealed, StoredRead, StoredTaken, Ended
<1>2. CASE WriteCrc
  <2>1. stage = "crc" /\ stage' = "sealed" /\ UNCHANGED <<kept, changed>>
    BY <1>2 DEF WriteCrc, wvars
  <2>2. /\ entry'.comp = entry.comp /\ entry'.data = entry.data
        /\ entry'.data_size = entry.data_size /\ entry'.crc32 = me.crc32
    BY <1>2, StoredIs DEF WriteCrc, EntrySet
  <2>3. "archive" \notin changed
    BY <2>1 DEF Origin, Ended
  <2>4. StoredSealed'
    BY <2>1, <2>2, <2>3 DEF StoredStory, StoredEnds, StoredSealed, StoredSum
  <2> QED
    BY <2>1, <2>4 DEF StoredStory, StoredStarts, StoredEnds, StoredRead, StoredTaken, Ended
<1> QED
  BY <1>1, <1>2

LEMMA StoredDamaged ==
  ASSUME TypesAndPlaces, StoredStory, Damage
  PROVE  StoredStory'
<1>1. /\ stage = "sealed" /\ stage' = "sealed" /\ "archive" \notin changed
      /\ "archive" \in changed' /\ kept' = kept
      /\ \/ entry.comp = "stored" /\ ByteChanged
         \/ entry.comp = "compressed" /\ IndexChanged
  BY DamageDoes
<1>2. CASE entry.comp = "compressed" /\ IndexChanged
  <2>1. entry'.comp = "compressed"
    BY <1>2, StoredIs DEF IndexChanged, EntrySet
  <2> QED
    BY <1>1, <2>1, NotStored
<1>3. CASE entry.comp = "stored" /\ ByteChanged
  <2>1. entry.data = kept /\ entry.crc32 = StoredSum
    BY <1>1, <1>3 DEF StoredStory, StoredSealed, Ended
  <2>2. PICK i \in 1 .. Len(entry.data), b \in Bytes :
          b # entry.data[i] /\ entry' = [entry EXCEPT !.data = [entry.data EXCEPT ![i] = b]]
    BY <1>3 DEF ByteChanged
  <2>3. /\ entry'.data = [entry.data EXCEPT ![i] = b] /\ entry'.data_size = entry.data_size
        /\ entry'.crc32 = entry.crc32
    BY <2>2, StoredIs DEF EntrySet
  <2>4. OneByteOff(entry'.data, kept)
    BY <2>1, <2>2, <2>3 DEF OneByteOff
  <2>5. StoredSealed'
    BY <1>1, <2>1, <2>3, <2>4 DEF StoredSealed, StoredSum
  <2> QED
    BY <1>1, <2>5 DEF StoredStory, StoredStarts, StoredEnds, StoredRead, StoredTaken, Ended
<1> QED
  BY <1>1, <1>2, <1>3
LEMMA StoredReads ==
  ASSUME TypesAndPlaces, StoredStory, ReadEntry
  PROVE  StoredStory'
<1>1. /\ stage = "sealed" /\ stage' = "reading" /\ at' = 0 /\ out' = <<>>
      /\ UNCHANGED <<entry, kept, changed>>
      /\ decode' => me'.crc32 = StartSum(entry.data_size, entry.comp)
  BY DEF ReadEntry, wvars, StartSum
<1>2. StoredSealed'
  BY <1>1 DEF StoredStory, StoredSealed, StoredSum, Ended
<1>3. ASSUME entry.comp = "stored" PROVE StoredRead'
  <2> DEFINE w == StartSum(entry.data_size, "stored")
             d == entry.data
  <2>1. w \in Words /\ d \in Seq(Bytes)
    BY <1>3, StoredIs
  <2>2. BytesSum(<<>>, w) = w
    BY <2>1, BytesSumOK
  <2>3. 0 <= Len(d) /\ SubSeq(d, 1, 0) = <<>>
    BY <2>1
  <2> QED
    BY <1>1, <1>3, <2>2, <2>3 DEF StoredRead
<1>4. StoredRead'
  BY <1>1, <1>3 DEF StoredRead
<1> QED
  BY <1>1, <1>2, <1>4 DEF StoredStory, StoredStarts, StoredEnds, StoredTaken

LEMMA StoredCopies ==
  ASSUME TypesAndPlaces, StoredStory, CopyChunk
  PROVE  StoredStory'
<1>1. PICK b : CopiedOut(b)
  BY CopyDoes
<1>2. /\ stage = "reading" /\ stage' = "reading" /\ me.comp = "stored"
      /\ UNCHANGED <<entry, kept, changed, decode>>
  BY DEF CopyChunk, wvars
<1>3. entry.comp = "stored"
  BY <1>2 DEF TypesAndPlaces, Places
<1> DEFINE w == StartSum(entry.data_size, "stored")
           d == entry.data
           n == Len(b)
           o == out
<1>4. w \in Words /\ d \in Seq(Bytes) /\ at \in Nat /\ o \in Seq(Bytes)
  BY <1>3, StoredIs
<1>5. /\ b = SubSeq(d, at + 1, at + n) /\ b \in Seq(Bytes) /\ n \in Nat
      /\ at + n <= Len(d) /\ at' = at + n
  BY <1>1 DEF CopiedOut
<1>6. StoredSealed'
  BY <1>2 DEF StoredStory, StoredSealed, StoredSum, Ended
<1>7. ASSUME decode PROVE out' = SubSeq(d, 1, at') /\ me'.crc32 = BytesSum(out', w)
  <2>1. o = SubSeq(d, 1, at) /\ me.crc32 = BytesSum(o, w)
    BY <1>2, <1>3, <1>7 DEF StoredStory, StoredRead
  <2>2. out' = o \o b /\ me'.crc32 = Crc(Summed(b), me.crc32)
    BY <1>1, <1>7, StoredIs DEF CopiedOut, MeSet
  <2> HIDE DEF w, d, n, o
  <2>3. SubSeq(d, 1, at) \o SubSeq(d, at + 1, at + n) = SubSeq(d, 1, at + n)
    BY <1>4, <1>5, SliceNext
  <2>4. out' = SubSeq(d, 1, at')
    BY ONLY <1>5, <2>1, <2>2, <2>3
  <2>5. Crc(Summed(b), BytesSum(o, w)) = BytesSum(o \o b, w)
    BY <1>4, <1>5, BytesSumOK
  <2> QED
    BY ONLY <2>1, <2>2, <2>4, <2>5
<1>8. StoredRead'
  <2>1. at' <= Len(d)
    BY ONLY <1>5
  <2> QED
    BY <1>2, <1>3, <1>7, <2>1 DEF StoredRead
<1> QED
  BY <1>2, <1>6, <1>8 DEF StoredStory, StoredStarts, StoredEnds, StoredTaken

LEMMA StoredAnswers ==
  ASSUME TypesAndPlaces, StoredStory, EndRead
  PROVE  StoredStory'
<1>1. /\ stage = "reading" /\ stage' \in {"refused", "accepted", "listed"}
      /\ UNCHANGED <<entry, kept, changed, out, me, at, decode>> /\ ~More
      /\ stage' = "accepted" => decode /\ me.crc32 = entry.crc32
      /\ stage' = "refused" => me.comp = "compressed" \/ (decode /\ me.crc32 # entry.crc32)
  BY DEF EndRead, Refuse, wvars, rvars
<1>2. StoredSealed'
  BY <1>1 DEF StoredStory, StoredSealed, StoredSum, Ended
<1>3. ASSUME entry.comp = "stored" PROVE StoredTaken'
  <2> DEFINE w == StartSum(entry.data_size, "stored")
             d == entry.data
             k == kept
  <2>1. /\ me.comp = "stored" /\ me.data_size = Len(d) /\ at <= Len(d)
        /\ decode => out = SubSeq(d, 1, at) /\ me.crc32 = BytesSum(out, w)
    BY <1>1, <1>3 DEF TypesAndPlaces, Places, StoredStory, StoredRead, Ended
  <2>2. w \in Words /\ d \in Seq(Bytes) /\ k \in Seq(Bytes) /\ at \in Nat
    BY <1>3, StoredIs
  <2>3. at = Len(d)
    BY <1>1, <2>1, <2>2 DEF More
  <2>4. /\ entry.crc32 = BytesSum(k, w)
        /\ IF "archive" \in changed THEN OneByteOff(d, k) ELSE d = k
    BY <1>1, <1>3 DEF StoredStory, StoredSealed, StoredSum, Ended
  <2> HIDE DEF w, d, k
  <2>5. SubSeq(d, 1, Len(d)) = d
    BY <2>2, SubSeqFull
  <2>6. decode => out = d /\ me.crc32 = BytesSum(d, w)
    BY <2>1, <2>3, <2>5
  <2>7. OneByteOff(d, k) => BytesSum(d, w) # BytesSum(k, w)
    BY <2>2, OneByteShows
  <2>8. stage' = "accepted" => out = k /\ "archive" \notin changed
    BY <1>1, <2>4, <2>6, <2>7
  <2>9. stage' = "refused" => "archive" \in changed
    BY <1>1, <2>1, <2>4, <2>6
  <2> QED
    BY <1>1, <2>8, <2>9 DEF StoredTaken, k
<1>4. StoredTaken'
  BY <1>1, <1>3 DEF StoredTaken
<1> QED
  BY <1>1, <1>2, <1>4 DEF StoredStory, StoredStarts, StoredEnds, StoredRead

LEMMA StoredStep ==
  TypesAndPlaces /\ Origin /\ StoredStory /\ [Next]_fvars => StoredStory'
<1> SUFFICES ASSUME TypesAndPlaces, Origin, StoredStory, [Next]_fvars PROVE StoredStory'
  OBVIOUS
<1>1. CASE Write
  <2>1. CASE TakeSize \/ ShortRead \/ FallBack
    BY <2>1, NotStored DEF TakeSize, ShortRead, FallBack
  <2>2. CASE CompressChunk
    BY <2>2, NotStored DEF CompressChunk
  <2>3. CASE KeepCompressed
    <3>1. stage' = "crc" /\ entry'.comp = entry.comp /\ stage = "compressed"
      BY <2>3, StoredIs DEF KeepCompressed, EntrySet
    <3>2. entry'.comp = "compressed"
      BY <3>1 DEF TypesAndPlaces, Places
    <3> QED
      BY <3>1, <3>2, NotStored
  <2> QED
    BY <1>1, <2>1, <2>2, <2>3, StoredFlush, StoredGoesOn, StoredCloses DEF Write
<1>2. CASE Change
  BY <1>2 DEF Change, wvars, rvars, StoredStory, StoredStarts, StoredEnds, StoredSealed,
              StoredRead, StoredTaken, StoredSum, Ended
<1>3. CASE Damage
  BY <1>3, StoredDamaged
<1>4. CASE Read
  <2>1. CASE UnpackChunk
    <3>1. stage = "reading" /\ me.comp = "compressed" /\ entry' = entry
      BY <2>1 DEF UnpackChunk
    <3>2. entry'.comp = "compressed" /\ stage' # "stored"
      BY <1>4, <3>1, ReadFrame DEF TypesAndPlaces, Places, Ended
    <3> QED
      BY <3>2, NotStored
  <2> QED
    BY <1>4, <2>1, StoredReads, StoredCopies, StoredAnswers DEF Read
<1>5. CASE Finished \/ UNCHANGED fvars
  BY <1>5 DEF Finished, fvars, wvars, rvars, StoredStory, StoredStarts, StoredEnds, StoredSealed,
              StoredRead, StoredTaken, StoredSum
<1> QED
  BY <1>1, <1>2, <1>3, <1>4, <1>5 DEF Next

(* The whole way of an entry that is stored, right from the start or       *)
(* because compression did not pay: the sum in the archive is that of the  *)
(* bytes that were read, however they were cut into pieces, and the reader *)
(* sums what it finds in the same way (chunks.c:82, meta_entries.c:204).   *)
THEOREM StoredStoryHolds == Spec => []StoredStory
<1>1. Init => StoredStory
  BY DEF Init, StoredStory, StoredStarts, StoredEnds, StoredSealed, StoredRead, StoredTaken, Ended
<1> QED
  BY <1>1, TypesHold, OriginHolds, StoredStep, PTL DEF Spec

(* An entry of which a stored byte has changed is not taken: the sum of    *)
(* what is there is another one (chunks.c:82, meta_entries.c:129).         *)
THEOREM StoredDamageShows == Spec => [](entry.comp = "stored" => DamageNoticed)
<1>1. TypesAndPlaces /\ StoredStory => (entry.comp = "stored" => DamageNoticed)
  BY DEF StoredStory, StoredTaken, DamageNoticed
<1> QED
  BY <1>1, TypesHold, StoredStoryHolds, PTL

----------------------------------------------------------------------------
(* How a file becomes chunks: the bytes and the octets of the sum before   *)
(* the first, after it, and so on to the end.                              *)
MadeOf(c, b, k0, h0, k1, h1) ==
  StandsFor(c, b) /\ k1 = k0 \o b /\ h1 = (h0 \o HeaderOctets(c)) \o OctetsOf(b)

Made(chunks, K, H) ==
  /\ K \in [0 .. Len(chunks) -> Seq(Bytes)] /\ H \in [0 .. Len(chunks) -> Seq(OctetWords)]
  /\ K[0] = <<>> /\ H[0] = <<>>
  /\ \A k \in 1 .. Len(chunks) : \E b : MadeOf(chunks[k], b, K[k - 1], H[k - 1], K[k], H[k])

Longer(f, n, x) == [i \in 0 .. n + 1 |-> IF i = n + 1 THEN x ELSE f[i]]

LEMMA LongerIs ==
  ASSUME NEW S, NEW n \in Nat, NEW f \in [0 .. n -> S], NEW x \in S
  PROVE  /\ Longer(f, n, x) \in [0 .. n + 1 -> S] /\ Longer(f, n, x)[n + 1] = x
         /\ \A i \in 0 .. n : Longer(f, n, x)[i] = f[i]
<1>1. \A i \in 0 .. n + 1 : i = n + 1 \/ i \in 0 .. n
  OBVIOUS
<1>2. \A i \in 0 .. n : i # n + 1 /\ i \in 0 .. n + 1
  OBVIOUS
<1>3. n + 1 \in 0 .. n + 1
  OBVIOUS
<1> QED
  BY <1>1, <1>2, <1>3 DEF Longer

LEMMA MadeNone ==
  ASSUME NEW f, f = [i \in 0 .. 0 |-> <<>>]
  PROVE  Made(<<>>, f, f)
<1> DEFINE e == <<>>
<1>1. e \in Seq(Bytes) /\ e \in Seq(OctetWords) /\ Len(e) = 0
  OBVIOUS
<1> HIDE DEF e
<1>2. f = [i \in 0 .. 0 |-> e]
  BY DEF e
<1>3. f \in [0 .. 0 -> Seq(Bytes)] /\ f \in [0 .. 0 -> Seq(OctetWords)] /\ f[0] = e
  BY <1>1, <1>2
<1>4. 1 .. 0 = {}
  OBVIOUS
<1>5. Made(e, f, f)
  BY <1>1, <1>3, <1>4 DEF Made, e
<1> QED
  BY <1>5 DEF e

LEMMA MadeMore ==
  ASSUME NEW chunks \in Seq(ChunkSet), NEW K, NEW H, Made(chunks, K, H),
         NEW c \in ChunkSet, NEW b, NEW k1, NEW h1, NEW n \in Nat, n = Len(chunks),
         MadeOf(c, b, K[n], H[n], k1, h1)
  PROVE  Made(Append(chunks, c), Longer(K, n, k1), Longer(H, n, h1))
<1> DEFINE more == Append(chunks, c)
           KK == Longer(K, n, k1)
           HH == Longer(H, n, h1)
<1>1. /\ Len(more) = n + 1 /\ more[n + 1] = c
      /\ \A i \in 1 .. n : more[i] = chunks[i]
  OBVIOUS
<1>2. /\ K \in [0 .. n -> Seq(Bytes)] /\ H \in [0 .. n -> Seq(OctetWords)]
      /\ K[0] = <<>> /\ H[0] = <<>> /\ n \in 0 .. n /\ 0 \in 0 .. n
  BY DEF Made
<1>3. K[n] \in Seq(Bytes) /\ H[n] \in Seq(OctetWords)
  BY <1>2
<1>4. k1 \in Seq(Bytes) /\ h1 \in Seq(OctetWords)
  <2> DEFINE kn == K[n]
             hn == H[n]
             ho == HeaderOctets(c)
             oo == OctetsOf(b)
  <2>1. /\ b \in Seq(Bytes) /\ k1 = kn \o b /\ h1 = (hn \o ho) \o oo
        /\ kn \in Seq(Bytes) /\ hn \in Seq(OctetWords)
    BY <1>3 DEF MadeOf, StandsFor, Codes
  <2>2. ho \in Seq(OctetWords) /\ oo \in Seq(OctetWords)
    BY <2>1, HeaderOctetsOK, BytesWords
  <2> HIDE DEF kn, hn, ho, oo
  <2> QED
    BY ONLY <2>1, <2>2
<1>5. /\ KK \in [0 .. n + 1 -> Seq(Bytes)] /\ KK[n + 1] = k1 /\ \A i \in 0 .. n : KK[i] = K[i]
      /\ HH \in [0 .. n + 1 -> Seq(OctetWords)] /\ HH[n + 1] = h1 /\ \A i \in 0 .. n : HH[i] = H[i]
  <2>1. /\ KK \in [0 .. n + 1 -> Seq(Bytes)] /\ KK[n + 1] = k1
        /\ \A i \in 0 .. n : KK[i] = K[i]
    <3> DEFINE T == Seq(Bytes)
    <3>1. K \in [0 .. n -> T] /\ k1 \in T /\ n \in Nat
      BY <1>2, <1>4
    <3> HIDE DEF T
    <3>2. KK \in [0 .. n + 1 -> T] /\ KK[n + 1] = k1 /\ \A i \in 0 .. n : KK[i] = K[i]
      BY ONLY <3>1, LongerIs
    <3> QED
      BY <3>2 DEF T
  <2>2. /\ HH \in [0 .. n + 1 -> Seq(OctetWords)] /\ HH[n + 1] = h1
        /\ \A i \in 0 .. n : HH[i] = H[i]
    <3> DEFINE T == Seq(OctetWords)
    <3>1. H \in [0 .. n -> T] /\ h1 \in T /\ n \in Nat
      BY <1>2, <1>4
    <3> HIDE DEF T
    <3>2. HH \in [0 .. n + 1 -> T] /\ HH[n + 1] = h1 /\ \A i \in 0 .. n : HH[i] = H[i]
      BY ONLY <3>1, LongerIs
    <3> QED
      BY <3>2 DEF T
  <2> QED
    BY <2>1, <2>2
<1> HIDE DEF more, KK, HH
<1>6. ASSUME NEW k \in 1 .. n + 1
      PROVE  \E x : MadeOf(more[k], x, KK[k - 1], HH[k - 1], KK[k], HH[k])
  <2>1. CASE k = n + 1
    <3>1. k - 1 = n /\ n \in 0 .. n
      BY <2>1
    <3>2. MadeOf(more[k], b, KK[k - 1], HH[k - 1], KK[k], HH[k])
      BY <1>1, <1>5, <2>1, <3>1
    <3> QED
      BY <3>2
  <2>2. CASE k # n + 1
    <3>1. k \in 1 .. n /\ k \in 0 .. n /\ k - 1 \in 0 .. n
      BY <2>2
    <3>2. PICK x : MadeOf(chunks[k], x, K[k - 1], H[k - 1], K[k], H[k])
      BY <3>1 DEF Made
    <3>3. MadeOf(more[k], x, KK[k - 1], HH[k - 1], KK[k], HH[k])
      BY <1>1, <1>5, <3>1, <3>2
    <3> QED
      BY <3>3
  <2> QED
    BY <2>1, <2>2
<1>7. KK[0] = <<>> /\ HH[0] = <<>>
  BY <1>2, <1>5
<1>8. Made(more, KK, HH)
  BY <1>1, <1>5, <1>6, <1>7 DEF Made
<1> QED
  BY <1>8 DEF more, KK, HH

(* A header for each chunk is in the sum.                                  *)
LEMMA MadeLengths ==
  ASSUME NEW chunks \in Seq(ChunkSet), NEW K, NEW H, Made(chunks, K, H),
         NEW k \in 0 .. Len(chunks)
  PROVE  Len(H[k]) = Len(K[k]) + k * sizeof_chunk_header
<1> DEFINE n == Len(chunks)
           z == sizeof_chunk_header
           P == {i \in 0 .. n : Len(H[i]) = Len(K[i]) + i * z}
<1>1. n \in Nat /\ z \in Nat
  BY BytesBytewise DEF sizeof_chunk_header
<1> HIDE DEF z
<1>2. 0 \in P
  <2>1. Len(<<>>) = 0 /\ 0 * z = 0 /\ 0 \in 0 .. n
    BY <1>1
  <2> QED
    BY <2>1 DEF Made
<1>3. ASSUME NEW i \in 1 .. n, i - 1 \in P PROVE i \in P
  <2>1. i - 1 \in 0 .. n /\ i \in 0 .. n /\ i - 1 \in Nat
    BY <1>1
  <2>2. PICK b : MadeOf(chunks[i], b, K[i - 1], H[i - 1], K[i], H[i])
    BY DEF Made
  <2> DEFINE k0 == K[i - 1]
             h0 == H[i - 1]
             ho == HeaderOctets(chunks[i])
             oo == OctetsOf(b)
  <2>3. k0 \in Seq(Bytes) /\ h0 \in Seq(OctetWords) /\ b \in Seq(Bytes) /\ chunks[i] \in ChunkSet
    BY <2>1, <2>2 DEF Made, MadeOf, StandsFor, Codes
  <2>4. /\ ho \in Seq(OctetWords) /\ Len(ho) = z /\ oo \in Seq(OctetWords) /\ Len(oo) = Len(b)
    BY <2>3, HeaderOctetsOK, BytesWords DEF z
  <2>5. K[i] = k0 \o b /\ H[i] = (h0 \o ho) \o oo
    BY <2>2 DEF MadeOf
  <2>6. Len(h0) = Len(k0) + (i - 1) * z
    BY <1>3
  <2> HIDE DEF k0, h0, ho, oo
  <2>7. Len(K[i]) = Len(k0) + Len(b) /\ Len(k0) \in Nat /\ Len(b) \in Nat
    BY <2>3, <2>5
  <2>8. Len(H[i]) = Len(h0) + z + Len(b)
    <3>1. Len(h0 \o ho) = Len(h0) + Len(ho) /\ h0 \o ho \in Seq(OctetWords)
      BY <2>3, <2>4, WordsJoin
    <3>2. Len((h0 \o ho) \o oo) = Len(h0 \o ho) + Len(oo)
      BY <2>4, <3>1, WordsJoin
    <3> QED
      BY <2>4, <2>5, <3>1, <3>2
  <2>9. (i - 1) * z + z = i * z
    <3>1. i \in Int /\ z \in Int
      BY <1>1
    <3> QED
      BY ONLY <3>1
  <2>10. (i - 1) * z \in Nat /\ i * z \in Nat
    BY ONLY <1>1, <2>1, <2>9
  <2>11. Len(H[i]) = Len(K[i]) + i * z
    BY <1>1, <2>6, <2>7, <2>8, <2>9, <2>10
  <2> QED
    BY <2>1, <2>11
<1> HIDE DEF P
<1>4. \A i \in 0 .. n : i \in P
  BY <1>1, <1>2, <1>3, Climb
<1> QED
  BY <1>4 DEF P, z

(* So many chunks as the length says.                                      *)
Counted(n, size, x) ==
  /\ x < size => x = n * MaxChunk
  /\ x = size => n = (size + MaxChunk - 1) \div MaxChunk

LEMMA CountedNone ==
  ASSUME NEW size \in Nat
  PROVE  Counted(0, size, 0)
<1>1. MaxChunk \in Nat /\ MaxChunk > 0
  BY ChunksAssumption
<1>2. 0 * MaxChunk = 0
  BY <1>1
<1>3. (0 + MaxChunk - 1) \div MaxChunk = 0
  <2> DEFINE r == MaxChunk - 1
             x == 0 + MaxChunk - 1
  <2>1. r \in 0 .. MaxChunk - 1 /\ x = MaxChunk * 0 + r
    BY <1>1
  <2> HIDE DEF r, x
  <2>2. x \div MaxChunk = 0
    BY <1>1, <2>1, DivIs
  <2> QED
    BY <2>2 DEF x
<1> QED
  BY <1>2, <1>3 DEF Counted

LEMMA CountedMore ==
  ASSUME NEW n \in Nat, NEW size \in Nat, NEW x \in Nat, NEW p \in Nat, x < size,
         Counted(n, size, x), p >= 1, p <= MaxChunk, p = MaxChunk \/ x + p = size
  PROVE  Counted(n + 1, size, x + p)
<1> DEFINE M == MaxChunk
<1>1. M \in Nat /\ M > 0 /\ x = n * M
  BY ChunksAssumption DEF Counted
<1>2. (n + 1) * M = n * M + M /\ M * (n + 1) = n * M + M
  BY <1>1
<1> HIDE DEF M
<1>3. ASSUME x + p < size PROVE x + p = (n + 1) * M
  BY <1>1, <1>2, <1>3 DEF M
<1>4. ASSUME x + p = size PROVE n + 1 = (size + M - 1) \div M
  <2> DEFINE y == size + M - 1
             r == p - 1
             q == n + 1
  <2>1. r \in 0 .. M - 1 /\ y = M * q + r /\ q \in Int
    <3>1. p \in Nat /\ p >= 1 /\ p <= M
      BY DEF M
    <3>2. M * q = n * M + M /\ n * M \in Nat
      BY <1>1, <1>2
    <3>3. y = x + p + M - 1
      BY <1>4
    <3> QED
      BY <1>1, <3>1, <3>2, <3>3
  <2> HIDE DEF y, r, q
  <2>2. y \div M = q
    BY <1>1, <2>1, DivIs
  <2> QED
    BY <2>2 DEF y, q
<1> QED
  BY <1>3, <1>4 DEF Counted, M

LEMMA CountedAll ==
  ASSUME NEW chunks \in Seq(ChunkSet), NEW K, NEW H, Made(chunks, K, H),
         NEW size \in Nat, Counted(Len(chunks), size, size), Len(K[Len(chunks)]) = size
  PROVE  Len(H[Len(chunks)]) = SummedLength(size)
<1> DEFINE n == Len(chunks)
<1>1. n \in 0 .. Len(chunks) /\ n = (size + MaxChunk - 1) \div MaxChunk
  BY DEF Counted
<1>2. Len(H[n]) = Len(K[n]) + n * sizeof_chunk_header
  BY <1>1, MadeLengths
<1> HIDE DEF n
<1> QED
  BY <1>1, <1>2 DEF SummedLength, n

(* The sums of compress_file and of decompress_file.                       *)
LEMMA CrcJoin ==
  ASSUME NEW a \in Seq(OctetWords), NEW b \in Seq(OctetWords), NEW w \in Words
  PROVE  Crc(b, Crc(a, w)) = Crc(a \o b, w) /\ Crc(a, w) \in Words
BY Chained, TableWord DEF Crc

LEMMA SumNext ==
  ASSUME NEW h \in Seq(OctetWords), NEW g \in Seq(OctetWords), NEW b \in Seq(Bytes),
         NEW w \in Words
  PROVE  Crc(Summed(b), Crc(g, Crc(h, w))) = Crc((h \o g) \o OctetsOf(b), w)
<1> DEFINE o == OctetsOf(b)
           hg == h \o g
<1>1. o \in Seq(OctetWords) /\ hg \in Seq(OctetWords)
  BY BytesWords
<1>2. Crc(g, Crc(h, w)) = Crc(hg, w)
  BY CrcJoin
<1> HIDE DEF o, hg
<1>3. Crc(o, Crc(hg, w)) = Crc(hg \o o, w)
  BY <1>1, CrcJoin
<1> QED
  BY <1>2, <1>3 DEF o, hg, Summed

LEMMA CombineNext ==
  ASSUME NEW h \in Seq(OctetWords), NEW g \in Seq(OctetWords), NEW b \in Seq(Bytes),
         Len(b) < LengthLimit
  PROVE  bra_crc32c_combine(Crc(g, Crc(h, BRA_CRC32C_INIT)), Crc(Summed(b), BRA_CRC32C_INIT), Len(b))
           = Crc((h \o g) \o OctetsOf(b), BRA_CRC32C_INIT)
<1> DEFINE o == OctetsOf(b)
           hg == h \o g
           w == BRA_CRC32C_INIT
<1>1. o \in Seq(OctetWords) /\ hg \in Seq(OctetWords) /\ w \in Words /\ Len(o) = Len(b)
  BY BytesWords, SumsWords
<1> HIDE DEF w
<1>2. Crc(g, Crc(h, w)) = Crc(hg, w)
  BY <1>1, CrcJoin
<1> HIDE DEF o, hg
<1>3. Len(o) < LengthLimit
  BY <1>1
<1>4. bra_crc32c_combine(bra_crc32c_table(hg, w), bra_crc32c_table(o, w), Len(o))
        = bra_crc32c_table(hg \o o, w)
  BY <1>1, <1>3, CombineJoins DEF w
<1>5. bra_crc32c_combine(Crc(hg, w), Crc(o, w), Len(b)) = Crc(hg \o o, w)
  BY <1>1, <1>4 DEF Crc
<1> QED
  BY <1>2, <1>5 DEF o, hg, w, Summed

LEMMA CombineStart ==
  ASSUME NEW size \in Nat, NEW h \in Seq(OctetWords), Len(h) < LengthLimit
  PROVE  bra_crc32c_combine(StartSum(size, "compressed"), Crc(h, BRA_CRC32C_INIT), Len(h))
           = Crc(h, StartSum(size, "compressed"))
<1> DEFINE name == <<{2}, {0}, {}, {1, 2, 5, 6}>>
           w == BRA_CRC32C_INIT
           l == LittleEndian(size, 8)
           s == name \o l
<1>1. {} \in OctetWords /\ {0} \in OctetWords /\ {2} \in OctetWords /\ {1, 2, 5, 6} \in OctetWords
  BY DEF OctetWords
<1>2. name \in Seq(OctetWords)
  BY <1>1
<1>3. NameSum("compressed") = Crc(name, w)
  BY DEF NameSum
<1>4. l \in Seq(OctetWords) /\ w \in Words
  BY LittleEndianOK, SumsWords
<1> HIDE DEF name, l, w
<1>5. s \in Seq(OctetWords)
  BY <1>2, <1>4
<1>6. Crc(l, Crc(name, w)) = Crc(s, w)
  BY <1>2, <1>4, CrcJoin
<1>7. StartSum(size, "compressed") = Crc(s, w)
  BY <1>3, <1>6 DEF StartSum, l
<1> HIDE DEF s
<1>8. bra_crc32c_combine(bra_crc32c_table(s, w), bra_crc32c_table(h, w), Len(h))
        = bra_crc32c_table(s \o h, w)
  BY <1>5, CombineJoins DEF w
<1>9. Crc(h, Crc(s, w)) = Crc(s \o h, w)
  BY <1>4, <1>5, CrcJoin
<1> QED
  BY <1>7, <1>8, <1>9 DEF Crc, w

LEMMA CodesSame ==
  ASSUME NEW c \in ChunkSet, NEW d, SameButIndex(c, d), NEW b, Codes(d, b)
  PROVE  Codes(c, b)
<1>1. b \in Seq(Bytes) /\ Len(b) > 0
  BY DEF Codes
<1>2. PICK f : EncodedAs(d, RleOf(b), f)
  BY DEF Codes
<1>3. EncodedAs(c, RleOf(b), f)
  BY <1>2, SameEncoded
<1> QED
  BY <1>1, <1>3 DEF Codes

LEMMA SizeAtOne ==
  ASSUME NEW data \in Seq(ChunkSet), NEW i \in 0 .. Len(data), NEW k \in 0 .. Len(data),
         SizeAt(data, i) = SizeAt(data, k)
  PROVE  i = k
<1>1. SizeAt(data, i) \in Nat /\ SizeAt(data, k) \in Nat
  BY SizeAtOK
<1>2. ~(i < k) /\ ~(k < i)
  BY <1>1, SizesRise
<1> QED
  BY <1>2

(* All of a compressed entry so far, as its stages leave it.               *)
ChunksSum(H, k) == Crc(H[k], StartSum(entry.data_size, "compressed"))
InAll == Len(tmpfile)

Compressing(K, H) ==
  stage = "compressed" =>
    /\ me.crc32 = NameSum("compressed") /\ K[InAll] = kept
    /\ Counted(InAll, me.data_size, at)
    /\ SummedLength(me.data_size) < LengthLimit => crc32 = Crc(H[InAll], BRA_CRC32C_INIT)
Closing(K, H) ==
  stage = "crc" /\ entry.comp = "compressed" =>
    /\ entry.data = tmpfile /\ K[InAll] = kept /\ entry.data_size < Len(kept)
    /\ FitsLength => me.crc32 = ChunksSum(H, InAll)
SealedChunks(K, H) ==
  stage \in Ended /\ entry.comp = "compressed" =>
    /\ Redone(entry.data, tmpfile) /\ K[InAll] = kept /\ entry.data_size < Len(kept)
    /\ "archive" \notin changed => entry.data = tmpfile
    /\ FitsLength => entry.crc32 = ChunksSum(H, InAll)
ReadUpTo(K, H, m) ==
  /\ m \in 0 .. InAll /\ at = SizeAt(entry.data, m) /\ file_orig_size = Len(K[m])
  /\ decode /\ "archive" \notin changed => out = K[m] /\ me.crc32 = ChunksSum(H, m)
ReadChunks(K, H) ==
  stage = "reading" /\ entry.comp = "compressed" => \E m : ReadUpTo(K, H, m)
TakenChunks ==
  entry.comp = "compressed" =>
    /\ stage = "accepted" /\ "archive" \notin changed => out = kept
    /\ stage = "listed" => file_orig_size = Len(kept)
    /\ stage = "refused" /\ "archive" \notin changed => Oversized \/ ~FitsLength

ChunksStory(K, H) ==
  /\ Made(tmpfile, K, H)
  /\ Compressing(K, H) /\ Closing(K, H) /\ SealedChunks(K, H) /\ ReadChunks(K, H) /\ TakenChunks
StoryTold == \E K, H : ChunksStory(K, H)

LEMMA ChunksAre ==
  ASSUME TypesAndPlaces
  PROVE  /\ tmpfile \in Seq(ChunkSet) /\ InAll \in Nat /\ InAll \in 0 .. InAll
         /\ kept \in Seq(Bytes) /\ out \in Seq(Bytes) /\ Len(kept) \in Nat
         /\ me \in MeSet /\ entry \in EntrySet /\ at \in Nat /\ file_orig_size \in Nat
         /\ me.data_size \in Nat /\ entry.data_size \in Nat
         /\ StartSum(entry.data_size, "compressed") \in Words
         /\ entry.comp = "compressed" => entry.data \in Seq(ChunkSet)
<1>1. /\ me \in MeSet /\ entry \in EntrySet /\ at \in Nat /\ file_orig_size \in Nat
      /\ kept \in Seq(Bytes) /\ out \in Seq(Bytes) /\ tmpfile \in Seq(ChunkSet)
  BY DEF TypesAndPlaces, Types, TypeOfMe, TypeOfEntry, TypeOfWriter, TypeOfReader
<1>2. me.data_size \in Nat /\ entry.data_size \in Nat
  BY <1>1 DEF MeSet, EntrySet
<1>3. StartSum(entry.data_size, "compressed") \in Words
  BY <1>2, StartSumOK
<1>4. InAll \in Nat
  BY <1>1 DEF InAll
<1>5. Len(kept) \in Nat
  BY <1>1
<1>6. InAll \in 0 .. InAll
  BY <1>4
<1> QED
  BY <1>1, <1>2, <1>3, <1>4, <1>5, <1>6 DEF TypesAndPlaces, Types, TypeOfEntry

(* Elsewhere than in these stages there is nothing to tell. *)
LEMMA NotChunks ==
  ASSUME NEW K, NEW H, Made(tmpfile, K, H)',
         \/ stage' \in {"new", "flush", "failed"}
         \/ stage' # "compressed" /\ entry'.comp # "compressed"
  PROVE  ChunksStory(K, H)' 
<1>1. Compressing(K, H)' /\ Closing(K, H)'
  BY DEF Compressing, Closing
<1>2. SealedChunks(K, H)' /\ ReadChunks(K, H)' /\ TakenChunks'
  BY DEF SealedChunks, ReadChunks, TakenChunks, Ended
<1> QED
  BY <1>1, <1>2 DEF ChunksStory

LEMMA ChunksFlush ==
  ASSUME TypesAndPlaces, FlushEntry
  PROVE  StoryTold'
<1>1. /\ stage' = me.comp /\ entry'.comp = me.comp /\ tmpfile' = <<>> /\ kept' = <<>>
      /\ at' = 0 /\ crc32' = BRA_CRC32C_INIT /\ me'.data_size = me.data_size
      /\ me.comp \in Comps
      /\ me.comp = "compressed" => me'.crc32 = NameSum("compressed")
  BY ChunksAre DEF FlushEntry, Flush, MeSet, EntrySet
<1> DEFINE f == [i \in 0 .. 0 |-> <<>>]
<1>2. f[0] = <<>> /\ f = [i \in 0 .. 0 |-> <<>>]
  OBVIOUS
<1> HIDE DEF f
<1>3. Made(<<>>, f, f)
  BY <1>2, MadeNone
<1>4. Made(tmpfile, f, f)'
  BY <1>1, <1>3
<1>5. CASE me.comp = "stored"
  <2>1. ChunksStory(f, f)'
    BY <1>1, <1>4, <1>5, NotChunks
  <2> QED
    BY <2>1 DEF StoryTold
<1>6. CASE me.comp = "compressed"
  <2>1. Len(<<>>) = 0
    OBVIOUS
  <2>2. InAll' = 0
    BY <1>1, <2>1 DEF InAll
  <2>3. Counted(0, me.data_size, 0)
    BY ChunksAre, CountedNone
  <2>4. Crc(<<>>, BRA_CRC32C_INIT) = BRA_CRC32C_INIT
    BY SumsWords, CrcNone DEF Crc
  <2>5. Compressing(f, f)'
    BY <1>1, <1>2, <1>6, <2>2, <2>3, <2>4 DEF Compressing
  <2>6. ChunksStory(f, f)'
    BY <1>1, <1>4, <1>6, <2>5 DEF ChunksStory, Closing, SealedChunks, ReadChunks, TakenChunks, Ended
  <2> QED
    BY <2>6 DEF StoryTold
<1> QED
  BY <1>1, <1>5, <1>6 DEF Comps

LEMMA LimitOK == LengthLimit \in Nat \ {0}
<1>1. LengthBits \in Nat /\ LengthBits \in 0 .. LengthBits
  BY LengthAssumption
<1> QED
  BY <1>1, PowerStep DEF LengthLimit

LEMMA MadeTypes ==
  ASSUME NEW chunks \in Seq(ChunkSet), NEW K, NEW H, Made(chunks, K, H),
         NEW k \in 0 .. Len(chunks)
  PROVE  K[k] \in Seq(Bytes) /\ H[k] \in Seq(OctetWords)
BY DEF Made

LEMMA ChunksGoOn ==
  ASSUME TypesAndPlaces, StoryTold, CompressChunk
  PROVE  StoryTold'
<1>1. PICK K, H : ChunksStory(K, H)
  BY DEF StoryTold
<1>2. PICK b : Compressed(b)
  BY CompressDoes
<1>3. /\ stage = "compressed" /\ stage' = "compressed" /\ More
      /\ UNCHANGED <<source, changed, me, entry>>
  BY DEF CompressChunk
<1>4. PICK n : n = InAll
  OBVIOUS
<1>5. PICK t : t = tmpfile
  OBVIOUS
<1>6. PICK k1 : k1 = kept'
  OBVIOUS
<1>7. PICK c : c = chunk'
  OBVIOUS
<1>8. PICK h1 : h1 = (H[n] \o HeaderOctets(c)) \o OctetsOf(b)
  OBVIOUS
<1>9. /\ Made(t, K, H) /\ K[n] = kept /\ me.crc32 = NameSum("compressed")
      /\ Counted(n, me.data_size, at)
      /\ SummedLength(me.data_size) < LengthLimit => crc32 = Crc(H[n], BRA_CRC32C_INIT)
  BY <1>1, <1>3, <1>4, <1>5 DEF ChunksStory, Compressing
<1>10. /\ t \in Seq(ChunkSet) /\ n \in Nat /\ n \in 0 .. Len(t) /\ n = Len(t)
      /\ at \in Nat /\ me.data_size \in Nat
  BY <1>4, <1>5, ChunksAre DEF InAll
<1>11. /\ StandsFor(c, b) /\ k1 = kept \o b /\ b \in Seq(Bytes) /\ Len(b) = Piece
      /\ tmpfile' = Append(t, c) /\ kept' = k1 /\ at' = at + Len(b)
      /\ crc32' = bra_crc32c_combine(Crc(HeaderOctets(c), crc32),
                                     Crc(Summed(b), BRA_CRC32C_INIT), Len(b))
  BY <1>2, <1>6, <1>7, <1>5 DEF Compressed
<1>12. c \in ChunkSet
  BY <1>11 DEF StandsFor, Codes
<1>13. K[n] \in Seq(Bytes) /\ H[n] \in Seq(OctetWords)
  BY <1>9, <1>10, MadeTypes
<1>14. HeaderOctets(c) \in Seq(OctetWords) /\ OctetsOf(b) \in Seq(OctetWords)
  BY <1>11, <1>12, HeaderOctetsOK, BytesWords
<1>15. MadeOf(c, b, K[n], H[n], k1, h1)
  BY <1>8, <1>9, <1>11 DEF MadeOf
<1>16. Made(Append(t, c), Longer(K, n, k1), Longer(H, n, h1))
  BY <1>9, <1>10, <1>12, <1>15, MadeMore
<1>17. PICK K1 : K1 = Longer(K, n, k1)
  OBVIOUS
<1>18. PICK H1 : H1 = Longer(H, n, h1)
  OBVIOUS
<1>19. K1[n + 1] = k1 /\ H1[n + 1] = h1
  BY <1>10, <1>17, <1>18 DEF Longer
<1>20. Made(tmpfile, K1, H1)'
  BY <1>11, <1>16, <1>17, <1>18
<1>21. InAll' = n + 1
  <2>1. Len(Append(t, c)) = Len(t) + 1
    BY <1>10, <1>12
  <2> QED
    BY <1>10, <1>11, <2>1 DEF InAll
<1>22. /\ Piece \in Nat /\ Piece >= 1 /\ Piece <= MaxChunk /\ at + Piece <= me.data_size
       /\ Piece = MaxChunk \/ at + Piece = me.data_size
  BY <1>3, <1>10, PieceOK
<1>23. Counted(n + 1, me.data_size, at + Piece)
  BY <1>3, <1>9, <1>10, <1>22, CountedMore DEF More
<1>24. ASSUME SummedLength(me.data_size) < LengthLimit
       PROVE  crc32' = Crc(h1, BRA_CRC32C_INIT)
  <2>1. SummedLength(me.data_size) \in Nat /\ SummedLength(me.data_size) >= me.data_size
    BY <1>10, SummedLengthOK
  <2>2. Len(b) < LengthLimit
    BY <1>10, <1>11, <1>22, <1>24, <2>1, LimitOK
  <2> DEFINE g == HeaderOctets(c)
             h == H[n]
  <2>3. g \in Seq(OctetWords) /\ h \in Seq(OctetWords) /\ b \in Seq(Bytes)
    BY <1>11, <1>13, <1>14
  <2>4. /\ crc32 = Crc(h, BRA_CRC32C_INIT) /\ h1 = (h \o g) \o OctetsOf(b)
        /\ crc32' = bra_crc32c_combine(Crc(g, crc32), Crc(Summed(b), BRA_CRC32C_INIT), Len(b))
    BY <1>8, <1>9, <1>11, <1>24
  <2> HIDE DEF g, h
  <2>5. bra_crc32c_combine(Crc(g, Crc(h, BRA_CRC32C_INIT)), Crc(Summed(b), BRA_CRC32C_INIT), Len(b))
          = Crc((h \o g) \o OctetsOf(b), BRA_CRC32C_INIT)
    BY <2>2, <2>3, CombineNext
  <2> QED
    BY ONLY <2>4, <2>5
<1>25. Compressing(K1, H1)'
  <2>1. me'.crc32 = NameSum("compressed") /\ me'.data_size = me.data_size
    BY <1>3, <1>9
  <2>2. Counted(InAll', me'.data_size, at')
    BY <1>11, <1>21, <1>23, <2>1
  <2>3. K1[InAll'] = kept' /\ H1[InAll'] = h1
    BY <1>11, <1>19, <1>21
  <2>4. SummedLength(me'.data_size) < LengthLimit => crc32' = Crc(H1[InAll'], BRA_CRC32C_INIT)
    BY <1>24, <2>1, <2>3
  <2> QED
    BY <2>1, <2>2, <2>3, <2>4 DEF Compressing
<1>26. ChunksStory(K1, H1)'
  BY <1>3, <1>20, <1>25 DEF ChunksStory, Closing, SealedChunks, ReadChunks, TakenChunks, Ended
<1> QED
  BY <1>26 DEF StoryTold

LEMMA ChunksClose ==
  ASSUME TypesAndPlaces, Origin, StoryTold, KeepCompressed
  PROVE  StoryTold'
<1>1. PICK K, H : ChunksStory(K, H)
  BY DEF StoryTold
<1>2. PICK n : n = InAll
  OBVIOUS
<1>3. PICK t : t = tmpfile
  OBVIOUS
<1>4. PICK size : size = FileSize(tmpfile)
  OBVIOUS
<1>5. PICK l : l = me.data_size
  OBVIOUS
<1>6. /\ stage = "compressed" /\ stage' = "crc" /\ ~More
      /\ UNCHANGED <<tmpfile, kept>> /\ size < l
  BY <1>4, <1>5 DEF KeepCompressed, wvars, Pays
<1>7. /\ entry'.data = t /\ entry'.data_size = size
      /\ me'.crc32 = bra_crc32c_combine(Crc(LittleEndian(size, 8), me.crc32), crc32, SummedLength(l))
  BY <1>3, <1>4, <1>5, ChunksAre DEF KeepCompressed, MeSet, EntrySet
<1>8. /\ Made(t, K, H) /\ K[n] = kept /\ me.crc32 = NameSum("compressed")
      /\ Counted(n, l, at)
      /\ SummedLength(l) < LengthLimit => crc32 = Crc(H[n], BRA_CRC32C_INIT)
  BY <1>1, <1>2, <1>3, <1>5, <1>6 DEF ChunksStory, Compressing
<1>9. /\ t \in Seq(ChunkSet) /\ n \in Nat /\ n \in 0 .. Len(t) /\ n = Len(t) /\ l \in Nat
  BY <1>2, <1>3, <1>5, ChunksAre DEF InAll
<1>10. Len(kept) = l /\ at = l
  BY <1>5, <1>6, KeptIsAll DEF Going
<1>11. Len(H[n]) = SummedLength(l) /\ H[n] \in Seq(OctetWords)
  <2>1. Counted(n, l, l) /\ Len(K[n]) = l
    BY <1>8, <1>10
  <2> QED
    BY <1>8, <1>9, <2>1, CountedAll, MadeTypes
<1>12. size \in Nat
  <2>1. size = SizeAt(t, n)
    BY <1>3, <1>4, <1>9, SizeAtOK
  <2> QED
    BY <1>9, <2>1, SizeAtOK
<1>13. ASSUME SummedLength(l) < LengthLimit
       PROVE  me'.crc32 = Crc(H[n], StartSum(size, "compressed"))
  <2>1. PICK h : h = H[n]
    OBVIOUS
  <2>2. h \in Seq(OctetWords) /\ Len(h) = SummedLength(l) /\ Len(h) < LengthLimit
    BY <1>11, <1>13, <2>1
  <2>3. bra_crc32c_combine(StartSum(size, "compressed"), Crc(h, BRA_CRC32C_INIT), Len(h))
          = Crc(h, StartSum(size, "compressed"))
    BY <1>12, <2>2, CombineStart
  <2>4. Crc(LittleEndian(size, 8), me.crc32) = StartSum(size, "compressed")
    BY <1>8 DEF StartSum
  <2>5. crc32 = Crc(h, BRA_CRC32C_INIT)
    BY <1>8, <1>13, <2>1
  <2> QED
    BY ONLY <1>7, <2>1, <2>2, <2>3, <2>4, <2>5
<1>14. InAll' = n
  BY <1>2, <1>6 DEF InAll
<1>15. FitsLength' => SummedLength(l) < LengthLimit
  BY <1>6, <1>10 DEF FitsLength
<1>16. ChunksSum(H, InAll)' = Crc(H[n], StartSum(size, "compressed"))
  BY <1>7, <1>14 DEF ChunksSum
<1>17. Closing(K, H)'
  <2>1. entry'.data = tmpfile' /\ K[InAll'] = kept'
    BY <1>3, <1>6, <1>7, <1>8, <1>14
  <2>2. entry'.data_size < Len(kept')
    BY <1>6, <1>7, <1>10
  <2>3. FitsLength' => me'.crc32 = ChunksSum(H, InAll)'
    BY <1>13, <1>15, <1>16
  <2> QED
    BY <2>1, <2>2, <2>3 DEF Closing
<1>18. Made(tmpfile, K, H)'
  BY <1>3, <1>6, <1>8
<1>19. ChunksStory(K, H)'
  BY <1>6, <1>17, <1>18 DEF ChunksStory, Compressing, SealedChunks, ReadChunks, TakenChunks, Ended
<1> QED
  BY <1>19 DEF StoryTold

LEMMA SameRedone ==
  ASSUME NEW d \in Seq(ChunkSet)
  PROVE  Redone(d, d)
BY DEF Redone, SameButIndex

LEMMA ChunksSeal ==
  ASSUME TypesAndPlaces, Origin, StoryTold, WriteCrc
  PROVE  StoryTold'
<1>1. PICK K, H : ChunksStory(K, H)
  BY DEF StoryTold
<1>2. stage = "crc" /\ stage' = "sealed" /\ UNCHANGED <<kept, changed, tmpfile>>
  BY DEF WriteCrc, wvars
<1>3. /\ entry'.comp = entry.comp /\ entry'.data = entry.data
      /\ entry'.data_size = entry.data_size /\ entry'.crc32 = me.crc32
  BY ChunksAre DEF WriteCrc, EntrySet
<1>4. Redone(tmpfile, tmpfile)
  BY ChunksAre, SameRedone
<1>5. ChunksSum(H, InAll)' = ChunksSum(H, InAll) /\ InAll' = InAll /\ FitsLength' = FitsLength
  BY <1>2, <1>3 DEF ChunksSum, InAll, FitsLength
<1>6. SealedChunks(K, H)'
  <2>1. Closing(K, H)
    BY <1>1 DEF ChunksStory
  <2> QED
    BY <1>2, <1>3, <1>4, <1>5, <2>1 DEF SealedChunks, Closing
<1>7. Made(tmpfile, K, H)'
  BY <1>1, <1>2 DEF ChunksStory
<1>8. ChunksStory(K, H)'
  BY <1>2, <1>6, <1>7 DEF ChunksStory, Compressing, Closing, ReadChunks, TakenChunks
<1> QED
  BY <1>8 DEF StoryTold

(* Steps that leave the chunks alone and have none to tell of.             *)
LEMMA ChunksSkip ==
  ASSUME TypesAndPlaces, StoryTold, TakeSize \/ ShortRead \/ FallBack \/ StoreChunk \/ StoreEnd
  PROVE  StoryTold'
<1>1. PICK K, H : ChunksStory(K, H)
  BY DEF StoryTold
<1>2. tmpfile' = tmpfile
  BY DEF TakeSize, ShortRead, FallBack, StoreChunk, StoreEnd, wvars
<1>3. Made(tmpfile, K, H)'
  BY <1>1, <1>2 DEF ChunksStory
<1>4. \/ stage' \in {"new", "flush", "failed"}
      \/ stage' # "compressed" /\ entry'.comp # "compressed"
  <2>1. CASE TakeSize \/ ShortRead \/ FallBack
    BY <2>1 DEF TakeSize, ShortRead, FallBack
  <2>2. CASE StoreChunk \/ StoreEnd
    <3>1. stage = "stored" /\ stage' \in {"stored", "crc"} /\ entry'.comp = entry.comp
      BY <2>2, ChunksAre DEF StoreChunk, StoreEnd, EntrySet
    <3>2. entry.comp = "stored"
      BY <3>1 DEF TypesAndPlaces, Places
    <3> QED
      BY <3>1, <3>2
  <2> QED
    BY <2>1, <2>2
<1>5. ChunksStory(K, H)'
  BY <1>3, <1>4, NotChunks
<1> QED
  BY <1>5 DEF StoryTold

LEMMA ChunksChange ==
  ASSUME TypesAndPlaces, StoryTold, Change
  PROVE  StoryTold'
<1>1. PICK K, H : ChunksStory(K, H)
  BY DEF StoryTold
<1>2. /\ stage \in {"flush", "stored", "compressed"} /\ stage' = stage
      /\ UNCHANGED <<me, at, crc32, tmpfile, kept, entry>>
  BY DEF Change, wvars
<1>3. Compressing(K, H)'
  BY <1>1, <1>2 DEF ChunksStory, Compressing, InAll
<1>4. Made(tmpfile, K, H)'
  BY <1>1, <1>2 DEF ChunksStory
<1>5. ChunksStory(K, H)'
  BY <1>2, <1>3, <1>4 DEF ChunksStory, Closing, SealedChunks, ReadChunks, TakenChunks, Ended
<1> QED
  BY <1>5 DEF StoryTold

LEMMA ChunksDamaged ==
  ASSUME TypesAndPlaces, StoryTold, Damage
  PROVE  StoryTold'
<1>1. PICK K, H : ChunksStory(K, H)
  BY DEF StoryTold
<1>2. /\ stage = "sealed" /\ stage' = "sealed" /\ "archive" \notin changed
      /\ "archive" \in changed' /\ UNCHANGED <<kept, tmpfile>>
      /\ \/ entry.comp = "stored" /\ ByteChanged
         \/ entry.comp = "compressed" /\ IndexChanged
  BY DamageDoes
<1>3. Made(tmpfile, K, H)'
  BY <1>1, <1>2 DEF ChunksStory
<1>4. CASE entry.comp = "stored" /\ ByteChanged
  <2>1. entry'.comp = "stored"
    BY <1>4, ChunksAre DEF ByteChanged, EntrySet
  <2>2. ChunksStory(K, H)'
    BY <1>2, <1>3, <2>1, NotChunks
  <2> QED
    BY <2>2 DEF StoryTold
<1>5. CASE entry.comp = "compressed" /\ IndexChanged
  <2>1. PICK d : Redone(d, entry.data) /\ entry' = [entry EXCEPT !.data = d]
    BY <1>5 DEF IndexChanged
  <2>2. /\ entry'.comp = "compressed" /\ entry'.data = d
        /\ entry'.data_size = entry.data_size /\ entry'.crc32 = entry.crc32
    BY <1>5, <2>1, ChunksAre DEF EntrySet
  <2>3. SealedChunks(K, H) /\ stage \in Ended
    BY <1>1, <1>2 DEF ChunksStory, Ended
  <2>4. Redone(d, tmpfile)
    BY <1>2, <1>5, <2>1, <2>3 DEF SealedChunks
  <2>5. ChunksSum(H, InAll)' = ChunksSum(H, InAll) /\ InAll' = InAll /\ FitsLength' = FitsLength
    BY <1>2, <2>2 DEF ChunksSum, InAll, FitsLength
  <2>6. SealedChunks(K, H)'
    BY <1>2, <1>5, <2>2, <2>3, <2>4, <2>5 DEF SealedChunks
  <2>7. ChunksStory(K, H)'
    BY <1>2, <1>3, <2>6 DEF ChunksStory, Compressing, Closing, ReadChunks, TakenChunks
  <2> QED
    BY <2>7 DEF StoryTold
<1> QED
  BY <1>2, <1>4, <1>5

LEMMA ChunksRead ==
  ASSUME TypesAndPlaces, StoryTold, ReadEntry
  PROVE  StoryTold'
<1>1. PICK K, H : ChunksStory(K, H)
  BY DEF StoryTold
<1>2. /\ stage = "sealed" /\ stage' = "reading" /\ UNCHANGED <<changed, kept, tmpfile, entry>>
      /\ at' = 0 /\ file_orig_size' = 0 /\ out' = <<>>
      /\ decode' => me'.crc32 = StartSum(entry.data_size, entry.comp)
  BY DEF ReadEntry, wvars, StartSum
<1>3. SealedChunks(K, H)'
  <2>1. SealedChunks(K, H)
    BY <1>1 DEF ChunksStory
  <2> QED
    BY <1>2, <2>1 DEF SealedChunks, Ended, ChunksSum, InAll, FitsLength
<1>4. Made(tmpfile, K, H)'
  BY <1>1, <1>2 DEF ChunksStory
<1>5. ASSUME entry.comp = "compressed" PROVE ReadUpTo(K, H, 0)'
  <2>1. 0 \in 0 .. InAll' /\ at' = SizeAt(entry'.data, 0)
    <3>1. entry.data \in Seq(ChunkSet) /\ InAll' = InAll /\ InAll \in Nat
      BY <1>2, <1>5, ChunksAre DEF InAll
    <3>2. SizeAt(entry.data, 0) = 0
      BY <3>1, SizeAtOK
    <3> QED
      BY <1>2, <3>1, <3>2
  <2>2. K[0] = <<>> /\ H[0] = <<>>
    BY <1>1 DEF ChunksStory, Made
  <2>3. file_orig_size' = Len(K[0]) /\ out' = K[0]
    BY <1>2, <2>2
  <2>4. ChunksSum(H, 0)' = StartSum(entry.data_size, "compressed")
    <3>1. PICK w : w = StartSum(entry.data_size, "compressed")
      OBVIOUS
    <3>2. bra_crc32c_table(<<>>, w) = w
      BY <3>1, ChunksAre, CrcNone
    <3> QED
      BY <1>2, <2>2, <3>1, <3>2 DEF ChunksSum, Crc
  <2> QED
    BY <1>2, <1>5, <2>1, <2>3, <2>4 DEF ReadUpTo
<1>6. ReadChunks(K, H)'
  BY <1>2, <1>5 DEF ReadChunks
<1>7. ChunksStory(K, H)'
  BY <1>2, <1>3, <1>4, <1>6 DEF ChunksStory, Compressing, Closing, TakenChunks
<1> QED
  BY <1>7 DEF StoryTold

LEMMA ChunksCopy ==
  ASSUME TypesAndPlaces, StoryTold, CopyChunk
  PROVE  StoryTold'
<1>1. PICK K, H : ChunksStory(K, H)
  BY DEF StoryTold
<1>2. /\ stage = "reading" /\ stage' = "reading" /\ me.comp = "stored"
      /\ UNCHANGED <<tmpfile, entry>>
  BY DEF CopyChunk, wvars
<1>3. entry'.comp # "compressed"
  BY <1>2 DEF TypesAndPlaces, Places
<1>4. Made(tmpfile, K, H)'
  BY <1>1, <1>2 DEF ChunksStory
<1>5. ChunksStory(K, H)'
  BY <1>2, <1>3, <1>4, NotChunks
<1> QED
  BY <1>5 DEF StoryTold

(* What the writer made the chunk of that the reader has come to.          *)
ChunkOf(c, m, b, K, H) ==
  /\ IsChunk(c, m) /\ m + 1 \in 1 .. InAll
  /\ MadeOf(tmpfile[m + 1], b, K[m], H[m], K[m + 1], H[m + 1])
  /\ SameButIndex(c, tmpfile[m + 1]) /\ Codes(c, b)
  /\ "archive" \notin changed => c = tmpfile[m + 1] /\ StandsFor(c, b)

LEMMA ChunkFound ==
  ASSUME TypesAndPlaces, NEW K, NEW H, ChunksStory(K, H), stage = "reading",
         entry.comp = "compressed", NEW c, NEW m, IsChunk(c, m)
  PROVE  ReadUpTo(K, H, m) /\ \E b : ChunkOf(c, m, b, K, H)
<1> DEFINE d == tmpfile[m + 1]
<1>1. PICK n : ReadUpTo(K, H, n)
  BY DEF ChunksStory, ReadChunks
<1>2. /\ Redone(entry.data, tmpfile)
      /\ "archive" \notin changed => entry.data = tmpfile
  <2>1. SealedChunks(K, H) /\ stage \in Ended
    BY DEF ChunksStory, Ended
  <2> QED
    BY <2>1 DEF SealedChunks
<1>3. entry.data \in Seq(ChunkSet) /\ Len(entry.data) = InAll /\ tmpfile \in Seq(ChunkSet)
  <2>1. Redone(entry.data, tmpfile)
    BY <1>2
  <2> QED
    BY <2>1, ChunksAre DEF Redone, InAll
<1>4. n = m
  <2>1. PICK data : data = entry.data
    OBVIOUS
  <2>2. data \in Seq(ChunkSet) /\ n \in 0 .. Len(data) /\ m \in 0 .. Len(data)
    BY <1>1, <1>3, <2>1 DEF ReadUpTo, IsChunk
  <2>3. SizeAt(data, n) = SizeAt(data, m)
    BY <1>1, <2>1 DEF ReadUpTo, IsChunk
  <2> QED
    BY <2>2, <2>3, SizeAtOne
<1>5. m + 1 \in 1 .. InAll /\ m + 1 \in 1 .. Len(tmpfile)
  BY <1>3 DEF IsChunk, InAll
<1>6. PICK b : MadeOf(d, b, K[m], H[m], K[m + 1], H[m + 1])
  <2>1. Made(tmpfile, K, H)
    BY DEF ChunksStory
  <2>2. PICK k : k = m + 1
    OBVIOUS
  <2>3. PICK b : MadeOf(tmpfile[k], b, K[k - 1], H[k - 1], K[k], H[k])
    BY <1>5, <2>1, <2>2 DEF Made
  <2>4. k - 1 = m
    BY <2>2 DEF IsChunk
  <2> QED
    BY <2>2, <2>3, <2>4
<1>7. SameButIndex(c, d)
  BY <1>2, <1>5 DEF Redone, IsChunk
<1>8. Codes(d, b) /\ StandsFor(d, b)
  BY <1>6 DEF MadeOf, StandsFor
<1>9. Codes(c, b)
  BY <1>7, <1>8, CodesSame DEF IsChunk
<1>10. "archive" \notin changed => c = d
  BY <1>2 DEF IsChunk
<1>11. ChunkOf(c, m, b, K, H)
  BY <1>5, <1>6, <1>7, <1>8, <1>9, <1>10 DEF ChunkOf
<1> QED
  BY <1>1, <1>4, <1>11

LEMMA ChunkRefused ==
  ASSUME TypesAndPlaces, NEW K, NEW H, ChunksStory(K, H), stage = "reading",
         entry.comp = "compressed", NEW c, NEW m, IsChunk(c, m), Bad(c), Refuse,
         UNCHANGED <<changed, tmpfile, kept, entry>>
  PROVE  ChunksStory(K, H)'
<1>1. PICK b : ChunkOf(c, m, b, K, H)
  BY ChunkFound
<1>2. stage' = "refused"
  BY DEF Refuse
<1>3. SealedChunks(K, H)'
  <2>1. SealedChunks(K, H)
    BY DEF ChunksStory
  <2> QED
    BY <1>2, <2>1 DEF SealedChunks, Ended, ChunksSum, InAll, FitsLength
<1>4. ASSUME "archive" \notin changed PROVE Oversized
  <2>1. c = tmpfile[m + 1] /\ StandsFor(c, b) /\ Codes(c, b) /\ m + 1 \in 1 .. Len(tmpfile)
    BY <1>1, <1>4 DEF ChunkOf, InAll
  <2>2. PICK rle : rle = RleDecoded(HuffmanDecoded(c).out)
    OBVIOUS
  <2>3. HuffmanDecoded(c).ok = TRUE /\ rle.ok = TRUE /\ c.primary_index < Len(rle.out)
    BY <2>1, <2>2, CodesGive, StandsForGives
  <2>4. c.primary_index \in Nat /\ Len(rle.out) \in Nat
    <3>1. c \in ChunkSet
      BY DEF IsChunk
    <3>2. HuffmanDecoded(c).out \in Seq(Bytes)
      BY <3>1, HuffmanOut
    <3> QED
      BY <2>2, <3>1, <3>2, RleOut DEF ChunkSet
  <2>5. ~ValidHeader(c)
    <3>1. ~(c.primary_index >= Len(rle.out))
      BY <2>3, <2>4
    <3> QED
      BY <2>2, <2>3, <3>1 DEF Bad
  <2>6. m + 1 \in DOMAIN tmpfile
    BY <2>1, ChunksAre
  <2> QED
    BY <2>1, <2>5, <2>6 DEF Oversized
<1>5. TakenChunks'
  BY <1>2, <1>4 DEF TakenChunks, Oversized
<1>6. Made(tmpfile, K, H)'
  BY DEF ChunksStory
<1> QED
  BY <1>2, <1>3, <1>5, <1>6 DEF ChunksStory, Compressing, Closing, ReadChunks

LEMMA ChunkTaken ==
  ASSUME TypesAndPlaces, NEW K, NEW H, ChunksStory(K, H), stage = "reading",
         entry.comp = "compressed", NEW c, NEW m, IsChunk(c, m), ~Bad(c), Unpacks(c),
         at' = SizeAt(entry.data, m + 1), UNCHANGED <<changed, tmpfile, kept, entry>>
  PROVE  ChunksStory(K, H)'
<1>1. PICK b : ChunkOf(c, m, b, K, H)
  BY ChunkFound
<1>2. ReadUpTo(K, H, m)
  BY ChunkFound
<1>3. PICK rle : rle = RleDecoded(HuffmanDecoded(c).out)
  OBVIOUS
<1>4. stage' = "reading" /\ decode' = decode
  BY DEF Unpacks
<1>5. PICK n : n = m + 1
  OBVIOUS
<1>6. /\ MadeOf(tmpfile[n], b, K[m], H[m], K[n], H[n]) /\ Codes(c, b) /\ n \in 1 .. InAll
      /\ b \in Seq(Bytes) /\ c \in ChunkSet
  BY <1>1, <1>5 DEF ChunkOf, MadeOf, Codes, IsChunk
<1>7. rle.ok = TRUE /\ Len(rle.out) = Len(b)
  BY <1>3, <1>6, CodesGive
<1>8. K[m] \in Seq(Bytes) /\ H[m] \in Seq(OctetWords) /\ m \in 0 .. Len(tmpfile)
  <2>1. Made(tmpfile, K, H) /\ m \in 0 .. Len(tmpfile) /\ tmpfile \in Seq(ChunkSet)
    BY <1>2, ChunksAre DEF ChunksStory, ReadUpTo, InAll
  <2> QED
    BY <2>1, MadeTypes
<1>9. K[n] = K[m] \o b /\ H[n] = (H[m] \o HeaderOctets(tmpfile[n])) \o OctetsOf(b)
  BY <1>6 DEF MadeOf
<1>10. file_orig_size' = Len(K[n])
  <2>1. file_orig_size' = file_orig_size + Len(b)
    BY <1>3, <1>7 DEF Unpacks
  <2>2. file_orig_size = Len(K[m])
    BY <1>2 DEF ReadUpTo
  <2>3. Len(K[m] \o b) = Len(K[m]) + Len(b)
    BY <1>6, <1>8
  <2> QED
    BY <1>9, <2>1, <2>2, <2>3
<1>11. ASSUME decode, "archive" \notin changed
       PROVE  out' = K[n] /\ me'.crc32 = ChunksSum(H, n)
  <2>1. c = tmpfile[n] /\ StandsFor(c, b)
    BY <1>1, <1>5, <1>11 DEF ChunkOf
  <2>2. Unpacked(c, rle.out) = b
    BY <1>3, <2>1, StandsForGives
  <2>3. out' = out \o b /\ out = K[m] /\ me.crc32 = ChunksSum(H, m)
    BY <1>2, <1>3, <1>11, <2>2 DEF Unpacks, ReadUpTo
  <2>4. me'.crc32 = Crc(Summed(b), Crc(HeaderOctets(c), me.crc32))
    BY <1>3, <1>11, <2>2, ChunksAre DEF Unpacks, MeSet
  <2>5. PICK w : w = StartSum(entry.data_size, "compressed")
    OBVIOUS
  <2>6. PICK g : g = HeaderOctets(c)
    OBVIOUS
  <2>7. PICK h : h = H[m]
    OBVIOUS
  <2>8. w \in Words /\ g \in Seq(OctetWords) /\ h \in Seq(OctetWords)
    BY <1>6, <1>8, <2>5, <2>6, <2>7, ChunksAre, HeaderOctetsOK
  <2>9. Crc(Summed(b), Crc(g, Crc(h, w))) = Crc((h \o g) \o OctetsOf(b), w)
    BY <1>6, <2>8, SumNext
  <2>10. ChunksSum(H, m) = Crc(h, w) /\ ChunksSum(H, n) = Crc((h \o g) \o OctetsOf(b), w)
    BY <1>9, <2>1, <2>5, <2>6, <2>7 DEF ChunksSum
  <2>11. me'.crc32 = ChunksSum(H, n)
    BY ONLY <2>3, <2>4, <2>6, <2>9, <2>10
  <2> QED
    BY <1>9, <2>3, <2>11
<1>12. ReadUpTo(K, H, n)'
  <2>1. n \in 0 .. InAll' /\ at' = SizeAt(entry'.data, n)
    <3>1. InAll' = InAll /\ InAll \in Nat
      BY ChunksAre DEF InAll
    <3> QED
      BY <1>5, <1>6, <3>1
  <2>2. ChunksSum(H, n)' = ChunksSum(H, n)
    BY DEF ChunksSum
  <2> QED
    BY <1>4, <1>10, <1>11, <2>1, <2>2 DEF ReadUpTo
<1>13. SealedChunks(K, H)'
  <2>1. SealedChunks(K, H)
    BY DEF ChunksStory
  <2> QED
    BY <1>4, <2>1 DEF SealedChunks, Ended, ChunksSum, InAll, FitsLength
<1>14. Made(tmpfile, K, H)'
  BY DEF ChunksStory
<1> QED
  BY <1>4, <1>12, <1>13, <1>14 DEF ChunksStory, Compressing, Closing, ReadChunks, TakenChunks

LEMMA ChunksUnpack ==
  ASSUME TypesAndPlaces, StoryTold, UnpackChunk
  PROVE  StoryTold'
<1>1. PICK K, H : ChunksStory(K, H)
  BY DEF StoryTold
<1>2. /\ stage = "reading" /\ me.comp = "compressed"
      /\ UNCHANGED <<changed, tmpfile, kept, entry>>
  BY DEF UnpackChunk, wvars
<1>3. entry.comp = "compressed"
  BY <1>2 DEF TypesAndPlaces, Places
<1>4. PICK c, m : UnpackedChunk(c, m)
  BY UnpackDoes
<1>5. IsChunk(c, m)
  BY <1>4 DEF UnpackedChunk
<1>6. CASE Bad(c) /\ Refuse
  <2>1. ChunksStory(K, H)'
    BY <1>1, <1>2, <1>3, <1>5, <1>6, ChunkRefused
  <2> QED
    BY <2>1 DEF StoryTold
<1>7. CASE ~Bad(c) /\ Unpacks(c) /\ at' = SizeAt(entry.data, m + 1)
  <2>1. ChunksStory(K, H)'
    BY <1>1, <1>2, <1>3, <1>5, <1>7, ChunkTaken
  <2> QED
    BY <2>1 DEF StoryTold
<1> QED
  BY <1>4, <1>6, <1>7 DEF UnpackedChunk

(* The reader has read all of the chunks when it stops. *)
LEMMA AllIsRead ==
  ASSUME TypesAndPlaces, NEW K, NEW H, ChunksStory(K, H), stage = "reading",
         entry.comp = "compressed", ~More
  PROVE  ReadUpTo(K, H, InAll)
<1>1. PICK m : ReadUpTo(K, H, m)
  BY DEF ChunksStory, ReadChunks
<1>2. SealedChunks(K, H) /\ stage \in Ended
  BY DEF ChunksStory, Ended
<1>3. PICK data : data = entry.data
  OBVIOUS
<1>4. data \in Seq(ChunkSet) /\ Len(data) = InAll /\ InAll \in Nat
  <2>1. Redone(data, tmpfile)
    BY <1>2, <1>3 DEF SealedChunks
  <2> QED
    BY <2>1, ChunksAre DEF Redone, InAll
<1>5. me.data_size = FileSize(data)
  BY <1>2, <1>3 DEF TypesAndPlaces, Places
<1>6. m \in 0 .. Len(data) /\ Len(data) \in 0 .. Len(data) /\ at = SizeAt(data, m)
  BY <1>1, <1>3, <1>4 DEF ReadUpTo
<1>7. ~(m < Len(data))
  <2>1. SUFFICES ASSUME m < Len(data) PROVE FALSE
    OBVIOUS
  <2>2. SizeAt(data, m) < SizeAt(data, Len(data))
    BY <1>4, <1>6, <2>1, SizesRise
  <2>3. SizeAt(data, Len(data)) = FileSize(data)
    BY <1>4, SizeAtOK
  <2> QED
    BY <1>5, <1>6, <2>2, <2>3 DEF More
<1>8. m = InAll
  BY <1>4, <1>6, <1>7
<1> QED
  BY <1>1, <1>8

LEMMA ChunksAnswer ==
  ASSUME TypesAndPlaces, StoryTold, EndRead
  PROVE  StoryTold'
<1>1. PICK K, H : ChunksStory(K, H)
  BY DEF StoryTold
<1>2. /\ stage = "reading" /\ stage' \in {"refused", "accepted", "listed"} /\ ~More
      /\ UNCHANGED <<changed, tmpfile, kept, entry, out, file_orig_size>>
      /\ stage' = "accepted" => decode
      /\ stage' = "refused" => \/ me.comp = "compressed" /\ file_orig_size <= me.data_size
                               \/ decode /\ me.crc32 # entry.crc32
  BY DEF EndRead, Refuse, wvars, rvars
<1>3. Made(tmpfile, K, H)'
  BY <1>1, <1>2 DEF ChunksStory
<1>4. CASE entry.comp # "compressed"
  <2>1. ChunksStory(K, H)'
    BY <1>2, <1>3, <1>4, NotChunks
  <2> QED
    BY <2>1 DEF StoryTold
<1>5. CASE entry.comp = "compressed"
  <2>1. ReadUpTo(K, H, InAll)
    BY <1>1, <1>2, <1>5, AllIsRead
  <2>2. SealedChunks(K, H) /\ stage \in Ended
    BY <1>1, <1>2 DEF ChunksStory, Ended
  <2>3. /\ file_orig_size = Len(kept) /\ entry.data_size < Len(kept)
        /\ decode /\ "archive" \notin changed => out = kept
    BY <1>5, <2>1, <2>2 DEF ReadUpTo, SealedChunks
  <2>4. decode /\ "archive" \notin changed /\ FitsLength => me.crc32 = entry.crc32
    BY <1>5, <2>1, <2>2 DEF ReadUpTo, SealedChunks
  <2>5. ~(file_orig_size <= me.data_size)
    <3>1. me.data_size = entry.data_size
      BY <1>2 DEF TypesAndPlaces, Places
    <3> QED
      BY <2>3, <3>1, ChunksAre
  <2>6. TakenChunks'
    BY <1>2, <2>3, <2>4, <2>5 DEF TakenChunks, FitsLength
  <2>7. SealedChunks(K, H)'
    BY <1>2, <2>2 DEF SealedChunks, Ended, ChunksSum, InAll, FitsLength
  <2>8. ChunksStory(K, H)'
    BY <1>2, <1>3, <2>6, <2>7 DEF ChunksStory, Compressing, Closing, ReadChunks
  <2> QED
    BY <2>8 DEF StoryTold
<1> QED
  BY <1>4, <1>5

LEMMA ChunksInit == Init => StoryTold
<1> SUFFICES ASSUME Init PROVE StoryTold
  OBVIOUS
<1> DEFINE f == [i \in 0 .. 0 |-> <<>>]
<1>1. Made(<<>>, f, f)
  BY MadeNone
<1>2. tmpfile = <<>> /\ stage = "new"
  BY DEF Init
<1> HIDE DEF f
<1>3. ChunksStory(f, f)
  BY <1>1, <1>2
     DEF ChunksStory, Compressing, Closing, SealedChunks, ReadChunks, TakenChunks, Ended
<1> QED
  BY <1>3 DEF StoryTold

LEMMA ChunksSame ==
  ASSUME StoryTold, UNCHANGED fvars
  PROVE  StoryTold'
<1>1. PICK K, H : ChunksStory(K, H)
  BY DEF StoryTold
<1>2. UNCHANGED <<changed, stage, me, at, crc32, tmpfile, entry, kept, decode, file_orig_size, out>>
  BY DEF fvars, wvars, rvars
<1>3. Made(tmpfile, K, H)' /\ Compressing(K, H)' /\ Closing(K, H)'
  BY <1>1, <1>2 DEF ChunksStory, Compressing, Closing, InAll, ChunksSum, FitsLength
<1>4. SealedChunks(K, H)' /\ TakenChunks'
  BY <1>1, <1>2 DEF ChunksStory, SealedChunks, TakenChunks, InAll, ChunksSum, FitsLength, Oversized
<1>5. ReadChunks(K, H)'
  BY <1>1, <1>2 DEF ChunksStory, ReadChunks, ReadUpTo, InAll, ChunksSum
<1>6. ChunksStory(K, H)'
  BY <1>3, <1>4, <1>5 DEF ChunksStory
<1> QED
  BY <1>6 DEF StoryTold

LEMMA ChunksStep ==
  TypesAndPlaces /\ Origin /\ StoryTold /\ [Next]_fvars => StoryTold'
<1> SUFFICES ASSUME TypesAndPlaces, Origin, StoryTold, [Next]_fvars PROVE StoryTold'
  OBVIOUS
<1>1. CASE TakeSize \/ ShortRead \/ FallBack \/ StoreChunk \/ StoreEnd
  BY <1>1, ChunksSkip
<1>2. CASE FlushEntry
  BY <1>2, ChunksFlush
<1>3. CASE CompressChunk
  BY <1>3, ChunksGoOn
<1>4. CASE KeepCompressed
  BY <1>4, ChunksClose
<1>5. CASE WriteCrc
  BY <1>5, ChunksSeal
<1>6. CASE Change
  BY <1>6, ChunksChange
<1>7. CASE Damage
  BY <1>7, ChunksDamaged
<1>8. CASE ReadEntry
  BY <1>8, ChunksRead
<1>9. CASE CopyChunk
  BY <1>9, ChunksCopy
<1>10. CASE UnpackChunk
  BY <1>10, ChunksUnpack
<1>11. CASE EndRead
  BY <1>11, ChunksAnswer
<1>12. CASE UNCHANGED fvars
  BY <1>12, ChunksSame
<1> QED
  BY <1>1, <1>2, <1>3, <1>4, <1>5, <1>6, <1>7, <1>8, <1>9, <1>10, <1>11, <1>12
     DEF Next, Write, Read, Finished

(* The whole way of an entry that is compressed: while its length fits the *)
(* one that bra_crc32c_combine takes, the sum in the archive, put together *)
(* from those of headers and bytes, is the sum of all of it in the order   *)
(* in which the reader comes to it, from any chunk to the next             *)
(* (chunks.c:233, chunks.c:346, meta_entries.c:204).                       *)
THEOREM StoryHolds == Spec => []StoryTold
<1> QED
  BY TypesHold, OriginHolds, ChunksInit, ChunksStep, PTL DEF Spec

LEMMA StoryGives ==
  StoryTold => TakenChunks
BY DEF StoryTold, ChunksStory

(* A listing that decodes nothing but the codes of Huffman and the blocks  *)
(* of RLE knows how long the file was, even where an index has been        *)
(* changed (chunks.c:346).                                                 *)
THEOREM ListedLengthIsRight == Spec => []ListedIsOriginal
<1>1. StoryTold => ListedIsOriginal
  BY StoryGives DEF TakenChunks, ListedIsOriginal
<1> QED
  BY <1>1, StoryHolds, PTL

(* The reader takes every entry the writer leaves that no one has changed  *)
(* since, stored or compressed and after a second go, apart from a chunk   *)
(* or a length beyond what the format holds (chunks.c:40, chunks.c:233,    *)
(* meta_entries.c:204).                                                    *)
THEOREM WhatIsWrittenIsTaken == Spec => []WrittenIsAccepted
<1>1. TypesAndPlaces /\ StoredStory /\ StoryTold => WrittenIsAccepted
  <2> SUFFICES ASSUME TypesAndPlaces, StoredStory, StoryTold, stage = "refused",
                      "archive" \notin changed
               PROVE  entry.comp = "compressed" /\ (Oversized \/ ~FitsLength)
    BY DEF WrittenIsAccepted
  <2>1. entry.comp \in Comps
    BY ChunksAre DEF EntrySet
  <2>2. entry.comp # "stored"
    BY DEF StoredStory, StoredTaken
  <2>3. entry.comp = "compressed"
    BY <2>1, <2>2 DEF Comps
  <2> QED
    BY <2>3, StoryGives DEF TakenChunks
<1> QED
  BY <1>1, TypesHold, StoredStoryHolds, StoryHolds, PTL

(* What the reader gives out is what the writer read, and the file itself  *)
(* if that stayed as it was, for any file and any size of a chunk          *)
(* (chunks.c:346, ctx.c:148): of an entry that no one has changed, and of  *)
(* one that is stored whatever was changed.                                *)
THEOREM WhatIsTakenIsTheFile == Spec => []AcceptedIsKept
<1>1. TypesAndPlaces /\ Origin /\ StoredStory /\ StoryTold => AcceptedIsKept
  <2> SUFFICES ASSUME TypesAndPlaces, Origin, StoredStory, StoryTold, stage = "accepted",
                      entry.comp = "compressed" => "archive" \notin changed
               PROVE  out = kept /\ ("source" \notin changed => out = source)
    BY DEF AcceptedIsKept
  <2>1. entry.comp \in Comps
    BY ChunksAre DEF EntrySet
  <2>2. CASE entry.comp = "stored"
    <3>1. out = kept
      BY <2>2 DEF StoredStory, StoredTaken
    <3> QED
      BY <3>1 DEF Origin, Ended
  <2>3. CASE entry.comp = "compressed"
    <3>1. "archive" \notin changed
      BY <2>3
    <3>2. out = kept
      BY <2>3, <3>1, StoryGives DEF TakenChunks
    <3> QED
      BY <3>2 DEF Origin, Ended
  <2> QED
    BY <2>1, <2>2, <2>3 DEF Comps
<1> QED
  BY <1>1, TypesHold, OriginHolds, StoredStoryHolds, StoryHolds, PTL

----------------------------------------------------------------------------
(* The index as it lies in memory: what its four octets tell.              *)
IndexOctets(l, v) ==
  /\ l[1] = Octet[v % 256] /\ l[2] = Octet[(v \div 256) % 256]
  /\ l[3] = Octet[((v \div 256) \div 256) % 256]
  /\ l[4] = Octet[(((v \div 256) \div 256) \div 256) % 256]

LEMMA FourOctets ==
  ASSUME NEW n \in Nat
  PROVE  IndexOctets(LittleEndian(n, 4), n)
<1> DEFINE D(v) == v \div 256
           Eq(f) == f = [k \in 1 .. 4 |-> IF k = 1 THEN n ELSE D(f[k - 1])]
           g == CHOOSE f : Eq(f)
           h == <<n, D(n), D(D(n)), D(D(D(n)))>>
<1>1. LittleEndian(n, 4) = [k \in 1 .. 4 |-> Octet[g[k] % 256]]
  BY DEF LittleEndian
<1> HIDE DEF D
<1>2. Eq(h)
  <2>1. h = [k \in 1 .. 4 |-> h[k]]
    OBVIOUS
  <2>2. h[1] = n /\ h[2] = D(h[1]) /\ h[3] = D(h[2]) /\ h[4] = D(h[3])
    OBVIOUS
  <2> HIDE DEF h
  <2>3. \A k \in 1 .. 4 : h[k] = IF k = 1 THEN n ELSE D(h[k - 1])
    <3>1. \A k \in 1 .. 4 : k = 1 \/ k = 2 \/ k = 3 \/ k = 4
      OBVIOUS
    <3> QED
      BY <2>2, <3>1
  <2> QED
    BY <2>1, <2>3
<1>3. Eq(g)
  <2> HIDE DEF Eq
  <2>1. Eq(CHOOSE e : Eq(e))
    BY <1>2, Zenon
  <2> QED
    BY <2>1
<1> HIDE DEF g
<1>4. g[1] = n /\ g[2] = D(g[1]) /\ g[3] = D(g[2]) /\ g[4] = D(g[3])
  <2>1. \A k \in 1 .. 4 : g[k] = IF k = 1 THEN n ELSE D(g[k - 1])
    BY <1>3
  <2> HIDE DEF Eq
  <2> QED
    BY <2>1
<1>5. g[2] = n \div 256 /\ g[3] = (n \div 256) \div 256 /\ g[4] = ((n \div 256) \div 256) \div 256
  BY <1>4 DEF D
<1> QED
  BY <1>1, <1>4, <1>5 DEF IndexOctets

LEMMA IndexTells ==
  ASSUME NEW n \in Nat, NEW m \in Nat, n < 4294967296, m < 4294967296,
         LittleEndian(n, 4) = LittleEndian(m, 4)
  PROVE  n = m
<1> DEFINE D(v) == v \div 256
           R(v) == v % 256
<1>1. \A v \in Nat : D(v) \in Nat /\ R(v) \in Bytewise /\ v = 256 * D(v) + R(v)
  BY DEF Bytewise
<1>2. \A v, w \in Nat : Octet[R(v)] = Octet[R(w)] => R(v) = R(w)
  BY <1>1, OctetsDiffer
<1>3. /\ Octet[R(n)] = Octet[R(m)] /\ Octet[R(D(n))] = Octet[R(D(m))]
      /\ Octet[R(D(D(n)))] = Octet[R(D(D(m)))] /\ Octet[R(D(D(D(n))))] = Octet[R(D(D(D(m))))]
  <2>1. IndexOctets(LittleEndian(n, 4), n) /\ IndexOctets(LittleEndian(m, 4), m)
    BY FourOctets
  <2> DEFINE l == LittleEndian(n, 4)
  <2>2. IndexOctets(l, n) /\ IndexOctets(l, m)
    BY <2>1
  <2> HIDE DEF l
  <2> QED
    BY <2>2 DEF IndexOctets
<1> HIDE DEF R
<1>4. D(D(D(D(n)))) = 0 /\ D(D(D(D(m)))) = 0
  OBVIOUS
<1> HIDE DEF D
<1>5. /\ D(n) \in Nat /\ D(D(n)) \in Nat /\ D(D(D(n))) \in Nat
      /\ D(m) \in Nat /\ D(D(m)) \in Nat /\ D(D(D(m))) \in Nat
  BY <1>1
<1>6. /\ R(n) = R(m) /\ R(D(n)) = R(D(m)) /\ R(D(D(n))) = R(D(D(m)))
      /\ R(D(D(D(n)))) = R(D(D(D(m))))
  BY <1>2, <1>3, <1>5
<1>7. D(D(D(n))) = D(D(D(m)))
  BY <1>1, <1>4, <1>5, <1>6
<1>8. D(D(n)) = D(D(m))
  BY <1>1, <1>5, <1>6, <1>7
<1>9. D(n) = D(m)
  BY <1>1, <1>5, <1>6, <1>8
<1> QED
  BY <1>1, <1>6, <1>9

LEMMA IndexFits ==
  ASSUME NEW n \in Nat, n < MaxChunk
  PROVE  n < 4294967296
BY ChunksAssumption

LEMMA WordsAssociate ==
  \A p, q, r \in Seq(OctetWords) : (p \o q) \o r = p \o (q \o r)
BY ConcatAssociative

(* Behind the index, the headers of such chunks are the same. *)
LEMMA HeaderBehind ==
  ASSUME NEW c \in ChunkSet, NEW d \in ChunkSet, SameButIndex(c, d)
  PROVE  \E r \in Seq(OctetWords) :
           /\ HeaderOctets(c) = LittleEndian(c.primary_index, 4) \o r
           /\ HeaderOctets(d) = LittleEndian(d.primary_index, 4) \o r
<1> DEFINE w == [i \in 1 .. Alphabet |-> c.lengths[i - 1]]
           l == OctetsOf(w)
           o == LittleEndian(c.orig_size, 4)
           e == LittleEndian(c.encoded_size, 4)
           p == LittleEndian(c.primary_index, 4)
           q == LittleEndian(d.primary_index, 4)
<1>1. HeaderOctets(c) = ((p \o l) \o o) \o e /\ HeaderOctets(d) = ((q \o l) \o o) \o e
  BY DEF HeaderOctets, SameButIndex
<1>2. p \in Seq(OctetWords) /\ q \in Seq(OctetWords) /\ o \in Seq(OctetWords) /\ e \in Seq(OctetWords)
  <2>1. 4 \in Nat /\ 4 >= 1
    OBVIOUS
  <2>2. \A n \in Nat : LittleEndian(n, 4) \in Seq(OctetWords)
    BY <2>1, LittleEndianOK
  <2>3. /\ c.primary_index \in Nat /\ d.primary_index \in Nat
        /\ c.orig_size \in Nat /\ c.encoded_size \in Nat
    BY ChunkFields
  <2> QED
    BY <2>2, <2>3
<1>3. l \in Seq(OctetWords)
  <2>1. Alphabet \in Nat
    BY BytesBytewise
  <2>2. \A i \in 1 .. Alphabet : i - 1 \in Bytes
    BY <2>1 DEF Bytes
  <2>3. w \in [1 .. Alphabet -> Bytewise]
    BY <2>2, ChunkFields
  <2>4. w \in Seq(Bytewise)
    BY <2>1, <2>3
  <2> HIDE DEF w
  <2> QED
    BY <2>4, OctetsWords
<1> HIDE DEF p, q, l, o, e
<1> DEFINE r == (l \o o) \o e
<1>4. l \o o \in Seq(OctetWords) /\ r \in Seq(OctetWords)
  BY <1>2, <1>3, WordsJoin
<1>5. ASSUME NEW x \in Seq(OctetWords) PROVE ((x \o l) \o o) \o e = x \o r
  <2>1. (x \o l) \o o = x \o (l \o o)
    BY <1>2, <1>3, WordsAssociate
  <2>2. (x \o (l \o o)) \o e = x \o ((l \o o) \o e)
    BY <1>2, <1>4, WordsAssociate
  <2> QED
    BY <2>1, <2>2
<1>6. HeaderOctets(c) = p \o r /\ HeaderOctets(d) = q \o r
  BY <1>1, <1>2, <1>5
<1> QED
  BY <1>4, <1>6 DEF p, q

(* An index that is another in front of the same bytes makes another sum.  *)
LEMMA IndexShows ==
  ASSUME NEW c \in ChunkSet, NEW d \in ChunkSet, SameButIndex(c, d),
         c.primary_index < MaxChunk, d.primary_index < MaxChunk,
         NEW b \in Seq(Bytes), NEW w \in Words,
         Crc(HeaderOctets(c) \o OctetsOf(b), w) = Crc(HeaderOctets(d) \o OctetsOf(b), w)
  PROVE  c.primary_index = d.primary_index
<1> DEFINE p == LittleEndian(c.primary_index, 4)
           q == LittleEndian(d.primary_index, 4)
           o == OctetsOf(b)
<1>1. PICK r \in Seq(OctetWords) : HeaderOctets(c) = p \o r /\ HeaderOctets(d) = q \o r
  BY HeaderBehind
<1>2. c.primary_index \in Nat /\ d.primary_index \in Nat
  BY ChunkFields
<1>3. /\ p \in Seq(OctetWords) /\ Len(p) = 4
      /\ q \in Seq(OctetWords) /\ Len(q) = 4 /\ o \in Seq(OctetWords)
  <2>1. 4 \in Nat /\ 4 >= 1
    OBVIOUS
  <2>2. \A n \in Nat : LittleEndian(n, 4) \in Seq(OctetWords) /\ Len(LittleEndian(n, 4)) = 4
    BY <2>1, LittleEndianOK
  <2> QED
    BY <1>2, <2>2, BytesWords
<1> HIDE DEF p, q, o
<1> DEFINE s == r \o o
<1>4. s \in Seq(OctetWords)
  BY <1>3, WordsJoin
<1>5. HeaderOctets(c) \o o = p \o s /\ HeaderOctets(d) \o o = q \o s
  <2>1. (p \o r) \o o = p \o (r \o o)
    BY <1>3, WordsAssociate
  <2>2. (q \o r) \o o = q \o (r \o o)
    BY <1>3, WordsAssociate
  <2> QED
    BY <1>1, <2>1, <2>2
<1>6. Crc(p \o s, w) = Crc(q \o s, w)
  BY <1>5 DEF o
<1> HIDE DEF s
<1>7. /\ Crc(p \o s, w) = Crc(s, Crc(p, w)) /\ Crc(q \o s, w) = Crc(s, Crc(q, w))
      /\ Crc(p, w) \in Words /\ Crc(q, w) \in Words
  BY <1>3, <1>4, CrcJoin
<1>8. Crc(p, w) = Crc(q, w)
  BY <1>4, <1>6, <1>7, TablesApart DEF Crc
<1>9. p = q
  <2>1. Len(p) = Len(q) /\ Len(p) <= 4
    BY <1>3
  <2>2. bra_crc32c_table(p, w) = bra_crc32c_table(q, w)
    BY <1>8 DEF Crc
  <2> QED
    BY <1>3, <2>1, <2>2, ShortApart
<1> QED
  BY <1>2, <1>9, IndexFits, IndexTells DEF p, q

----------------------------------------------------------------------------
(* What damage does to an entry that is compressed: another index in its   *)
(* first chunk, and nothing else.                                          *)
IndicesFit == \A k \in 1 .. Len(tmpfile) : tmpfile[k].primary_index < MaxChunk
Damaged == "archive" \in changed /\ entry.comp = "compressed"
FirstIsOff ==
  Damaged =>
    /\ Len(entry.data) = Len(tmpfile) /\ 1 \in 1 .. Len(tmpfile)
    /\ SameButIndex(entry.data[1], tmpfile[1])
    /\ entry.data[1].primary_index # tmpfile[1].primary_index
    /\ entry.data[1].primary_index < MaxChunk
    /\ \A k \in 2 .. Len(tmpfile) : entry.data[k] = tmpfile[k]
OnlyTheFirst == IndicesFit /\ FirstIsOff

LEMMA CompressedFits ==
  ASSUME TypesAndPlaces, IndicesFit, CompressChunk
  PROVE  IndicesFit'
<1>1. PICK b : Compressed(b)
  BY CompressDoes
<1>2. tmpfile \in Seq(ChunkSet) /\ Len(tmpfile) \in Nat
  BY ChunksAre
<1>3. b \in Seq(Bytes) /\ Len(b) \in Nat /\ Len(b) <= MaxChunk
  <2>1. More /\ at \in Nat /\ me.data_size \in Nat
    BY ChunksAre DEF CompressChunk
  <2>2. Piece <= MaxChunk
    BY <2>1, PieceOK
  <2> QED
    BY <1>1, <2>2 DEF Compressed
<1> DEFINE c == chunk'
<1>4. c \in ChunkSet /\ c.primary_index < MaxChunk
  <2>1. StandsFor(c, b)
    BY <1>1 DEF Compressed
  <2>2. c \in ChunkSet /\ c.primary_index \in PrimaryIndices(b) /\ Len(b) > 0
    BY <2>1 DEF StandsFor, Codes
  <2>3. c.primary_index \in 0 .. Len(b) - 1
    BY <1>3, <2>2, BwtUndone
  <2> HIDE DEF c
  <2> QED
    BY <1>3, <2>2, <2>3, ChunksAssumption
<1>5. tmpfile' = Append(tmpfile, c)
  BY <1>1 DEF Compressed
<1> HIDE DEF c
<1>6. /\ Len(tmpfile') = Len(tmpfile) + 1 /\ tmpfile'[Len(tmpfile) + 1] = c
      /\ \A k \in 1 .. Len(tmpfile) : tmpfile'[k] = tmpfile[k]
  BY <1>2, <1>4, <1>5
<1>7. ASSUME NEW k \in 1 .. Len(tmpfile') PROVE tmpfile'[k].primary_index < MaxChunk
  <2>1. k \in 1 .. Len(tmpfile) \/ k = Len(tmpfile) + 1
    BY <1>2, <1>6
  <2> QED
    BY <1>4, <1>6, <2>1 DEF IndicesFit
<1> QED
  BY <1>7 DEF IndicesFit

LEMMA DamagedFirst ==
  ASSUME TypesAndPlaces, StoryTold, IndicesFit, Damage
  PROVE  OnlyTheFirst'
<1>1. /\ stage = "sealed" /\ "archive" \notin changed /\ tmpfile' = tmpfile
  BY DamageDoes
<1>2. IndicesFit'
  BY <1>1 DEF IndicesFit
<1>3. ASSUME entry'.comp = "compressed" PROVE FirstIsOff'
  <2>1. entry.comp = "compressed"
    <3>1. entry \in EntrySet
      BY ChunksAre
    <3>2. entry.comp = "stored" => entry'.comp = "stored"
      BY <3>1, DamageDoes DEF ByteChanged, EntrySet
    <3>3. entry.comp \in {"stored", "compressed"}
      BY <3>1 DEF EntrySet, Comps
    <3> QED
      BY <1>3, <3>2, <3>3
  <2>2. PICK K, H : ChunksStory(K, H)
    BY DEF StoryTold
  <2>3. entry.data = tmpfile
    <3>1. SealedChunks(K, H)
      BY <2>2 DEF ChunksStory
    <3> QED
      BY <1>1, <2>1, <3>1 DEF SealedChunks, Ended
  <2>4. PICK p \in 0 .. MaxChunk - 1 :
          /\ entry.data # <<>> /\ p # entry.data[1].primary_index
          /\ entry' = [entry EXCEPT !.data[1].primary_index = p]
    BY <2>1 DEF Damage
  <2> DEFINE data == tmpfile
             c == [data[1] EXCEPT !.primary_index = p]
             d == [data EXCEPT ![1] = c]
  <2>5. data \in Seq(ChunkSet) /\ Len(data) \in Nat /\ 1 \in 1 .. Len(data) /\ data[1] \in ChunkSet
    BY <2>3, <2>4, ChunksAre
  <2>6. entry'.data = d
    <3>1. entry \in EntrySet
      BY ChunksAre
    <3>2. entry' = [entry EXCEPT !.data = d]
      BY <2>3, <2>4
    <3> HIDE DEF d
    <3> QED
      BY <3>1, <3>2 DEF EntrySet
  <2>7. SameButIndex(c, data[1]) /\ c.primary_index = p /\ c \in ChunkSet
    <3>1. p \in Nat
      BY ChunksAssumption
    <3> HIDE DEF data
    <3>2. c.primary_index = p
      BY <2>5 DEF ChunkSet
    <3> QED
      BY <2>5, <3>1, <3>2, IndexSet
  <2>8. c.primary_index # data[1].primary_index /\ c.primary_index < MaxChunk
    BY <2>3, <2>4, <2>7, ChunksAssumption
  <2> HIDE DEF c, data
  <2>9. /\ Len(d) = Len(data) /\ d[1] = c
        /\ \A k \in 2 .. Len(data) : d[k] = data[k]
    BY <2>5, <2>7
  <2> HIDE DEF d
  <2>10. data = tmpfile'
    BY <1>1 DEF data
  <2> QED
    BY <2>5, <2>6, <2>7, <2>8, <2>9, <2>10 DEF FirstIsOff
<1> QED
  BY <1>2, <1>3 DEF OnlyTheFirst, FirstIsOff, Damaged

LEMMA FirstStep ==
  TypesAndPlaces /\ Origin /\ StoryTold /\ OnlyTheFirst /\ [Next]_fvars => OnlyTheFirst'
<1> SUFFICES ASSUME TypesAndPlaces, Origin, StoryTold, OnlyTheFirst, [Next]_fvars
             PROVE  OnlyTheFirst'
  OBVIOUS
<1>1. ASSUME UNCHANGED tmpfile PROVE IndicesFit'
  BY <1>1 DEF OnlyTheFirst, IndicesFit
<1>2. CASE Write \/ Change
  <2>1. stage \notin Ended /\ changed' \subseteq changed \union {"source"}
    BY <1>2 DEF Write, TakeSize, FlushEntry, Flush, ShortRead, CompressChunk, KeepCompressed,
                FallBack, StoreChunk, StoreEnd, WriteCrc, Change, Ended
  <2>2. FirstIsOff'
    BY <2>1 DEF Origin, FirstIsOff, Damaged
  <2>3. IndicesFit'
    <3>1. CASE FlushEntry
      <4>1. tmpfile' = <<>>
        BY <3>1 DEF FlushEntry, Flush
      <4>2. Len(tmpfile') = 0
        BY <4>1
      <4>3. 1 .. Len(tmpfile') = {}
        BY <4>2
      <4> QED
        BY <4>3 DEF IndicesFit
    <3>2. CASE CompressChunk
      BY <3>2, CompressedFits DEF OnlyTheFirst
    <3>3. CASE ~FlushEntry /\ ~CompressChunk
      BY <1>1, <1>2, <3>3 DEF Write, TakeSize, ShortRead, KeepCompressed, FallBack, StoreChunk,
                              StoreEnd, WriteCrc, Change, wvars
    <3> QED
      BY <3>1, <3>2, <3>3
  <2> QED
    BY <2>2, <2>3 DEF OnlyTheFirst
<1>3. CASE Damage
  BY <1>3, DamagedFirst DEF OnlyTheFirst
<1>4. CASE Read
  <2>1. UNCHANGED <<changed, tmpfile, entry>>
    BY <1>4, ReadFrame DEF wvars
  <2> QED
    BY <1>1, <2>1 DEF OnlyTheFirst, FirstIsOff, Damaged
<1>5. CASE Finished \/ UNCHANGED fvars
  <2>1. UNCHANGED <<changed, tmpfile, entry>>
    BY <1>5 DEF Finished, fvars, wvars
  <2> QED
    BY <1>1, <2>1 DEF OnlyTheFirst, FirstIsOff, Damaged
<1> QED
  BY <1>2, <1>3, <1>4, <1>5 DEF Next

LEMMA FirstInit == Init => OnlyTheFirst
<1> SUFFICES ASSUME Init PROVE OnlyTheFirst
  OBVIOUS
<1>1. changed = {} /\ tmpfile = <<>>
  BY DEF Init
<1>2. Len(tmpfile) = 0
  BY <1>1
<1>3. 1 .. Len(tmpfile) = {}
  BY <1>2
<1> QED
  BY <1>1, <1>3 DEF OnlyTheFirst, IndicesFit, FirstIsOff, Damaged

----------------------------------------------------------------------------
(* The reader on such an entry: behind the first chunk it has what the     *)
(* writer read, and its sum has taken the same octets since.               *)
FirstOut == Unpacked(entry.data[1], RleDecoded(HuffmanDecoded(entry.data[1]).out).out)
StartOf == StartSum(entry.data_size, "compressed")
OffSum == Crc(HeaderOctets(entry.data[1]) \o OctetsOf(FirstOut), StartOf)

SinceFirst(K, H, m) ==
  /\ FirstOut \in Seq(Bytes) /\ Len(FirstOut) = Len(K[1])
  /\ \E t \in Seq(Bytes), r \in Seq(OctetWords) :
       /\ K[m] = K[1] \o t /\ out = FirstOut \o t
       /\ H[m] = H[1] \o r /\ me.crc32 = Crc(r, OffSum)
UpToChunk(K, H, m) ==
  /\ m \in 0 .. Len(tmpfile) /\ at = SizeAt(entry.data, m)
  /\ m = 0 => out = <<>> /\ me.crc32 = StartOf
  /\ m # 0 => SinceFirst(K, H, m)
ReadingOn ==
  stage = "reading" /\ decode /\ Damaged =>
    \A K, H : Made(tmpfile, K, H) => \E m : UpToChunk(K, H, m)
TakenOff ==
  stage = "accepted" /\ Damaged =>
    \A K, H : Made(tmpfile, K, H) => SinceFirst(K, H, Len(tmpfile)) /\ me.crc32 = entry.crc32
OffStory == ReadingOn /\ TakenOff

LEMMA EmptyJoins ==
  ASSUME NEW S, NEW p \in Seq(S)
  PROVE  p \o <<>> = p /\ <<>> \o p = p /\ <<>> \in Seq(S)
OBVIOUS

LEMMA OffSumOK ==
  ASSUME TypesAndPlaces, Damaged, FirstIsOff, FirstOut \in Seq(Bytes)
  PROVE  /\ OffSum \in Words /\ StartOf \in Words /\ entry.data[1] \in ChunkSet
         /\ HeaderOctets(entry.data[1]) \in Seq(OctetWords)
         /\ OctetsOf(FirstOut) \in Seq(OctetWords)
         /\ Crc(Summed(FirstOut), Crc(HeaderOctets(entry.data[1]), StartOf)) = OffSum
<1> DEFINE g == HeaderOctets(entry.data[1])
           o == OctetsOf(FirstOut)
<1>1. StartOf \in Words /\ entry.data[1] \in ChunkSet
  <2>1. entry.data \in Seq(ChunkSet) /\ 1 \in 1 .. Len(entry.data)
    BY ChunksAre DEF Damaged, FirstIsOff
  <2> QED
    BY <2>1, ChunksAre DEF StartOf
<1>2. g \in Seq(OctetWords) /\ o \in Seq(OctetWords)
  BY <1>1, HeaderOctetsOK, BytesWords
<1> HIDE DEF g, o
<1>3. Crc(o, Crc(g, StartOf)) = Crc(g \o o, StartOf) /\ g \o o \in Seq(OctetWords)
  BY <1>1, <1>2, CrcJoin, WordsJoin
<1>4. Crc(g \o o, StartOf) \in Words
  BY <1>1, <1>3, TableWord DEF Crc
<1> QED
  BY <1>1, <1>2, <1>3, <1>4 DEF OffSum, g, o, Summed

(* The first chunk. *)
LEMMA FirstTaken ==
  ASSUME TypesAndPlaces, OnlyTheFirst, Damaged, decode,
         NEW K, NEW H, Made(tmpfile, K, H),
         NEW c, IsChunk(c, 0), ~Bad(c), Unpacks(c), out = <<>>, me.crc32 = StartOf,
         UNCHANGED <<changed, tmpfile, kept, entry>>
  PROVE  SinceFirst(K, H, 1)'
<1> DEFINE rle == RleDecoded(HuffmanDecoded(c).out)
<1>1. /\ c = entry.data[1] /\ c \in ChunkSet /\ 1 \in 1 .. Len(tmpfile)
      /\ SameButIndex(c, tmpfile[1])
  BY DEF IsChunk, OnlyTheFirst, FirstIsOff
<1>2. PICK b : MadeOf(tmpfile[1], b, K[0], H[0], K[1], H[1])
  <2>1. PICK k : k = 1
    OBVIOUS
  <2>2. PICK b : MadeOf(tmpfile[k], b, K[k - 1], H[k - 1], K[k], H[k])
    BY <1>1, <2>1 DEF Made
  <2>3. k - 1 = 0
    BY <2>1
  <2> QED
    BY <2>1, <2>2, <2>3
<1>3. b \in Seq(Bytes) /\ Codes(c, b) /\ K[1] = b
  <2>1. Codes(tmpfile[1], b) /\ b \in Seq(Bytes) /\ K[1] = K[0] \o b
    BY <1>2 DEF MadeOf, StandsFor, Codes
  <2>2. K[0] = <<>>
    BY DEF Made
  <2>3. K[1] = b
    BY <2>1, <2>2, EmptyJoins
  <2> QED
    BY <1>1, <2>1, <2>3, CodesSame
<1>4. rle.out \in Seq(Bytes) /\ Len(rle.out) = Len(b) /\ Len(b) \in Nat
  <2>1. HuffmanDecoded(c).out \in Seq(Bytes)
    BY <1>1, HuffmanOut
  <2> QED
    BY <1>3, <2>1, RleOut, CodesGive
<1>5. /\ c.primary_index < Len(rle.out) /\ out' = out \o Unpacked(c, rle.out)
      /\ me' = [me EXCEPT !.crc32 = Crc(Summed(Unpacked(c, rle.out)),
                                        Crc(HeaderOctets(c), me.crc32))]
  BY DEF Unpacks
<1>6. FirstOut = Unpacked(c, rle.out)
  BY <1>1 DEF FirstOut
<1> HIDE DEF rle
<1>7. FirstOut \in Seq(Bytes) /\ Len(FirstOut) = Len(K[1])
  <2>1. MtfDecoded(rle.out) \in Seq(Bytes) /\ Len(MtfDecoded(rle.out)) = Len(rle.out)
    BY <1>4, MtfDecodes
  <2>2. c.primary_index \in 0 .. Len(MtfDecoded(rle.out)) - 1
    BY <1>1, <1>4, <1>5, <2>1, ChunkFields
  <2>3. /\ BwtDecoded(MtfDecoded(rle.out), c.primary_index) \in Seq(Bytes)
        /\ Len(BwtDecoded(MtfDecoded(rle.out), c.primary_index)) = Len(MtfDecoded(rle.out))
    BY <2>1, <2>2, BwtDecodes
  <2> QED
    BY <1>3, <1>4, <1>6, <2>1, <2>3 DEF Unpacked
<1>8. out' = FirstOut \o <<>>
  BY <1>5, <1>6, <1>7, EmptyJoins
<1>9. OffSum \in Words /\ me'.crc32 = OffSum
  <2>1. /\ OffSum \in Words
        /\ Crc(Summed(FirstOut), Crc(HeaderOctets(entry.data[1]), StartOf)) = OffSum
    BY <1>7, OffSumOK DEF OnlyTheFirst
  <2>2. me'.crc32 = Crc(Summed(FirstOut), Crc(HeaderOctets(c), me.crc32))
    BY <1>5, <1>6, ChunksAre DEF MeSet
  <2> QED
    BY <1>1, <2>1, <2>2
<1>10. me'.crc32 = Crc(<<>>, OffSum)
  BY <1>9, CrcNone DEF Crc
<1>11. K[1] = K[1] \o <<>> /\ H[1] = H[1] \o <<>>
  <2>1. tmpfile \in Seq(ChunkSet) /\ 1 \in 0 .. Len(tmpfile)
    BY <1>1, ChunksAre
  <2> QED
    BY <2>1, MadeTypes, EmptyJoins
<1>12. FirstOut' = FirstOut /\ OffSum' = OffSum
  BY DEF FirstOut, OffSum, StartOf
<1>13. <<>> \in Seq(Bytes) /\ <<>> \in Seq(OctetWords)
  OBVIOUS
<1> DEFINE e == <<>>
<1>14. /\ e \in Seq(Bytes) /\ e \in Seq(OctetWords)
       /\ K[1] = K[1] \o e /\ out' = FirstOut' \o e
       /\ H[1] = H[1] \o e /\ me'.crc32 = Crc(e, OffSum')
  BY <1>8, <1>10, <1>11, <1>12, <1>13
<1> HIDE DEF e
<1> QED
  BY <1>7, <1>12, <1>14 DEF SinceFirst

(* A chunk behind it, which is as it was written. *)
LEMMA LaterTaken ==
  ASSUME TypesAndPlaces, OnlyTheFirst, Damaged, decode,
         NEW K, NEW H, Made(tmpfile, K, H),
         NEW c, NEW m, m # 0, IsChunk(c, m), ~Bad(c), Unpacks(c), SinceFirst(K, H, m),
         UNCHANGED <<changed, tmpfile, kept, entry>>
  PROVE  SinceFirst(K, H, m + 1)'
<1>1. /\ m \in Nat /\ m \in 0 .. Len(tmpfile) /\ m + 1 \in 1 .. Len(tmpfile)
      /\ 1 \in 0 .. Len(tmpfile) /\ c = tmpfile[m + 1] /\ c \in ChunkSet
  <2>1. /\ m \in Nat /\ m + 1 \in 1 .. Len(entry.data) /\ m \in 0 .. Len(entry.data)
        /\ c = entry.data[m + 1] /\ c \in ChunkSet
    BY DEF IsChunk
  <2>2. Len(entry.data) = Len(tmpfile) /\ 1 \in 1 .. Len(tmpfile)
        /\ \A k \in 2 .. Len(tmpfile) : entry.data[k] = tmpfile[k]
    BY DEF OnlyTheFirst, FirstIsOff
  <2>3. m + 1 \in 2 .. Len(tmpfile)
    BY <2>1, <2>2
  <2> QED
    BY <2>1, <2>2, <2>3
<1>2. PICK n : n = m + 1
  OBVIOUS
<1>3. PICK b : MadeOf(c, b, K[m], H[m], K[n], H[n])
  <2>1. PICK b : MadeOf(tmpfile[n], b, K[n - 1], H[n - 1], K[n], H[n])
    BY <1>1, <1>2 DEF Made
  <2>2. n - 1 = m
    BY <1>1, <1>2
  <2> QED
    BY <1>1, <1>2, <2>1, <2>2
<1>4. PICK rle : rle = RleDecoded(HuffmanDecoded(c).out)
  OBVIOUS
<1>5. b \in Seq(Bytes) /\ Unpacked(c, rle.out) = b
  BY <1>3, <1>4, StandsForGives DEF MadeOf, StandsFor, Codes
<1>6. PICK g : g = HeaderOctets(c)
  OBVIOUS
<1>7. PICK o : o = OctetsOf(b)
  OBVIOUS
<1>8. g \in Seq(OctetWords) /\ o \in Seq(OctetWords)
  BY <1>1, <1>5, <1>6, <1>7, HeaderOctetsOK, BytesWords
<1>9. K[n] = K[m] \o b /\ H[n] = (H[m] \o g) \o o
  BY <1>3, <1>6, <1>7 DEF MadeOf
<1>10. out' = out \o b /\ me'.crc32 = Crc(Summed(b), Crc(g, me.crc32))
  BY <1>4, <1>5, <1>6, ChunksAre DEF Unpacks, MeSet
<1>11. PICK t \in Seq(Bytes), r \in Seq(OctetWords) :
         /\ K[m] = K[1] \o t /\ out = FirstOut \o t
         /\ H[m] = H[1] \o r /\ me.crc32 = Crc(r, OffSum)
  BY DEF SinceFirst
<1>12. FirstOut \in Seq(Bytes) /\ Len(FirstOut) = Len(K[1]) /\ OffSum \in Words
  <2>1. FirstOut \in Seq(Bytes) /\ Len(FirstOut) = Len(K[1])
    BY DEF SinceFirst
  <2> QED
    BY <2>1, OffSumOK DEF OnlyTheFirst
<1>13. K[1] \in Seq(Bytes) /\ H[1] \in Seq(OctetWords)
  BY <1>1, ChunksAre, MadeTypes
<1> DEFINE u == t \o b
           s == (r \o g) \o o
<1>14. u \in Seq(Bytes) /\ K[n] = K[1] \o u /\ out' = FirstOut \o u
  <2>1. u \in Seq(Bytes)
    BY <1>5, <1>11
  <2>2. (K[1] \o t) \o b = K[1] \o u
    BY <1>5, <1>11, <1>13, BytesAssociate
  <2>3. (FirstOut \o t) \o b = FirstOut \o u
    BY <1>5, <1>11, <1>12, BytesAssociate
  <2> QED
    BY <1>9, <1>10, <1>11, <2>1, <2>2, <2>3
<1>15. s \in Seq(OctetWords) /\ H[n] = H[1] \o s
  <2>1. r \o g \in Seq(OctetWords)
    BY <1>8, <1>11, WordsJoin
  <2>2. s \in Seq(OctetWords)
    BY <1>8, <2>1, WordsJoin
  <2>3. (H[1] \o r) \o g = H[1] \o (r \o g)
    BY <1>8, <1>11, <1>13, WordsAssociate
  <2>4. (H[1] \o (r \o g)) \o o = H[1] \o s
    BY <1>8, <1>13, <2>1, WordsAssociate
  <2> QED
    BY <1>9, <1>11, <2>2, <2>3, <2>4
<1>16. me'.crc32 = Crc(s, OffSum)
  <2>1. Crc(Summed(b), Crc(g, Crc(r, OffSum))) = Crc((r \o g) \o OctetsOf(b), OffSum)
    BY <1>5, <1>8, <1>11, <1>12, SumNext
  <2> QED
    BY <1>7, <1>10, <1>11, <2>1
<1>17. FirstOut' = FirstOut /\ OffSum' = OffSum
  BY DEF FirstOut, OffSum, StartOf
<1> HIDE DEF u, s
<1>18. SinceFirst(K, H, n)'
  BY <1>2, <1>12, <1>14, <1>15, <1>16, <1>17 DEF SinceFirst
<1> QED
  BY <1>2, <1>18

LEMMA OffStarts ==
  ASSUME TypesAndPlaces, ReadEntry
  PROVE  OffStory'
<1>1. /\ stage' = "reading" /\ UNCHANGED <<changed, tmpfile, entry>>
      /\ at' = 0 /\ out' = <<>>
      /\ decode' => me'.crc32 = StartSum(entry.data_size, entry.comp)
  BY DEF ReadEntry, wvars, StartSum
<1>2. ASSUME decode', Damaged', NEW K, NEW H PROVE UpToChunk(K, H, 0)'
  <2>1. entry.comp = "compressed"
    BY <1>1, <1>2 DEF Damaged
  <2>2. entry.data \in Seq(ChunkSet) /\ tmpfile \in Seq(ChunkSet)
    BY <2>1, ChunksAre
  <2>3. SizeAt(entry.data, 0) = 0 /\ 0 \in 0 .. Len(tmpfile)
    BY <2>2, SizeAtOK
  <2>4. me'.crc32 = StartOf'
    BY <1>1, <1>2, <2>1 DEF StartOf
  <2> QED
    BY <1>1, <2>3, <2>4 DEF UpToChunk
<1>3. ReadingOn'
  BY <1>2 DEF ReadingOn
<1>4. TakenOff'
  BY <1>1 DEF TakenOff
<1> QED
  BY <1>3, <1>4 DEF OffStory

LEMMA OffUnpacks ==
  ASSUME TypesAndPlaces, OnlyTheFirst, OffStory, UnpackChunk
  PROVE  OffStory'
<1>1. /\ stage = "reading" /\ UNCHANGED <<changed, tmpfile, kept, entry>>
  BY DEF UnpackChunk, wvars
<1>2. PICK c, n : UnpackedChunk(c, n)
  BY UnpackDoes
<1>3. CASE Bad(c) /\ Refuse
  BY <1>3 DEF OffStory, ReadingOn, TakenOff, Refuse
<1>4. CASE ~Bad(c) /\ Unpacks(c) /\ at' = SizeAt(entry.data, n + 1)
  <2>1. stage' = "reading" /\ decode' = decode /\ Damaged' = Damaged
    BY <1>1, <1>4 DEF Unpacks, Damaged
  <2>2. ASSUME decode, Damaged, NEW K, NEW H, Made(tmpfile, K, H)
        PROVE  UpToChunk(K, H, n + 1)'
    <3>1. PICK m : UpToChunk(K, H, m)
      BY <1>1, <2>2 DEF OffStory, ReadingOn
    <3>2. IsChunk(c, n)
      BY <1>2 DEF UnpackedChunk
    <3>3. Len(entry.data) = Len(tmpfile) /\ entry.data \in Seq(ChunkSet)
      BY <2>2, ChunksAre DEF OnlyTheFirst, FirstIsOff, Damaged
    <3>4. m = n
      <4>1. PICK data : data = entry.data
        OBVIOUS
      <4>2. data \in Seq(ChunkSet) /\ n \in 0 .. Len(data) /\ m \in 0 .. Len(data)
        BY <3>1, <3>2, <3>3, <4>1 DEF UpToChunk, IsChunk
      <4>3. SizeAt(data, n) = SizeAt(data, m)
        BY <3>1, <3>2, <4>1 DEF UpToChunk, IsChunk
      <4> QED
        BY <4>2, <4>3, SizeAtOne
    <3>5. n + 1 \in 0 .. Len(tmpfile) /\ n + 1 # 0 /\ n \in Nat
      BY <3>2, <3>3 DEF IsChunk
    <3>6. SinceFirst(K, H, n + 1)'
      <4>1. CASE n = 0
        <5>1. out = <<>> /\ me.crc32 = StartOf
          BY <3>1, <3>4, <4>1 DEF UpToChunk
        <5>2. IsChunk(c, 0)
          BY <3>2, <4>1
        <5>3. SinceFirst(K, H, 1)'
          BY <1>1, <1>4, <2>2, <5>1, <5>2, FirstTaken
        <5>4. n + 1 = 1
          BY <4>1
        <5> QED
          BY <5>3, <5>4
      <4>2. CASE n # 0
        <5>1. SinceFirst(K, H, n)
          BY <3>1, <3>4, <4>2 DEF UpToChunk
        <5> QED
          BY <1>1, <1>4, <2>2, <3>2, <4>2, <5>1, LaterTaken
      <4> QED
        BY <4>1, <4>2
    <3> QED
      BY <1>1, <1>4, <3>5, <3>6 DEF UpToChunk
  <2>3. ReadingOn'
    <3> SUFFICES ASSUME decode, Damaged, NEW K, NEW H, Made(tmpfile, K, H)
                 PROVE  \E m : UpToChunk(K, H, m)'
      BY <1>1, <2>1 DEF ReadingOn
    <3> QED
      BY <2>2
  <2> QED
    BY <2>1, <2>3 DEF OffStory, TakenOff
<1> QED
  BY <1>2, <1>3, <1>4 DEF UnpackedChunk

LEMMA OffEnds ==
  ASSUME TypesAndPlaces, OnlyTheFirst, OffStory, EndRead
  PROVE  OffStory'
<1>1. /\ stage = "reading" /\ ~More /\ stage' # "reading"
      /\ UNCHANGED <<changed, tmpfile, entry, out, me>>
      /\ stage' = "accepted" => decode /\ me.crc32 = entry.crc32
  BY DEF EndRead, Refuse, wvars, rvars
<1>2. ASSUME stage' = "accepted", Damaged, NEW K, NEW H, Made(tmpfile, K, H)
      PROVE  SinceFirst(K, H, Len(tmpfile)) /\ me.crc32 = entry.crc32
  <2>1. PICK m : UpToChunk(K, H, m)
    BY <1>1, <1>2 DEF OffStory, ReadingOn
  <2>2. PICK data : data = entry.data
    OBVIOUS
  <2>3. /\ Len(data) = Len(tmpfile) /\ data \in Seq(ChunkSet) /\ 1 \in 1 .. Len(tmpfile)
        /\ me.data_size = FileSize(data) /\ at \in Nat /\ m \in 0 .. Len(data)
        /\ at = SizeAt(data, m) /\ Len(data) \in 0 .. Len(data)
    <3>1. /\ Len(data) = Len(tmpfile) /\ data \in Seq(ChunkSet) /\ 1 \in 1 .. Len(tmpfile)
      BY <1>2, <2>2, ChunksAre DEF OnlyTheFirst, FirstIsOff, Damaged
    <3>2. me.data_size = FileSize(data) /\ at \in Nat
      BY <1>1, <1>2, <2>2, ChunksAre DEF TypesAndPlaces, Places, Damaged, Ended
    <3> QED
      BY <2>1, <2>2, <3>1, <3>2 DEF UpToChunk
  <2>4. ~(m < Len(data))
    <3>1. SUFFICES ASSUME m < Len(data) PROVE FALSE
      OBVIOUS
    <3>2. SizeAt(data, m) < SizeAt(data, Len(data))
      BY <2>3, <3>1, SizesRise
    <3>3. SizeAt(data, Len(data)) = FileSize(data)
      BY <2>3, SizeAtOK
    <3> QED
      BY <1>1, <2>3, <3>2, <3>3 DEF More
  <2>5. m = Len(tmpfile) /\ m # 0
    BY <2>3, <2>4
  <2> QED
    BY <1>1, <1>2, <2>1, <2>5 DEF UpToChunk
<1>3. ASSUME NEW K, NEW H, NEW m, SinceFirst(K, H, m) PROVE SinceFirst(K, H, m)'
  BY <1>1, <1>3 DEF SinceFirst, FirstOut, OffSum, StartOf
<1>4. TakenOff'
  <2> SUFFICES ASSUME stage' = "accepted", Damaged', NEW K, NEW H, Made(tmpfile, K, H)'
               PROVE  SinceFirst(K, H, Len(tmpfile))' /\ me'.crc32 = entry'.crc32
    BY DEF TakenOff
  <2>1. Damaged /\ Made(tmpfile, K, H)
    BY <1>1 DEF Damaged
  <2>2. SinceFirst(K, H, Len(tmpfile)) /\ me.crc32 = entry.crc32
    BY <1>2, <2>1
  <2>3. PICK m : m = Len(tmpfile)
    OBVIOUS
  <2>4. SinceFirst(K, H, m)'
    BY <1>3, <2>2, <2>3
  <2> QED
    BY <1>1, <2>2, <2>3, <2>4
<1>5. ReadingOn'
  BY <1>1 DEF ReadingOn
<1> QED
  BY <1>4, <1>5 DEF OffStory

LEMMA OffStep ==
  TypesAndPlaces /\ OnlyTheFirst /\ OffStory /\ [Next]_fvars => OffStory'
<1> SUFFICES ASSUME TypesAndPlaces, OnlyTheFirst, OffStory, [Next]_fvars PROVE OffStory'
  OBVIOUS
<1>1. CASE Write \/ Change \/ Damage
  <2>1. stage' \notin {"reading", "accepted"}
    <3>1. me.comp \in {"stored", "compressed"}
      BY ChunksAre DEF MeSet, Comps
    <3> QED
      BY <1>1, <3>1
         DEF Write, TakeSize, FlushEntry, Flush, ShortRead, CompressChunk, KeepCompressed,
             FallBack, StoreChunk, StoreEnd, WriteCrc, Change, Damage
  <2> QED
    BY <2>1 DEF OffStory, ReadingOn, TakenOff
<1>2. CASE ReadEntry
  BY <1>2, OffStarts
<1>3. CASE CopyChunk
  <2>1. stage' = "reading" /\ entry' = entry /\ entry.comp = "stored"
    BY <1>3 DEF CopyChunk, TypesAndPlaces, Places
  <2> QED
    BY <2>1 DEF OffStory, ReadingOn, TakenOff, Damaged
<1>4. CASE UnpackChunk
  BY <1>4, OffUnpacks
<1>5. CASE EndRead
  BY <1>5, OffEnds
<1>6. CASE Finished \/ UNCHANGED fvars
  <2>1. UNCHANGED <<changed, stage, me, at, tmpfile, entry, decode, out>>
    BY <1>6 DEF Finished, fvars, wvars, rvars
  <2>2. ASSUME NEW K, NEW H, NEW m
        PROVE  /\ SinceFirst(K, H, m)' = SinceFirst(K, H, m)
               /\ UpToChunk(K, H, m)' = UpToChunk(K, H, m)
    BY <2>1 DEF UpToChunk, SinceFirst, FirstOut, OffSum, StartOf
  <2>3. ReadingOn'
    <3> SUFFICES ASSUME stage = "reading", decode, Damaged, NEW K, NEW H, Made(tmpfile, K, H)
                 PROVE  \E m : UpToChunk(K, H, m)'
      BY <2>1 DEF ReadingOn, Damaged
    <3>1. PICK m : UpToChunk(K, H, m)
      BY DEF OffStory, ReadingOn
    <3> QED
      BY <2>2, <3>1
  <2>4. TakenOff'
    <3> SUFFICES ASSUME stage = "accepted", Damaged, NEW K, NEW H, Made(tmpfile, K, H)
                 PROVE  SinceFirst(K, H, Len(tmpfile))' /\ me.crc32 = entry.crc32
      BY <2>1 DEF TakenOff, Damaged
    <3>1. PICK m : m = Len(tmpfile)
      OBVIOUS
    <3>2. SinceFirst(K, H, m) /\ me.crc32 = entry.crc32
      BY <3>1 DEF OffStory, TakenOff
    <3> QED
      BY <2>1, <2>2, <3>1, <3>2
  <2> QED
    BY <2>3, <2>4 DEF OffStory
<1> QED
  BY <1>1, <1>2, <1>3, <1>4, <1>5, <1>6 DEF Next, Read

(* Of an entry of which an index has been changed, the reader has at any   *)
(* time what the writer read behind the first chunk, and a sum that has    *)
(* gone over the same octets since (chunks.c:346).                         *)
THEOREM OffStoryHolds == Spec => [](OnlyTheFirst /\ OffStory)
<1>1. Init => OffStory
  BY DEF Init, OffStory, ReadingOn, TakenOff
<1> QED
  BY <1>1, TypesHold, OriginHolds, StoryHolds, FirstInit, FirstStep, OffStep, PTL DEF Spec

LEMMA SliceBefore ==
  ASSUME NEW S, NEW p \in Seq(S), NEW q \in Seq(S)
  PROVE  SubSeq(p \o q, 1, Len(p)) = p
<1> DEFINE w == p \o q
           r == SubSeq(w, 1, Len(p))
<1>1. /\ w \in Seq(S) /\ Len(w) = Len(p) + Len(q) /\ Len(p) \in Nat /\ Len(q) \in Nat
      /\ \A i \in 1 .. Len(p) : w[i] = p[i]
  BY PastFirst
<1> HIDE DEF w
<1>2. Len(p) \in 0 .. Len(w)
  BY <1>1
<1>3. r \in Seq(S) /\ Len(r) = Len(p) /\ \A i \in 1 .. Len(p) : r[i] = w[i]
  BY <1>1, <1>2, FirstOf
<1> HIDE DEF r
<1>4. \A i \in 1 .. Len(r) : r[i] = p[i]
  BY <1>1, <1>3
<1>5. r = p
  BY <1>3, <1>4, SeqEqual
<1> QED
  BY <1>5 DEF r, w

LEMMA SameEnds ==
  ASSUME NEW S, NEW p \in Seq(S), NEW q \in Seq(S), NEW t \in Seq(S), Len(p) = Len(q)
  PROVE  /\ Len(p \o t) = Len(q \o t)
         /\ SubSeq(p \o t, Len(q) + 1, Len(p \o t)) = t
         /\ SubSeq(q \o t, Len(q) + 1, Len(q \o t)) = t
<1>1. Len(p \o t) = Len(p) + Len(t) /\ Len(q \o t) = Len(q) + Len(t)
  BY PastFirst
<1>2. Len(p \o t) \in Nat /\ Len(q \o t) \in Nat
  BY <1>1
<1>3. SubSeq(p \o t, Len(p) + 1, Len(p \o t)) = t
  BY <1>2, SliceBehind
<1>4. SubSeq(q \o t, Len(q) + 1, Len(q \o t)) = t
  BY <1>2, SliceBehind
<1> QED
  BY <1>1, <1>3, <1>4

(* The bytes of the first chunk and those behind it, and the sum up to     *)
(* the end of the first.                                                   *)
FirstLength == Len(RleDecoded(HuffmanDecoded(tmpfile[1]).out).out)
InFirst(bytes) == SubSeq(bytes, 1, FirstLength)
BehindFirst(bytes) == SubSeq(bytes, FirstLength + 1, Len(bytes))
FirstSum(c, bytes) ==
  Crc(HeaderOctets(c) \o OctetsOf(InFirst(bytes)), StartSum(entry.data_size, "compressed"))

(* Two first chunks that differ in their indices and in as many bytes have *)
(* the same sum; all else is the same.                                     *)
Collision ==
  /\ entry.data[1].primary_index # tmpfile[1].primary_index
  /\ SameButIndex(entry.data[1], tmpfile[1])
  /\ Len(out) = Len(kept) /\ InFirst(out) # InFirst(kept) /\ BehindFirst(out) = BehindFirst(kept)
  /\ FirstSum(entry.data[1], out) = FirstSum(tmpfile[1], kept)

LEMMA TakenCollides ==
  ASSUME TypesAndPlaces, StoryTold, OnlyTheFirst, OffStory,
         stage = "accepted", Damaged, FitsLength
  PROVE  Collision
<1>1. PICK K, H : ChunksStory(K, H)
  BY DEF StoryTold
<1> DEFINE n == Len(tmpfile)
           c == entry.data[1]
           d == tmpfile[1]
           b == K[1]
<1>2. Made(tmpfile, K, H) /\ K[n] = kept /\ entry.crc32 = Crc(H[n], StartOf)
  <2>1. SealedChunks(K, H) /\ Made(tmpfile, K, H)
    BY <1>1 DEF ChunksStory
  <2> QED
    BY <2>1 DEF SealedChunks, Ended, Damaged, ChunksSum, InAll, StartOf
<1>3. SinceFirst(K, H, n) /\ me.crc32 = entry.crc32
  BY <1>2 DEF OffStory, TakenOff
<1>4. PICK t \in Seq(Bytes), r \in Seq(OctetWords) :
        /\ K[n] = K[1] \o t /\ out = FirstOut \o t
        /\ H[n] = H[1] \o r /\ me.crc32 = Crc(r, OffSum)
  BY <1>3 DEF SinceFirst
<1>5. /\ 1 \in 1 .. n /\ SameButIndex(c, d) /\ c.primary_index # d.primary_index
      /\ c.primary_index < MaxChunk /\ d.primary_index < MaxChunk
  BY DEF OnlyTheFirst, FirstIsOff, IndicesFit
<1>6. /\ FirstOut \in Seq(Bytes) /\ Len(FirstOut) = Len(b) /\ c \in ChunkSet
      /\ StartOf \in Words /\ OffSum \in Words
  <2>1. FirstOut \in Seq(Bytes) /\ Len(FirstOut) = Len(b)
    BY <1>3 DEF SinceFirst
  <2> QED
    BY <2>1, OffSumOK DEF OnlyTheFirst
<1>7. MadeOf(d, b, K[0], H[0], K[1], H[1]) /\ b \in Seq(Bytes)
  <2>1. PICK k : k = 1
    OBVIOUS
  <2>2. PICK x : MadeOf(tmpfile[k], x, K[k - 1], H[k - 1], K[k], H[k])
    BY <1>2, <1>5, <2>1 DEF Made
  <2>3. k - 1 = 0
    BY <2>1
  <2>4. MadeOf(d, x, K[0], H[0], K[1], H[1])
    BY <2>1, <2>2, <2>3
  <2>5. x \in Seq(Bytes) /\ K[1] = K[0] \o x /\ K[0] = <<>>
    BY <1>2, <2>4 DEF Made, MadeOf, StandsFor, Codes
  <2>6. K[1] = x
    BY <2>5, EmptyJoins
  <2> QED
    BY <2>4, <2>5, <2>6
<1>8. d \in ChunkSet /\ FirstLength = Len(b) /\ Len(b) \in Nat
  <2>1. Codes(d, b)
    BY <1>7 DEF MadeOf, StandsFor
  <2>2. d \in ChunkSet /\ Len(b) \in Nat
    BY <1>7, <2>1 DEF Codes
  <2>3. FirstLength = Len(b)
    BY <2>1, CodesGive DEF FirstLength
  <2> QED
    BY <2>2, <2>3
<1> DEFINE g == HeaderOctets(d)
           o == OctetsOf(b)
           first == Crc(g \o o, StartOf)
<1>9. g \in Seq(OctetWords) /\ o \in Seq(OctetWords) /\ g \o o \in Seq(OctetWords)
  <2>1. g \in Seq(OctetWords)
    BY <1>8, HeaderOctetsOK
  <2>2. o \in Seq(OctetWords)
    BY <1>7, BytesWords
  <2> HIDE DEF g, o
  <2> QED
    BY <2>1, <2>2, WordsJoin
<1>10. H[1] = g \o o
  <2>1. H[1] = (H[0] \o g) \o o /\ H[0] = <<>>
    BY <1>2, <1>7 DEF MadeOf, Made
  <2>2. <<>> \o g = g
    BY <1>9, EmptyJoins
  <2> QED
    BY <2>1, <2>2
<1>11. OffSum = first
  <2> HIDE DEF g, o
  <2>1. Crc(r, first) = Crc((g \o o) \o r, StartOf) /\ first \in Words
    BY <1>4, <1>6, <1>9, CrcJoin
  <2>2. Crc(r, OffSum) = Crc(r, first)
    BY <1>2, <1>3, <1>4, <1>10, <2>1
  <2> HIDE DEF first
  <2>3. bra_crc32c_table(r, OffSum) = bra_crc32c_table(r, first)
    BY <2>2 DEF Crc
  <2> QED
    BY <1>4, <1>6, <2>1, <2>3, TablesApart
<1>12. InFirst(out) = FirstOut /\ InFirst(kept) = b
  <2>1. SubSeq(FirstOut \o t, 1, Len(FirstOut)) = FirstOut /\ SubSeq(b \o t, 1, Len(b)) = b
    BY <1>4, <1>6, <1>7, SliceBefore
  <2> QED
    BY <1>2, <1>4, <1>6, <1>8, <2>1 DEF InFirst
<1>13. BehindFirst(out) = t /\ BehindFirst(kept) = t /\ Len(out) = Len(kept)
  <2> DEFINE p == FirstOut
  <2>1. p \in Seq(Bytes) /\ b \in Seq(Bytes) /\ t \in Seq(Bytes) /\ Len(p) = Len(b)
    BY <1>4, <1>6, <1>7
  <2>2. out = p \o t /\ kept = b \o t
    BY <1>2, <1>4
  <2> HIDE DEF p, b, n
  <2>3. /\ Len(p \o t) = Len(b \o t)
        /\ SubSeq(p \o t, Len(b) + 1, Len(p \o t)) = t
        /\ SubSeq(b \o t, Len(b) + 1, Len(b \o t)) = t
    BY <2>1, SameEnds
  <2> QED
    BY <1>8, <2>2, <2>3 DEF BehindFirst
<1>14. FirstSum(c, out) = OffSum /\ FirstSum(d, kept) = first
  BY <1>12 DEF FirstSum, OffSum, StartOf
<1>15. FirstOut # b
  <2>1. SUFFICES ASSUME FirstOut = b PROVE FALSE
    OBVIOUS
  <2>2. Crc(HeaderOctets(c) \o OctetsOf(b), StartOf) = Crc(HeaderOctets(d) \o OctetsOf(b), StartOf)
    BY <1>11, <2>1 DEF OffSum
  <2> HIDE DEF b, c, d
  <2>3. c.primary_index = d.primary_index
    BY <1>5, <1>6, <1>7, <1>8, <2>2, IndexShows
  <2> QED
    BY <1>5, <2>3
<1> QED
  BY <1>5, <1>11, <1>12, <1>13, <1>14, <1>15 DEF Collision

(* The reader takes no entry that has been changed, but for this: the      *)
(* changed index makes other bytes of the first chunk, and these and the   *)
(* index together have, of all sums, that of the ones written.  An index   *)
(* that changes nothing of what comes out is always noticed, and so is any *)
(* stored byte (chunks.c:346, meta_entries.c:129).                         *)
THEOREM OnlyACollisionIsMissed ==
  Spec => [](DamageNoticed \/ (entry.comp = "compressed" /\ (~FitsLength \/ Collision)))
<1>1. TypesAndPlaces /\ StoredStory /\ StoryTold /\ OnlyTheFirst /\ OffStory
        => DamageNoticed \/ (entry.comp = "compressed" /\ (~FitsLength \/ Collision))
  <2> SUFFICES ASSUME TypesAndPlaces, StoredStory, StoryTold, OnlyTheFirst, OffStory,
                      stage = "accepted", "archive" \in changed
               PROVE  entry.comp = "compressed" /\ (~FitsLength \/ Collision)
    BY DEF DamageNoticed
  <2>1. entry.comp = "compressed"
    <3>1. entry.comp \in Comps
      BY ChunksAre DEF EntrySet
    <3>2. entry.comp # "stored"
      BY DEF StoredStory, StoredTaken
    <3> QED
      BY <3>1, <3>2 DEF Comps
  <2> QED
    BY <2>1, TakenCollides DEF Damaged
<1> QED
  BY <1>1, TypesHold, StoredStoryHolds, StoryHolds, OffStoryHolds, PTL
=============================================================================
