----------------------------- MODULE BraCrc32c -----------------------------
(***************************************************************************)
(* The sums of the archive: CRC-32C by table, by SSE4.2 instructions, and  *)
(* of two pieces put together (utils/lib_bra_crc32c.c).                    *)
(*                                                                         *)
(* A word is the set of the positions of its ones, position 0 the lowest:  *)
(* exclusive or is symmetric difference, and nothing can overflow.         *)
(***************************************************************************)
EXTENDS Integers, Sequences, FiniteSets, SequencesExt

CONSTANT LengthBits   \* the bits of the length bra_crc32c_combine takes: 32

ASSUME LengthAssumption == LengthBits \in Nat \ {0}

GF2_DIM == 32
Bits == 0 .. GF2_DIM - 1
Words == SUBSET Bits
OctetWords == SUBSET (0 .. 7)

(* 0x82F63B78 *)
BRA_CRC32C_POLY == {3, 4, 5, 6, 8, 9, 11, 12, 13, 17, 18, 20, 21, 22, 23, 25, 31}
BRA_CRC32C_INIT == {}

Xor(a, b) == (a \ b) \union (b \ a)
NotWide(w) == (0 .. 63) \ w     \* in twice the width
Not(w) == Bits \ w
ShiftRight(w, n) == {b - n : b \in {x \in w : x >= n}}

----------------------------------------------------------------------------
(* Division by the polynomial, one bit: what the others must amount to. *)
BitStep(w) ==
  IF 0 \in w THEN Xor(ShiftRight(w, 1), BRA_CRC32C_POLY) ELSE ShiftRight(w, 1)

BitSteps(w, n) ==
  LET after[k \in 0 .. n] == IF k = 0 THEN w ELSE BitStep(after[k - 1])
  IN  after[n]

Divided(data, previous_crc) ==
  LET crc[i \in 0 .. Len(data)] ==
        IF i = 0 THEN Not(previous_crc) ELSE BitSteps(Xor(crc[i - 1], data[i]), 8)
  IN  Not(crc[Len(data)])

----------------------------------------------------------------------------
(* The table's 256 literals are these. *)
crc32c_table == [octet \in OctetWords |-> BitSteps(octet, 8)]

TableStep(crc, octet) ==
  Xor(crc32c_table[Xor(crc, octet) \intersect (0 .. 7)], ShiftRight(crc, 8))

bra_crc32c_table(data, previous_crc) ==
  LET crc[i \in 0 .. Len(data)] ==
        IF i = 0 THEN Not(previous_crc) ELSE TableStep(crc[i - 1], data[i])
  IN  Not(crc[Len(data)])

----------------------------------------------------------------------------
(* With instructions, in pieces of 1, 8, 4, 2 and 1 octets, after as many  *)
(* as bring the address to a multiple of Align (8; 4 in a 32-bit build,    *)
(* where no piece has 8).  (And with a last four left to the twos.)        *)
Before(align, addr, length) == Min({length, (align - (addr % align)) % align})
Eights(align, length) == IF align = 8 THEN length \div 8 ELSE 0

PiecesLessFour(align, addr, length) ==
  LET before == Before(align, addr, length)
      eights == Eights(align, length - before)
      left == length - before - 8 * eights
      fours == IF left > 4 THEN 1 ELSE 0
      twos == IF left - 4 * fours >= 2 THEN 1 ELSE 0
      ones == IF left - 4 * fours - 2 * twos = 1 THEN 1 ELSE 0
      at == length - left
  IN  [k \in 1 .. before |-> [at |-> k, n |-> 1]]
        \o [k \in 1 .. eights |-> [at |-> before + 8 * (k - 1) + 1, n |-> 8]]
        \o [k \in 1 .. fours |-> [at |-> at + 1, n |-> 4]]
        \o [k \in 1 .. twos |-> [at |-> at + 4 * fours + 1, n |-> 2]]
        \o [k \in 1 .. ones |-> [at |-> at + 4 * fours + 2 * twos + 1, n |-> 1]]

Pieces(align, addr, length) ==
  LET before == Before(align, addr, length)
      eights == Eights(align, length - before)
      left == length - before - 8 * eights
      fours == IF left >= 4 THEN 1 ELSE 0
      twos == IF left - 4 * fours >= 2 THEN 1 ELSE 0
      ones == IF left - 4 * fours - 2 * twos = 1 THEN 1 ELSE 0
      at == length - left
  IN  [k \in 1 .. before |-> [at |-> k, n |-> 1]]
        \o [k \in 1 .. eights |-> [at |-> before + 8 * (k - 1) + 1, n |-> 8]]
        \o [k \in 1 .. fours |-> [at |-> at + 1, n |-> 4]]
        \o [k \in 1 .. twos |-> [at |-> at + 4 * fours + 1, n |-> 2]]
        \o [k \in 1 .. ones |-> [at |-> at + 4 * fours + 2 * twos + 1, n |-> 1]]

(* A little-endian operand, and the instruction that divides it (by octets *)
(* here: OctetStep is eight bit steps of a register, however wide).        *)
Operand(data, at, n) == {b \in 0 .. 8 * n - 1 : (b % 8) \in data[at + b \div 8]}
OctetStep(register) ==
  Xor(crc32c_table[register \intersect (0 .. 7)], ShiftRight(register, 8))
mm_crc32(crc, operand, n) ==
  LET after[k \in 0 .. n] == IF k = 0 THEN Xor(crc, operand) ELSE OctetStep(after[k - 1])
  IN  after[n]

bra_crc32c_sse42(data, addr, align, previous_crc) ==
  LET pieces == Pieces(align, addr, Len(data))
      crc[i \in 0 .. Len(pieces)] ==
        IF i = 0 THEN Not(previous_crc)
        ELSE mm_crc32(crc[i - 1], Operand(data, pieces[i].at, pieces[i].n), pieces[i].n)
  IN  Not(crc[Len(pieces)])

----------------------------------------------------------------------------
(* Matrices over GF(2): <<n, b>> when the image of bit n has bit b. *)
Odd(S) == Cardinality(S) % 2 = 1
gf2_matrix_times(mat, vec) == {b \in Bits : Odd({n \in vec : <<n, b>> \in mat})}
gf2_matrix_square(mat) ==
  UNION {{<<n, b>> : b \in gf2_matrix_times(mat, {c \in Bits : <<n, c>> \in mat})} : n \in Bits}

OneZeroBit == {<<0, b>> : b \in BRA_CRC32C_POLY} \union {<<n, n - 1>> : n \in Bits \ {0}}

(* The operators for 1, 2, 4... zero bytes, one for each bit of a length. *)
ZeroBytes ==
  LET op[k \in 1 .. LengthBits] ==
        IF k = 1 THEN gf2_matrix_square(gf2_matrix_square(gf2_matrix_square(OneZeroBit)))
        ELSE gf2_matrix_square(op[k - 1])
  IN  [k \in 1 .. LengthBits |-> op[k]]

(* What a length is below. *)
PowerOfTwo[k \in 0 .. LengthBits] == IF k = 0 THEN 1 ELSE 2 * PowerOfTwo[k - 1]
LengthLimit == PowerOfTwo[LengthBits]

(* The sum of two pieces from theirs; the length is cut to its type. *)
bra_crc32c_combine(crc32a, crc32b, length) ==
  LET len_b[k \in 0 .. LengthBits] ==
        IF k = 0 THEN length % LengthLimit ELSE len_b[k - 1] \div 2
      shifted[k \in 0 .. LengthBits] ==
        IF k = 0 THEN crc32a
        ELSE IF len_b[k - 1] % 2 = 1 THEN gf2_matrix_times(ZeroBytes[k], shifted[k - 1])
        ELSE shifted[k - 1]
  IN  IF len_b[0] = 0 THEN crc32a ELSE Xor(shifted[LengthBits], crc32b)

----------------------------------------------------------------------------
(* Octets of what is summed: bytes, and numbers as they lie in memory. *)
Octet == [n \in 0 .. 255 |-> {b \in 0 .. 7 : (n \div 2 ^ b) % 2 = 1}]
OctetsOf(s) == [i \in 1 .. Len(s) |-> Octet[s[i]]]
LittleEndian(n, size) ==
  LET rest[k \in 1 .. size] == IF k = 1 THEN n ELSE rest[k - 1] \div 256
  IN  [k \in 1 .. size |-> Octet[rest[k] % 256]]
============================================================================
