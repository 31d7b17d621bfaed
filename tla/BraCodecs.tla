----------------------------- MODULE BraCodecs -----------------------------
(***************************************************************************)
(* What the encoders make of one chunk of a file, BWT, MTF, RLE and        *)
(* Huffman, and all of it backwards (encoders/).  BraChunks drives them.   *)
(*                                                                         *)
(* A byte is a number below 2 * MaxRuns, as it is in the code with 128:    *)
(* the control byte of an RLE block is signed and holds 1 - MaxRuns to     *)
(* MaxRuns - 1.  Positions count from 1, offsets and indices from 0.       *)
(***************************************************************************)
EXTENDS Integers, Sequences, FiniteSets, FiniteSetsExt, SequencesExt, Functions

CONSTANTS
  MaxRuns,    \* BRA_RLE_MAX_RUNS
  ByteBits    \* the bits of a byte

Alphabet == 2 * MaxRuns
Bytes == 0 .. Alphabet - 1

ASSUME CodecsAssumption ==
  /\ MaxRuns \in Nat /\ MaxRuns > 2
  /\ ByteBits \in Nat /\ 2 ^ ByteBits = Alphabet

----------------------------------------------------------------------------
(* BWT: the last column of the sorted rotations, and where among them the  *)
(* chunk itself is.  qsort leaves open in which order equal rotations      *)
(* come, so this is any of theirs.                                         *)
Rotation(s, i) == [k \in 1 .. Len(s) |-> s[((i + k - 2) % Len(s)) + 1]]

LexLess(p, q) ==
  \E k \in 1 .. Len(p) : p[k] < q[k] /\ \A l \in 1 .. k - 1 : p[l] = q[l]

SortedRotations(s) ==
  LET rot == [i \in 1 .. Len(s) |-> Rotation(s, i)]
      rank[i \in 1 .. Len(s)] ==
        1 + Cardinality({j \in 1 .. Len(s) : LexLess(rot[j], rot[i]) \/ (rot[j] = rot[i] /\ j < i)})
  IN  [r \in 1 .. Len(s) |-> rot[CHOOSE i \in 1 .. Len(s) : rank[i] = r]]

LastColumn(s) == LET rots == SortedRotations(s) IN [r \in 1 .. Len(s) |-> Last(rots[r])]
PrimaryIndices(s) == {r - 1 : r \in {q \in 1 .. Len(s) : SortedRotations(s)[q] = s}}

(* The decoder's table: the position in the last column of what is at a    *)
(* position in the first.  (And one that takes equal bytes backwards.)     *)
TransformBackwards(s) ==
  LET place(i) == Cardinality({j \in 1 .. Len(s) : s[j] < s[i] \/ (s[j] = s[i] /\ j >= i)})
  IN  [p \in 1 .. Len(s) |-> CHOOSE i \in 1 .. Len(s) : place(i) = p]
Transform(s) ==
  LET place(i) == Cardinality({j \in 1 .. Len(s) : s[j] < s[i] \/ (s[j] = s[i] /\ j <= i)})
  IN  [p \in 1 .. Len(s) |-> CHOOSE i \in 1 .. Len(s) : place(i) = p]

BwtDecoded(s, primary) ==
  LET transform == Transform(s)
      index[i \in 0 .. Len(s)] == IF i = 0 THEN primary + 1 ELSE transform[index[i - 1]]
  IN  [i \in 1 .. Len(s) |-> s[index[i]]]

----------------------------------------------------------------------------
(* MTF: the position of a byte in a table, from which it moves to front. *)
MovedToFront(table, at) == <<table[at]>> \o RemoveAt(table, at)
InitTable == [i \in 1 .. Alphabet |-> i - 1]

MtfEncoded(s) ==
  LET table[i \in 0 .. Len(s)] ==
        IF i = 0 THEN InitTable
        ELSE MovedToFront(table[i - 1], CHOOSE at \in 1 .. Alphabet : table[i - 1][at] = s[i])
  IN  [i \in 1 .. Len(s) |-> (CHOOSE at \in 1 .. Alphabet : table[i - 1][at] = s[i]) - 1]

MtfDecoded(s) ==
  LET table[i \in 0 .. Len(s)] ==
        IF i = 0 THEN InitTable ELSE MovedToFront(table[i - 1], s[i] + 1)
  IN  [i \in 1 .. Len(s) |-> table[i - 1][s[i] + 1]]

----------------------------------------------------------------------------
(* RLE: blocks of equal bytes and literal blocks, each after its control.  *)
(* (And blocks for pairs, that cost what they save.)                       *)
MinRunsTwo == 2
MinRuns == 3

Run(s, i) ==
  Max({r \in 1 .. MaxRuns : i + r - 1 <= Len(s) /\ \A k \in 1 .. r - 1 : s[i + k] = s[i]})

(* A literal block goes on to the next run, to the end, or to its limit. *)
Literal(s, i) ==
  Min({l \in Run(s, i) .. MaxRuns :
         i + l > Len(s) \/ l = MaxRuns \/ Run(s, i + l) >= MinRuns})

(* The control of a block, kept in a byte. *)
Control(c) == c % Alphabet
Signed(b) == IF b >= MaxRuns THEN b - Alphabet ELSE b

RleEncoded(s) ==
  LET from[i \in 1 .. Len(s) + 1] ==
        IF i > Len(s) THEN <<>>
        ELSE IF Run(s, i) >= MinRuns
          THEN <<Control(1 - Run(s, i)), s[i]>> \o from[i + Run(s, i)]
        ELSE <<Control(Literal(s, i) - 1)>> \o SubSeq(s, i, i + Literal(s, i) - 1)
               \o from[i + Literal(s, i)]
  IN  from[1]

(* The control -MaxRuns does nothing; a block that is cut off ends it. *)
RleDecoded(s) ==
  LET Block(i) ==
        LET c == Signed(s[i]) IN
        CASE c >= 0 -> [out |-> SubSeq(s, i + 1, Min({i + c + 1, Len(s)})), next |-> i + c + 2]
          [] c < 0 /\ c > -MaxRuns ->
               [out |-> IF i < Len(s) THEN [k \in 1 .. 1 - c |-> s[i + 1]] ELSE <<>>, next |-> i + 2]
          [] OTHER -> [out |-> <<>>, next |-> i + 1]
      from[i \in 1 .. Len(s) + 1] ==
        IF i > Len(s) THEN [ok |-> TRUE, out |-> <<>>]
        ELSE IF Block(i).next > Len(s) + 1 THEN [ok |-> FALSE, out |-> <<>>]
        ELSE [from[Block(i).next] EXCEPT !.out = Block(i).out \o @]
  IN  from[1]

----------------------------------------------------------------------------
(* Huffman: the lengths of the codes come from a tree, joined from a list  *)
(* of nodes in the order of their frequencies.  A node is its frequency    *)
(* and the depth of each symbol in it.  (And a list with the newest first.)*)
Count(s, b) == Cardinality({i \in 1 .. Len(s) : s[i] = b})

InsertFirst(heap, n) == <<n>> \o heap
Insert(heap, n) ==
  IF heap = <<>> \/ (heap # <<>> /\ Head(heap).freq > n.freq) THEN <<n>> \o heap
  ELSE LET k == Min({j \in 1 .. Len(heap) : j = Len(heap) \/ heap[j + 1].freq >= n.freq})
       IN  InsertAt(heap, k + 1, n)

Joined(l, r) ==
  [freq |-> l.freq + r.freq,
   depth |-> [b \in DOMAIN l.depth \union DOMAIN r.depth |->
                1 + IF b \in DOMAIN l.depth THEN l.depth[b] ELSE r.depth[b]]]

(* A round of the loop: the first two nodes become one. *)
JoinFirstTwo(heap) == Insert(SubSeq(heap, 3, Len(heap)), Joined(heap[1], heap[2]))

Leaf(s, b) == [freq |-> Count(s, b), depth |-> [x \in {b} |-> 0]]

Lengths(s) ==
  LET leaves[n \in 0 .. Alphabet] ==
        IF n = 0 THEN <<>>
        ELSE IF Count(s, n - 1) = 0 THEN leaves[n - 1]
        ELSE Insert(leaves[n - 1], Leaf(s, n - 1))
      nodes == Len(leaves[Alphabet])
      heap[k \in 0 .. nodes - 1] ==
        IF k = 0 THEN leaves[Alphabet] ELSE JoinFirstTwo(heap[k - 1])
      depth == heap[nodes - 1][1].depth
  IN  [b \in Bytes |-> IF b \notin DOMAIN depth THEN 0
                       ELSE IF nodes = 1 THEN 1 ELSE depth[b]]

(* The canonical codes: of each length the next numbers, in the order of   *)
(* the symbols.  (And one that forgets to make room.)                      *)
FirstCodeUnshifted(lengths, len) ==
  Cardinality({b \in Bytes : lengths[b] > 0 /\ lengths[b] < len})
FirstCode(lengths, len) ==
  LET first[l \in 1 .. len] ==
        IF l = 1 THEN 0
        ELSE 2 * (first[l - 1] + Cardinality({b \in Bytes : lengths[b] = l - 1}))
  IN  first[len]

Code(lengths, b) ==
  LET c == FirstCode(lengths, lengths[b]) + Cardinality({x \in 0 .. b - 1 : lengths[x] = lengths[b]})
  IN  [j \in 1 .. lengths[b] |-> (c \div 2 ^ (lengths[b] - j)) % 2]

Coded(lengths) == {b \in Bytes : lengths[b] > 0}

(* The codes one after another, and zeros up to the end of the last byte. *)
HuffmanEncoded(s) ==
  LET lengths == Lengths(s)
      codes == [b \in ToSet(s) |-> Code(lengths, b)]
      packed == FlattenSeq([i \in 1 .. Len(s) |-> codes[s[i]]])
      size == (Len(packed) + ByteBits - 1) \div ByteBits
  IN  [lengths |-> lengths, orig_size |-> Len(s), encoded_size |-> size,
       bits |-> packed \o [i \in 1 .. size * ByteBits - Len(packed) |-> 0]]

(* The tree cannot be built again when a code ends where another goes on. *)
Rebuilt(lengths) ==
  \A b, x \in Coded(lengths) : b # x => ~IsPrefix(Code(lengths, b), Code(lengths, x))

(* One bit: from the root down to a leaf, again and again; what follows    *)
(* the last symbol in its byte is padding.                                 *)
HuffmanStep(c, d, i) ==
  LET path == Append(d.path, c.bits[i])
      leaf == {b \in Coded(c.lengths) : Code(c.lengths, b) = path}
      more == (i - 1) % ByteBits = 0 \/ Len(d.out) < c.orig_size
  IN  IF ~d.ok \/ ~more THEN d
      ELSE IF leaf # {}
        THEN [d EXCEPT !.path = <<>>, !.out = Append(@, CHOOSE b \in leaf : TRUE)]
      ELSE [d EXCEPT !.path = path,
                     !.ok = \E b \in Coded(c.lengths) : IsPrefix(path, Code(c.lengths, b))]

HuffmanDecoded(c) ==
  LET after[i \in 0 .. Len(c.bits)] ==
        IF i = 0 THEN [ok |-> TRUE, path |-> <<>>, out |-> <<>>]
        ELSE HuffmanStep(c, after[i - 1], i)
      all == after[Len(c.bits)]
  IN  [ok |-> Rebuilt(c.lengths) /\ all.ok /\ Len(all.out) = c.orig_size, out |-> all.out]
============================================================================
