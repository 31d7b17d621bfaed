--------------------------- MODULE BraSfxProofs ---------------------------
(***************************************************************************)
(* Theorems about every self-extracting archive: any number of entries,    *)
(* whichever of them are archives themselves, any number of runs, crashes  *)
(* and failing calls.                                                      *)
(***************************************************************************)
EXTENDS BraSfx, SequenceTheorems, TLAPS

What == {"stub", "tail", "header", "meta", "data", "crc", "footer"}

Units == [what : What, run : Nat, k : Int]

(* How many units a whole archive has. *)
Size == 3 * Entries + 3

(* The beginning of the archive of run r, perhaps all of it. *)
Starts(s, r) ==
  /\ s \in Seq(Units) /\ Len(s) <= Size
  /\ \A i \in 1 .. Len(s) : s[i] = Whole(r)[i]

(* All that a crash or a failure leaves behind. *)
Piece(s) == s = Module \/ \E r \in 0 .. MaxRuns : Starts(s, r)

PieceNode(n) == n.kind \in {"none", "file"} /\ Piece(n.units) /\ (n.kind = "none" => n.units = <<>>)

(* The file up to where the buffer goes, and the buffer: what was written. *)
Streaming ==
  /\ tmp.kind = "file" /\ tmp.units \in Seq(Units) /\ buffer \in Seq(Units)
  /\ offset = 1 /\ run \in 0 .. MaxRuns
  /\ place \in 1 .. Len(tmp.units) /\ count \in 0 .. 3 * Entries + 2
  /\ place + Len(buffer) = 1 + count /\ Len(tmp.units) \in {2, place}
  /\ \A i \in 1 .. place : tmp.units[i] = Whole(run)[i]
  /\ \A i \in 1 .. Len(buffer) : buffer[i] = Whole(run)[place + i]

Early == {"idle", "asktmp", "askfinal", "copy", "open", "write", "close", "remove"}

(* The phase says how far the temporary file and the output are. *)
SfxInv ==
  /\ run \in 0 .. MaxRuns
  /\ pc \in Ended \union {"rename", "copyover"} \union Early
  /\ pc \notin {"write", "close"} => buffer = <<>>
  /\ pc \in {"asktmp", "askfinal", "copy", "open"} => count = 0
  /\ pc = "open" => tmp = File(Module)
  /\ pc \in {"write", "close"} => Streaming
  /\ pc = "close" => count = 3 * Entries + 2
  /\ PieceNode(tmp)
  /\ pc \in {"remove", "rename", "copyover"} =>
       tmp.kind = "file" /\ (lost \/ tmp = File(Whole(run)))
  /\ pc \in Early => final = old
  /\ final \in Before \/ PieceNode(final)
  /\ pc = "copyover" =>
       /\ final = File(final.units)
       /\ Len(final.units) \in 0 .. Len(tmp.units)
       /\ final.units = SubSeq(tmp.units, 1, Len(final.units))
  /\ pc \in {"failed", "crashed"} =>
       lost \/ final = old \/ tmp = File(Whole(run)) \/ final = File(Whole(run))
  /\ pc = "done" => lost \/ (final = File(Whole(run)) /\ (tmp = Nothing \/ tmp = final))

----------------------------------------------------------------------------
(* The archive of a run, unit by unit. *)
LEMMA StepsFacts ==
  /\ Steps[1] = "meta" /\ Steps[2] = "data" /\ Steps[3] = "crc"
BY DEF Steps

LEMMA PayloadFacts ==
  ASSUME NEW r \in Nat
  PROVE  /\ Payload(r) \in Seq(Units) /\ Len(Payload(r)) = 3 * Entries
         /\ \A j \in 1 .. 3 * Entries :
              Payload(r)[j] = Unit(Steps[((j - 1) % 3) + 1], r, ((j - 1) \div 3) + 1)
         /\ Payload(r)[3 * Entries].what = "crc"
<1> DEFINE n == 3 * Entries
<1>1. n \in Nat \ {0}
  BY SfxAssumption
<1>2. ASSUME NEW j \in 1 .. n
      PROVE  Unit(Steps[((j - 1) % 3) + 1], r, ((j - 1) \div 3) + 1) \in Units
  <2>1. (j - 1) % 3 \in 0 .. 2 /\ ((j - 1) \div 3) + 1 \in Int
    BY <1>1
  <2>2. Steps[((j - 1) % 3) + 1] \in What
    BY <2>1, StepsFacts DEF What
  <2> QED
    BY <2>1, <2>2 DEF Unit, Units
<1>3. Payload(r) = [j \in 1 .. n |-> Unit(Steps[((j - 1) % 3) + 1], r, ((j - 1) \div 3) + 1)]
  BY DEF Payload
<1>4. Payload(r) \in Seq(Units) /\ Len(Payload(r)) = n
  <2> HIDE DEF n
  <2> QED
    BY <1>1, <1>2, <1>3
<1>5. Payload(r)[n].what = "crc"
  <2>1. n \in 1 .. n /\ ((n - 1) % 3) + 1 = 3
    BY <1>1, SfxAssumption
  <2>2. Payload(r)[n] = Unit(Steps[3], r, ((n - 1) \div 3) + 1)
    BY <1>3, <2>1
  <2> QED
    BY <2>2, StepsFacts DEF Unit
<1> QED
  BY <1>3, <1>4, <1>5

LEMMA Joined ==
  ASSUME NEW s \in Seq(Units), NEW t \in Seq(Units)
  PROVE  /\ s \o t \in Seq(Units) /\ Len(s \o t) = Len(s) + Len(t)
         /\ \A i \in 1 .. Len(s) + Len(t) :
              (s \o t)[i] = IF i <= Len(s) THEN s[i] ELSE t[i - Len(s)]
BY ConcatProperties

LEMMA WholeFacts ==
  ASSUME NEW r \in Nat
  PROVE  /\ Whole(r) \in Seq(Units) /\ Len(Whole(r)) = Size /\ Size \in Nat /\ Size >= 6
         /\ Whole(r)[1] = Stub /\ Whole(r)[2] = Header(r)
         /\ \A j \in 1 .. 3 * Entries : Whole(r)[2 + j] = Payload(r)[j]
         /\ Whole(r)[Size] = Footer(r, 1)
<1>1. Stub \in Units /\ Header(r) \in Units /\ Footer(r, 1) \in Units
  BY SfxAssumption DEF Stub, Header, Footer, Unit, Units, What
<1> DEFINE h == <<Stub, Header(r)>>
           f == <<Footer(r, 1)>>
<1>2. h \in Seq(Units) /\ Len(h) = 2 /\ h[1] = Stub /\ h[2] = Header(r)
  BY <1>1
<1>3. f \in Seq(Units) /\ Len(f) = 1 /\ f[1] = Footer(r, 1)
  BY <1>1
<1> DEFINE p  == Payload(r)
           hp == h \o p
<1>4. Whole(r) = hp \o f
  BY DEF Whole
<1>5. p \in Seq(Units) /\ Len(p) = 3 * Entries
  BY PayloadFacts
<1> HIDE DEF h, f, p
<1>6. /\ hp \in Seq(Units) /\ Len(hp) = Len(h) + Len(p)
      /\ \A i \in 1 .. Len(h) + Len(p) : hp[i] = IF i <= Len(h) THEN h[i] ELSE p[i - Len(h)]
  BY <1>2, <1>5, Joined
<1> HIDE DEF hp
<1>7. /\ hp \o f \in Seq(Units) /\ Len(hp \o f) = Len(hp) + Len(f)
      /\ \A i \in 1 .. Len(hp) + Len(f) : (hp \o f)[i] = IF i <= Len(hp) THEN hp[i] ELSE f[i - Len(hp)]
  BY <1>3, <1>6, Joined
<1>8. Entries \in Nat /\ Entries > 0 /\ Len(hp) = 3 * Entries + 2 /\ Len(hp \o f) = 3 * Entries + 3
  BY <1>2, <1>3, <1>5, <1>6, <1>7, SfxAssumption
<1>9. \A i \in 1 .. 3 * Entries + 3 :
        Whole(r)[i] = IF i <= 3 * Entries + 2 THEN hp[i] ELSE f[i - (3 * Entries + 2)]
  BY <1>3, <1>4, <1>7, <1>8
<1>10. \A i \in 1 .. 3 * Entries + 2 : hp[i] = IF i <= 2 THEN h[i] ELSE p[i - 2]
  BY <1>2, <1>5, <1>6, <1>8
<1>11. Whole(r)[1] = Stub /\ Whole(r)[2] = Header(r)
  <2>1. Whole(r)[1] = hp[1] /\ Whole(r)[2] = hp[2]
    BY <1>8, <1>9
  <2>2. hp[1] = h[1] /\ hp[2] = h[2]
    BY <1>8, <1>10
  <2> QED
    BY <1>2, <2>1, <2>2
<1>12. ASSUME NEW j \in 1 .. 3 * Entries
       PROVE  Whole(r)[2 + j] = p[j]
  <2>1. 2 + j \in 1 .. 3 * Entries + 2 /\ 2 + j \in 1 .. 3 * Entries + 3 /\ (2 + j) - 2 = j
        /\ ~(2 + j <= 2)
    BY <1>8
  <2>2. Whole(r)[2 + j] = hp[2 + j]
    BY <1>8, <1>9, <2>1
  <2> QED
    BY <1>10, <2>1, <2>2
<1>13. Whole(r)[3 * Entries + 3] = Footer(r, 1)
  BY <1>3, <1>8, <1>9
<1>14. Whole(r) \in Seq(Units) /\ Len(Whole(r)) = 3 * Entries + 3
  BY <1>4, <1>7, <1>8
<1> QED
  BY <1>8, <1>11, <1>12, <1>13, <1>14 DEF Size, p

(* What has as many units as a whole archive is one. *)
LEMMA FullIsWhole ==
  ASSUME NEW s, NEW r \in Nat, Starts(s, r), Len(s) = Size
  PROVE  s = Whole(r)
BY WholeFacts DEF Starts

LEMMA WholeIsPiece ==
  ASSUME NEW r \in 0 .. MaxRuns
  PROVE  Piece(Whole(r))
BY WholeFacts, SfxAssumption DEF Piece, Starts

LEMMA ModuleFacts ==
  /\ Module \in Seq(Units) /\ Len(Module) = 2 /\ Module[1] = Stub
  /\ Module[2].what = "tail"
BY DEF Module, Stub, Unit, Units, What

LEMMA PieceIsSeq ==
  ASSUME NEW s, Piece(s)
  PROVE  s \in Seq(Units)
BY ModuleFacts DEF Piece, Starts

LEMMA EmptyIsPiece == Piece(<<>>)
<1>1. Starts(<<>>, 0)
  BY SfxAssumption DEF Starts, Size
<1> QED
  BY <1>1, SfxAssumption DEF Piece

(* The beginning of a piece is a piece. *)
LEMMA PrefixOfPiece ==
  ASSUME NEW s, Piece(s), NEW n \in 0 .. Len(s)
  PROVE  Piece(SubSeq(s, 1, n))
<1> DEFINE t == SubSeq(s, 1, n)
<1>1. s \in Seq(Units)
  BY PieceIsSeq
<1>2. t \in Seq(Units) /\ Len(t) = n /\ \A i \in 1 .. n : t[i] = s[i]
  BY <1>1
<1> HIDE DEF t
<1>3. CASE \E r \in 0 .. MaxRuns : Starts(s, r)
  <2>1. PICK r \in 0 .. MaxRuns : Starts(s, r)
    BY <1>3
  <2>2. Starts(t, r)
    BY <1>1, <1>2, <2>1, SfxAssumption DEF Starts, Size
  <2> QED
    BY <2>2 DEF Piece, t
<1>4. CASE s = Module
  <2>1. CASE n = 2
    <3>1. t = Module
      BY <1>2, <1>4, <2>1, ModuleFacts
    <3> QED
      BY <3>1 DEF Piece, t
  <2>2. CASE n \in 0 .. 1
    <3>1. Starts(t, 0)
      BY <1>2, <1>4, <2>2, ModuleFacts, WholeFacts, SfxAssumption DEF Starts, Size
    <3> QED
      BY <3>1, SfxAssumption DEF Piece, t
  <2> QED
    BY <1>4, <2>1, <2>2, ModuleFacts
<1> QED
  BY <1>3, <1>4 DEF Piece

LEMMA OneTwoMore ==
  ASSUME NEW n \in Nat, n > 0
  PROVE  n = 1 \/ n = 2 \/ n > 2
OBVIOUS

(* A piece the reader takes to its end is a whole archive: what ends in an *)
(* inner footer ends before the last sum does.                             *)
LEMMA AcceptedPiece ==
  ASSUME NEW s, Piece(s), ReadsThrough(s)
  PROVE  \E r \in 0 .. MaxRuns : s = Whole(r)
<1>1. s \in Seq(Units) /\ Len(s) > 0 /\ IsFooter(s[Len(s)])
  BY PieceIsSeq DEF ReadsThrough, Last
<1>2. s # Module
  BY <1>1, ModuleFacts DEF IsFooter
<1>3. PICK r \in 0 .. MaxRuns : Starts(s, r)
  BY <1>2 DEF Piece
<1>4. r \in Nat /\ Len(s) \in 1 .. Size /\ s[Len(s)] = Whole(r)[Len(s)]
  BY <1>1, <1>3, SfxAssumption DEF Starts
<1>5. CASE Len(s) = Size
  BY <1>3, <1>4, <1>5, FullIsWhole
<1>6. CASE Len(s) < Size
  <2>1. s[Len(s)].what # "footer"
    <3>1. CASE Len(s) = 1
      BY <1>4, <3>1, WholeFacts DEF Stub, Unit
    <3>2. CASE Len(s) = 2
      <4>1. s[Len(s)] = Unit("header", r, Entries)
        BY <1>4, <3>2, WholeFacts DEF Header
      <4> QED
        BY <4>1 DEF Unit
    <3>3. CASE Len(s) > 2
      <4> DEFINE j == Len(s) - 2
      <4>1. j \in 1 .. 3 * Entries /\ Len(s) = 2 + j
        BY <1>4, <1>6, <3>3, SfxAssumption DEF Size
      <4>2. s[Len(s)] = Payload(r)[j]
        BY <1>4, <4>1, WholeFacts
      <4> HIDE DEF j
      <4>3. s[Len(s)] = Unit(Steps[((j - 1) % 3) + 1], r, ((j - 1) \div 3) + 1)
        BY <1>4, <4>1, <4>2, PayloadFacts
      <4>4. (j - 1) % 3 \in 0 .. 2
        BY <4>1, SfxAssumption
      <4> QED
        BY <4>3, <4>4, StepsFacts DEF Unit
    <3>4. Len(s) \in Nat /\ Len(s) > 0
      BY <1>1
    <3> QED
      BY <3>1, <3>2, <3>3, <3>4, OneTwoMore
  <2>2. s[Len(s)].what = "data" /\ HeaderOffset(s[Len(s)]) = 1
    BY <1>1, <2>1 DEF IsFooter, HeaderOffset
  <2>3. 2 + 3 * Entries <= Len(s)
    BY <2>2 DEF ReadsThrough, Last
  <2>4. Len(s) = 2 + 3 * Entries
    BY <1>4, <1>6, <2>3, SfxAssumption DEF Size
  <2>5. s[Len(s)] = Payload(r)[3 * Entries]
    BY <1>4, <2>4, WholeFacts, SfxAssumption
  <2>6. s[Len(s)].what = "crc"
    BY <1>4, <2>5, PayloadFacts
  <2> QED
    BY <2>2, <2>6
<1> QED
  BY <1>4, <1>5, <1>6, SfxAssumption DEF Size
----------------------------------------------------------------------------
LEMMA FileFacts ==
  ASSUME NEW s
  PROVE  File(s).kind = "file" /\ File(s).units = s
BY DEF File

(* The stream: what is flushed continues what is in the file. *)
LEMMA FlushedFacts ==
  ASSUME Streaming, NEW n \in 0 .. Len(buffer)
  PROVE  /\ Flushed(n).kind = "file" /\ Starts(Flushed(n).units, run)
         /\ Flushed(n) = File(Flushed(n).units)
         /\ Len(Flushed(n).units) = place + n
<1> DEFINE a == SubSeq(tmp.units, 1, place)
           b == SubSeq(buffer, 1, n)
<1>1. a \in Seq(Units) /\ Len(a) = place /\ \A i \in 1 .. place : a[i] = tmp.units[i]
  BY DEF Streaming
<1>2. b \in Seq(Units) /\ Len(b) = n /\ \A i \in 1 .. n : b[i] = buffer[i]
  BY DEF Streaming
<1>3. Flushed(n) = File(a \o b)
  BY DEF Flushed
<1>4. Flushed(n).kind = "file" /\ Flushed(n).units = a \o b
  BY <1>3, FileFacts
<1> HIDE DEF a, b
<1>5. /\ a \o b \in Seq(Units) /\ Len(a \o b) = Len(a) + Len(b)
      /\ \A i \in 1 .. Len(a) + Len(b) : (a \o b)[i] = IF i <= Len(a) THEN a[i] ELSE b[i - Len(a)]
  BY <1>1, <1>2, Joined
<1>6. place \in Nat /\ n \in Nat /\ n <= Len(buffer) /\ Len(buffer) \in Nat /\ place + n <= Size
  <2>1. tmp.units \in Seq(Units) /\ buffer \in Seq(Units) /\ place \in 1 .. Len(tmp.units)
        /\ count \in 0 .. 3 * Entries + 2 /\ place + Len(buffer) = 1 + count
    BY DEF Streaming
  <2> QED
    BY <2>1, SfxAssumption DEF Size
<1>7. ASSUME NEW i \in 1 .. place + n
      PROVE  (a \o b)[i] = Whole(run)[i]
  <2>1. CASE i <= place
    <3>1. i \in 1 .. place /\ (a \o b)[i] = a[i]
      BY <1>1, <1>2, <1>5, <1>6, <2>1
    <3> QED
      BY <1>1, <3>1 DEF Streaming
  <2>2. CASE ~(i <= place)
    <3>1. i - place \in 1 .. n /\ i - place \in 1 .. Len(buffer) /\ place + (i - place) = i
      BY <1>6, <2>2
    <3>2. (a \o b)[i] = b[i - place]
      BY <1>1, <1>2, <1>5, <1>6, <2>2
    <3>3. b[i - place] = buffer[i - place]
      BY <1>2, <3>1
    <3>4. buffer[i - place] = Whole(run)[place + (i - place)]
      BY <3>1 DEF Streaming
    <3> QED
      BY <3>1, <3>2, <3>3, <3>4
  <2> QED
    BY <2>1, <2>2
<1>8. Len(a \o b) = place + n
  BY <1>1, <1>2, <1>5
<1>9. Starts(a \o b, run)
  BY <1>5, <1>6, <1>7, <1>8 DEF Starts
<1> QED
  BY <1>3, <1>4, <1>8, <1>9

LEMMA StreamWrite ==
  ASSUME Streaming, NEW u \in Units, u = Whole(run)[2 + count],
         count < 3 * Entries + 2, Write(u)
  PROVE  Streaming'
<1>1. buffer \in Seq(Units) /\ buffer' = Append(buffer, u) /\ count' = count + 1
      /\ UNCHANGED <<run, tmp, offset, place>>
  BY DEF Streaming, Write
<1>2. /\ buffer' \in Seq(Units) /\ Len(buffer') = Len(buffer) + 1
      /\ \A i \in 1 .. Len(buffer) : buffer'[i] = buffer[i]
      /\ buffer'[Len(buffer) + 1] = u
  BY <1>1, AppendProperties
<1>3. place \in Nat /\ count \in Nat /\ Len(buffer) \in Nat /\ place + Len(buffer) = 1 + count
  BY <1>1 DEF Streaming
<1>4. ASSUME NEW i \in 1 .. Len(buffer')
      PROVE  buffer'[i] = Whole(run)[place + i]
  <2>1. CASE i <= Len(buffer)
    BY <1>2, <1>3, <2>1 DEF Streaming
  <2>2. CASE ~(i <= Len(buffer))
    <3>1. i = Len(buffer) + 1 /\ place + i = 2 + count
      BY <1>2, <1>3, <2>2
    <3> QED
      BY <1>2, <3>1
  <2> QED
    BY <2>1, <2>2
<1>5. place' + Len(buffer') = 1 + count' /\ count' \in 0 .. 3 * Entries + 2
  BY <1>1, <1>2, <1>3, SfxAssumption
<1> QED
  BY <1>1, <1>2, <1>4, <1>5 DEF Streaming

LEMMA StreamFlush ==
  ASSUME Streaming, Flush
  PROVE  Streaming' /\ Piece(tmp'.units)
<1>1. buffer \in Seq(Units) /\ buffer # <<>> /\ 1 \in 0 .. Len(buffer) /\ place \in Nat
  BY DEF Streaming, Flush
<1>2. tmp' = Flushed(1) /\ place' = place + 1 /\ buffer' = Tail(buffer)
      /\ UNCHANGED <<run, offset, count>>
  BY DEF Flush
<1>3. /\ tmp'.kind = "file" /\ Starts(tmp'.units, run) /\ Len(tmp'.units) = place + 1
  BY <1>1, <1>2, FlushedFacts
<1>4. /\ Tail(buffer) \in Seq(Units) /\ Len(Tail(buffer)) = Len(buffer) - 1
      /\ \A i \in 1 .. Len(Tail(buffer)) : Tail(buffer)[i] = buffer[i + 1]
  BY <1>1, HeadTailProperties
<1>5. place + Len(buffer) = 1 + count /\ Len(buffer) \in Nat
  BY <1>1 DEF Streaming
<1>6. place' + Len(buffer') = 1 + count'
  BY <1>1, <1>2, <1>4, <1>5
<1>7. ASSUME NEW i \in 1 .. Len(buffer')
      PROVE  buffer'[i] = Whole(run)[place' + i]
  <2>1. i + 1 \in 1 .. Len(buffer) /\ place + (i + 1) = place' + i
    BY <1>1, <1>2, <1>4, <1>5
  <2>2. buffer'[i] = buffer[i + 1]
    BY <1>2, <1>4
  <2>3. buffer[i + 1] = Whole(run)[place + (i + 1)]
    BY <2>1 DEF Streaming
  <2> QED
    BY <2>1, <2>2, <2>3
<1>8. place' \in 1 .. Len(tmp'.units) /\ \A i \in 1 .. place' : tmp'.units[i] = Whole(run)[i]
  BY <1>1, <1>2, <1>3 DEF Starts
<1>9. tmp'.units \in Seq(Units)
  BY <1>3 DEF Starts
<1>10. Streaming'
  BY <1>2, <1>3, <1>4, <1>6, <1>7, <1>8, <1>9 DEF Streaming
<1> QED
  BY <1>3, <1>10 DEF Piece, Streaming
----------------------------------------------------------------------------
(* A temporary file that was begun: the module, or what a copy left of it. *)
LEMMA ModulePieces ==
  PieceNode(Nothing) /\ PieceNode(File(<<>>)) /\ PieceNode(File(<<Stub>>)) /\ PieceNode(File(Module))
<1>1. Starts(<<Stub>>, 0)
  <2>1. Stub \in Units /\ Whole(0)[1] = Stub
    BY WholeFacts DEF Stub, Unit, Units, What
  <2>2. <<Stub>> \in Seq(Units) /\ Len(<<Stub>>) = 1 /\ <<Stub>>[1] = Stub
    BY <2>1
  <2>3. 1 <= Size
    BY SfxAssumption DEF Size
  <2> QED
    BY <2>1, <2>2, <2>3 DEF Starts
<1>2. Piece(<<Stub>>) /\ Piece(<<>>) /\ Piece(Module)
  BY <1>1, EmptyIsPiece, SfxAssumption DEF Piece
<1> QED
  BY <1>2 DEF PieceNode, Nothing, File

LEMMA FileOfPiece ==
  ASSUME NEW s, Piece(s)
  PROVE  PieceNode(File(s))
BY DEF PieceNode, File

LEMMA FlushedIsPiece ==
  ASSUME Streaming, NEW n \in 0 .. Len(buffer)
  PROVE  PieceNode(Flushed(n))
BY FlushedFacts DEF PieceNode, Piece, Streaming

(* The whole buffer of a stream that is through completes the archive. *)
LEMMA FlushedWhole ==
  ASSUME Streaming, count = 3 * Entries + 2
  PROVE  Flushed(Len(buffer)) = File(Whole(run))
<1> DEFINE s == Flushed(Len(buffer)).units
<1>1. Len(buffer) \in 0 .. Len(buffer) /\ place + Len(buffer) = Size
  BY SfxAssumption DEF Streaming, Size
<1>2. Flushed(Len(buffer)) = File(s) /\ Starts(s, run) /\ Len(s) = Size
  BY <1>1, FlushedFacts
<1>3. run \in Nat
  BY SfxAssumption DEF Streaming
<1> HIDE DEF s
<1>4. s = Whole(run)
  BY <1>2, <1>3, FullIsWhole
<1> QED
  BY <1>2, <1>4

LEMMA SfxInit == Init => SfxInv
BY ModulePieces, SfxAssumption DEF Init, SfxInv, Ended, Early

LEMMA SfxStep ==
  ASSUME SfxInv, [Next]_svars
  PROVE  SfxInv'
<1> USE DEF Ended, Early
<1>1. CASE Start
  BY <1>1, SfxAssumption DEF SfxInv, Start
<1>2. CASE AskTemporary \/ AskOutput
  BY <1>2 DEF SfxInv, AskTemporary, AskOutput, Ask
<1>3. CASE CopyModule
  BY <1>3, ModulePieces DEF SfxInv, CopyModule, Copied
<1>4. CASE OpenTemporary
  <2>1. tmp = File(Module) /\ count = 0 /\ buffer = <<>> /\ run \in 0 .. MaxRuns
    BY <1>4 DEF SfxInv, OpenTemporary
  <2>2. tmp.kind = "file" /\ tmp.units = Module
    BY <2>1 DEF File
  <2>3. place' = 1 /\ offset' = 1
    BY <1>4, <2>2, ModuleFacts DEF OpenTemporary
  <2>4. run \in Nat /\ Module[1] = Whole(run)[1]
    BY <2>1, ModuleFacts, WholeFacts, SfxAssumption
  <2>5. Streaming'
    <3>1. UNCHANGED <<run, tmp, count, buffer>>
      BY <1>4 DEF OpenTemporary
    <3>2. Len(tmp.units) = 2 /\ tmp.units \in Seq(Units) /\ \A i \in 1 .. 1 : tmp.units[i] = Whole(run)[i]
      <4>1. \A i \in 1 .. 1 : i = 1
        OBVIOUS
      <4> QED
        BY <2>2, <2>4, <4>1, ModuleFacts
    <3>3. buffer \in Seq(Units) /\ Len(buffer) = 0
      BY <2>1
    <3>4. 0 \in 0 .. 3 * Entries + 2
      BY SfxAssumption
    <3> QED
      BY <2>1, <2>2, <2>3, <3>1, <3>2, <3>3, <3>4 DEF Streaming
  <2> QED
    BY <1>4, <2>5 DEF SfxInv, OpenTemporary
<1>5. CASE WriteHeader
  <2>1. Streaming /\ run \in Nat /\ count = 0
    BY <1>5, SfxAssumption DEF SfxInv, WriteHeader
  <2>2. Header(run) \in Units /\ Header(run) = Whole(run)[2 + count]
    BY <2>1, WholeFacts, SfxAssumption DEF Header, Unit, Units, What
  <2>3. Streaming'
    BY <1>5, <2>1, <2>2, StreamWrite, SfxAssumption DEF WriteHeader
  <2> QED
    BY <1>5, <2>3 DEF SfxInv, WriteHeader, Write
<1>6. CASE WriteEntry
  <2>1. Streaming /\ run \in Nat /\ count \in 1 .. 3 * Entries
    BY <1>6, SfxAssumption DEF SfxInv, WriteEntry
  <2>2. Payload(run)[count] \in Units /\ Payload(run)[count] = Whole(run)[2 + count]
    <3>1. Payload(run)[count] \in Units
      BY <2>1, PayloadFacts, ElementOfSeq
    <3> QED
      BY <2>1, <3>1, WholeFacts
  <2>3. Streaming'
    BY <1>6, <2>1, <2>2, StreamWrite, SfxAssumption DEF WriteEntry
  <2> QED
    BY <1>6, <2>3 DEF SfxInv, WriteEntry, Write
<1>7. CASE WriteFooter
  <2>1. Streaming /\ run \in Nat /\ count = 3 * Entries + 1 /\ offset = 1
    BY <1>7, SfxAssumption DEF SfxInv, WriteFooter, AllWritten, Streaming
  <2>2. Footer(run, offset) \in Units /\ Footer(run, offset) = Whole(run)[2 + count]
    <3>1. 2 + count = Size
      BY <2>1, SfxAssumption DEF Size
    <3>2. Footer(run, 1) \in Units
      BY <2>1 DEF Footer, Unit, Units, What
    <3> QED
      BY <2>1, <3>1, <3>2, WholeFacts
  <2>3. Streaming'
    BY <1>7, <2>1, <2>2, StreamWrite, SfxAssumption DEF WriteFooter, OffsetOfHeader
  <2>4. count' = 3 * Entries + 2
    BY <1>7, <2>1, SfxAssumption DEF WriteFooter, Write
  <2> QED
    BY <1>7, <2>3, <2>4 DEF SfxInv, WriteFooter, Write
<1>8. CASE Flush
  <2>1. Streaming
    BY <1>8 DEF SfxInv, Flush
  <2>2. Streaming' /\ Piece(tmp'.units)
    BY <1>8, <2>1, StreamFlush
  <2>3. PieceNode(tmp)'
    BY <2>2 DEF PieceNode, Streaming
  <2> QED
    BY <1>8, <2>2, <2>3 DEF SfxInv, Flush
<1>9. CASE CloseTemporary
  <2>1. Streaming /\ count = 3 * Entries + 2 /\ PieceNode(tmp) /\ final = old
    BY <1>9 DEF SfxInv, CloseTemporary
  <2>2. CASE tmp' = Flushed(Len(buffer))
    <3>1. Len(buffer) \in 0 .. Len(buffer)
      BY <2>1 DEF Streaming
    <3>2. Flushed(Len(buffer)) = File(Whole(run))
      BY <2>1, FlushedWhole
    <3>3. PieceNode(tmp')
      BY <2>1, <2>2, <3>1, FlushedIsPiece
    <3>4. tmp'.kind = "file"
      BY <2>2, <3>2 DEF File
    <3> QED
      BY <1>9, <2>1, <2>2, <3>2, <3>3, <3>4 DEF SfxInv, CloseTemporary
  <2>3. CASE /\ lost' = TRUE
             /\ \E n \in 0 .. Len(buffer) - 1 : tmp' = IF n = 0 THEN tmp ELSE Flushed(n)
    <3>1. PICK n \in 0 .. Len(buffer) - 1 : tmp' = IF n = 0 THEN tmp ELSE Flushed(n)
      BY <2>3
    <3>2. n \in 0 .. Len(buffer)
      BY <2>1 DEF Streaming
    <3>3. PieceNode(tmp') /\ tmp'.kind = "file"
      BY <2>1, <3>1, <3>2, FlushedIsPiece, FlushedFacts DEF Streaming
    <3> QED
      BY <1>9, <2>1, <2>3, <3>3 DEF SfxInv, CloseTemporary
  <2> QED
    BY <1>9, <2>2, <2>3 DEF CloseTemporary
<1>10. CASE RemoveOutput
  BY <1>10, ModulePieces DEF SfxInv, RemoveOutput
<1>11. CASE Rename
  <2>1. /\ run \in 0 .. MaxRuns /\ buffer = <<>> /\ PieceNode(tmp)
        /\ tmp.kind = "file" /\ (lost \/ tmp = File(Whole(run)))
        /\ final \in Before \/ PieceNode(final)
    BY <1>11 DEF SfxInv, Rename
  <2>2. UNCHANGED <<run, buffer, old, lost>>
    BY <1>11 DEF Rename
  <2>3. CASE final' = tmp /\ tmp' = Nothing /\ pc' = "done"
    BY <2>1, <2>2, <2>3, ModulePieces DEF SfxInv
  <2>4. CASE pc' = "failed" /\ UNCHANGED <<tmp, final>>
    BY <2>1, <2>2, <2>4 DEF SfxInv
  <2>5. CASE final' = File(<<>>) /\ pc' = "copyover" /\ UNCHANGED tmp
    <3>1. final'.units = <<>> /\ Len(final'.units) = 0
      BY <2>5, FileFacts
    <3>2. tmp.units \in Seq(Units)
      BY <2>1, PieceIsSeq DEF PieceNode
    <3>3. Len(final'.units) \in 0 .. Len(tmp.units) /\ final'.units = SubSeq(tmp.units, 1, Len(final'.units))
      BY <3>1, <3>2
    <3>4. final' = File(final'.units) /\ PieceNode(final')
      BY <2>5, <3>1, ModulePieces
    <3> QED
      BY <2>1, <2>2, <2>5, <3>3, <3>4 DEF SfxInv
  <2> QED
    BY <1>11, <2>3, <2>4, <2>5 DEF Rename
<1>12. CASE CopyOver
  <2>1. /\ pc = "copyover" /\ UNCHANGED <<run, pc, tmp, count, buffer, old, lost>>
        /\ Len(final.units) < Len(tmp.units)
    BY <1>12 DEF CopyOver
  <2>2. /\ run \in 0 .. MaxRuns /\ buffer = <<>> /\ PieceNode(tmp)
        /\ tmp.kind = "file" /\ (lost \/ tmp = File(Whole(run)))
        /\ Len(final.units) \in 0 .. Len(tmp.units)
    BY <2>1 DEF SfxInv
  <2> DEFINE n == Len(final.units) + 1
             s == SubSeq(tmp.units, 1, n)
  <2>3. tmp.units \in Seq(Units) /\ Piece(tmp.units)
    BY <2>2, PieceIsSeq DEF PieceNode
  <2>4. n \in 0 .. Len(tmp.units)
    BY <2>1, <2>2, <2>3
  <2>5. final' = File(s)
    BY <1>12 DEF CopyOver
  <2>6. Len(s) = n
    BY <2>3, <2>4
  <2>7. Piece(s)
    BY <2>3, <2>4, PrefixOfPiece
  <2> HIDE DEF n
  <2>8. final'.units = SubSeq(tmp.units, 1, n) /\ Len(final'.units) = n
    BY <2>5, <2>6, FileFacts
  <2>9. final' = File(final'.units) /\ PieceNode(final')
    BY <2>5, <2>7, FileFacts, FileOfPiece
  <2> QED
    BY <2>1, <2>2, <2>4, <2>8, <2>9 DEF SfxInv
<1>13. CASE RemoveTemporary
  <2>1. /\ pc = "copyover" /\ pc' = "done" /\ UNCHANGED <<run, final, buffer, old, lost>>
        /\ final.units = tmp.units /\ tmp' \in {Nothing, tmp}
    BY <1>13 DEF RemoveTemporary
  <2>2. /\ run \in 0 .. MaxRuns /\ buffer = <<>> /\ PieceNode(tmp)
        /\ lost \/ tmp = File(Whole(run))
        /\ final = File(final.units) /\ (final \in Before \/ PieceNode(final))
    BY <2>1 DEF SfxInv
  <2>3. PieceNode(tmp')
    BY <2>1, <2>2, ModulePieces
  <2>4. lost \/ (final = File(Whole(run)) /\ (tmp' = Nothing \/ tmp' = final))
    BY <2>1, <2>2, FileFacts
  <2> QED
    BY <2>1, <2>2, <2>3, <2>4 DEF SfxInv
<1>14. CASE Fail
  <2>1. /\ pc \in {"copy", "open", "write", "copyover"} /\ pc' = "failed" /\ buffer' = <<>>
        /\ UNCHANGED <<run, final, old, lost>>
    BY <1>14 DEF Fail
  <2>2. /\ run \in 0 .. MaxRuns /\ PieceNode(tmp) /\ (final \in Before \/ PieceNode(final))
        /\ pc = "write" => Streaming
        /\ pc # "write" => buffer = <<>>
        /\ pc # "copyover" => final = old
        /\ pc = "copyover" => lost \/ tmp = File(Whole(run))
    BY <2>1 DEF SfxInv
  <2>3. pc = "copyover" => UNCHANGED tmp
    BY <1>14, <2>2 DEF Fail
  <2>4. PieceNode(tmp')
    <3>1. CASE pc = "copy"
      BY <1>14, <2>2, <3>1, ModulePieces DEF Fail
    <3>2. CASE pc # "copy" /\ buffer = <<>>
      BY <1>14, <2>2, <3>2 DEF Fail
    <3>3. CASE pc # "copy" /\ buffer # <<>>
      <4>1. Streaming
        BY <2>1, <2>2, <3>3
      <4>2. PICK n \in 0 .. Len(buffer) : tmp' = IF n = 0 THEN tmp ELSE Flushed(n)
        BY <1>14, <3>3 DEF Fail
      <4> QED
        BY <2>2, <4>1, <4>2, FlushedIsPiece
    <3> QED
      BY <3>1, <3>2, <3>3
  <2> QED
    BY <2>1, <2>2, <2>3, <2>4 DEF SfxInv
<1>15. CASE Crash
  BY <1>15 DEF SfxInv, Crash
<1>16. CASE Halt \/ UNCHANGED svars
  <2>1. UNCHANGED <<run, pc, tmp, final, offset, count, buffer, place, old, lost>>
    BY <1>16 DEF Halt, svars
  <2>2. Streaming' <=> Streaming
    BY <2>1 DEF Streaming
  <2> QED
    BY <2>1, <2>2 DEF SfxInv
<1> QED
  BY <1>1, <1>2, <1>3, <1>4, <1>5, <1>6, <1>7, <1>8, <1>9, <1>10, <1>11, <1>12, <1>13,
     <1>14, <1>15, <1>16 DEF Next
----------------------------------------------------------------------------
THEOREM SfxInvariant == Spec => []SfxInv
BY SfxInit, SfxStep, PTL DEF Spec

(* Whatever crashed or failed, and whatever is archived, what the reader   *)
(* takes to its end is one whole archive (AcceptedIsWhole): neither the    *)
(* beginning of one, nor one with an archive inside that it takes for its  *)
(* own footer.                                                             *)
THEOREM AcceptedAreWhole == Spec => []AcceptedIsWhole
<1>1. SfxInv => AcceptedIsWhole
  <2> SUFFICES ASSUME SfxInv, NEW n \in {tmp, final}, ReadsThrough(n.units)
               PROVE  \E r \in 0 .. MaxRuns : IsWhole(n, r)
    BY DEF AcceptedIsWhole
  <2>1. CASE n \in Before
    BY <2>1, BeforeAssumption
  <2>2. CASE PieceNode(n)
    <3>1. PICK r \in 0 .. MaxRuns : n.units = Whole(r)
      BY <2>2, AcceptedPiece DEF PieceNode
    <3>2. n.units # <<>>
      BY DEF ReadsThrough
    <3> QED
      BY <2>2, <3>1, <3>2 DEF PieceNode, IsWhole
  <2> QED
    BY <2>1, <2>2 DEF SfxInv
<1> QED
  BY <1>1, SfxInvariant, PTL

(* The output is touched only once what replaces it is complete            *)
(* (ReplacedByWhole): between file_rename's remove and its last step the   *)
(* archive of the run is in the temporary file or at the output.           *)
THEOREM OutputReplacedByWhole == Spec => []ReplacedByWhole
<1>1. SfxInv => ReplacedByWhole
  BY FileFacts DEF SfxInv, ReplacedByWhole, IsWhole, Ended, Early
<1> QED
  BY <1>1, SfxInvariant, PTL

(* Exit status 0 means that the archive of the run is at the output, and   *)
(* that what may be left at the temporary place is the same                *)
(* (SuccessIsMoved).                                                       *)
THEOREM SuccessMoves == Spec => []SuccessIsMoved
<1>1. SfxInv => SuccessIsMoved
  BY FileFacts DEF SfxInv, SuccessIsMoved, IsWhole
<1> QED
  BY <1>1, SfxInvariant, PTL
----------------------------------------------------------------------------
(* Past a question, the file it was about may be overwritten. *)
AgreedInv ==
  /\ pc \in {"askfinal", "copy"} /\ tmp.kind = "file" => "tmp" \in agreed
  /\ pc \in {"copy", "open", "write", "close", "remove", "rename"} /\ final.kind = "file" =>
       "final" \in agreed

LEMMA AgreedInit == Init => AgreedInv
BY DEF Init, AgreedInv

LEMMA AgreedStep ==
  ASSUME AgreedInv, [Next]_svars
  PROVE  AgreedInv'
<1> USE DEF AgreedInv
<1>1. CASE Start
  BY <1>1 DEF Start
<1>2. CASE AskTemporary
  BY <1>2 DEF AskTemporary, Ask, Asked
<1>3. CASE AskOutput
  BY <1>3 DEF AskOutput, Ask, Asked
<1>4. CASE CopyModule \/ OpenTemporary
  BY <1>4 DEF CopyModule, OpenTemporary
<1>5. CASE WriteHeader \/ WriteEntry \/ WriteFooter
  BY <1>5 DEF WriteHeader, WriteEntry, WriteFooter, Write
<1>6. CASE Flush \/ CloseTemporary
  BY <1>6 DEF Flush, CloseTemporary
<1>7. CASE RemoveOutput
  BY <1>7 DEF RemoveOutput, Nothing
<1>8. CASE Rename
  BY <1>8 DEF Rename
<1>9. CASE CopyOver \/ RemoveTemporary
  BY <1>9 DEF CopyOver, RemoveTemporary
<1>10. CASE Fail \/ Crash
  BY <1>10 DEF Fail, Crash, Ended
<1>11. CASE Halt \/ UNCHANGED svars
  BY <1>11 DEF Halt, svars
<1> QED
  BY <1>1, <1>2, <1>3, <1>4, <1>5, <1>6, <1>7, <1>8, <1>9, <1>10, <1>11 DEF Next

(* While something is still in the buffer, the file is not whole. *)
LEMMA StreamNotWhole ==
  ASSUME Streaming, buffer # <<>>, NEW r \in 0 .. MaxRuns
  PROVE  ~IsWhole(tmp, r)
<1>1. /\ buffer \in Seq(Units) /\ count \in 0 .. 3 * Entries + 2
      /\ place + Len(buffer) = 1 + count /\ place \in Nat /\ Len(tmp.units) \in {2, place}
  BY DEF Streaming
<1>2. Len(buffer) \in Nat /\ Len(buffer) > 0
  BY <1>1
<1>3. Size \in Nat /\ Size >= 6 /\ Len(Whole(r)) = Size
  BY WholeFacts, SfxAssumption
<1>4. place < Size
  BY <1>1, <1>2, SfxAssumption DEF Size
<1>5. Len(tmp.units) < Size
  <2>1. CASE Len(tmp.units) = 2
    BY <1>3, <2>1
  <2>2. CASE Len(tmp.units) = place
    BY <1>4, <2>2
  <2> QED
    BY <1>1, <2>1, <2>2
<1> QED
  BY <1>3, <1>5 DEF IsWhole

(* Nor is what is only part of the temporary file. *)
LEMMA PartNotWhole ==
  ASSUME NEW s, Piece(s), NEW n, Len(n.units) \in Nat, Len(n.units) < Len(s), NEW r \in 0 .. MaxRuns
  PROVE  ~IsWhole(n, r)
<1>1. Size \in Nat /\ Size >= 6 /\ Len(Whole(r)) = Size
  BY WholeFacts, SfxAssumption
<1>2. s \in Seq(Units) /\ Len(s) \in Nat
  BY PieceIsSeq
<1>3. Len(s) <= Size
  <2>1. CASE s = Module
    BY <1>1, <2>1, ModuleFacts
  <2>2. CASE \E q \in 0 .. MaxRuns : Starts(s, q)
    BY <2>2 DEF Starts
  <2> QED
    BY <2>1, <2>2 DEF Piece
<1>4. Len(n.units) # Size
  BY <1>1, <1>2, <1>3
<1> QED
  BY <1>1, <1>4 DEF IsWhole

LEMMA GoneStep ==
  ASSUME SfxInv, AgreedInv, [Next]_svars, NEW r \in 0 .. MaxRuns, Survives(r), ~Survives(r)'
  PROVE  \/ IsWhole(tmp, r) /\ "tmp" \in agreed
         \/ IsWhole(final, r) /\ "final" \in agreed
<1>1. ~UNCHANGED <<tmp, final>>
  BY DEF Survives
<1>2. IsWhole(tmp, r) => tmp.kind = "file"
  BY DEF IsWhole
<1>3. IsWhole(final, r) => final.kind = "file"
  BY DEF IsWhole
<1>4. CASE CopyModule
  <2>1. pc = "copy" /\ UNCHANGED final
    BY <1>4 DEF CopyModule
  <2> QED
    BY <1>2, <2>1 DEF Survives, AgreedInv
<1>5. CASE Flush
  <2>1. Streaming /\ buffer # <<>> /\ UNCHANGED final
    BY <1>5 DEF SfxInv, Flush
  <2> QED
    BY <2>1, StreamNotWhole DEF Survives
<1>6. CASE CloseTemporary
  <2>1. Streaming /\ count = 3 * Entries + 2 /\ UNCHANGED final
    BY <1>6 DEF SfxInv, CloseTemporary
  <2>2. ASSUME IsWhole(tmp, r)
        PROVE  IsWhole(tmp', r)
    <3>1. buffer = <<>>
      BY <2>1, <2>2, StreamNotWhole
    <3>2. place = Size /\ Size >= 6 /\ Size \in Nat
      BY <2>1, <3>1, SfxAssumption DEF Streaming, Size
    <3>3. Len(tmp.units) = Size /\ run \in Nat
      <4>1. /\ place \in 1 .. Len(tmp.units) /\ run \in 0 .. MaxRuns
            /\ Len(tmp.units) = 2 \/ Len(tmp.units) = place
        BY <2>1 DEF Streaming
      <4>2. Len(tmp.units) # 2
        <5>1. SUFFICES ASSUME Len(tmp.units) = 2 PROVE FALSE
          OBVIOUS
        <5>2. place \in 1 .. 2
          BY <4>1, <5>1
        <5> QED
          BY <3>2, <5>2
      <4> QED
        BY <3>2, <4>1, <4>2, SfxAssumption
    <3>4. Starts(tmp.units, run)
      BY <2>1, <3>2, <3>3 DEF Streaming, Starts
    <3>5. tmp.units = Whole(run)
      BY <3>3, <3>4, FullIsWhole
    <3>6. tmp' = File(Whole(run))
      BY <1>6, <2>1, <3>1, FlushedWhole DEF CloseTemporary
    <3> QED
      BY <2>2, <3>5, <3>6, FileFacts DEF IsWhole
  <2> QED
    BY <2>1, <2>2 DEF Survives
<1>7. CASE RemoveOutput
  <2>1. pc = "remove" /\ UNCHANGED tmp
    BY <1>7 DEF RemoveOutput
  <2> QED
    BY <1>3, <2>1 DEF Survives, AgreedInv
<1>8. CASE Rename
  <2>1. pc = "rename"
    BY <1>8 DEF Rename
  <2>2. IsWhole(tmp, r) => IsWhole(tmp', r) \/ IsWhole(final', r)
    BY <1>8 DEF Rename
  <2> QED
    BY <1>3, <2>1, <2>2 DEF Survives, AgreedInv
<1>9. CASE CopyOver
  <2>1. pc = "copyover" /\ UNCHANGED tmp /\ Len(final.units) < Len(tmp.units)
    BY <1>9 DEF CopyOver
  <2>2. Piece(tmp.units) /\ Len(final.units) \in 0 .. Len(tmp.units)
    BY <2>1 DEF SfxInv, PieceNode
  <2>3. ~IsWhole(final, r)
    BY <2>1, <2>2, PartNotWhole
  <2> QED
    BY <2>1, <2>3 DEF Survives
<1>10. CASE RemoveTemporary
  <2>1. pc = "copyover" /\ UNCHANGED final /\ final.units = tmp.units
    BY <1>10 DEF RemoveTemporary
  <2>2. final = File(final.units)
    BY <2>1 DEF SfxInv
  <2>3. IsWhole(tmp, r) => IsWhole(final, r)
    BY <2>1, <2>2, FileFacts DEF IsWhole
  <2> QED
    BY <2>1, <2>3 DEF Survives
<1>11. CASE Fail
  <2>1. UNCHANGED final
    BY <1>11 DEF Fail
  <2>2. CASE pc = "copy"
    BY <1>2, <2>1, <2>2 DEF Survives, AgreedInv
  <2>3. CASE pc # "copy" /\ buffer = <<>>
    BY <1>1, <1>11, <2>1, <2>3 DEF Fail
  <2>4. CASE pc # "copy" /\ buffer # <<>>
    <3>1. Streaming
      BY <1>11, <2>4 DEF SfxInv, Fail
    <3> QED
      BY <2>1, <2>4, <3>1, StreamNotWhole DEF Survives
  <2> QED
    BY <2>2, <2>3, <2>4
<1> QED
  BY <1>1, <1>4, <1>5, <1>6, <1>7, <1>8, <1>9, <1>10, <1>11
     DEF Next, Start, AskTemporary, AskOutput, Ask, OpenTemporary, WriteHeader, WriteEntry,
         WriteFooter, Write, Crash, Halt, svars

(* Whatever crashes or fails, a complete archive is gone only after the    *)
(* user agreed, in that run, to overwrite the file it was in               *)
(* (GoneOnlyIfAgreed).                                                     *)
THEOREM ArchivesSurvive == Spec => GoneOnlyIfAgreed
<1>1. SfxInv /\ AgreedInv /\ [Next]_svars =>
        [\A r \in 0 .. MaxRuns :
           Survives(r) /\ ~Survives(r)' =>
             \/ IsWhole(tmp, r) /\ "tmp" \in agreed
             \/ IsWhole(final, r) /\ "final" \in agreed]_svars
  BY GoneStep
<1>2. Spec => []AgreedInv
  BY AgreedInit, AgreedStep, PTL DEF Spec
<1> QED
  BY <1>1, <1>2, SfxInvariant, PTL DEF Spec, GoneOnlyIfAgreed

----------------------------------------------------------------------------
(* The units of an archive, and so of all that a run leaves behind, are    *)
(* numbered as units are.                                                  *)
LEMMA WholeUnits ==
  ASSUME NEW r \in 0 .. MaxRuns, NEW i \in 1 .. Size
  PROVE  IsUnit(Whole(r)[i])
<1>1. r \in Nat /\ 0 \in 0 .. MaxRuns /\ Entries \in Nat \ {0}
  BY SfxAssumption
<1>2. i = 1 \/ i = 2 \/ i = Size \/ \E j \in 1 .. 3 * Entries : i = 2 + j
  <2>1. i \in 3 .. Size - 1 => i - 2 \in 1 .. 3 * Entries /\ i = 2 + (i - 2)
    BY <1>1 DEF Size
  <2>2. i = 1 \/ i = 2 \/ i = Size \/ i \in 3 .. Size - 1
    BY <1>1 DEF Size
  <2> QED
    BY <2>1, <2>2
<1>3. ASSUME NEW j \in 1 .. 3 * Entries PROVE IsUnit(Whole(r)[2 + j])
  <2>1. Whole(r)[2 + j] = Unit(Steps[((j - 1) % 3) + 1], r, ((j - 1) \div 3) + 1)
    BY <1>1, WholeFacts, PayloadFacts
  <2>2. ((j - 1) \div 3) + 1 \in Nat
    BY <1>1
  <2> QED
    BY <2>1, <2>2 DEF IsUnit, Unit
<1>4. IsUnit(Stub) /\ IsUnit(Header(r)) /\ IsUnit(Footer(r, 1))
  BY <1>1 DEF IsUnit, Stub, Header, Footer, Unit
<1> QED
  BY <1>1, <1>2, <1>3, <1>4, WholeFacts

LEMMA PieceIsNode ==
  ASSUME NEW n, PieceNode(n)
  PROVE  IsNode(n)
<1>1. n.kind \in Kinds
  BY DEF PieceNode, Kinds
<1>2. CASE n.units = Module
  <2>1. 0 \in 0 .. MaxRuns /\ Module[1] = Stub /\ Module[2] = Unit("tail", 0, 0) /\ DOMAIN Module = {1, 2}
    BY SfxAssumption DEF Module
  <2>2. IsUnit(Module[1]) /\ IsUnit(Module[2])
    BY <2>1 DEF IsUnit, Stub, Unit
  <2> QED
    BY <1>1, <1>2, <2>1, <2>2 DEF IsNode
<1>3. CASE \E r \in 0 .. MaxRuns : Starts(n.units, r)
  <2>1. PICK r \in 0 .. MaxRuns : Starts(n.units, r)
    BY <1>3
  <2>2. n.units \in Seq(Units) /\ Len(n.units) <= Size /\ Size \in Nat
    BY <2>1, SfxAssumption DEF Starts, Size
  <2>3. DOMAIN n.units = 1 .. Len(n.units) /\ Len(n.units) \in Nat
    BY <2>2
  <2>4. \A i \in DOMAIN n.units : IsUnit(n.units[i])
    BY <2>1, <2>2, <2>3, WholeUnits DEF Starts
  <2> QED
    BY <1>1, <2>4 DEF IsNode
<1> QED
  BY <1>2, <1>3 DEF PieceNode, Piece

(* What SfxInv does not say of the types. *)
RestTypes ==
  /\ policy \in {"ask", "yes", "no"} /\ agreed \subseteq {"tmp", "final"}
  /\ offset \in Nat \union {-1} /\ place \in Nat
  /\ count \in 0 .. 3 * Entries + 2
  /\ faults \in 0 .. MaxFaults /\ lost \in BOOLEAN

LEMMA RestStep ==
  ASSUME SfxInv, RestTypes, [Next]_svars
  PROVE  RestTypes' /\ (old' = old \/ old' = final)
<1>0. Entries \in Nat \ {0} /\ MaxFaults \in Nat
  BY SfxAssumption
<1> USE <1>0 DEF RestTypes
<1>1. CASE Start
  BY <1>1 DEF Start
<1>2. CASE AskTemporary
  BY <1>2 DEF AskTemporary, Ask
<1>3. CASE AskOutput
  BY <1>3 DEF AskOutput, Ask
<1>4. CASE CopyModule
  BY <1>4 DEF CopyModule
<1>5. CASE OpenTemporary
  <2>1. tmp = File(Module) /\ Len(Module) = 2
    BY <1>5, ModuleFacts DEF OpenTemporary, SfxInv
  <2>2. Len(tmp.units) - 1 = 1
    BY <2>1 DEF File
  <2>3. place' = 1 /\ offset' = 1 /\ UNCHANGED <<policy, agreed, count, faults, lost, old>>
    BY <1>5, <2>2 DEF OpenTemporary
  <2> QED
    BY <2>3
<1>6. CASE WriteHeader
  BY <1>6 DEF WriteHeader, Write
<1>7. CASE WriteEntry
  BY <1>7 DEF WriteEntry, Write
<1>8. CASE WriteFooter
  BY <1>8 DEF WriteFooter, AllWritten, Write
<1>9. CASE Flush
  BY <1>9 DEF Flush
<1>10. CASE CloseTemporary
  <2>1. /\ UNCHANGED <<policy, agreed, offset, place, count, old>>
        /\ \/ UNCHANGED <<faults, lost>>
           \/ faults < MaxFaults /\ faults' = faults + 1 /\ lost' = TRUE
    BY <1>10 DEF CloseTemporary
  <2>2. lost' \in BOOLEAN
    BY <2>1, Zenon
  <2>3. faults' \in 0 .. MaxFaults
    BY <2>1
  <2> QED
    BY <2>1, <2>2, <2>3
<1>11. CASE RemoveOutput
  BY <1>11 DEF RemoveOutput
<1>12. CASE Rename
  BY <1>12 DEF Rename
<1>13. CASE CopyOver
  BY <1>13 DEF CopyOver
<1>14. CASE RemoveTemporary
  BY <1>14 DEF RemoveTemporary
<1>15. CASE Fail
  BY <1>15 DEF Fail
<1>16. CASE Crash
  BY <1>16 DEF Crash
<1>17. CASE Halt \/ UNCHANGED svars
  BY <1>17 DEF Halt, svars
<1> QED
  BY <1>1, <1>2, <1>3, <1>4, <1>5, <1>6, <1>7, <1>8, <1>9, <1>10, <1>11, <1>12, <1>13, <1>14,
     <1>15, <1>16, <1>17 DEF Next

(* What SfxInv says of the types. *)
LEMMA SfxTypes ==
  ASSUME SfxInv
  PROVE  /\ run \in 0 .. MaxRuns
         /\ pc \in Ended \union {"asktmp", "askfinal", "copy", "open", "write", "close",
                                 "remove", "rename", "copyover"}
         /\ IsNode(tmp) /\ IsNode(final)
         /\ \A i \in DOMAIN buffer : IsUnit(buffer[i])
<1>1. IsNode(tmp) /\ IsNode(final)
  BY PieceIsNode, BeforeAssumption DEF SfxInv
<1>0. /\ run \in 0 .. MaxRuns
      /\ pc \in Ended \union {"asktmp", "askfinal", "copy", "open", "write", "close",
                              "remove", "rename", "copyover"}
  BY DEF SfxInv, Early, Ended
<1>2. CASE pc \in {"write", "close"}
  <2>1. Streaming
    BY <1>2 DEF SfxInv
  <2>2. /\ DOMAIN buffer = 1 .. Len(buffer) /\ Len(buffer) \in Nat
        /\ Len(tmp.units) \in Nat /\ Entries \in Nat
    BY <2>1, SfxAssumption DEF Streaming
  <2>3. ASSUME NEW i \in DOMAIN buffer PROVE IsUnit(buffer[i])
    <3>1. place + i \in 1 .. Size /\ buffer[i] = Whole(run)[place + i]
      BY <2>1, <2>2 DEF Streaming, Size
    <3> QED
      BY <2>1, <3>1, WholeUnits DEF Streaming
  <2> QED
    BY <1>0, <1>1, <2>3
<1>3. CASE pc \notin {"write", "close"}
  <2>1. buffer = <<>>
    BY <1>3 DEF SfxInv
  <2>2. DOMAIN buffer = {}
    BY <2>1
  <2> QED
    BY <1>0, <1>1, <2>2
<1> QED
  BY <1>2, <1>3

(* Whatever crashed or failed, everything has its type: no run writes a    *)
(* footer that says where no header is.                                    *)
THEOREM SfxTypesOK == Spec => []STypeOK
<1>1. Init => RestTypes /\ IsNode(old)
  <2> SUFFICES ASSUME Init PROVE RestTypes /\ IsNode(old)
    OBVIOUS
  <2>1. IsNode(old)
    BY BeforeAssumption DEF Init
  <2>2. lost \in BOOLEAN
    BY Zenon DEF Init
  <2>3. Entries \in Nat /\ MaxFaults \in Nat
    BY SfxAssumption
  <2> QED
    BY <2>1, <2>2, <2>3 DEF Init, RestTypes
<1>2. SfxInv /\ RestTypes /\ IsNode(old) /\ [Next]_svars => RestTypes' /\ IsNode(old)'
  <2> SUFFICES ASSUME SfxInv, RestTypes, IsNode(old), [Next]_svars
               PROVE  RestTypes' /\ IsNode(old)'
    OBVIOUS
  <2>1. RestTypes' /\ (old' = old \/ old' = final)
    BY RestStep
  <2>2. IsNode(final)
    BY SfxTypes
  <2>3. \A n, m : n = m /\ IsNode(m) => IsNode(n)
    OBVIOUS
  <2> QED
    BY <2>1, <2>2, <2>3 DEF IsNode, IsUnit
<1>3. SfxInv /\ RestTypes /\ IsNode(old) => STypeOK
  BY SfxTypes DEF STypeOK, RestTypes
<1> QED
  BY <1>1, <1>2, <1>3, SfxInvariant, PTL DEF Spec
============================================================================
