------------------------- MODULE BraArchiveProofs -------------------------
(***************************************************************************)
(* Theorems about every archive: any inputs, any chunks, any number of     *)
(* faults.  Each session closes what it opens; no means no; what a reader  *)
(* reports is what the writer was given (ReadInv, and with it the          *)
(* refinement of BraTransfer); what it leaves on the disk is whole but for *)
(* one file (DiskInv); it does not fail without a reason (Excuse); and     *)
(* neither session goes in circles (Counted).                              *)
(***************************************************************************)
EXTENDS BraSessionProofs, FiniteSetTheorems

----------------------------------------------------------------------------
(* HandlesClosed, made inductive: what is open in every phase. *)
HandlesInv ==
  /\ wpc = "open" => wopen = {}
  /\ wpc \in {"header", "entry", "crc"} => wopen = {"arc"}
  /\ wpc = "size" => wopen = {"arc", "src"}
  /\ wpc = "compress" => wopen = {"arc", "src", "tmp"}
  /\ wpc = "copy" => wopen \subseteq {"arc", "src", "tmp"}
  /\ WEnded => wopen = {}
  /\ wpc \in WPhases
  /\ rpc = "idle" => ropen = {}
  /\ rpc \in {"entry", "ask", "mkdir", "crc"} => ropen = {"arc"}
  /\ rpc = "data" => ropen = {"arc"} \/ ropen = {"arc", "out"}
  /\ REnded => ropen = {}
  /\ rpc \in RPhases

LEMMA HandlesInit == Init => HandlesInv
  BY DEF Init, WInit, RInit, HandlesInv, WEnded, REnded, WPhases, RPhases

LEMMA HandlesWriter ==
  ASSUME HandlesInv, WStep \/ WIoError, UNCHANGED rvars
  PROVE  HandlesInv'
<1> USE DEF HandlesInv, WEnded, REnded, WPhases, RPhases, rvars
<1>1. CASE OpenArchive
  BY <1>1 DEF OpenArchive
<1>2. CASE WriteHeader
  BY <1>2 DEF WriteHeader
<1>3. CASE WriteDir
  BY <1>3 DEF WriteDir, GiveUp
<1>4. CASE WriteFileHeader
  BY <1>4 DEF WriteFileHeader, GiveUp
<1>5. CASE CompressChunk
  BY <1>5 DEF CompressChunk
<1>6. CASE KeepCompressed
  BY <1>6 DEF KeepCompressed
<1>7. CASE FallBackToStored
  BY <1>7 DEF FallBackToStored
<1>8. CASE WriteSize
  BY <1>8 DEF WriteSize
<1>9. CASE CopyUnit
  BY <1>9 DEF CopyUnit
<1>10. CASE CopyEnd
  BY <1>10 DEF CopyEnd
<1>11. CASE WriteCrc
  BY <1>11 DEF WriteCrc
<1>12. CASE CloseArchive
  BY <1>12 DEF CloseArchive
<1>13. CASE WIoError
  BY <1>13 DEF WIoError, ClosedOnError
<1> QED
  BY <1>1, <1>2, <1>3, <1>4, <1>5, <1>6, <1>7, <1>8, <1>9, <1>10, <1>11, <1>12, <1>13
     DEF WStep

LEMMA HandlesReader ==
  ASSUME HandlesInv, RStep \/ RIoError, UNCHANGED wvars
  PROVE  HandlesInv'
<1> USE DEF HandlesInv, WEnded, REnded, WPhases, RPhases, wvars
<1>1. CASE ReadHeader
  BY <1>1 DEF ReadHeader, Refuse
<1>2. CASE ReadMetaEntry
  BY <1>2 DEF ReadMetaEntry, Refuse
<1>3. CASE KeepFile
  BY <1>3 DEF KeepFile
<1>4. CASE OpenOutput
  BY <1>4 DEF OpenOutput
<1>5. CASE CopyStored
  BY <1>5 DEF CopyStored, Take
<1>6. CASE Decompress
  BY <1>6 DEF Decompress, Take, Refuse
<1>7. CASE MissingData
  BY <1>7 DEF MissingData, Refuse
<1>8. CASE DataEnd
  BY <1>8 DEF DataEnd, Refuse
<1>9. CASE MakeDir
  BY <1>9 DEF MakeDir, Refuse
<1>10. CASE CheckCrc
  BY <1>10 DEF CheckCrc, Refuse
<1>11. CASE CloseInput
  BY <1>11 DEF CloseInput
<1>12. CASE RIoError
  BY <1>12 DEF RIoError, RClosedOnError
<1> QED
  BY <1>1, <1>2, <1>3, <1>4, <1>5, <1>6, <1>7, <1>8, <1>9, <1>10, <1>11, <1>12 DEF RStep

(* On every path, error paths included, each session closes what it opened *)
(* (the calls of bra_io_file_close and the destructor of BraProgram).      *)
THEOREM HandlesAlwaysClosed == Spec => []HandlesClosed
<1>1. Init => HandlesInv
  BY HandlesInit
<1>2. HandlesInv /\ [Next]_avars => HandlesInv'
  <2> SUFFICES ASSUME HandlesInv, [Next]_avars PROVE HandlesInv'
    OBVIOUS
  <2>1. CASE WriterStep \/ WriterError
    BY <2>1, HandlesWriter DEF WriterStep, WriterError
  <2>2. CASE ReaderStep \/ ReaderError
    BY <2>2, HandlesReader DEF ReaderStep, ReaderError
  <2>3. CASE Crash
    BY <2>3 DEF Crash, HandlesInv, WEnded, REnded, WPhases, RPhases, rvars
  <2>4. CASE Cut \/ Damage \/ UNCHANGED avars
    <3>1. UNCHANGED <<wvars, rvars>>
      BY <2>4 DEF Cut, Damage, avars
    <3> QED
      BY <3>1 DEF HandlesInv, WEnded, REnded, WPhases, RPhases, wvars, rvars
  <2> QED
    BY <2>1, <2>2, <2>3, <2>4 DEF Next, Over
<1>3. HandlesInv => HandlesClosed
  BY DEF HandlesInv, HandlesClosed
<1> QED
  BY <1>1, <1>2, <1>3, PTL DEF Spec

----------------------------------------------------------------------------
(* The step of NoneIsNone. *)
NoneStep ==
  policy = "no" =>
    /\ policy' = "no"
    /\ \A p \in DOMAIN files : files'[p] = files[p] \/ (rpc = "data" /\ p = rfn)

LEMMA NoneReader ==
  ASSUME RStep \/ RIoError
  PROVE  NoneStep
<1> USE DEF NoneStep
<1>1. CASE ReadHeader
  BY <1>1 DEF ReadHeader, Refuse
<1>2. CASE ReadMetaEntry
  BY <1>2 DEF ReadMetaEntry, Refuse
<1>3. CASE KeepFile
  BY <1>3 DEF KeepFile, Answers, Remembered
<1>4. CASE OpenOutput
  <2> SUFFICES ASSUME policy = "no" PROVE NoneStep
    OBVIOUS
  <2>1. Answers \cap {"yes", "all"} = {}
    BY DEF Answers
  <2>2. rfn \notin DOMAIN files /\ policy' = policy
    BY <1>4, <2>1 DEF OpenOutput
  <2>3. files' = Opened(rfn) \/ files' = files
    BY <1>4 DEF OpenOutput
  <2> QED
    BY <2>2, <2>3 DEF Opened
<1>5. CASE CopyStored
  BY <1>5 DEF CopyStored, Take
<1>6. CASE Decompress
  <2>1. rpc = "data" /\ policy' = policy
    BY <1>6 DEF Decompress, Take, Refuse
  <2>2. \/ files' = files
        \/ \E u : files' = [files EXCEPT ![rfn] = Append(@, u)]
    <3>1. CASE Refuse
      BY <3>1 DEF Refuse
    <3>2. CASE \E u, w : Take(u, w)
      BY <3>2 DEF Take
    <3> QED
      BY <1>6, <3>1, <3>2 DEF Decompress
  <2> QED
    BY <2>1, <2>2
<1>7. CASE MissingData
  BY <1>7 DEF MissingData, Refuse
<1>8. CASE DataEnd
  BY <1>8 DEF DataEnd, Refuse
<1>9. CASE MakeDir
  BY <1>9 DEF MakeDir, Refuse
<1>10. CASE CheckCrc
  BY <1>10 DEF CheckCrc, Refuse
<1>11. CASE CloseInput
  BY <1>11 DEF CloseInput
<1>12. CASE RIoError
  BY <1>12 DEF RIoError
<1> QED
  BY <1>1, <1>2, <1>3, <1>4, <1>5, <1>6, <1>7, <1>8, <1>9, <1>10, <1>11, <1>12 DEF RStep

(* No means no: whatever the archive holds and whoever fails, a session    *)
(* whose overwrite policy is "no" leaves every file that is there alone.   *)
THEOREM NoneStaysNone == Spec => NoneIsNone
<1>1. [Next]_avars => [NoneStep]_avars
  <2>1. CASE ReaderStep \/ ReaderError
    BY <2>1, NoneReader DEF ReaderStep, ReaderError
  <2>2. CASE WriterStep \/ WriterError \/ Crash \/ Cut \/ Damage \/ UNCHANGED avars
    <3>1. UNCHANGED rvars
      BY <2>2 DEF WriterStep, WriterError, Crash, Cut, Damage, avars
    <3> QED
      BY <3>1 DEF rvars, NoneStep
  <2> QED
    BY <2>1, <2>2 DEF Next, Over
<1> QED
  BY <1>1, PTL DEF Spec, NoneIsNone, NoneStep

----------------------------------------------------------------------------
(* What the reader has in hand.  A unit goes into the sum as it is, or so  *)
(* that no sum is right when it is none of the kind the entry announces;   *)
(* what is written to the output is its decoding.                          *)
Summed(u, comp) == IF comp = "compressed" /\ ~u.enc THEN Damaged(u) ELSE u

Written(u, comp) ==
  IF comp = "stored" THEN u
    ELSE IF Decodable(u) THEN Decoded(u) ELSE Damaged(Decoded(u))

InHand == rpc \in {"ask", "data", "mkdir", "crc"}

NumOf(e) == IF e.type = "dir" THEN 0 ELSE e.num

Summing ==
  /\ HoldsSum(rcrc, Reading.type, Reading.comp, rfn, NumOf(Reading), rcrc.data)
  /\ Reading.name = <<LastName(rfn)>> /\ rfn # <<>>
  /\ rcnt = Len(rcrc.data) /\ rcnt <= Len(Reading.data)
  /\ \A j \in 1 .. rcnt : rcrc.data[j] = Summed(Reading.data[j], Reading.comp)
  /\ rpc \in {"ask", "mkdir"} => rcnt = 0 /\ mode = "extract"
  /\ rpc = "crc" => rcnt = Len(Reading.data)

(* The output file holds what was read so far. *)
Writes ==
  mode = "extract" /\ Reading.type = "file" /\ rpc \in {"data", "crc"} =>
    /\ rfn \in DOMAIN files /\ files[rfn] \in Seq(Unit) /\ Len(files[rfn]) = rcnt
    /\ \A j \in 1 .. rcnt : files[rfn][j] = Written(Reading.data[j], Reading.comp)

(* What is reported of entry k is true. *)
Told(k) ==
  /\ rlog[k].how = "done" =>
       rlog[k].path = input[k].path /\ rlog[k].data = Content(input[k])
  /\ mode = "test" => rlog[k].how = "done" /\ ~Spoiled(arc[k], input[k])
  /\ mode = "extract" /\ input[k].kind = "dir" => rlog[k].how = "done"

ReadInv ==
  /\ SealInv
  /\ rpc = "idle" => rlog = <<>>
  /\ rpos <= Len(arc)
  /\ rpc \notin {"idle", "failed"} => rnum = Len(input) /\ hdr = Len(input)
  /\ "io" \in faults => rpc = "failed"
  /\ InHand => Summing /\ Writes
  /\ \A k \in 1 .. rpos : Told(k)
  /\ rpc = "ok" => rpos = Len(input)

----------------------------------------------------------------------------
(* The entry in hand is one of the archive, and one of the plan. *)
LEMMA EntryInHand ==
  ASSUME SealInv, InHand
  PROVE  /\ Reading \in Entry /\ Reading.data \in Seq(Unit)
         /\ rpos \in Nat /\ rpos + 1 \in 1 .. Len(arc) /\ rpos + 1 \in 1 .. Len(input)
         /\ Len(arc) \in Nat /\ Len(input) \in Nat
         /\ input[rpos + 1] \in Source /\ input[rpos + 1].path \in Path \ {<<>>}
         /\ Kept(Reading, input[rpos + 1])
         /\ rcrc \in Crc /\ rcrc.data \in Seq(Unit) /\ rcnt \in Nat /\ rfn \in Path
<1>1. TypeInv /\ ReaderFacts
  BY DEF SealInv, RestoreInv, TypeInv
<1>2. Len(rlog) < Len(arc)
  BY <1>1 DEF ReaderFacts, InHand
<1>3. /\ arc \in Seq(Entry) /\ rlog \in Seq(Outcome) /\ rcrc \in Crc /\ rcnt \in Nat /\ rfn \in Path
      /\ input \in Seq(Source)
  BY <1>1 DEF TypeInv, ATypeOK, WTypeOK, FormatTypeOK, RTypeOK
<1>4. /\ rpos \in Nat /\ Len(arc) \in Nat /\ Len(input) \in Nat
      /\ rpos + 1 \in 1 .. Len(arc) /\ rpos + 1 \in 1 .. Len(input)
  <2>1. Len(arc) <= Len(input)
    BY DEF SealInv
  <2> QED
    BY <1>2, <1>3, <2>1 DEF rpos
<1>5. input[rpos + 1] \in Source
  BY <1>3, <1>4, ElementOfSeq
<1>6. input[rpos + 1].path \in Path \ {<<>>}
  BY <1>5 DEF Source
<1>7. Reading \in Entry /\ Reading.data \in Seq(Unit)
  <2>1. Reading \in Entry
    BY <1>1, <1>2, ReadingType
  <2> QED
    BY <2>1 DEF Entry
<1>8. Kept(Reading, input[rpos + 1])
  BY <1>4 DEF SealInv, Reading
<1>9. rcrc.data \in Seq(Unit)
  BY <1>3 DEF Crc
<1> QED
  BY <1>3, <1>4, <1>5, <1>6, <1>7, <1>8, <1>9

(* The sum of an entry that was written to its end is right about it. *)
LEMMA SealedSum ==
  ASSUME NEW s \in Entry, NEW x \in Source, Sealed(s, x)
  PROVE  HoldsSum(s.crc, s.type, s.comp, x.path, s.num, Payload(x, s.comp))
<1>1. s.type \in Types /\ s.comp \in Comps /\ s.num \in Nat /\ s.data \in Seq(Unit)
  BY DEF Entry, Sealed
<1>2. x.path \in Path
  BY DEF Source
<1>3. s.crc = SumOf(s.type, s.comp, x.path, s.num, s.data) /\ s.data = Payload(x, s.comp)
  BY DEF Sealed
<1> QED
  BY <1>1, <1>2, <1>3, SumFields

(* A sum that is accepted was computed from what the writer was given.     *)
LEMMA AcceptedIsPlanned ==
  ASSUME SealInv, InHand, Summing, rpc = "crc", Reading.crc = rcrc, Reading.crc # NoCrc
  PROVE  LET x == input[rpos + 1]
         IN  /\ rfn = x.path /\ rcrc.data = Payload(x, Reading.comp)
             /\ Reading.data = rcrc.data
             /\ ~Spoiled(Reading, x)
<1> DEFINE x == input[rpos + 1]
<1>1. /\ Reading \in Entry /\ Reading.data \in Seq(Unit) /\ x \in Source
      /\ rcrc.data \in Seq(Unit) /\ rcnt \in Nat /\ Kept(Reading, x)
  BY EntryInHand
<1>2. HoldsSum(rcrc, Reading.type, Reading.comp, rfn, NumOf(Reading), rcrc.data)
  BY DEF Summing
<1> HIDE DEF x
<1>3. rcrc.ok = TRUE
  BY <1>2 DEF HoldsSum
<1>4. PICK s \in Entry : Sealed(s, x) /\ s.crc = rcrc
  BY <1>1, <1>3 DEF Kept, Vouched
<1>5. HoldsSum(rcrc, s.type, s.comp, x.path, s.num, Payload(x, s.comp))
  BY <1>1, <1>4, SealedSum
<1>6. rfn = x.path /\ rcrc.data = Payload(x, Reading.comp) /\ s.comp = Reading.comp
  BY <1>2, <1>5 DEF HoldsSum
<1>7. ASSUME NEW j \in 1 .. Len(Reading.data)
      PROVE  Reading.data[j] = rcrc.data[j] /\ rcrc.data[j].ok
  <2>1. /\ rcrc.data[j] = Summed(Reading.data[j], Reading.comp)
        /\ Len(rcrc.data) = Len(Reading.data)
    BY DEF Summing
  <2>2. rcrc.data[j].ok
    BY <1>1, <1>6, <2>1, SealedContent
  <2>3. Reading.data[j] \in Unit
    BY <1>1, ElementOfSeq
  <2>4. Damaged(Reading.data[j]).ok = FALSE
    BY <2>3 DEF Damaged, Unit
  <2> QED
    BY <2>1, <2>2, <2>4 DEF Summed
<1>8. Reading.data = rcrc.data
  <2>1. Len(rcrc.data) = Len(Reading.data)
    BY DEF Summing
  <2>2. /\ Reading.data \in Seq(Unit) /\ rcrc.data \in Seq(Unit)
        /\ Len(Reading.data) = Len(rcrc.data)
        /\ \A j \in 1 .. Len(Reading.data) : Reading.data[j] = rcrc.data[j]
    BY <1>1, <1>7, <2>1
  <2> QED
    BY ONLY <2>2, SeqEqual
<1>9. ~Spoiled(Reading, x)
  <2>1. Reading.crc.ok = TRUE /\ Reading.crc.comp = Reading.comp
    BY <1>2 DEF HoldsSum
  <2>2. Reading.type = "subdir" => Reading.crc.num = Reading.num
    BY <1>2 DEF HoldsSum, NumOf
  <2>3. Reading.name = <<LastName(x.path)>>
    BY <1>6 DEF Summing
  <2>4. \A j \in 1 .. Len(Reading.data) : Reading.data[j].ok
    BY <1>7
  <2> QED
    BY <2>1, <2>2, <2>3, <2>4 DEF Spoiled
<1> QED
  BY <1>6, <1>8, <1>9 DEF x

----------------------------------------------------------------------------
(* The name of an entry is the last one of the path it is given, whatever  *)
(* tree the reader has and wherever the entry says it belongs.             *)
LEMMA AddedName ==
  ASSUME NEW S, NEW t \in Tree(S), WellFormed(t), NEW p \in Nodes(t), NEW n \in S
  PROVE  LET r == AddChild(t, p, n)
         IN  PathOf(r.tree, r.node) = Append(PathOf(r.tree, p), n)
<1> DEFINE r == AddChild(t, p, n)
<1>1. /\ r.tree \in Tree(S) /\ WellFormed(r.tree) /\ r.node \in 1 .. Len(r.tree)
      /\ Len(r.tree) \in Nat
  <2>1. r.tree \in Tree(S) /\ WellFormed(r.tree) /\ r.node \in 1 .. Len(r.tree)
    BY AddChildType
  <2> HIDE DEF r
  <2> QED
    BY <2>1 DEF Tree
<1>2. r.tree[r.node] = Node(p, n)
  <2>1. CASE Siblings(t, p, n) # {}
    BY <2>1 DEF AddChild, Found, Siblings
  <2>2. CASE Siblings(t, p, n) = {}
    <3>1. r.tree = Append(t, Node(p, n)) /\ r.node = Len(t) + 1
      BY <2>2 DEF AddChild, Found
    <3>2. t \in Seq([parent : Nat, name : S]) /\ Node(p, n) \in [parent : Nat, name : S]
      BY DEF Tree, Node, Nodes
    <3> QED
      BY <3>1, <3>2, AppendProperties
  <2> QED
    BY <2>1, <2>2
<1> HIDE DEF r
<1>3. r.node \in Nodes(r.tree) /\ r.node # Root
  BY <1>1 DEF Nodes, Root
<1>4. PathOf(r.tree, r.node) = Append(PathOf(r.tree, p), n)
  BY <1>1, <1>2, <1>3, PathOfNode DEF Node
<1> QED
  BY <1>4 DEF r

LEMMA LastOfAppend ==
  ASSUME NEW S, NEW s \in Seq(S), NEW n \in S
  PROVE  LastName(Append(s, n)) = n /\ Append(s, n) # <<>>
  BY DEF LastName

LEMMA LastOfConcat ==
  ASSUME NEW S, NEW s \in Seq(S), NEW n \in S
  PROVE  LastName(s \o <<n>>) = n /\ s \o <<n>> # <<>>
<1>1. s \o <<n>> = Append(s, n)
  OBVIOUS
<1> QED
  BY <1>1, LastOfAppend

LEMMA GivenName ==
  ASSUME TypeInv, NEW e \in Entry, e.num # Unwritten, Placed(e).node # NoNode,
         NEW n \in Name, e.name = <<n>>
  PROVE  LastName(FullName(e, Placed(e))) = n /\ FullName(e, Placed(e)) # <<>>
<1>1. /\ Placed(e).tree \in Tree(Name) /\ WellFormed(Placed(e).tree)
      /\ Placed(e).node \in Nodes(Placed(e).tree)
      /\ rtree \in Tree(Name) /\ WellFormed(rtree)
  BY PlacedType DEF TypeInv, ATypeOK, RTypeOK, ReaderFacts, Tree
<1>2. e.type \in {"file", "dir", "subdir"} /\ e.name[1] = n /\ e.num \in Nat
  BY DEF Entry, Types
<1>3. CASE e.type = "file"
  <2>1. FullName(e, Placed(e)) = PathOf(Placed(e).tree, Placed(e).node) \o <<n>>
    BY <1>3 DEF FullName
  <2>2. PathOf(Placed(e).tree, Placed(e).node) \in Seq(Name)
    BY <1>1, PathOfIsPath
  <2> QED
    BY <2>1, <2>2, LastOfConcat
<1>4. ASSUME e.type # "file", NEW p, Placed(e) = InsertAtParent(rtree, p, n)
      PROVE  LastName(FullName(e, Placed(e))) = n /\ FullName(e, Placed(e)) # <<>>
  <2>1. p \in Nodes(rtree)
    BY <1>4 DEF InsertAtParent, Found
  <2>2. Placed(e) = AddChild(rtree, p, n)
    BY <1>4, <2>1 DEF InsertAtParent
  <2>3. PathOf(Placed(e).tree, Placed(e).node) = Append(PathOf(Placed(e).tree, p), n)
    BY <1>1, <2>1, <2>2, AddedName
  <2>4. p \in Nodes(Placed(e).tree)
    <3>1. Placed(e).tree = rtree \/ Placed(e).tree = Append(rtree, Node(p, n))
      BY <2>2 DEF AddChild, Found
    <3>2. Len(Append(rtree, Node(p, n))) = Len(rtree) + 1 /\ Len(rtree) \in Nat
      BY <1>1 DEF Tree
    <3> QED
      BY <2>1, <3>1, <3>2 DEF Nodes
  <2>5. PathOf(Placed(e).tree, p) \in Seq(Name)
    BY <1>1, <2>4, PathOfIsPath
  <2> QED
    BY <1>4, <2>3, <2>5, LastOfAppend DEF FullName
<1>5. CASE e.type = "dir"
  BY <1>2, <1>4, <1>5 DEF Placed
<1>6. CASE e.type = "subdir"
  BY <1>2, <1>4, <1>6 DEF Placed
<1> QED
  BY <1>2, <1>3, <1>5, <1>6

----------------------------------------------------------------------------
(* A step of the reader that reports nothing, and one that does. *)
LEMMA ReadOn ==
  ASSUME ReadInv, SealInv', UNCHANGED <<hdr, arc, input, mode, rlog>>, rpc' # "idle",
         "io" \in faults' => rpc' = "failed",
         rpc' # "failed" => rnum' = Len(input) /\ hdr = Len(input),
         InHand' => Summing' /\ Writes',
         rpc' = "ok" => rpos = Len(input)
  PROVE  ReadInv'
<1>1. rpos' = rpos
  BY DEF rpos
<1>2. \A k \in 1 .. rpos : Told(k)'
  BY DEF ReadInv, Told, Spoiled
<1> QED
  BY <1>1, <1>2 DEF ReadInv

LEMMA ReadNext ==
  ASSUME ReadInv, SealInv', InHand, rpc' = "entry", UNCHANGED <<hdr, arc, input, mode, rnum, faults>>,
         NEW o, rlog' = Append(rlog, o),
         o.how = "done" =>
           o.path = input[rpos + 1].path /\ o.data = Content(input[rpos + 1]),
         mode = "test" => o.how = "done" /\ ~Spoiled(Reading, input[rpos + 1]),
         mode = "extract" /\ input[rpos + 1].kind = "dir" => o.how = "done"
  PROVE  ReadInv'
<1>1. rlog \in Seq(Outcome) /\ Len(rlog) \in Nat
  BY DEF ReadInv, SealInv, RestoreInv, TypeInv, ATypeOK, RTypeOK
<1>2. /\ rpos' = rpos + 1 /\ rlog'[rpos + 1] = o
      /\ \A k \in 1 .. rpos : rlog'[k] = rlog[k]
  BY <1>1 DEF rpos
<1>3. rpos' <= Len(arc) /\ rpos \in Nat
  BY <1>2, EntryInHand DEF ReadInv
<1>4. ASSUME NEW k \in 1 .. rpos'
      PROVE  Told(k)'
  <2>1. CASE k = rpos + 1
    BY <1>2, <2>1 DEF Told, Spoiled, Reading
  <2>2. CASE k # rpos + 1
    <3>1. k \in 1 .. rpos
      BY <1>2, <1>3, <2>2
    <3>2. Told(k)
      BY <3>1 DEF ReadInv
    <3> QED
      BY <1>2, <3>1, <3>2 DEF Told, Spoiled
  <2> QED
    BY <2>1, <2>2
<1> QED
  BY <1>2, <1>3, <1>4 DEF ReadInv, InHand

LEMMA ReadFails ==
  ASSUME ReadInv, SealInv', UNCHANGED <<hdr, arc, input>>,
         Refuse \/ RIoError \/ (OpenOutput /\ rpc' = "failed")
  PROVE  ReadInv'
<1>1. rpc' = "failed" /\ UNCHANGED <<mode, rlog>>
  BY DEF Refuse, RIoError, OpenOutput
<1> QED
  BY <1>1, ReadOn DEF InHand

LEMMA ReadReadHeader ==
  ASSUME ReadInv, SealInv', UNCHANGED <<hdr, arc, input, faults>>, ReadHeader, ~Refuse
  PROVE  ReadInv'
<1>1. /\ rpc = "idle" /\ hdr # NoHeader /\ rpc' = "entry" /\ rnum' = hdr
      /\ UNCHANGED <<mode, rlog>>
  BY DEF ReadHeader
<1>2. hdr = Len(input) /\ "io" \notin faults
  BY <1>1 DEF ReadInv, SealInv
<1> QED
  BY <1>1, <1>2, ReadOn DEF InHand

LEMMA ReadReadMetaEntry ==
  ASSUME ReadInv, SealInv', UNCHANGED <<hdr, arc, input, faults>>, ReadMetaEntry, ~Refuse
  PROVE  ReadInv'
<1> DEFINE placed == Placed(Reading)
           name   == FullName(Reading, placed)
<1>1. TypeInv /\ rpos \in Nat /\ Len(arc) \in Nat
  BY DEF ReadInv, SealInv, RestoreInv, TypeInv, ATypeOK, WTypeOK, FormatTypeOK, RTypeOK, rpos
<1>2. /\ rpc = "entry" /\ rpos < Len(arc) /\ Reading.num # Unwritten
      /\ placed.node # NoNode
      /\ rfn' = name
      /\ rcrc' = [HeaderCrc(Reading.type, Reading.comp, name) EXCEPT !.num = NumOf(Reading)]
      /\ rcnt' = 0
      /\ UNCHANGED <<mode, rnum, rlog>>
  <2>1. ~(rpos >= Len(arc))
    BY DEF ReadMetaEntry
  <2> QED
    BY <1>1, <2>1 DEF ReadMetaEntry, NumOf
<1>3. /\ rpc' \in {"ask", "data", "mkdir", "crc"}
      /\ rpc' \in {"ask", "mkdir"} => mode = "extract"
      /\ rpc' \in {"data", "crc"} => mode # "extract"
      /\ rpc' = "crc" => Reading.type # "file"
  BY <1>2 DEF ReadMetaEntry
<1>4. /\ Reading \in Entry /\ Reading.data \in Seq(Unit) /\ Len(Reading.data) \in Nat
      /\ Reading.type \in Types /\ Reading.comp \in Comps /\ NumOf(Reading) \in Nat
  <2>1. Reading \in Entry
    BY <1>1, <1>2, ReadingType DEF rpos
  <2> QED
    BY <1>2, <2>1 DEF Entry, NumOf
<1>5. rpos + 1 \in 1 .. Len(arc)
  BY <1>1, <1>2
<1>6. Kept(Reading, input[rpos + 1])
  BY <1>5 DEF ReadInv, SealInv, Reading
<1>7. name \in Path /\ Reading.name = <<LastName(name)>> /\ name # <<>>
  <2>1. PICK n \in Name : Reading.name = <<n>>
    BY <1>6 DEF Kept
  <2> QED
    BY <1>1, <1>2, <1>4, <2>1, PlacedType, GivenName
<1> HIDE DEF placed, name
<1>8. Reading' = Reading
  BY <1>2 DEF Reading, rpos
<1>9. HoldsSum(rcrc', Reading.type, Reading.comp, name, NumOf(Reading), <<>>)
  <2>1. <<>> \in Seq(Unit)
    OBVIOUS
  <2>2. rcrc' = SumOf(Reading.type, Reading.comp, name, NumOf(Reading), <<>>)
    BY <1>2, <1>4, <1>7, <2>1, SumSteps
  <2> QED
    BY <1>4, <1>7, <2>1, <2>2, SumFields
<1>10. rcrc'.data = <<>> /\ Len(<<>>) = 0
  BY <1>9 DEF HoldsSum
<1>11. Reading.type # "file" => Len(Reading.data) = 0
  BY <1>6 DEF Kept
<1>12. Summing'
  <2>1. HoldsSum(rcrc', Reading.type, Reading.comp, rfn', NumOf(Reading), rcrc'.data)
    BY <1>2, <1>9, <1>10
  <2> QED
    BY <1>2, <1>3, <1>4, <1>7, <1>8, <1>10, <1>11, <2>1 DEF Summing
<1>13. Writes'
  BY <1>2, <1>3 DEF Writes
<1> QED
  BY <1>2, <1>3, <1>12, <1>13, ReadOn DEF ReadInv

LEMMA ReadKeepFile ==
  ASSUME ReadInv, SealInv', UNCHANGED <<hdr, arc, input, faults>>, KeepFile
  PROVE  ReadInv'
<1> DEFINE o == [how |-> "kept", path |-> rfn, data |-> <<>>]
<1>1. /\ rpc = "ask" /\ rpc' = "entry" /\ rlog' = Append(rlog, o) /\ UNCHANGED <<mode, rnum>>
  BY DEF KeepFile
<1>2. o.how = "kept"
  OBVIOUS
<1> HIDE DEF o
<1>3. InHand /\ SealInv
  BY <1>1 DEF InHand, ReadInv
<1>4. mode = "extract"
  BY <1>1, <1>3 DEF ReadInv, Summing
<1>5. input[rpos + 1].kind = "file"
  <2>1. Reading.type = "file"
    BY <1>1 DEF ReadInv, SealInv, RestoreInv, TypeInv, ReaderFacts
  <2> QED
    BY <1>3, <2>1, EntryInHand DEF Kept
<1> QED
  BY <1>1, <1>2, <1>3, <1>4, <1>5, ReadNext

LEMMA ReadOpenOutput ==
  ASSUME ReadInv, SealInv', UNCHANGED <<hdr, arc, input, faults>>, OpenOutput
  PROVE  ReadInv'
<1> SUFFICES ASSUME rpc' # "failed" PROVE ReadInv'
  BY ReadFails
<1>1. /\ rpc = "ask" /\ rpc' = "data" /\ files' = Opened(rfn)
      /\ UNCHANGED <<mode, rnum, rfn, rcrc, rcnt, rlog>>
  BY DEF OpenOutput
<1>2. Reading' = Reading /\ InHand /\ SealInv
  BY <1>1 DEF Reading, rpos, InHand, ReadInv
<1>3. Summing /\ rcnt = 0
  BY <1>1, <1>2 DEF ReadInv, Summing
<1>4. Summing'
  BY <1>1, <1>2, <1>3 DEF Summing
<1>5. Writes'
  <2>1. rfn \in DOMAIN files' /\ files'[rfn] = <<>>
    BY <1>1 DEF Opened
  <2>2. <<>> \in Seq(Unit) /\ Len(<<>>) = 0
    OBVIOUS
  <2> QED
    BY <1>1, <1>3, <2>1, <2>2 DEF Writes
<1> QED
  BY <1>1, <1>4, <1>5, ReadOn DEF ReadInv

LEMMA ReadTake ==
  ASSUME ReadInv, SealInv', UNCHANGED <<hdr, arc, input, faults>>, rpc = "data", Left,
         NEW u, NEW w, Take(u, w),
         u = Summed(Reading.data[rcnt + 1], Reading.comp),
         w = Written(Reading.data[rcnt + 1], Reading.comp)
  PROVE  ReadInv'
<1>1. /\ rcrc' = [rcrc EXCEPT !.data = Append(@, u)] /\ rcnt' = rcnt + 1
      /\ UNCHANGED <<mode, rpc, rnum, rfn, rlog>>
  BY DEF Take
<1>2. InHand /\ InHand' /\ SealInv /\ Reading' = Reading
  BY <1>1 DEF InHand, ReadInv, Reading, rpos
<1>3. Summing /\ Writes
  BY <1>2 DEF ReadInv
<1>4. /\ Reading.data \in Seq(Unit) /\ Len(Reading.data) \in Nat
      /\ rcrc \in Crc /\ rcrc.data \in Seq(Unit) /\ rcnt \in Nat /\ rcnt < Len(Reading.data)
  BY <1>2, EntryInHand DEF Left
<1>5. u \in Unit /\ w \in Unit
  <2>1. Reading.data[rcnt + 1] \in Unit
    BY <1>4, ElementOfSeq
  <2> QED
    BY <2>1, UnitValues DEF Summed, Written
<1> DEFINE d == Append(rcrc.data, u)
<1>6. /\ d \in Seq(Unit) /\ Len(d) = rcnt + 1 /\ d[rcnt + 1] = u
      /\ \A j \in 1 .. rcnt : d[j] = rcrc.data[j]
  BY <1>3, <1>4, <1>5, AppendProperties DEF Summing
<1>7. HoldsSum(rcrc', Reading.type, Reading.comp, rfn, NumOf(Reading), d)
  <2>1. HoldsSum(rcrc, Reading.type, Reading.comp, rfn, NumOf(Reading), rcrc.data)
    BY <1>3 DEF Summing
  <2>2. rcrc' \in Crc
    BY <1>1, <1>4, <1>5, CrcUpdates
  <2> QED
    BY <1>1, <2>1, <2>2 DEF HoldsSum, Crc
<1> HIDE DEF d
<1>8. rcrc'.data = d
  BY <1>7 DEF HoldsSum
<1>9. ASSUME NEW j \in 1 .. rcnt + 1
      PROVE  d[j] = Summed(Reading.data[j], Reading.comp)
  <2>1. j = rcnt + 1 \/ j \in 1 .. rcnt
    BY <1>4
  <2> QED
    BY <1>3, <1>6, <2>1 DEF Summing
<1>10. Summing'
  <2>1. Reading.name = <<LastName(rfn)>> /\ rfn # <<>> /\ rcnt + 1 <= Len(Reading.data)
    BY <1>3, <1>4 DEF Summing
  <2> QED
    BY <1>1, <1>2, <1>6, <1>7, <1>8, <1>9, <2>1 DEF Summing
<1>11. Writes'
  <2> SUFFICES ASSUME mode = "extract", Reading.type = "file" PROVE Writes'
    BY <1>1, <1>2 DEF Writes
  <2>1. /\ rfn \in DOMAIN files /\ files[rfn] \in Seq(Unit) /\ Len(files[rfn]) = rcnt
        /\ \A j \in 1 .. rcnt : files[rfn][j] = Written(Reading.data[j], Reading.comp)
    BY <1>3 DEF Writes
  <2>2. rfn \in DOMAIN files' /\ files'[rfn] = Append(files[rfn], w)
    BY <2>1 DEF Take
  <2> DEFINE f == Append(files[rfn], w)
  <2>3. /\ f \in Seq(Unit) /\ Len(f) = rcnt + 1 /\ f[rcnt + 1] = w
        /\ \A j \in 1 .. rcnt : f[j] = files[rfn][j]
    BY <1>5, <2>1, AppendProperties
  <2> HIDE DEF f
  <2>4. ASSUME NEW j \in 1 .. rcnt + 1
        PROVE  f[j] = Written(Reading.data[j], Reading.comp)
    <3>1. j = rcnt + 1 \/ j \in 1 .. rcnt
      BY <1>4
    <3> QED
      BY <2>1, <2>3, <3>1
  <2> QED
    BY <1>1, <1>2, <2>2, <2>3, <2>4 DEF Writes, f
<1>12. rpc' = "data" /\ rnum' = Len(input) /\ hdr = Len(input) /\ "io" \notin faults
  BY <1>1 DEF ReadInv
<1> QED
  BY <1>1, <1>10, <1>11, <1>12, ReadOn

LEMMA ReadPayload ==
  ASSUME ReadInv, SealInv', UNCHANGED <<hdr, arc, input, faults>>,
         CopyStored \/ (Decompress /\ ~Refuse)
  PROVE  ReadInv'
<1> DEFINE unit == Reading.data[rcnt + 1]
<1>1. CASE CopyStored
  <2>1. rpc = "data" /\ Left /\ Take(unit, unit) /\ Reading.comp = "stored"
    BY <1>1 DEF CopyStored
  <2>2. unit = Summed(unit, Reading.comp) /\ unit = Written(unit, Reading.comp)
    BY <2>1 DEF Summed, Written
  <2> QED
    BY <2>1, <2>2, ReadTake
<1>2. CASE Decompress /\ ~Refuse
  <2> DEFINE u == IF unit.enc THEN unit ELSE Damaged(unit)
             w == IF Decodable(unit) THEN Decoded(unit) ELSE Damaged(Decoded(unit))
  <2>1. rpc = "data" /\ Left /\ Take(u, w) /\ Reading.comp = "compressed"
    BY <1>2 DEF Decompress
  <2>2. u = Summed(unit, Reading.comp) /\ w = Written(unit, Reading.comp)
    BY <2>1 DEF Summed, Written
  <2> HIDE DEF u, w
  <2> QED
    BY <2>1, <2>2, ReadTake
<1> QED
  BY <1>1, <1>2

LEMMA ReadDataEnd ==
  ASSUME ReadInv, SealInv', UNCHANGED <<hdr, arc, input, faults>>, DataEnd, ~Refuse
  PROVE  ReadInv'
<1>1. /\ rpc = "data" /\ ~Left /\ rpc' = "crc"
      /\ UNCHANGED <<mode, rnum, rfn, rcrc, rcnt, files, rlog>>
  BY DEF DataEnd
<1>2. InHand /\ SealInv /\ Reading' = Reading
  BY <1>1 DEF InHand, ReadInv, Reading, rpos
<1>3. Summing /\ Writes
  BY <1>2 DEF ReadInv
<1>4. rcnt = Len(Reading.data)
  BY <1>1, <1>2, <1>3, EntryInHand DEF Left, Summing
<1>5. Summing'
  BY <1>1, <1>2, <1>3, <1>4 DEF Summing
<1>6. Writes'
  BY <1>1, <1>2, <1>3 DEF Writes
<1> QED
  BY <1>1, <1>5, <1>6, ReadOn DEF ReadInv

LEMMA ReadMakeDir ==
  ASSUME ReadInv, SealInv', UNCHANGED <<hdr, arc, input, faults>>, MakeDir, ~Refuse
  PROVE  ReadInv'
<1>1. /\ rpc = "mkdir" /\ rpc' = "crc"
      /\ UNCHANGED <<mode, rnum, rfn, rcrc, rcnt, files, rlog>>
  BY DEF MakeDir
<1>2. InHand /\ SealInv /\ Reading' = Reading
  BY <1>1 DEF InHand, ReadInv, Reading, rpos
<1>3. Summing
  BY <1>2 DEF ReadInv
<1>4. Reading.type # "file"
  BY <1>1 DEF ReadInv, SealInv, RestoreInv, TypeInv, ReaderFacts
<1>5. rcnt = Len(Reading.data)
  <2>1. Len(Reading.data) = 0
    BY <1>2, <1>4, EntryInHand DEF Kept
  <2> QED
    BY <1>1, <1>3, <2>1 DEF Summing
<1>6. Summing'
  BY <1>1, <1>2, <1>3, <1>5 DEF Summing
<1>7. Writes'
  BY <1>1, <1>2, <1>4 DEF Writes
<1> QED
  BY <1>1, <1>6, <1>7, ReadOn DEF ReadInv

(* What is reported of an accepted entry is the plan's. *)
LEMMA ReportIsPlanned ==
  ASSUME SealInv, InHand, Summing, Writes, rpc = "crc", Reading.crc = rcrc, Reading.crc # NoCrc
  PROVE  LET x == input[rpos + 1]
         IN  /\ DecodedAll(rcrc.data) = Content(x)
             /\ mode = "extract" /\ Reading.type = "file" => files[rfn] = Content(x)
<1> DEFINE x == input[rpos + 1]
           comp == Reading.comp
<1>1. x \in Source /\ Reading \in Entry /\ comp \in Comps
  BY EntryInHand DEF Entry
<1>2. rcrc.data = Payload(x, comp) /\ Reading.data = Payload(x, comp)
  BY AcceptedIsPlanned
<1> HIDE DEF x, comp
<1>3. DecodedAll(rcrc.data) = Content(x)
  BY <1>1, <1>2, SealedContent DEF DecodedAll
<1>4. ASSUME mode = "extract", Reading.type = "file"
      PROVE  files[rfn] = Content(x)
  <2>1. /\ files[rfn] \in Seq(Unit) /\ Len(files[rfn]) = rcnt
        /\ \A j \in 1 .. rcnt : files[rfn][j] = Written(Reading.data[j], comp)
    BY <1>4 DEF Writes, comp
  <2>2. rcnt = Len(Reading.data)
    BY DEF Summing
  <2>3. /\ Len(Payload(x, comp)) = Len(x.chunks)
        /\ Content(x) \in Seq(Unit) /\ Len(Content(x)) = Len(x.chunks)
    BY <1>1, SealedContent
  <2>4. ASSUME NEW j \in 1 .. Len(x.chunks)
        PROVE  Written(Payload(x, comp)[j], comp) = Content(x)[j]
    <3>1. /\ Payload(x, comp)[j].ok /\ (Payload(x, comp)[j].enc <=> comp = "compressed")
          /\ Decoded(Payload(x, comp)[j]) = Content(x)[j]
      BY <1>1, SealedContent
    <3>2. CASE comp = "stored"
      <4>1. Payload(x, comp)[j] = Content(x)[j]
        BY <3>2 DEF Payload, Content
      <4> QED
        BY <3>2, <4>1 DEF Written
    <3>3. CASE comp = "compressed"
      BY <3>1, <3>3 DEF Written, Decodable
    <3> QED
      BY <1>1, <3>2, <3>3 DEF Comps
  <2>5. /\ files[rfn] \in Seq(Unit) /\ Content(x) \in Seq(Unit)
        /\ Len(files[rfn]) = Len(Content(x))
        /\ \A j \in 1 .. Len(files[rfn]) : files[rfn][j] = Content(x)[j]
    BY <1>2, <2>1, <2>2, <2>3, <2>4
  <2> QED
    BY ONLY <2>5, SeqEqual
<1> QED
  BY <1>3, <1>4 DEF x

LEMMA ReadCheckCrc ==
  ASSUME ReadInv, SealInv', UNCHANGED <<hdr, arc, input, faults>>, CheckCrc, ~Refuse
  PROVE  ReadInv'
<1> DEFINE x == input[rpos + 1]
           o == [how  |-> IF mode = "list" THEN "listed" ELSE "done",
                 path |-> rfn,
                 data |-> IF mode = "extract" /\ Reading.type = "file"
                            THEN files[rfn] ELSE DecodedAll(rcrc.data)]
<1>1. /\ rpc = "crc" /\ CrcAccepted /\ rpc' = "entry" /\ rlog' = Append(rlog, o)
      /\ UNCHANGED <<mode, rnum>>
  BY DEF CheckCrc
<1>2. InHand /\ SealInv
  BY <1>1 DEF InHand, ReadInv
<1>3. Summing /\ Writes
  BY <1>2 DEF ReadInv
<1>4. /\ o.how = IF mode = "list" THEN "listed" ELSE "done"
      /\ o.path = rfn
      /\ o.data = IF mode = "extract" /\ Reading.type = "file"
                    THEN files[rfn] ELSE DecodedAll(rcrc.data)
  OBVIOUS
<1> HIDE DEF o
<1>5. CASE mode = "list"
  BY <1>1, <1>2, <1>4, <1>5, ReadNext
<1>6. CASE mode # "list"
  <2>1. Reading.crc = rcrc /\ Reading.crc # NoCrc
    BY <1>1, <1>6 DEF CrcAccepted
  <2>2. rfn = x.path /\ ~Spoiled(Reading, x)
    BY <1>1, <1>2, <1>3, <2>1, AcceptedIsPlanned
  <2>3. /\ DecodedAll(rcrc.data) = Content(x)
        /\ mode = "extract" /\ Reading.type = "file" => files[rfn] = Content(x)
    BY <1>1, <1>2, <1>3, <2>1, ReportIsPlanned
  <2>4. o.path = x.path /\ o.data = Content(x) /\ o.how = "done"
    BY <1>4, <1>6, <2>2, <2>3
  <2> QED
    BY <1>1, <1>2, <2>2, <2>4, ReadNext
<1> QED
  BY <1>5, <1>6

LEMMA ReadReader ==
  ASSUME ReadInv, SealInv', UNCHANGED <<hdr, arc, wvars>>,
         RIoError \/ (RStep /\ UNCHANGED faults)
  PROVE  ReadInv'
<1>1. UNCHANGED <<hdr, arc, input>>
  BY DEF wvars
<1>2. CASE Refuse \/ RIoError \/ MissingData
  BY <1>1, <1>2, ReadFails DEF MissingData
<1>3. CASE CloseInput /\ UNCHANGED faults
  <2>1. /\ rpc = "entry" /\ rpos = rnum /\ rpc' = "ok" /\ UNCHANGED <<mode, rnum, rlog>>
    BY <1>3 DEF CloseInput, AllRead
  <2>2. rnum = Len(input) /\ hdr = Len(input) /\ "io" \notin faults
    BY <2>1 DEF ReadInv
  <2> QED
    BY <1>1, <1>3, <2>1, <2>2, ReadOn DEF InHand
<1> QED
  BY <1>1, <1>2, <1>3, ReadReadHeader, ReadReadMetaEntry, ReadKeepFile, ReadOpenOutput,
     ReadPayload, ReadDataEnd, ReadMakeDir, ReadCheckCrc DEF RStep

LEMMA ReadInit == Init => ReadInv
<1> SUFFICES ASSUME Init PROVE ReadInv
  OBVIOUS
<1>1. SealInv
  BY SealInit
<1>2. rpc = "idle" /\ rlog = <<>> /\ rpos = 0 /\ Len(arc) = 0 /\ faults = {}
  BY DEF Init, WInit, RInit, rpos
<1> QED
  BY <1>1, <1>2 DEF ReadInv, InHand

LEMMA ReadStep == ReadInv /\ [Next]_avars => ReadInv'
<1> SUFFICES ASSUME ReadInv, [Next]_avars PROVE ReadInv'
  OBVIOUS
<1>1. SealInv'
  BY SealStep DEF ReadInv
<1>2. CASE ReaderStep \/ ReaderError
  BY <1>1, <1>2, ReadReader DEF ReaderStep, ReaderError
<1>3. CASE WriterStep \/ WriterError \/ Crash \/ Cut \/ Damage
  <2>1. rpc = "idle" /\ UNCHANGED rvars /\ "io" \notin faults'
    <3>1. CASE Cut \/ Damage
      BY <3>1 DEF Cut, Damage, AtRest, ReadInv
    <3>2. CASE WriterStep \/ WriterError \/ Crash
      <4>1. ~WEnded
        <5>1. CASE WriterStep \/ WriterError
          BY <5>1, TypeWriter DEF ReadInv, SealInv, RestoreInv, WriterStep, WriterError
        <5> QED
          BY <3>2, <5>1 DEF Crash
      <4>2. rpc = "idle"
        BY <4>1 DEF ReadInv, SealInv, RestoreInv, TypeInv, ReaderFacts
      <4> QED
        BY <3>2, <4>2 DEF WriterStep, WriterError, Crash, ReadInv
    <3> QED
      BY <1>3, <3>1, <3>2
  <2>2. rlog = <<>> /\ rpc' = "idle" /\ rlog' = <<>>
    BY <2>1 DEF ReadInv, rvars
  <2>3. rpos' = 0 /\ Len(arc') \in Nat
    BY <1>1, <2>2 DEF rpos, SealInv, RestoreInv, TypeInv, ATypeOK, WTypeOK, FormatTypeOK
  <2> QED
    BY <1>1, <2>1, <2>2, <2>3 DEF ReadInv, InHand
<1>4. CASE UNCHANGED avars
  <2>1. UNCHANGED <<hdr, arc, input, rvars, faults>>
    BY <1>4 DEF avars, wvars
  <2>2. InHand' = InHand /\ Reading' = Reading /\ rpos' = rpos
    BY <2>1 DEF InHand, Reading, rpos, rvars
  <2>3. Summing => Summing'
    BY <2>1, <2>2 DEF Summing, rvars
  <2>4. Writes => Writes'
    BY <2>1, <2>2 DEF Writes, rvars
  <2>5. \A k \in 1 .. rpos : Told(k)'
    BY <2>1 DEF ReadInv, Told, Spoiled, rvars
  <2> QED
    BY <1>1, <2>1, <2>2, <2>3, <2>4, <2>5 DEF ReadInv, rvars
<1> QED
  BY <1>2, <1>3, <1>4 DEF Next, Over

----------------------------------------------------------------------------
(* The refinement: what each step is to somebody who looks at what is      *)
(* reported only. *)
Fate ==
  CASE rpc = "ok" -> "ok" [] rpc = "failed" -> "failed" [] OTHER -> "running"

Reported(o) ==
  IF o.how = "done" THEN [path |-> o.path, data |-> o.data]
                    ELSE [path |-> <<>>, data |-> <<>>]

Reports == [k \in 1 .. Len(rlog) |-> Reported(rlog[k])]

Plan == [k \in 1 .. Len(input) |-> Planned(input[k])]

LEMMA ReaderShows ==
  ASSUME RStep \/ RIoError
  PROVE  \/ rpc' \in RPhases \ {"ok", "failed"} /\ ~REnded /\ UNCHANGED rlog
         \/ InHand /\ rpc' = "entry" /\ \E o : rlog' = Append(rlog, o)
         \/ ~REnded /\ rpc' \in {"ok", "failed"} /\ UNCHANGED rlog
<1> USE DEF REnded, InHand, RPhases
<1>1. CASE Refuse \/ RIoError \/ MissingData
  BY <1>1 DEF Refuse, RIoError, MissingData, ReadHeader, ReadMetaEntry, KeepFile, OpenOutput,
              CopyStored, Decompress, DataEnd, MakeDir, CheckCrc, CloseInput, RStep
<1>2. CASE KeepFile \/ (CheckCrc /\ ~Refuse)
  BY <1>2 DEF KeepFile, CheckCrc
<1>3. CASE ReadHeader /\ ~Refuse
  BY <1>3 DEF ReadHeader
<1>4. CASE ReadMetaEntry /\ ~Refuse
  <2>1. rpc = "entry" /\ UNCHANGED rlog
    BY <1>4 DEF ReadMetaEntry
  <2>2. rpc' \in {"ask", "data", "mkdir", "crc"}
    BY <1>4 DEF ReadMetaEntry
  <2> QED
    BY <2>1, <2>2
<1>5. CASE OpenOutput \/ CloseInput
  BY <1>5 DEF OpenOutput, CloseInput
<1>6. CASE CopyStored \/ (Decompress /\ ~Refuse)
  BY <1>6 DEF CopyStored, Decompress, Take
<1>7. CASE (DataEnd \/ MakeDir) /\ ~Refuse
  BY <1>7 DEF DataEnd, MakeDir
<1> QED
  BY <1>1, <1>2, <1>3, <1>4, <1>5, <1>6, <1>7 DEF RStep

LEMMA InputStays == [Next]_avars => UNCHANGED input
<1> SUFFICES ASSUME [Next]_avars PROVE UNCHANGED input
  OBVIOUS
<1>1. CASE WStep
  BY <1>1 DEF WStep, OpenArchive, WriteHeader, WriteDir, GiveUp, WriteFileHeader, CompressChunk,
              KeepCompressed, FallBackToStored, WriteSize, CopyUnit, CopyEnd, WriteCrc,
              CloseArchive
<1>2. CASE WIoError \/ Crash
  BY <1>2 DEF WIoError, Crash
<1>3. CASE UNCHANGED wvars
  BY <1>3 DEF wvars
<1> QED
  BY <1>1, <1>2, <1>3 DEF Next, WriterStep, WriterError, Cut, Damage, ReaderStep, ReaderError,
                          Over, avars

LEMMA OthersShowNothing ==
  ASSUME [Next]_avars, ~(ReaderStep \/ ReaderError)
  PROVE  UNCHANGED rvars
  BY DEF Next, WriterStep, WriterError, Crash, Cut, Damage, Over, avars

LEMMA Appended ==
  ASSUME ReadInv, NEW o, rlog' = Append(rlog, o)
  PROVE  /\ rpos' = rpos + 1 /\ rpos \in Nat /\ rlog'[rpos + 1] = o
         /\ Reports' = Append(Reports, Reported(o)) /\ Len(Reports) = rpos
<1>1. rlog \in Seq(Outcome) /\ Len(rlog) \in Nat
  BY DEF ReadInv, SealInv, RestoreInv, TypeInv, ATypeOK, RTypeOK
<1>2. /\ rpos' = rpos + 1 /\ rlog'[rpos + 1] = o
      /\ \A k \in 1 .. rpos : rlog'[k] = rlog[k]
  BY <1>1 DEF rpos
<1>3. Reports' = [k \in 1 .. rpos + 1 |-> Reported(rlog'[k])]
  BY <1>2 DEF Reports, rpos
<1>4. Len(Reports) = rpos
  BY <1>1 DEF Reports, rpos
<1> DEFINE f == [k \in 1 .. rpos + 1 |-> Reported(rlog'[k])]
           g == Append(Reports, Reported(o))
<1>5. f = g
  <2>1. g = [k \in 1 .. rpos + 1 |-> IF k = rpos + 1 THEN Reported(o) ELSE Reports[k]]
    BY <1>1, <1>4 DEF rpos, Reports
  <2>2. \A k \in 1 .. rpos + 1 :
          Reported(rlog'[k]) = IF k = rpos + 1 THEN Reported(o) ELSE Reports[k]
    BY <1>1, <1>2 DEF Reports, rpos
  <2> QED
    BY <2>1, <2>2
<1> QED
  BY <1>1, <1>2, <1>3, <1>4, <1>5 DEF rpos

LEMMA Refines ==
  ASSUME ReadInv, ReadInv', [Next]_avars
  PROVE  \/ UNCHANGED <<Plan, Reports, Fate>>
         \/ /\ Fate = "running" /\ Len(Reports) < Len(Plan) /\ UNCHANGED <<Plan, Fate>>
            /\ \/ Reports' = Append(Reports, Plan[Len(Reports) + 1])
               \/ Reports' = Append(Reports, [path |-> <<>>, data |-> <<>>])
         \/ /\ Fate = "running" /\ ~(Len(Reports) < Len(Plan)) /\ Fate' = "ok"
            /\ UNCHANGED <<Plan, Reports>>
         \/ Fate = "running" /\ Fate' = "failed" /\ UNCHANGED <<Plan, Reports>>
<1>1. UNCHANGED Plan
  BY InputStays DEF Plan
<1>2. /\ rlog \in Seq(Outcome) /\ Len(rlog) \in Nat /\ Len(input) \in Nat
      /\ Len(Plan) = Len(input) /\ Len(Reports) = rpos
      /\ \A k \in 1 .. Len(input) : Plan[k] = Planned(input[k])
  <2>1. rlog \in Seq(Outcome) /\ input \in Seq(Source)
    BY DEF ReadInv, SealInv, RestoreInv, TypeInv, ATypeOK, RTypeOK, WTypeOK
  <2>2. Len(rlog) \in Nat /\ Len(input) \in Nat
    BY <2>1
  <2>3. Len(Plan) = Len(input) /\ Len(Reports) = Len(rlog)
    BY <2>2 DEF Plan, Reports
  <2> QED
    BY <2>1, <2>2, <2>3 DEF Plan, rpos
<1>3. UNCHANGED rlog => UNCHANGED Reports
  BY DEF Reports
<1>4. CASE UNCHANGED rvars
  BY <1>1, <1>3, <1>4 DEF rvars, Fate
<1>5. CASE RStep \/ RIoError
  <2>1. CASE rpc' \in RPhases \ {"ok", "failed"} /\ ~REnded /\ UNCHANGED rlog
    BY <1>1, <1>3, <2>1 DEF Fate, REnded
  <2>2. CASE InHand /\ rpc' = "entry" /\ \E o : rlog' = Append(rlog, o)
    <3>1. PICK o : rlog' = Append(rlog, o)
      BY <2>2
    <3>2. /\ rpos' = rpos + 1 /\ rpos \in Nat /\ rlog'[rpos + 1] = o
          /\ Reports' = Append(Reports, Reported(o))
      BY <3>1, Appended
    <3>3. Fate = "running" /\ UNCHANGED Fate
      BY <2>2 DEF Fate, InHand
    <3>4. rpos < Len(input) /\ rpos + 1 \in 1 .. Len(input)
      <4>1. rpos + 1 \in 1 .. Len(input)
        BY <2>2, EntryInHand DEF ReadInv
      <4> QED
        BY <1>2, <3>2, <4>1
    <3>5. o.how = "done" => o.path = input[rpos + 1].path /\ o.data = Content(input[rpos + 1])
      <4>1. (\A k \in 1 .. rpos : Told(k))'
        BY DEF ReadInv
      <4> PICK n : n = rpos + 1
        OBVIOUS
      <4>2. n \in 1 .. rpos' /\ rlog'[n] = o
        BY <3>2
      <4>3. (Told(n))'
        BY <4>1, <4>2
      <4> QED
        BY <4>2, <4>3, InputStays DEF Told
    <3>6. Reported(o) \in {Plan[rpos + 1], [path |-> <<>>, data |-> <<>>]}
      BY <1>2, <3>4, <3>5 DEF Reported, Planned
    <3> QED
      BY <1>1, <1>2, <3>2, <3>3, <3>4, <3>6
  <2>3. CASE ~REnded /\ rpc' \in {"ok", "failed"} /\ UNCHANGED rlog
    <3>1. Fate = "running" /\ Fate' = rpc'
      BY <2>3 DEF Fate, REnded
    <3>2. rpc' = "ok" => rpos = Len(input)
      <4>1. rpos' = rpos /\ input' = input
        BY <2>3, InputStays DEF rpos
      <4> QED
        BY <4>1 DEF ReadInv
    <3> QED
      BY <1>1, <1>2, <1>3, <2>3, <3>1, <3>2
  <2> QED
    BY <1>5, <2>1, <2>2, <2>3, ReaderShows
<1> QED
  BY <1>4, <1>5, OthersShowNothing DEF ReaderStep, ReaderError

(* For every plan, whatever was cut off or damaged and whoever failed or   *)
(* crashed: two sessions in a row do what an archive promises.  What is    *)
(* reported as done is the plan's entry, byte for byte and in its place;   *)
(* nothing is left out, and a session ends well only when all was handled. *)
THEOREM PromiseIsKept == Spec => KeepsPromise
<1>1. Init => Promise!TInit
  <2> SUFFICES ASSUME Init PROVE Promise!TInit
    OBVIOUS
  <2>1. rlog = <<>> /\ rpc = "idle" /\ Len(rlog) = 0
    BY DEF Init, RInit
  <2> QED
    BY <2>1 DEF Promise!TInit
<1>2. ReadInv /\ ReadInv' /\ [Next]_avars =>
        [Promise!Deliver \/ Promise!LeaveAlone \/ Promise!Succeed \/ Promise!Abandon]_(Promise!tvars)
  <2> SUFFICES ASSUME ReadInv, ReadInv', [Next]_avars
               PROVE  [Promise!Deliver \/ Promise!LeaveAlone \/ Promise!Succeed \/ Promise!Abandon]_(Promise!tvars)
    OBVIOUS
  <2> QED
    BY Refines DEF Promise!Deliver, Promise!LeaveAlone, Promise!Succeed, Promise!Abandon,
       Promise!Running, Promise!Unfinished, Promise!tvars, Fate, Reports, Reported, Plan
<1> QED
  BY <1>1, <1>2, ReadInit, ReadStep, PTL DEF Spec, KeepsPromise, Promise!TSpec

----------------------------------------------------------------------------
(* What the reader leaves in the output directory.  Busy: the file it has  *)
(* emptied and may not have finished.                                      *)
Busy(p) ==
  /\ mode = "extract" /\ p = rfn
  /\ rpc \in {"data", "failed"} \/ (rpc = "crc" /\ Reading.type = "file")

BusyDir(d) ==
  /\ mode = "extract" /\ d \in Ancestry(rfn)
  /\ rpc = "failed" \/ (rpc = "crc" /\ Reading.type # "file")

(* An entry that was reported as done is there. *)
IsThere(k) ==
  IF input[k].kind = "dir" THEN input[k].path \in dirs
    ELSE /\ input[k].path \in DOMAIN files
         /\ files[input[k].path] = Content(input[k]) \/ Busy(input[k].path)

(* Where a file and where a directory may come from. *)
FileFrom(p) ==
  \/ p \in DOMAIN before.files /\ files[p] = before.files[p]
  \/ \E k \in 1 .. rpos :
       input[k].kind = "file" /\ input[k].path = p /\ files[p] = Content(input[k])
  \/ Busy(p)

DirFrom(d) ==
  \/ d \in before.dirs
  \/ \E k \in 1 .. rpos : input[k].kind = "dir" /\ input[k].path = d
  \/ BusyDir(d)

DiskInv ==
  /\ mode = "extract" => \A k \in 1 .. rpos : rlog[k].how = "done" => IsThere(k)
  /\ \A p \in DOMAIN files : FileFrom(p)
  /\ \A d \in dirs : DirFrom(d)
  /\ DOMAIN before.files \subseteq DOMAIN files
  /\ mode = "extract" /\ rpc = "crc" /\ Reading.type # "file" => rfn \in dirs

LEMMA PrefixOf ==
  ASSUME NEW S, NEW s \in Seq(S), NEW n \in 0 .. Len(s)
  PROVE  /\ SubSeq(s, 1, n) \in Seq(S) /\ Len(SubSeq(s, 1, n)) = n
         /\ \A j \in 1 .. n : SubSeq(s, 1, n)[j] = s[j]
<1>1. \A j \in 1 .. n : s[j] \in S
  BY ElementOfSeq
<1> QED
  BY <1>1, SubSeqProperties

(* A plan has the directories above every directory, and has them first. *)
LEMMA PlanAncestors ==
  ASSUME NEW s \in Seq(Source), IsPlan(s), NEW i \in 1 .. Len(s), s[i].kind = "dir",
         NEW d \in Ancestry(s[i].path)
  PROVE  \E j \in 1 .. i : s[j].kind = "dir" /\ s[j].path = d
<1> DEFINE Above(m, b) == \E j \in 1 .. m : s[j].kind = "dir" /\ s[j].path = b
           Bad == {m \in 1 .. Len(s) : s[m].kind = "dir" /\
                                       \E b \in Ancestry(s[m].path) : ~Above(m, b)}
<1>1. Len(s) \in Nat /\ \A m \in 1 .. Len(s) : s[m].path \in Path \ {<<>>}
  <2>1. \A m \in 1 .. Len(s) : s[m] \in Source
    BY ElementOfSeq
  <2> QED
    BY <2>1 DEF Source
<1>2. SUFFICES Bad = {}
  OBVIOUS
<1>3. SUFFICES ASSUME Bad # {} PROVE FALSE
  OBVIOUS
<1>4. PICK m \in Bad : \A b \in Bad : m <= b
  <2>1. Bad \subseteq Nat
    BY <1>1
  <2> HIDE DEF Bad
  <2> QED
    BY <2>1, <1>3, LeastNat
<1>5. m \in 1 .. Len(s) /\ s[m].kind = "dir"
  OBVIOUS
<1>6. PICK b \in Ancestry(s[m].path) : ~Above(m, b)
  OBVIOUS
<1> DEFINE path == s[m].path
<1>7. path \in Seq(Name) /\ Len(path) \in Nat /\ path # <<>>
  BY <1>1, <1>5 DEF Path
<1> HIDE DEF path
<1>8. PICK k \in 1 .. Len(path) : b = SubSeq(path, 1, k)
  BY <1>6 DEF Ancestry, path
<1>9. k # Len(path)
  <2> SUFFICES ASSUME k = Len(path) PROVE FALSE
    OBVIOUS
  <2>1. b = path
    BY <1>7, <1>8, SubSeqFull
  <2>2. m \in 1 .. m
    BY <1>5
  <2> QED
    BY <1>5, <1>6, <2>1, <2>2 DEF path
<1>10. k \in 1 .. Len(path) - 1
  BY <1>7, <1>8, <1>9
<1>11. /\ Parent(path) \in Seq(Name) /\ Len(Parent(path)) = Len(path) - 1
       /\ SubSeq(Parent(path), 1, k) = b /\ Parent(path) # <<>>
  <2>1. Len(path) - 1 \in 0 .. Len(path)
    BY <1>7, <1>10
  <2>3. /\ Parent(path) \in Seq(Name) /\ Len(Parent(path)) = Len(path) - 1
        /\ \A j \in 1 .. Len(path) - 1 : Parent(path)[j] = path[j]
    BY <1>7, <2>1, PrefixOf DEF Parent
  <2>4. k \in 0 .. Len(path) /\ k \in 0 .. Len(Parent(path))
    BY <1>7, <1>10, <2>3
  <2>5. /\ SubSeq(Parent(path), 1, k) \in Seq(Name) /\ Len(SubSeq(Parent(path), 1, k)) = k
        /\ \A j \in 1 .. k : SubSeq(Parent(path), 1, k)[j] = path[j]
    BY <1>10, <2>3, <2>4, PrefixOf
  <2>6. /\ b \in Seq(Name) /\ Len(b) = k /\ \A j \in 1 .. k : b[j] = path[j]
    BY <1>7, <1>8, <2>4, PrefixOf
  <2>7. SubSeq(Parent(path), 1, k) = b
    <3>1. /\ SubSeq(Parent(path), 1, k) \in Seq(Name) /\ b \in Seq(Name)
          /\ Len(SubSeq(Parent(path), 1, k)) = Len(b)
          /\ \A j \in 1 .. Len(SubSeq(Parent(path), 1, k)) : SubSeq(Parent(path), 1, k)[j] = b[j]
      BY <2>5, <2>6
    <3> QED
      BY ONLY <3>1, SeqEqual
  <2>8. Parent(path) # <<>>
    BY <1>10, <2>3
  <2> QED
    BY <2>3, <2>7, <2>8
<1>12. PICK j \in 1 .. m - 1 : s[j].kind = "dir" /\ s[j].path = Parent(path)
  BY <1>5, <1>11 DEF IsPlan, path
<1>13. b \in Ancestry(s[j].path)
  BY <1>10, <1>11, <1>12 DEF Ancestry
<1>14. j \in 1 .. Len(s) /\ ~(m <= j) /\ \A h \in 1 .. j : h \in 1 .. m
  BY <1>1, <1>5, <1>12
<1>15. Above(j, b)
  <2>1. j \notin Bad
    <3> HIDE DEF Bad
    <3> QED
      BY <1>4, <1>14
  <2> QED
    BY <1>12, <1>13, <1>14, <2>1
<1> QED
  BY <1>6, <1>14, <1>15

LEMMA DiskFrame ==
  ASSUME DiskInv, UNCHANGED <<files, dirs, mode, before, input, rlog>>,
         \A p : Busy(p) => Busy(p)', \A d : BusyDir(d) => BusyDir(d)',
         mode = "extract" /\ rpc' = "crc" /\ Reading'.type # "file" => rfn' \in dirs
  PROVE  DiskInv'
<1>1. rpos' = rpos
  BY DEF rpos
<1>2. \A k : IsThere(k) => IsThere(k)'
  BY DEF IsThere
<1>3. \A p : FileFrom(p) => FileFrom(p)'
  BY <1>1 DEF FileFrom
<1>4. \A d : DirFrom(d) => DirFrom(d)'
  BY <1>1 DEF DirFrom
<1> QED
  BY <1>1, <1>2, <1>3, <1>4 DEF DiskInv

LEMMA NotBusy ==
  ASSUME rpc \notin {"data", "crc", "failed"}
  PROVE  /\ \A p : ~Busy(p)
         /\ \A d : ~BusyDir(d)
  BY DEF Busy, BusyDir

LEMMA DiskFails ==
  ASSUME DiskInv, UNCHANGED <<files, dirs, mode, before, input, rlog, rfn>>, rpc' = "failed"
  PROVE  DiskInv'
<1>1. \A p : Busy(p) => Busy(p)'
  BY DEF Busy
<1>2. \A d : BusyDir(d) => BusyDir(d)'
  BY DEF BusyDir
<1> QED
  BY <1>1, <1>2, DiskFrame

LEMMA DiskOpenOutput ==
  ASSUME ReadInv, DiskInv, UNCHANGED <<before, input>>, OpenOutput
  PROVE  DiskInv'
<1>1. /\ rpc = "ask" /\ UNCHANGED <<mode, rfn, dirs, rlog>>
      /\ \/ rpc' = "failed" /\ UNCHANGED files
         \/ rpc' = "data" /\ files' = Opened(rfn)
  BY DEF OpenOutput
<1> SUFFICES ASSUME rpc' = "data", files' = Opened(rfn) PROVE DiskInv'
  BY <1>1, DiskFails
<1>2. mode = "extract" /\ rpos' = rpos
  BY <1>1 DEF ReadInv, InHand, Summing, rpos
<1>3. /\ DOMAIN files' = DOMAIN files \union {rfn}
      /\ \A p \in DOMAIN files : p # rfn => files'[p] = files[p]
  BY DEF Opened
<1>4. /\ \A p : ~Busy(p) /\ (Busy(p)' <=> p = rfn)
      /\ \A d : ~BusyDir(d)
  BY <1>1, <1>2 DEF Busy, BusyDir
<1>5. \A k : IsThere(k) => IsThere(k)'
  <2> SUFFICES ASSUME NEW k, IsThere(k) PROVE IsThere(k)'
    OBVIOUS
  <2> QED
    BY <1>1, <1>3, <1>4 DEF IsThere
<1>6. ASSUME NEW p \in DOMAIN files' PROVE FileFrom(p)'
  <2>1. CASE p = rfn
    BY <1>4, <2>1 DEF FileFrom
  <2>2. CASE p # rfn
    <3>1. p \in DOMAIN files /\ files'[p] = files[p] /\ FileFrom(p)
      BY <1>3, <2>2 DEF DiskInv
    <3> QED
      BY <1>2, <1>4, <3>1 DEF FileFrom
  <2> QED
    BY <2>1, <2>2
<1>7. \A d : DirFrom(d) => DirFrom(d)'
  BY <1>2, <1>4 DEF DirFrom
<1>8. DOMAIN before'.files \subseteq DOMAIN files'
  BY <1>3 DEF DiskInv
<1> QED
  BY <1>1, <1>2, <1>5, <1>6, <1>7, <1>8 DEF DiskInv

LEMMA DiskTake ==
  ASSUME ReadInv, DiskInv, UNCHANGED <<before, input>>, rpc = "data", NEW u, NEW w, Take(u, w)
  PROVE  DiskInv'
<1>1. UNCHANGED <<mode, rpc, rfn, dirs, rlog>>
  BY DEF Take
<1>2. /\ \A p : Busy(p) <=> Busy(p)'
      /\ \A d : BusyDir(d) <=> BusyDir(d)'
  BY <1>1 DEF Busy, BusyDir
<1>3. CASE mode # "extract"
  <2>1. files' = files
    BY <1>3 DEF Take
  <2> QED
    BY <1>1, <1>2, <1>3, <2>1, DiskFrame
<1>4. CASE mode = "extract"
  <2>1. rpos' = rpos /\ files' = [files EXCEPT ![rfn] = Append(@, w)]
    BY <1>1, <1>4 DEF Take, rpos
  <2>2. /\ DOMAIN files' = DOMAIN files
        /\ \A p \in DOMAIN files : p # rfn => files'[p] = files[p]
    BY <2>1
  <2>3. Busy(rfn) /\ Busy(rfn)'
    BY <1>1, <1>4 DEF Busy
  <2>4. \A k : IsThere(k) => IsThere(k)'
    <3> SUFFICES ASSUME NEW k, IsThere(k) PROVE IsThere(k)'
      OBVIOUS
    <3> QED
      BY <1>1, <1>2, <2>2, <2>3 DEF IsThere
  <2>5. ASSUME NEW p \in DOMAIN files' PROVE FileFrom(p)'
    <3>1. CASE p = rfn
      <4>1. Busy(p)'
        BY <1>1, <1>4, <3>1 DEF Busy
      <4> QED
        BY <4>1 DEF FileFrom
    <3>2. CASE p # rfn
      <4>1. p \in DOMAIN files /\ files'[p] = files[p] /\ FileFrom(p)
        BY <2>2, <3>2 DEF DiskInv
      <4> QED
        BY <1>2, <2>1, <4>1 DEF FileFrom
    <3> QED
      BY <3>1, <3>2
  <2>6. \A d : DirFrom(d) => DirFrom(d)'
    BY <1>2, <2>1 DEF DirFrom
  <2> QED
    BY <1>1, <2>1, <2>2, <2>4, <2>5, <2>6 DEF DiskInv
<1> QED
  BY <1>3, <1>4

LEMMA DiskMakeDir ==
  ASSUME ReadInv, DiskInv, UNCHANGED <<before, arc, input>>, MakeDir, ~Refuse
  PROVE  DiskInv'
<1>1. /\ rpc = "mkdir" /\ rpc' = "crc" /\ dirs' = dirs \union Ancestry(rfn)
      /\ UNCHANGED <<mode, rfn, files, rlog>>
  BY DEF MakeDir
<1>2. rpos' = rpos /\ Reading' = Reading /\ InHand
  BY <1>1 DEF rpos, Reading, InHand
<1>3. mode = "extract" /\ Reading.type # "file" /\ rfn # <<>> /\ rfn \in Path
  <2>1. Summing /\ SealInv
    BY <1>2 DEF ReadInv
  <2>2. ReaderFacts
    BY <2>1 DEF SealInv, RestoreInv, TypeInv
  <2>3. mode = "extract" /\ Reading.type # "file" /\ rfn # <<>>
    BY <1>1, <2>1, <2>2 DEF Summing, ReaderFacts
  <2>4. rfn \in Path
    BY <1>2, <2>1, EntryInHand
  <2> QED
    BY <2>3, <2>4
<1>4. rfn \in Ancestry(rfn)
  <2>1. rfn \in Seq(Name) /\ Len(rfn) \in 1 .. Len(rfn)
    BY <1>3, EmptySeq DEF Path
  <2>2. SubSeq(rfn, 1, Len(rfn)) = rfn
    BY <2>1, SubSeqFull
  <2> QED
    BY <2>1, <2>2 DEF Ancestry
<1>5. /\ \A p : ~Busy(p) /\ \A d : ~BusyDir(d)
      /\ \A d \in Ancestry(rfn) : BusyDir(d)'
  BY <1>1, <1>2, <1>3, NotBusy DEF BusyDir
<1>6. \A k : IsThere(k) => IsThere(k)'
  <2> SUFFICES ASSUME NEW k, IsThere(k) PROVE IsThere(k)'
    OBVIOUS
  <2> QED
    BY <1>1, <1>5 DEF IsThere
<1>7. \A p : FileFrom(p) => FileFrom(p)'
  BY <1>1, <1>2, <1>5 DEF FileFrom
<1>8. ASSUME NEW d \in dirs' PROVE DirFrom(d)'
  <2>1. CASE d \in Ancestry(rfn)
    BY <1>5, <2>1 DEF DirFrom
  <2>2. CASE d \in dirs
    <3>1. DirFrom(d)
      BY <2>2 DEF DiskInv
    <3> QED
      BY <1>2, <1>5, <3>1 DEF DirFrom
  <2> QED
    BY <1>1, <2>1, <2>2
<1> QED
  BY <1>1, <1>2, <1>4, <1>6, <1>7, <1>8 DEF DiskInv

(* An entry is reported. *)
LEMMA DiskReports ==
  ASSUME ReadInv, DiskInv, UNCHANGED <<files, dirs, mode, before, input, rfn>>, rpc' = "entry",
         NEW o, rlog' = Append(rlog, o),
         mode = "extract" =>
           /\ \A p \in DOMAIN files : Busy(p) =>
                /\ input[rpos + 1].kind = "file" /\ input[rpos + 1].path = p
                /\ files[p] = Content(input[rpos + 1])
           /\ \A d \in dirs : BusyDir(d) =>
                \E k \in 1 .. rpos + 1 : input[k].kind = "dir" /\ input[k].path = d
           /\ o.how = "done" =>
                IF input[rpos + 1].kind = "dir" THEN input[rpos + 1].path \in dirs
                  ELSE /\ input[rpos + 1].path \in DOMAIN files
                       /\ files[input[rpos + 1].path] = Content(input[rpos + 1]),
         \A k \in 1 .. rpos : input[k].path # input[rpos + 1].path
  PROVE  DiskInv'
<1>1. /\ rpos' = rpos + 1 /\ rpos \in Nat /\ rlog'[rpos + 1] = o
      /\ \A k \in 1 .. rpos : rlog'[k] = rlog[k]
  <2>1. rlog \in Seq(Outcome) /\ Len(rlog) \in Nat
    BY DEF ReadInv, SealInv, RestoreInv, TypeInv, ATypeOK, RTypeOK
  <2> QED
    BY <2>1 DEF rpos
<1>2. \A k \in 1 .. rpos : k \in 1 .. rpos + 1
  BY <1>1
<1>3. rpos + 1 \in 1 .. rpos + 1
  BY <1>1
<1>4. ASSUME mode = "extract", NEW k \in 1 .. rpos + 1, rlog'[k].how = "done"
      PROVE  IsThere(k)'
  <2>1. CASE k = rpos + 1
    <3> PICK n : n = rpos + 1
      OBVIOUS
    <3>1. /\ o.how = "done"
          /\ IF input[n].kind = "dir" THEN input[n].path \in dirs
               ELSE input[n].path \in DOMAIN files /\ files[input[n].path] = Content(input[n])
      BY <1>1, <1>4, <2>1
    <3>2. (IsThere(n))'
      BY <3>1 DEF IsThere
    <3> QED
      BY <2>1, <3>2
  <2>2. CASE k # rpos + 1
    <3>1. k \in 1 .. rpos /\ IsThere(k)
      <4>1. k \in 1 .. rpos
        BY <1>1, <2>2
      <4> QED
        BY <1>1, <1>4, <4>1 DEF DiskInv
    <3>2. ~(input[k].kind = "dir") /\ input[k].path \in DOMAIN files => ~Busy(input[k].path)
      BY <1>4, <3>1
    <3> QED
      BY <3>1, <3>2 DEF IsThere
  <2> QED
    BY <2>1, <2>2
<1>5. ASSUME NEW p \in DOMAIN files PROVE FileFrom(p)'
  <2>1. FileFrom(p)
    BY DEF DiskInv
  <2>2. CASE Busy(p)
    <3> PICK n : n = rpos + 1
      OBVIOUS
    <3>1. /\ input[n].kind = "file" /\ input[n].path = p /\ files[p] = Content(input[n])
          /\ n \in 1 .. rpos'
      BY <1>1, <1>3, <2>2 DEF Busy
    <3> QED
      BY <3>1 DEF FileFrom
  <2>3. CASE ~Busy(p)
    BY <1>1, <1>2, <2>1, <2>3 DEF FileFrom
  <2> QED
    BY <2>2, <2>3
<1>6. ASSUME NEW d \in dirs PROVE DirFrom(d)'
  <2>1. DirFrom(d)
    BY DEF DiskInv
  <2>2. d \in before.dirs \/ \E k \in 1 .. rpos + 1 : input[k].kind = "dir" /\ input[k].path = d
    BY <1>2, <2>1 DEF DirFrom, BusyDir
  <2> QED
    BY <1>1, <2>2 DEF DirFrom
<1>7. mode = "extract" => \A k \in 1 .. rpos' : rlog'[k].how = "done" => IsThere(k)'
  BY <1>1, <1>4
<1> QED
  BY <1>5, <1>6, <1>7 DEF DiskInv

(* No path is in the plan twice. *)
LEMMA NewPath ==
  ASSUME SealInv, InHand, NEW k \in 1 .. rpos
  PROVE  input[k].path # input[rpos + 1].path
<1>1. k \in 1 .. Len(input) /\ rpos + 1 \in 1 .. Len(input) /\ k # rpos + 1
  BY EntryInHand
<1> QED
  BY <1>1 DEF SealInv, RestoreInv, IsPlan

LEMMA DiskKeepFile ==
  ASSUME ReadInv, DiskInv, UNCHANGED <<before, input>>, KeepFile
  PROVE  DiskInv'
<1> DEFINE o == [how |-> "kept", path |-> rfn, data |-> <<>>]
<1>1. /\ rpc = "ask" /\ rpc' = "entry" /\ rlog' = Append(rlog, o)
      /\ UNCHANGED <<mode, rfn, files, dirs>>
  BY DEF KeepFile
<1>2. o.how = "kept"
  OBVIOUS
<1> HIDE DEF o
<1>3. \A k \in 1 .. rpos : input[k].path # input[rpos + 1].path
  BY <1>1, NewPath DEF ReadInv, InHand
<1> QED
  BY <1>1, <1>2, <1>3, NotBusy, DiskReports

LEMMA DiskCheckCrc ==
  ASSUME ReadInv, DiskInv, UNCHANGED <<before, input>>, CheckCrc, ~Refuse
  PROVE  DiskInv'
<1> DEFINE x == input[rpos + 1]
           o == [how  |-> IF mode = "list" THEN "listed" ELSE "done",
                 path |-> rfn,
                 data |-> IF mode = "extract" /\ Reading.type = "file"
                            THEN files[rfn] ELSE DecodedAll(rcrc.data)]
<1>1. /\ rpc = "crc" /\ CrcAccepted /\ rpc' = "entry" /\ rlog' = Append(rlog, o)
      /\ UNCHANGED <<mode, rfn, files, dirs>>
  BY DEF CheckCrc
<1> HIDE DEF o
<1>2. InHand /\ SealInv
  BY <1>1 DEF InHand, ReadInv
<1>3. Summing /\ Writes
  BY <1>2 DEF ReadInv
<1>4. \A k \in 1 .. rpos : input[k].path # input[rpos + 1].path
  BY <1>2, NewPath
<1>5. ASSUME mode = "extract"
      PROVE  /\ \A p \in DOMAIN files : Busy(p) =>
                  x.kind = "file" /\ x.path = p /\ files[p] = Content(x)
             /\ \A d \in dirs : BusyDir(d) =>
                  \E k \in 1 .. rpos + 1 : input[k].kind = "dir" /\ input[k].path = d
             /\ IF x.kind = "dir" THEN x.path \in dirs
                  ELSE x.path \in DOMAIN files /\ files[x.path] = Content(x)
  <2>1. Reading.crc = rcrc /\ Reading.crc # NoCrc
    BY <1>1, <1>5 DEF CrcAccepted
  <2>2. rfn = x.path
    BY <1>1, <1>2, <1>3, <2>1, AcceptedIsPlanned
  <2>3. Reading.type = "file" => files[rfn] = Content(x) /\ rfn \in DOMAIN files
    BY <1>1, <1>2, <1>3, <1>5, <2>1, ReportIsPlanned DEF Writes
  <2>4. /\ Reading.type = "file" <=> x.kind = "file"
        /\ x.kind \in {"file", "dir"} /\ rpos \in Nat /\ rpos + 1 \in 1 .. Len(input)
    BY <1>2, EntryInHand DEF Kept, Source
  <2>5. \A p \in DOMAIN files : Busy(p) =>
          x.kind = "file" /\ x.path = p /\ files[p] = Content(x)
    BY <1>1, <2>2, <2>3, <2>4 DEF Busy
  <2>6. ASSUME NEW d, BusyDir(d)
        PROVE  \E k \in 1 .. rpos + 1 : input[k].kind = "dir" /\ input[k].path = d
    <3>1. x.kind = "dir" /\ d \in Ancestry(x.path)
      BY <1>1, <2>2, <2>4, <2>6 DEF BusyDir
    <3>2. input \in Seq(Source) /\ IsPlan(input)
      BY DEF ReadInv, SealInv, RestoreInv, TypeInv, ATypeOK, WTypeOK
    <3> QED
      BY <2>4, <3>1, <3>2, PlanAncestors
  <2>7. x.kind = "dir" => x.path \in dirs
    BY <1>1, <1>5, <2>2, <2>4 DEF DiskInv
  <2> QED
    BY <2>2, <2>3, <2>4, <2>5, <2>6, <2>7
<1> QED
  BY <1>1, <1>4, <1>5, DiskReports

LEMMA DiskReader ==
  ASSUME ReadInv, DiskInv, UNCHANGED <<before, arc, wvars>>, RStep \/ RIoError
  PROVE  DiskInv'
<1>1. UNCHANGED <<before, arc, input>>
  BY DEF wvars
<1>2. CASE Refuse \/ RIoError \/ MissingData
  BY <1>1, <1>2, DiskFails DEF Refuse, RIoError, MissingData
<1>3. CASE CloseInput \/ (ReadHeader /\ ~Refuse)
  <2>1. /\ rpc \in {"entry", "idle"} /\ rpc' \in {"ok", "entry"}
        /\ UNCHANGED <<mode, files, dirs, rlog>>
    BY <1>3 DEF CloseInput, ReadHeader
  <2> QED
    BY <1>1, <2>1, NotBusy, DiskFrame
<1>4. CASE ReadMetaEntry /\ ~Refuse
  <2>1. rpc = "entry" /\ UNCHANGED <<mode, files, dirs, rlog>>
    BY <1>4 DEF ReadMetaEntry
  <2>2. rpc' = "crc" => mode # "extract"
    BY <1>4 DEF ReadMetaEntry
  <2> QED
    BY <1>1, <2>1, <2>2, NotBusy, DiskFrame
<1>5. CASE DataEnd /\ ~Refuse
  <2>1. rpc = "data" /\ rpc' = "crc" /\ UNCHANGED <<mode, rfn, files, dirs, rlog>>
    BY <1>5 DEF DataEnd
  <2>2. Reading' = Reading /\ Reading.type = "file"
    BY <1>1, <2>1 DEF Reading, rpos, ReadInv, SealInv, RestoreInv, TypeInv, ReaderFacts
  <2>3. \A p : Busy(p) => Busy(p)'
    BY <2>1, <2>2 DEF Busy
  <2>4. \A d : ~BusyDir(d)
    BY <2>1 DEF BusyDir
  <2> QED
    BY <1>1, <2>1, <2>2, <2>3, <2>4, DiskFrame
<1>6. CASE CopyStored \/ (Decompress /\ ~Refuse)
  <2>1. rpc = "data" /\ \E u, w : Take(u, w)
    BY <1>6 DEF CopyStored, Decompress
  <2> QED
    BY <1>1, <2>1, DiskTake
<1> QED
  BY <1>1, <1>2, <1>3, <1>4, <1>5, <1>6, DiskKeepFile, DiskOpenOutput, DiskMakeDir, DiskCheckCrc
     DEF RStep

LEMMA DiskInit == Init => DiskInv
<1> SUFFICES ASSUME Init PROVE DiskInv
  OBVIOUS
<1>1. rlog = <<>> /\ rpc = "idle" /\ rpos = 0 /\ before.files = files /\ before.dirs = dirs
  BY DEF Init, RInit, rpos
<1> QED
  BY <1>1 DEF DiskInv, FileFrom, DirFrom

LEMMA DiskStep == ReadInv /\ DiskInv /\ [Next]_avars => DiskInv'
<1> SUFFICES ASSUME ReadInv, DiskInv, [Next]_avars PROVE DiskInv'
  OBVIOUS
<1>1. CASE ReaderStep \/ ReaderError
  BY <1>1, DiskReader DEF ReaderStep, ReaderError
<1>2. CASE ~(ReaderStep \/ ReaderError)
  <2>1. UNCHANGED rvars /\ UNCHANGED input /\ UNCHANGED before
    BY <1>2, OthersShowNothing, InputStays
       DEF Next, WriterStep, WriterError, Crash, Cut, Damage, Over, avars
  <2>2. UNCHANGED arc \/ rpc = "idle"
    <3>1. CASE WriterStep \/ WriterError \/ Crash
      <4>1. ~WEnded
        <5>1. CASE WriterStep \/ WriterError
          BY <5>1, TypeWriter DEF ReadInv, SealInv, RestoreInv, WriterStep, WriterError
        <5> QED
          BY <3>1, <5>1 DEF Crash
      <4> QED
        BY <4>1 DEF ReadInv, SealInv, RestoreInv, TypeInv, ReaderFacts
    <3> QED
      BY <1>2, <3>1 DEF Next, Cut, Damage, AtRest, Over, avars
  <2>3. /\ UNCHANGED <<files, dirs, mode, rlog, rfn, rpc>>
        /\ rpc # "idle" => Reading' = Reading
    BY <2>1, <2>2 DEF rvars, Reading, rpos
  <2>4. /\ \A p : Busy(p) => Busy(p)'
        /\ \A d : BusyDir(d) => BusyDir(d)'
    BY <2>3 DEF Busy, BusyDir
  <2>5. mode = "extract" /\ rpc' = "crc" /\ Reading'.type # "file" => rfn' \in dirs
    BY <2>3 DEF DiskInv
  <2> QED
    BY <2>1, <2>3, <2>4, <2>5, DiskFrame
<1> QED
  BY <1>1, <1>2

(* For every plan, every output directory and whatever happened to the     *)
(* archive file: at any moment at most one file is neither what it was     *)
(* before nor the complete file of the plan, and it is the one the reader  *)
(* is, or was when it failed, busy with; no file is taken away.            *)
THEOREM OnlyOneIsPartial == Spec => []AtMostOnePartial
<1>1. DiskInv => AtMostOnePartial
  BY DEF DiskInv, FileFrom, DirFrom, Busy, BusyDir, AtMostOnePartial
<1> QED
  BY <1>1, ReadInit, ReadStep, DiskInit, DiskStep, PTL DEF Spec

(* For every plan and whatever happened to the archive file: exit status 0 *)
(* means all of the plan, on the disk after an extraction, and after a     *)
(* test an archive file that nothing has happened to.                      *)
THEOREM SuccessMeansAll == Spec => []SuccessIsComplete
<1>1. ReadInv /\ DiskInv => SuccessIsComplete
  <2> SUFFICES ASSUME ReadInv, DiskInv, rpc = "ok"
               PROVE  /\ Len(rlog) = Len(input)
                      /\ mode = "extract" =>
                           \A k \in 1 .. Len(input) : rlog[k].how = "done" =>
                             IF input[k].kind = "dir" THEN input[k].path \in dirs
                               ELSE /\ input[k].path \in DOMAIN files
                                    /\ files[input[k].path] = Content(input[k])
                      /\ mode = "test" => faults = {}
    BY DEF SuccessIsComplete
  <2>1. rpos = Len(input) /\ hdr = Len(input) /\ rpos <= Len(arc) /\ SealInv /\ "io" \notin faults
    BY DEF ReadInv
  <2>2. \A p : ~Busy(p)
    BY NotBusy
  <2>3. mode = "extract" =>
          \A k \in 1 .. Len(input) : rlog[k].how = "done" =>
            IF input[k].kind = "dir" THEN input[k].path \in dirs
              ELSE input[k].path \in DOMAIN files /\ files[input[k].path] = Content(input[k])
    BY <2>1, <2>2 DEF DiskInv, IsThere
  <2>4. ASSUME mode = "test" PROVE faults = {}
    <3>1. Len(input) \in Nat /\ Len(arc) \in Nat /\ Len(arc) <= Len(input)
      BY <2>1 DEF SealInv, RestoreInv, TypeInv, ATypeOK, WTypeOK, FormatTypeOK
    <3>2. \A k \in 1 .. Len(arc) : ~Spoiled(arc[k], input[k])
      BY <2>1, <2>4, <3>1 DEF ReadInv, Told
    <3>3. hdr # NoHeader
      BY <2>1, <3>1, MarkersAssumption
    <3>4. Unharmed
      BY <2>1, <3>1, <3>2, <3>3 DEF SealInv, Tainted
    <3>5. faults \subseteq {"cut", "damage", "io"}
      BY <2>1 DEF SealInv, RestoreInv, TypeInv, ATypeOK
    <3> QED
      BY <2>1, <3>4, <3>5 DEF Unharmed
  <2> QED
    BY <2>1, <2>3, <2>4 DEF rpos
<1> QED
  BY <1>1, ReadInit, ReadStep, DiskInit, DiskStep, PTL DEF Spec

----------------------------------------------------------------------------
(* An archive that is complete and untouched. *)
Untouched == wpc = "done" /\ faults = {}

Excuse ==
  LET x == input[rpos + 1]
  IN  \/ mode = "extract" /\ Obstructed(x)
      \/ \E k \in 1 .. Len(x.chunks) : x.chunks[k] \in Oversized

LEMMA UntouchedArchive ==
  ASSUME SealInv, Untouched
  PROVE  /\ hdr = Len(input) /\ Len(arc) = Len(input) /\ Len(input) \in Nat
         /\ \A k \in 1 .. Len(arc) : Sealed(arc[k], input[k])
<1>1. Unharmed
  BY DEF Untouched, Unharmed
<1>2. Len(input) \in Nat
  BY DEF SealInv, RestoreInv, TypeInv, ATypeOK, WTypeOK
<1> QED
  BY <1>1, <1>2 DEF SealInv, Untouched

LEMMA UntouchedEntry ==
  ASSUME SealInv, Untouched, InHand
  PROVE  Sealed(Reading, input[rpos + 1]) /\ rfn = input[rpos + 1].path
<1>1. Sealed(Reading, input[rpos + 1])
  BY UntouchedArchive, EntryInHand DEF Reading
<1>2. Intact
  BY DEF SealInv, RestoreInv, Untouched
<1> QED
  BY <1>1, <1>2 DEF Intact, RSession, InHand

(* Its header is read, and every entry finds its place. *)
LEMMA HeaderIsRead ==
  ASSUME ReadInv, Untouched, ReadHeader
  PROVE  rpc' # "failed"
<1>1. hdr \in Nat
  BY UntouchedArchive DEF ReadInv
<1> QED
  BY <1>1, MarkersAssumption DEF ReadHeader

LEMMA EntryIsRead ==
  ASSUME ReadInv, Untouched, ReadMetaEntry
  PROVE  rpc' # "failed"
<1>1. /\ SealInv /\ rpc = "entry" /\ rpos # rnum
      /\ rnum = Len(input) /\ rpos <= Len(arc) /\ rpos \in Nat
  BY DEF ReadMetaEntry, AllRead, ReadInv, SealInv, RestoreInv, TypeInv, ATypeOK, RTypeOK, rpos
<1>2. rpos < Len(arc) /\ rpos + 1 \in 1 .. Len(arc) /\ Len(arc) \in Nat
  BY <1>1, UntouchedArchive
<1>3. Sealed(Reading, input[rpos + 1])
  BY <1>1, <1>2, UntouchedArchive DEF Reading
<1>4. Reading.num # Unwritten
  BY <1>3, MarkersAssumption DEF Sealed
<1>5. RestoreInv /\ Intact
  BY <1>1 DEF SealInv, RestoreInv, Untouched
<1>6. PICK c : Numbered(arc, input, wtree, c) /\ RSession(c)
  BY <1>5 DEF Intact
<1> DEFINE m == c[rpos + 1]
           placed == Placed(Reading)
<1>7. m \in 0 .. Len(wtree) /\ placed = Found(SubSeq(wtree, 1, m), m)
  BY <1>1, <1>2, <1>4, <1>5, <1>6, PlacedAlike
<1> HIDE DEF m
<1>8. placed.node # NoNode
  BY <1>7 DEF Found, NoNode
<1> HIDE DEF placed
<1>9. ~(rpos >= Len(arc) \/ (rpos < Len(arc) /\ Reading.num = Unwritten))
  BY <1>1, <1>2, <1>4
<1>10. rpc' \in {"ask", "data", "mkdir", "crc"}
  BY <1>8, <1>9 DEF ReadMetaEntry, placed
<1> QED
  BY <1>10

(* The directory of a file is there when its turn comes: it is in the plan *)
(* before it, and directories are not skipped.                             *)
LEMMA OutputOpens ==
  ASSUME ReadInv, DiskInv, Untouched, UNCHANGED input, OpenOutput, rpc' = "failed"
  PROVE  Excuse'
<1> DEFINE x == input[rpos + 1]
<1>1. rpc = "ask" /\ UNCHANGED <<mode, dirs, files, rlog>> /\ ~(InDirectory(rfn) /\ rfn \notin dirs)
  BY DEF OpenOutput
<1>2. InHand /\ SealInv /\ mode = "extract" /\ Reading.type = "file"
  BY <1>1 DEF InHand, ReadInv, Summing, SealInv, RestoreInv, TypeInv, ReaderFacts
<1>3. /\ rfn = x.path /\ x.kind = "file" /\ x.path \in Seq(Name) /\ x.path # <<>>
      /\ rpos \in Nat /\ rpos + 1 \in 1 .. Len(input)
  BY <1>2, UntouchedEntry, EntryInHand DEF Kept, Path
<1> HIDE DEF x
<1>4. InDirectory(rfn)
  <2>1. PICK j \in 0 .. (rpos + 1) - 1 :
          /\ Parent(x.path) = IF j = 0 THEN <<>> ELSE input[j].path
          /\ j > 0 => input[j].kind = "dir"
    BY <1>2, <1>3 DEF SealInv, RestoreInv, IsPlan, x
  <2>2. CASE j = 0
    <3>1. Len(x.path) \in Nat \ {0}
      BY <1>3, EmptySeq
    <3>2. Len(x.path) - 1 = 0
      <4>1. Len(x.path) - 1 \in 0 .. Len(x.path)
        BY <3>1
      <4>2. Len(Parent(x.path)) = Len(x.path) - 1
        BY <1>3, <4>1, PrefixOf DEF Parent
      <4>3. Parent(x.path) = <<>>
        BY <2>1, <2>2
      <4> QED
        BY <4>2, <4>3
    <3> QED
      BY <1>3, <3>1, <3>2 DEF InDirectory
  <2>3. CASE j # 0
    <3>1. j \in 1 .. rpos /\ input[j].kind = "dir" /\ Parent(x.path) = input[j].path
      BY <1>3, <2>1, <2>3
    <3>2. rlog[j].how = "done"
      BY <1>2, <3>1 DEF ReadInv, Told
    <3>3. input[j].path \in dirs
      BY <1>2, <3>1, <3>2 DEF DiskInv, IsThere
    <3> QED
      BY <1>3, <3>1, <3>3 DEF InDirectory, Parent
  <2> QED
    BY <2>2, <2>3
<1>5. x.path \in dirs
  BY <1>1, <1>3, <1>4
<1>6. rpos' = rpos
  BY <1>1 DEF rpos
<1> QED
  BY <1>1, <1>2, <1>3, <1>5, <1>6 DEF Excuse, Obstructed, x

(* No obstacle in the payload but an oversized chunk. *)
LEMMA PayloadInHand ==
  ASSUME ReadInv, Untouched, InHand
  PROVE  LET x == input[rpos + 1]
         IN  /\ Reading.data = Payload(x, Reading.comp) /\ Len(Reading.data) = Len(x.chunks)
             /\ Reading.data \in Seq(Unit) /\ x \in Source /\ Len(x.chunks) \in Nat
             /\ rcnt \in Nat /\ rpos \in Nat /\ rfn = x.path
             /\ Reading.num \in Nat /\ SealInv /\ Summing
             /\ Sealed(Reading, x) /\ Reading \in Entry
<1> DEFINE x == input[rpos + 1]
<1>1. SealInv /\ Summing
  BY DEF ReadInv
<1>2. /\ Reading \in Entry /\ Reading.data \in Seq(Unit) /\ x \in Source
      /\ rcnt \in Nat /\ rpos \in Nat
  BY <1>1, EntryInHand
<1>3. Sealed(Reading, x) /\ rfn = x.path
  BY <1>1, UntouchedEntry
<1> HIDE DEF x
<1>4. Reading.data = Payload(x, Reading.comp) /\ Reading.num \in Nat
  BY <1>3 DEF Sealed
<1>5. Len(Payload(x, Reading.comp)) = Len(x.chunks)
  BY <1>2, SealedContent
<1>6. Len(x.chunks) \in Nat
  BY <1>2 DEF Source
<1> QED
  BY <1>1, <1>2, <1>3, <1>4, <1>5, <1>6 DEF x

LEMMA ChunkDecodes ==
  ASSUME ReadInv, Untouched, UNCHANGED input, Decompress, rpc' = "failed"
  PROVE  Excuse'
<1> DEFINE x == input[rpos + 1]
           unit == Reading.data[rcnt + 1]
<1>1. rpc = "data" /\ Reading.comp = "compressed" /\ rcnt < Len(Reading.data) /\ Refuse
  BY DEF Decompress, Take, Left
<1>2. ~Decodable(unit) \/ unit.chunk \in Oversized
  BY <1>1 DEF Decompress, Take, Refuse
<1>3. InHand
  BY <1>1 DEF InHand
<1>4. /\ Reading.data = Payload(x, "compressed") /\ Len(Reading.data) = Len(x.chunks)
      /\ x \in Source /\ Len(x.chunks) \in Nat /\ rcnt \in Nat
  BY <1>1, <1>3, PayloadInHand
<1> HIDE DEF x
<1>5. rcnt + 1 \in 1 .. Len(x.chunks)
  BY <1>1, <1>4
<1>6. unit = Enc(x.chunks[rcnt + 1])
  BY <1>4, <1>5 DEF Payload, EncUnits
<1>7. Decodable(unit) /\ unit.chunk = x.chunks[rcnt + 1]
  BY <1>6 DEF Enc, Decodable
<1>8. x.chunks[rcnt + 1] \in Oversized
  BY <1>2, <1>7
<1>9. rpos' = rpos
  BY <1>1 DEF Refuse, rpos
<1> QED
  BY <1>5, <1>8, <1>9 DEF Excuse, x

LEMMA DataIsThere ==
  ASSUME ReadInv, Untouched
  PROVE  ~MissingData
<1> SUFFICES ASSUME MissingData PROVE FALSE
  OBVIOUS
<1>1. rpc = "data" /\ TotalBytes(Reading.data) < Reading.num
  BY DEF MissingData, Truncated
<1>2. InHand /\ Reading.type = "file"
  BY <1>1 DEF InHand, ReadInv, SealInv, RestoreInv, TypeInv, ReaderFacts
<1>3. Reading.num = TotalBytes(Reading.data) /\ Reading.num \in Nat
  BY <1>2, PayloadInHand DEF Sealed
<1> QED
  BY <1>1, <1>3

LEMMA DataEnds ==
  ASSUME ReadInv, Untouched, DataEnd
  PROVE  rpc' # "failed"
<1> DEFINE x == input[rpos + 1]
<1>1. rpc = "data"
  BY DEF DataEnd
<1>2. InHand
  BY <1>1 DEF InHand
<1>3. /\ Reading.data = Payload(x, Reading.comp) /\ x \in Source /\ Reading.num \in Nat
      /\ Sealed(Reading, x)
  BY <1>2, PayloadInHand
<1> HIDE DEF x
<1>4. ASSUME Reading.comp = "compressed" PROVE ~(DecodedSize <= Reading.num)
  <2>1. Reading.num < TotalBytes(Content(x))
    BY <1>3, <1>4 DEF Sealed
  <2>2. DecodedAll(Reading.data) = Content(x)
    BY <1>3, SealedContent DEF DecodedAll
  <2>3. DecodedSize = TotalBytes(Content(x))
    BY <2>2 DEF DecodedSize
  <2>4. TotalBytes(Content(x)) \in Nat
    <3>1. Content(x) \in Seq(Unit)
      BY <1>3, SealedContent
    <3> QED
      BY <3>1, TotalBytesType
  <2> QED
    BY <1>3, <2>1, <2>3, <2>4
<1>5. rpc' = "crc"
  BY <1>4 DEF DataEnd
<1> QED
  BY <1>5

LEMMA DirIsMade ==
  ASSUME ReadInv, Untouched, UNCHANGED input, MakeDir, rpc' = "failed"
  PROVE  Excuse'
<1> DEFINE x == input[rpos + 1]
<1>1. rpc = "mkdir" /\ Refuse /\ Ancestry(rfn) \cap DOMAIN files # {}
  BY DEF MakeDir
<1>2. InHand
  BY <1>1 DEF InHand
<1>3. Reading.type # "file" /\ mode = "extract"
  BY <1>1, <1>2 DEF ReadInv, Summing, SealInv, RestoreInv, TypeInv, ReaderFacts
<1>4. rfn = x.path /\ Sealed(Reading, x)
  BY <1>2, PayloadInHand
<1> HIDE DEF x
<1>5. x.kind # "file"
  BY <1>3, <1>4 DEF Sealed
<1>6. Obstructed(x)
  BY <1>1, <1>4, <1>5 DEF Obstructed
<1>7. /\ rpos' = rpos /\ files' = files /\ dirs' = dirs /\ mode' = mode
  BY <1>1 DEF Refuse, rpos
<1>8. Obstructed(x)'
  BY <1>6, <1>7 DEF x, Obstructed
<1> QED
  BY <1>3, <1>7, <1>8 DEF Excuse, x

(* The sum the reader computes is the one in the archive. *)
LEMMA SumIsRight ==
  ASSUME ReadInv, Untouched, CheckCrc
  PROVE  rpc' # "failed"
<1> DEFINE x == input[rpos + 1]
<1>1. rpc = "crc" /\ InHand
  BY DEF CheckCrc, InHand
<1>2. /\ Reading.data = Payload(x, Reading.comp) /\ Len(Reading.data) = Len(x.chunks)
      /\ Reading.data \in Seq(Unit) /\ x \in Source /\ rfn = x.path
      /\ Sealed(Reading, x) /\ Reading \in Entry /\ Summing
  BY <1>1, PayloadInHand
<1>3. rcrc.data \in Seq(Unit)
  BY <1>1, EntryInHand DEF ReadInv
<1> HIDE DEF x
<1>4. HoldsSum(Reading.crc, Reading.type, Reading.comp, x.path, Reading.num, Reading.data)
  BY <1>2, SealedSum
<1>5. ASSUME NEW j \in 1 .. Len(Reading.data)
      PROVE  Reading.data[j] = rcrc.data[j]
  <2>1. Reading.data[j].enc <=> Reading.comp = "compressed"
    BY <1>2, SealedContent
  <2>2. rcrc.data[j] = Summed(Reading.data[j], Reading.comp)
    BY <1>1, <1>2 DEF Summing
  <2> QED
    BY <2>1, <2>2 DEF Summed
<1>6. rcrc.data = Reading.data
  <2>1. Len(rcrc.data) = Len(Reading.data)
    BY <1>1, <1>2 DEF Summing
  <2>2. /\ Reading.data \in Seq(Unit) /\ rcrc.data \in Seq(Unit)
        /\ Len(Reading.data) = Len(rcrc.data)
        /\ \A j \in 1 .. Len(Reading.data) : Reading.data[j] = rcrc.data[j]
    BY <1>2, <1>3, <1>5, <2>1
  <2> QED
    BY ONLY <2>2, SeqEqual
<1>7. NumOf(Reading) = Reading.num
  BY <1>2 DEF NumOf, Sealed, Root
<1>8. HoldsSum(rcrc, Reading.type, Reading.comp, x.path, Reading.num, Reading.data)
  BY <1>2, <1>6, <1>7 DEF Summing
<1>9. Reading.crc = rcrc
  BY <1>4, <1>8, EqualCrc
<1>10. Reading.crc # NoCrc
  BY <1>4, MarkersAssumption DEF HoldsSum
<1>11. rpc' = "entry"
  BY <1>9, <1>10 DEF CheckCrc, CrcAccepted
<1> QED
  BY <1>11

(* A session that fails on such an archive has its excuse, and keeps it.   *)
LEMMA NoAlarmStep ==
  NoFalseAlarm /\ ReadInv /\ DiskInv /\ [Next]_avars => NoFalseAlarm'
<1> SUFFICES ASSUME NoFalseAlarm, ReadInv, DiskInv, [Next]_avars, Untouched', rpc' = "failed"
             PROVE  Excuse'
  BY DEF NoFalseAlarm, Untouched, Excuse
<1>1. UNCHANGED input
  BY InputStays
<1>2. CASE ReaderStep
  <2>1. UNCHANGED <<wpc, faults, input>> /\ RStep
    BY <1>2 DEF ReaderStep, wvars
  <2>2. Untouched
    BY <2>1 DEF Untouched
  <2>3. CASE ReadHeader \/ ReadMetaEntry \/ DataEnd \/ CheckCrc \/ MissingData
    BY <2>2, <2>3, HeaderIsRead, EntryIsRead, DataEnds, SumIsRight, DataIsThere
  <2>4. CASE KeepFile \/ CopyStored \/ CloseInput
    BY <2>4 DEF KeepFile, CopyStored, Take, CloseInput
  <2>5. CASE OpenOutput
    BY <1>1, <2>2, <2>5, OutputOpens
  <2>6. CASE Decompress
    BY <1>1, <2>2, <2>6, ChunkDecodes
  <2>7. CASE MakeDir
    BY <1>1, <2>2, <2>7, DirIsMade
  <2> QED
    BY <2>1, <2>3, <2>4, <2>5, <2>6, <2>7 DEF RStep
<1>3. CASE ReaderError
  BY <1>3 DEF ReaderError, Untouched
<1>4. CASE ~(ReaderStep \/ ReaderError)
  <2>1. UNCHANGED rvars
    BY <1>4, OthersShowNothing
  <2>2. rpc = "failed"
    BY <2>1 DEF rvars
  <2>3. WEnded
    BY <2>2 DEF ReadInv, SealInv, RestoreInv, TypeInv, ReaderFacts
  <2>4. ~AtRest /\ ~WStep /\ ~WIoError /\ ~Crash
    BY <2>2, <2>3 DEF AtRest, WEnded, WStep, WIoError, Crash, OpenArchive, WriteHeader, WriteDir,
                      WriteFileHeader, CompressChunk, KeepCompressed, FallBackToStored,
                      WriteSize, CopyUnit, CopyEnd, WriteCrc, CloseArchive
  <2>5. UNCHANGED avars
    BY <1>4, <2>4 DEF Next, WriterStep, WriterError, Cut, Damage, Over
  <2>6. Untouched
    BY <2>5 DEF avars, wvars, Untouched
  <2>7. Excuse
    BY <2>2, <2>6 DEF NoFalseAlarm, Untouched, Excuse
  <2> QED
    BY <1>1, <2>1, <2>7 DEF Excuse, Obstructed, rvars, rpos
<1> QED
  BY <1>2, <1>3, <1>4

(* No false alarm: what bra wrote to its end and nothing touched since,    *)
(* unbra reads without an error, through every combination of stored and   *)
(* compressed entries, unless the output directory is in the way or a      *)
(* chunk is Oversized (bra_io_file_ctx_read_meta_entry, _extract_file and  *)
(* the comparison of the sums).                                            *)
THEOREM NoFalseAlarms == Spec => []NoFalseAlarm
<1>1. Init => NoFalseAlarm
  BY DEF Init, RInit, NoFalseAlarm
<1> QED
  BY <1>1, NoAlarmStep, ReadInit, ReadStep, DiskInit, DiskStep, PTL DEF Spec

----------------------------------------------------------------------------
(* What is left to do is counted in naturals: no count of units or entries *)
(* goes below zero.                                                        *)
Counted ==
  /\ wpc = "compress" => wcnt <= Len(Current.chunks)
  /\ wpc \in {"size", "copy"} => wcnt <= Len(wbuf)
  /\ rpc = "idle" => rnum = 0 /\ rlog = <<>>
  /\ rpc # "idle" => rpos <= rnum
  /\ InHand => rpos < rnum
  /\ rpc = "ask" => rcnt = 0
  /\ rpc = "data" => rcnt <= Len(Reading.data)

Counts ==
  /\ Len(input) \in Nat /\ wpos \in 0 .. Len(input) /\ wcnt \in Nat /\ Len(wbuf) \in Nat
  /\ Len(arc) \in Nat /\ rnum \in Nat /\ rpos \in Nat /\ rcnt \in Nat
  /\ wpc = "compress" => Len(Current.chunks) \in Nat
  /\ rpc = "data" => Len(Reading.data) \in Nat

LEMMA CountsType == TypeInv => Counts
<1> SUFFICES ASSUME TypeInv PROVE Counts
  OBVIOUS
<1>1. /\ Len(input) \in Nat /\ wpos \in 0 .. Len(input) /\ wcnt \in Nat /\ Len(wbuf) \in Nat
      /\ Len(arc) \in Nat /\ rnum \in Nat /\ rpos \in Nat /\ rcnt \in Nat
  BY DEF TypeInv, ATypeOK, WTypeOK, FormatTypeOK, RTypeOK, rpos
<1>2. ASSUME wpc = "compress" PROVE Len(Current.chunks) \in Nat
  <2>1. wpos < Len(input)
    BY <1>2 DEF TypeInv, WriterFacts, InEntry
  <2> QED
    BY <2>1, CurrentType
<1>3. ASSUME rpc = "data" PROVE Len(Reading.data) \in Nat
  <2>1. Reading \in Entry
    BY <1>3, ReadingType DEF TypeInv, ReaderFacts
  <2> QED
    BY <2>1 DEF Entry
<1> QED
  BY <1>1, <1>2, <1>3 DEF Counts

LEMMA CountedInit == Init => Counted
  BY DEF Init, WInit, RInit, Counted, InHand

LEMMA CountedWriter ==
  ASSUME Counted, Counts, WStep, rpc = "idle", UNCHANGED rvars
  PROVE  Counted'
<1> USE DEF Counted, Counts, InHand, rvars
<1>1. UNCHANGED <<rpc, rnum, rlog, rcnt>> /\ rpc' = "idle"
  OBVIOUS
<1>2. CASE OpenArchive \/ WriteHeader \/ WriteDir \/ CopyEnd \/ WriteCrc \/ CloseArchive
  BY <1>1, <1>2 DEF OpenArchive, WriteHeader, WriteDir, CopyEnd, WriteCrc, CloseArchive, GiveUp
<1>3. CASE WriteFileHeader
  <2>1. CASE wpc' = "failed"
    BY <1>1, <2>1
  <2>2. CASE wpc' # "failed"
    <3>1. /\ wcnt' = 0 /\ UNCHANGED <<input, wpos>> /\ wpc' \in {"compress", "size"}
          /\ wpos + 1 \in 1 .. Len(input)
      BY <1>3, <2>2 DEF WriteFileHeader, GiveUp
    <3>2. Current' = Current
      BY <3>1 DEF Current
    <3> QED
      BY <1>1, <3>1, <3>2, <1>3
  <2> QED
    BY <2>1, <2>2
<1>4. CASE CompressChunk
  <2>1. Current' = Current
    BY <1>4 DEF CompressChunk, Current
  <2> QED
    BY <1>1, <1>4, <2>1 DEF CompressChunk
<1>5. CASE KeepCompressed
  BY <1>1, <1>5 DEF KeepCompressed
<1>6. CASE FallBackToStored
  BY <1>1, <1>6 DEF FallBackToStored
<1>7. CASE WriteSize
  BY <1>1, <1>7 DEF WriteSize
<1>8. CASE CopyUnit
  BY <1>1, <1>8 DEF CopyUnit
<1> QED
  BY <1>2, <1>3, <1>4, <1>5, <1>6, <1>7, <1>8 DEF WStep

LEMMA CountedReader ==
  ASSUME Counted, Counts, hdr \in Nat \union {NoHeader}, RStep, UNCHANGED <<arc, wvars>>
  PROVE  Counted'
<1> USE DEF Counted, Counts, InHand, wvars
<1>1. /\ wpc' = wpc /\ wcnt' = wcnt /\ wbuf' = wbuf /\ Current' = Current
      /\ arc' = arc /\ rlog' = rlog => Reading' = Reading /\ rpos' = rpos
  BY DEF Current, Reading, rpos
<1>2. CASE Refuse /\ rpc # "idle"
  BY <1>1, <1>2 DEF Refuse
<1>3. CASE ReadHeader
  <2>1. CASE hdr = NoHeader
    BY <1>1, <1>3, <2>1 DEF ReadHeader, Refuse, rpos
  <2>2. CASE hdr # NoHeader
    BY <1>1, <1>3, <2>2 DEF ReadHeader, rpos
  <2> QED
    BY <2>1, <2>2
<1>4. CASE ReadMetaEntry /\ ~Refuse
  <2>1. /\ rpc = "entry" /\ rpos # rnum /\ UNCHANGED <<rlog, rnum>> /\ rcnt' = 0
        /\ rpc' \in {"ask", "data", "mkdir", "crc"}
    BY <1>4 DEF ReadMetaEntry, AllRead
  <2>2. rpos < Len(arc) /\ Reading' = Reading /\ rpos' = rpos
    BY <1>1, <1>4, <2>1 DEF ReadMetaEntry
  <2>3. rpc' = "data" => Len(Reading.data)' \in Nat
    OBVIOUS
  <2> QED
    BY <1>1, <2>1, <2>2, <2>3
<1>5. CASE KeepFile \/ (CheckCrc /\ ~Refuse)
  <2>1. rpos' = rpos + 1 /\ rpc' = "entry" /\ InHand /\ rnum' = rnum
    BY <1>5 DEF KeepFile, CheckCrc, rpos
  <2> QED
    BY <1>1, <2>1
<1>6. CASE OpenOutput
  BY <1>1, <1>6 DEF OpenOutput
<1>7. CASE CopyStored \/ (Decompress /\ ~Refuse)
  BY <1>1, <1>7 DEF CopyStored, Decompress, Take, Left
<1>8. CASE (DataEnd \/ MakeDir) /\ ~Refuse
  BY <1>1, <1>8 DEF DataEnd, MakeDir
<1>9. CASE CloseInput
  BY <1>1, <1>9 DEF CloseInput
<1> QED
  BY <1>2, <1>3, <1>4, <1>5, <1>6, <1>7, <1>8, <1>9
     DEF RStep, MissingData, ReadMetaEntry, CheckCrc, Decompress, DataEnd, MakeDir

LEMMA CountedStep == TypeInv /\ Counted /\ [Next]_avars => Counted'
<1> SUFFICES ASSUME TypeInv, Counted, [Next]_avars PROVE Counted'
  OBVIOUS
<1>1. Counts /\ hdr \in Nat \union {NoHeader}
  BY CountsType DEF TypeInv, ATypeOK, WTypeOK, FormatTypeOK
<1>2. rpc # "idle" => WEnded
  BY DEF TypeInv, ReaderFacts
<1>3. CASE WriterStep
  <2>1. WStep /\ UNCHANGED rvars
    BY <1>3 DEF WriterStep
  <2>2. ~WEnded
    BY <2>1 DEF WEnded, WStep, OpenArchive, WriteHeader, WriteDir, WriteFileHeader,
                CompressChunk, KeepCompressed, FallBackToStored, WriteSize, CopyUnit, CopyEnd,
                WriteCrc, CloseArchive
  <2> QED
    BY <1>1, <1>2, <2>1, <2>2, CountedWriter
<1>4. CASE WriterError \/ Crash
  <2>1. ~WEnded /\ wpc' \in {"failed", "crashed"} /\ UNCHANGED rvars
    BY <1>4 DEF WriterError, WIoError, Crash
  <2> QED
    BY <1>2, <2>1 DEF Counted, InHand, rvars, rpos
<1>5. CASE Cut \/ Damage
  <2>1. rpc = "idle" /\ UNCHANGED wvars /\ UNCHANGED rvars
    BY <1>5 DEF Cut, Damage, AtRest
  <2> QED
    BY <2>1 DEF Counted, InHand, Current, wvars, rvars
<1>6. CASE ReaderStep
  BY <1>1, <1>6, CountedReader DEF ReaderStep
<1>7. CASE ReaderError
  <2>1. /\ rpc' = "failed" /\ UNCHANGED <<arc, wvars, rnum, rlog>>
    BY <1>7 DEF ReaderError, RIoError
  <2>2. rpos <= rnum
    BY <1>1 DEF Counted, Counts, rpos
  <2> QED
    BY <2>1, <2>2 DEF Counted, InHand, Current, wvars, rpos
<1>8. CASE UNCHANGED avars
  BY <1>8 DEF avars, Counted, InHand, Current, Reading, rpos, wvars, rvars
<1> QED
  BY <1>3, <1>4, <1>5, <1>6, <1>7, <1>8 DEF Next, Over

(* The eight counts, one by one. *)
FaultsLeft == Cardinality({"cut", "damage"} \ faults)
HeaderLeft == IF rpc = "idle" THEN 1 ELSE 0

LEMMA FaultsLeftType == FaultsLeft \in Nat
<1>1. IsFiniteSet({}) /\ {"cut", "damage"} = ({} \union {"cut"}) \union {"damage"}
  BY FS_EmptySet
<1>2. IsFiniteSet({"cut", "damage"})
  BY <1>1, FS_AddElement
<1>3. IsFiniteSet({"cut", "damage"} \ faults)
  BY <1>2, FS_Subset
<1> QED
  BY <1>3, FS_CardinalityType DEF FaultsLeft

LEMMA FaultsLeftFewer ==
  ASSUME NEW f \in {"cut", "damage"}, f \notin faults, faults' = faults \union {f}
  PROVE  FaultsLeft' < FaultsLeft
<1> DEFINE S == {"cut", "damage"} \ faults
<1>1. IsFiniteSet({}) /\ {"cut", "damage"} = ({} \union {"cut"}) \union {"damage"}
  BY FS_EmptySet
<1>2. IsFiniteSet({"cut", "damage"})
  BY <1>1, FS_AddElement
<1>3. IsFiniteSet(S)
  BY <1>2, FS_Subset
<1>4. ({"cut", "damage"} \ faults)' = S \ {f} /\ f \in S
  OBVIOUS
<1>5. Cardinality(S \ {f}) = Cardinality(S) - 1 /\ Cardinality(S) \in Nat
  BY <1>3, <1>4, FS_RemoveElement, FS_CardinalityType
<1> QED
  BY <1>4, <1>5 DEF FaultsLeft

LEMMA RemainingCounts ==
  /\ DOMAIN Remaining = 1 .. 8
  /\ Remaining[1] = Len(input) - wpos /\ Remaining[2] = WriterAhead
  /\ Remaining[3] = UnitsToWrite /\ Remaining[4] = FaultsLeft
  /\ Remaining[5] = HeaderLeft /\ Remaining[6] = rnum - rpos
  /\ Remaining[7] = ReaderAhead /\ Remaining[8] = UnitsToRead
  BY DEF Remaining, FaultsLeft, HeaderLeft

LEMMA RemainingType ==
  TypeInv /\ Counted =>
    /\ Remaining \in [1 .. 8 -> Nat]
    /\ UnitsToWrite \in Nat /\ UnitsToRead \in Nat
<1> SUFFICES ASSUME TypeInv, Counted
             PROVE  /\ Remaining \in [1 .. 8 -> Nat]
                    /\ UnitsToWrite \in Nat /\ UnitsToRead \in Nat
  OBVIOUS
<1>1. Counts
  BY CountsType
<1>2. WriterAhead \in Nat /\ ReaderAhead \in Nat /\ HeaderLeft \in Nat
  BY DEF WriterAhead, ReaderAhead, HeaderLeft
<1>3. FaultsLeft \in Nat
  BY FaultsLeftType
<1>4. Len(input) - wpos \in Nat /\ rnum - rpos \in Nat
  <2>1. rpos <= rnum
    BY <1>1 DEF Counted, Counts, rpos
  <2> QED
    BY <1>1, <2>1 DEF Counts
<1>5. UnitsToWrite \in Nat
  BY <1>1 DEF UnitsToWrite, Counted, Counts
<1>6. UnitsToRead \in Nat
  BY <1>1 DEF UnitsToRead, Counted, Counts
<1>7. Remaining \in [1 .. 8 -> Nat]
  <2>1. Remaining = [i \in 1 .. 8 |-> Remaining[i]]
    BY DEF Remaining
  <2>2. \A i \in 1 .. 8 : i = 1 \/ i = 2 \/ i = 3 \/ i = 4 \/ i = 5 \/ i = 6 \/ i = 7 \/ i = 8
    OBVIOUS
  <2>3. \A i \in 1 .. 8 : Remaining[i] \in Nat
    BY <1>2, <1>3, <1>4, <1>5, <1>6, <2>2, RemainingCounts
  <2> QED
    BY <2>1, <2>3
<1> QED
  BY <1>5, <1>6, <1>7

(* Whichever count is the first to change goes down. *)
LEMMA FirstCount ==
  ASSUME \/ (Len(input) - wpos)' < Len(input) - wpos
         \/ /\ (Len(input) - wpos)' = Len(input) - wpos
            /\ \/ WriterAhead' < WriterAhead
               \/ /\ WriterAhead' = WriterAhead
                  /\ \/ UnitsToWrite' < UnitsToWrite
                     \/ /\ UnitsToWrite' = UnitsToWrite
                        /\ \/ FaultsLeft' < FaultsLeft
                           \/ /\ FaultsLeft' = FaultsLeft
                              /\ \/ HeaderLeft' < HeaderLeft
                                 \/ /\ HeaderLeft' = HeaderLeft
                                    /\ \/ (rnum - rpos)' < rnum - rpos
                                       \/ /\ (rnum - rpos)' = rnum - rpos
                                          /\ \/ ReaderAhead' < ReaderAhead
                                             \/ /\ ReaderAhead' = ReaderAhead
                                                /\ UnitsToRead' < UnitsToRead
  PROVE  Lower(Remaining', Remaining)
<1> DEFINE p == Remaining'
           q == Remaining
<1>1. /\ DOMAIN q = 1 .. 8
      /\ q[1] = Len(input) - wpos /\ q[2] = WriterAhead /\ q[3] = UnitsToWrite
      /\ q[4] = FaultsLeft /\ q[5] = HeaderLeft /\ q[6] = rnum - rpos
      /\ q[7] = ReaderAhead /\ q[8] = UnitsToRead
  BY RemainingCounts
<1>2. /\ p[1] = (Len(input) - wpos)' /\ p[2] = WriterAhead' /\ p[3] = UnitsToWrite'
      /\ p[4] = FaultsLeft' /\ p[5] = HeaderLeft' /\ p[6] = (rnum - rpos)'
      /\ p[7] = ReaderAhead' /\ p[8] = UnitsToRead'
  BY DEF Remaining, FaultsLeft, HeaderLeft
<1> HIDE DEF p, q
<1>3. PICK i \in 1 .. 8 :
        /\ p[i] < q[i]
        /\ i > 1 => p[1] = q[1]
        /\ i > 2 => p[2] = q[2]
        /\ i > 3 => p[3] = q[3]
        /\ i > 4 => p[4] = q[4]
        /\ i > 5 => p[5] = q[5]
        /\ i > 6 => p[6] = q[6]
        /\ i > 7 => p[7] = q[7]
  BY <1>1, <1>2
<1>4. ASSUME NEW j \in 1 .. i - 1 PROVE p[j] = q[j]
  <2>1. j = 1 \/ j = 2 \/ j = 3 \/ j = 4 \/ j = 5 \/ j = 6 \/ j = 7
    OBVIOUS
  <2> QED
    BY <1>3, <2>1
<1>5. Lower(p, q)
  BY <1>1, <1>3, <1>4 DEF Lower
<1> QED
  BY <1>5 DEF p, q

LEMMA WriterAdvances ==
  ASSUME TypeInv, Counted, TypeInv', Counted', WriterStep \/ WriterError \/ Crash
  PROVE  Lower(Remaining', Remaining)
<1> USE DEF WriterAhead
<1>1. Counts
  BY CountsType
<1>2. CASE OpenArchive
  BY <1>2, FirstCount DEF OpenArchive
<1>3. CASE WriteHeader
  BY <1>3, FirstCount DEF WriteHeader
<1>4. CASE WriteDir
  <2>1. wpc = "entry" /\ wpc' \in {"crc", "failed"} /\ UNCHANGED <<input, wpos>>
    BY <1>4 DEF WriteDir, GiveUp
  <2> QED
    BY <2>1, FirstCount
<1>5. CASE WriteFileHeader
  <2>1. wpc = "entry" /\ wpc' \in {"compress", "size", "failed"} /\ UNCHANGED <<input, wpos>>
    BY <1>5 DEF WriteFileHeader, GiveUp
  <2> QED
    BY <2>1, FirstCount
<1>6. CASE CompressChunk
  <2>1. /\ wpc = "compress" /\ wpc' = wpc /\ wcnt' = wcnt + 1 /\ Current' = Current
        /\ UNCHANGED <<input, wpos>>
    BY <1>6 DEF CompressChunk, Current
  <2>2. UnitsToWrite' < UnitsToWrite
    BY <1>1, <2>1 DEF UnitsToWrite, Counts
  <2> QED
    BY <2>1, <2>2, FirstCount
<1>7. CASE KeepCompressed
  BY <1>7, FirstCount DEF KeepCompressed
<1>8. CASE FallBackToStored
  BY <1>8, FirstCount DEF FallBackToStored
<1>9. CASE WriteSize
  BY <1>9, FirstCount DEF WriteSize
<1>10. CASE CopyUnit
  <2>1. wpc = "copy" /\ wpc' = wpc /\ wcnt' = wcnt + 1 /\ UNCHANGED <<input, wpos, wbuf>>
    BY <1>10 DEF CopyUnit
  <2>2. UnitsToWrite' < UnitsToWrite
    BY <1>1, <2>1 DEF UnitsToWrite, Counts
  <2> QED
    BY <2>1, <2>2, FirstCount
<1>11. CASE CopyEnd
  BY <1>11, FirstCount DEF CopyEnd
<1>12. CASE WriteCrc
  <2>1. wpos' = wpos + 1 /\ UNCHANGED input
    BY <1>12 DEF WriteCrc
  <2>2. (Len(input) - wpos)' < Len(input) - wpos
    BY <1>1, <2>1 DEF Counts
  <2> QED
    BY <2>2, FirstCount
<1>13. CASE CloseArchive
  BY <1>13, FirstCount DEF CloseArchive
<1>14. CASE WIoError \/ Crash
  <2>1. wpc \in WPhases /\ ~WEnded /\ wpc' \in {"failed", "crashed"} /\ UNCHANGED <<input, wpos>>
    BY <1>14 DEF WIoError, Crash, TypeInv, ATypeOK, WTypeOK
  <2>2. WriterAhead' < WriterAhead
    BY <2>1 DEF WPhases, WEnded
  <2> QED
    BY <2>1, <2>2, FirstCount
<1> QED
  BY <1>2, <1>3, <1>4, <1>5, <1>6, <1>7, <1>8, <1>9, <1>10, <1>11, <1>12, <1>13, <1>14
     DEF WriterStep, WriterError, WStep

(* Before the reader starts, a fault is all that can happen, twice at most. *)
LEMMA FaultAdvances ==
  ASSUME Cut \/ Damage
  PROVE  Lower(Remaining', Remaining)
<1>1. UNCHANGED <<input, wpos, wpc>> /\ WEnded
  BY DEF Cut, Damage, wvars, AtRest
<1>2. WriterAhead' = WriterAhead /\ UnitsToWrite' = UnitsToWrite
  BY <1>1 DEF WriterAhead, UnitsToWrite, WEnded
<1>3. FaultsLeft' < FaultsLeft
  BY FaultsLeftFewer DEF Cut, Damage
<1> QED
  BY <1>1, <1>2, <1>3, FirstCount

LEMMA ReaderAdvances ==
  ASSUME TypeInv, Counted, TypeInv', Counted', ReaderStep \/ ReaderError
  PROVE  Lower(Remaining', Remaining)
<1> USE DEF ReaderAhead, HeaderLeft
<1>1. Counts
  BY CountsType
<1>2. /\ (Len(input) - wpos)' = Len(input) - wpos
      /\ WriterAhead' = WriterAhead /\ UnitsToWrite' = UnitsToWrite
  BY DEF ReaderStep, ReaderError, wvars, WriterAhead, UnitsToWrite, Current
<1>3. FaultsLeft' = FaultsLeft
  <2>1. ({"cut", "damage"} \ faults)' = {"cut", "damage"} \ faults
    BY DEF ReaderStep, ReaderError
  <2> QED
    BY <2>1 DEF FaultsLeft
<1>4. arc' = arc
  BY DEF ReaderStep, ReaderError
<1>5. CASE Refuse /\ ~REnded
  <2>1. rpc' = "failed" /\ UNCHANGED <<rnum, rlog>>
    BY <1>5 DEF Refuse
  <2>2. (rnum - rpos)' = rnum - rpos
    BY <2>1 DEF rpos
  <2>3. CASE rpc = "idle"
    BY <1>2, <1>3, <2>1, <2>3, FirstCount
  <2>4. CASE rpc # "idle"
    <3>1. rpc \in {"entry", "ask", "data", "mkdir", "crc"}
      BY <1>5, <2>4 DEF REnded, TypeInv, ATypeOK, RTypeOK, RPhases
    <3> QED
      BY <1>2, <1>3, <2>1, <2>2, <3>1, FirstCount
  <2> QED
    BY <2>3, <2>4
<1>6. CASE RIoError
  <2>1. rpc' = "failed" /\ UNCHANGED <<rnum, rlog>> /\ ~REnded
    BY <1>6 DEF RIoError
  <2>2. (rnum - rpos)' = rnum - rpos
    BY <2>1 DEF rpos
  <2>3. CASE rpc = "idle"
    BY <1>2, <1>3, <2>1, <2>3, FirstCount
  <2>4. CASE rpc # "idle"
    <3>1. rpc \in {"entry", "ask", "data", "mkdir", "crc"}
      BY <2>1, <2>4 DEF REnded, TypeInv, ATypeOK, RTypeOK, RPhases
    <3> QED
      BY <1>2, <1>3, <2>1, <2>2, <3>1, FirstCount
  <2> QED
    BY <2>3, <2>4
<1>7. CASE ReadHeader /\ ~Refuse
  <2>1. rpc = "idle" /\ rpc' = "entry"
    BY <1>7 DEF ReadHeader
  <2> QED
    BY <1>2, <1>3, <2>1, FirstCount
<1>8. CASE ReadMetaEntry /\ ~Refuse
  <2>1. rpc = "entry" /\ rpc' \in {"ask", "data", "mkdir", "crc"} /\ UNCHANGED <<rnum, rlog>>
    BY <1>8 DEF ReadMetaEntry
  <2>2. (rnum - rpos)' = rnum - rpos
    BY <2>1 DEF rpos
  <2> QED
    BY <1>2, <1>3, <2>1, <2>2, FirstCount
<1>9. CASE KeepFile \/ (CheckCrc /\ ~Refuse)
  <2>1. rpc \in {"ask", "crc"} /\ rpc' = "entry" /\ rpos' = rpos + 1 /\ rnum' = rnum
    BY <1>1, <1>9 DEF KeepFile, CheckCrc, rpos, Counts, TypeInv, ATypeOK, RTypeOK
  <2>2. (rnum - rpos)' < rnum - rpos
    BY <1>1, <2>1 DEF Counts
  <2> QED
    BY <1>2, <1>3, <2>1, <2>2, FirstCount
<1>10. CASE OpenOutput \/ CloseInput \/ ((DataEnd \/ MakeDir) /\ ~Refuse)
  <2>1. /\ \/ rpc = "ask" /\ rpc' \in {"data", "failed"}
           \/ rpc = "entry" /\ rpc' = "ok"
           \/ rpc \in {"data", "mkdir"} /\ rpc' = "crc"
        /\ UNCHANGED <<rnum, rlog>>
    BY <1>10 DEF OpenOutput, CloseInput, DataEnd, MakeDir
  <2>2. (rnum - rpos)' = rnum - rpos
    BY <2>1 DEF rpos
  <2> QED
    BY <1>2, <1>3, <2>1, <2>2, FirstCount
<1>11. CASE CopyStored \/ (Decompress /\ ~Refuse)
  <2>1. rpc = "data" /\ rpc' = rpc /\ rcnt' = rcnt + 1 /\ UNCHANGED <<rnum, rlog>>
    BY <1>11 DEF CopyStored, Decompress, Take
  <2>2. (rnum - rpos)' = rnum - rpos /\ Reading' = Reading
    BY <1>4, <2>1 DEF rpos, Reading
  <2>3. UnitsToRead' < UnitsToRead
    BY <1>1, <2>1, <2>2 DEF UnitsToRead, Counts
  <2> QED
    BY <1>2, <1>3, <2>1, <2>2, <2>3, FirstCount
<1>12. ~REnded
  BY DEF ReaderStep, ReaderError, RIoError, RStep, ReadHeader, ReadMetaEntry, KeepFile,
         OpenOutput, CopyStored, Decompress, MissingData, DataEnd, MakeDir, CheckCrc,
         CloseInput, REnded
<1>13. RStep \/ RIoError
  BY DEF ReaderStep, ReaderError
<1> QED
  BY <1>5, <1>6, <1>7, <1>8, <1>9, <1>10, <1>11, <1>12, <1>13 DEF RStep, MissingData

(* The safe half of Termination, for every plan, every number of chunks    *)
(* and every archive file: each step of a session, and each fault, leaves  *)
(* less to do (the loops of bra_io_file_ctx.c and chunks.c, the second go  *)
(* of flush_entry_file, and the prompt), counted in naturals.              *)
THEOREM SessionsAdvance == Spec => Advances /\ [](Remaining \in [1 .. 8 -> Nat])
<1>1. TypeInv /\ Counted /\ TypeInv' /\ Counted' /\ [Next]_avars
        => [Lower(Remaining', Remaining)]_avars
  <2> SUFFICES ASSUME TypeInv, Counted, TypeInv', Counted', Next, ~UNCHANGED avars
               PROVE  Lower(Remaining', Remaining)
    OBVIOUS
  <2> QED
    BY WriterAdvances, FaultAdvances, ReaderAdvances DEF Next, Over
<1>2. Spec => [](TypeInv /\ Counted)
  BY TypeInit, TypeStep, CountedInit, CountedStep, PTL DEF Spec
<1>3. TypeInv /\ Counted => Remaining \in [1 .. 8 -> Nat]
  BY RemainingType
<1> QED
  BY <1>1, <1>2, <1>3, PTL DEF Spec, Advances

----------------------------------------------------------------------------
(* Going down ends: in any set of counts one is the lowest.                *)
LEMMA LowestCount ==
  ASSUME NEW n \in Nat, NEW T, T # {}, T \subseteq [1 .. n -> Nat]
  PROVE  \E t \in T : \A s \in T : ~Lower(s, t)
<1> DEFINE Below(s, t, k) == \E i \in 1 .. k : s[i] < t[i] /\ \A j \in 1 .. i - 1 : s[j] = t[j]
           Good(k) == \E t \in T : \A s \in T : ~Below(s, t, k)
           Rest == {n - k : k \in {k \in 0 .. n : Good(k)}}
<1>1. Good(0)
  OBVIOUS
<1>2. Rest # {} /\ Rest \subseteq Nat
  <2>1. 0 \in 0 .. n
    OBVIOUS
  <2> HIDE DEF Good
  <2> QED
    BY <1>1, <2>1
<1>3. PICK r \in Rest : \A x \in Rest : r <= x
  BY <1>2, LeastNat
<1>4. PICK k \in 0 .. n : Good(k) /\ r = n - k
  BY <1>3
<1>5. k = n
  <2> SUFFICES ASSUME k < n PROVE FALSE
    OBVIOUS
  <2>1. PICK t \in T : \A s \in T : ~Below(s, t, k)
    BY <1>4
  <2> DEFINE S == {s \in T : \A j \in 1 .. k : s[j] = t[j]}
             V == {s[k + 1] : s \in S}
  <2>2. k \in Nat /\ k + 1 \in 1 .. n /\ n \in Nat
    OBVIOUS
  <2>3. \A s \in T : s[k + 1] \in Nat
    BY <2>2
  <2>4. t \in S
    OBVIOUS
  <2>5. V # {} /\ V \subseteq Nat
    BY <2>3, <2>4
  <2>6. PICK v \in V : \A w \in V : v <= w
    BY <2>5, LeastNat
  <2>7. PICK u \in S : v = u[k + 1]
    BY <2>6
  <2>8. u \in T /\ \A j \in 1 .. k : u[j] = t[j]
    OBVIOUS
  <2>9. \A s \in S : u[k + 1] <= s[k + 1]
    BY <2>6, <2>7
  <2>10. ASSUME NEW s \in T, Below(s, u, k + 1) PROVE FALSE
    <3>1. PICK i \in 1 .. k + 1 : s[i] < u[i] /\ \A j \in 1 .. i - 1 : s[j] = u[j]
      BY <2>10
    <3>2. CASE i <= k
      <4>1. i \in 1 .. k /\ s[i] < t[i] /\ \A j \in 1 .. i - 1 : s[j] = t[j]
        BY <2>2, <2>8, <3>1, <3>2
      <4> QED
        BY <2>1, <4>1
    <3>3. CASE i = k + 1
      <4>1. \A j \in 1 .. k : s[j] = t[j]
        BY <2>2, <2>8, <3>1, <3>3
      <4>2. u[k + 1] <= s[k + 1]
        BY <4>1, <2>9
      <4>3. s[k + 1] < u[k + 1]
        BY <3>1, <3>3
      <4>4. s[k + 1] \in Nat /\ u[k + 1] \in Nat
        BY <2>3, <2>8
      <4> QED
        BY ONLY <4>2, <4>3, <4>4
    <3> QED
      BY <2>2, <3>2, <3>3
  <2>11. Good(k + 1)
    BY <2>8, <2>10
  <2> HIDE DEF Good
  <2>12. n - (k + 1) \in Rest
    BY <2>2, <2>11
  <2>13. r <= n - (k + 1)
    BY <1>3, <2>12
  <2> QED
    BY <1>4, <2>2, <2>13
<1>6. PICK t \in T : \A s \in T : ~Below(s, t, n)
  BY <1>4, <1>5
<1>7. DOMAIN t = 1 .. n
  OBVIOUS
<1> QED
  BY <1>6, <1>7 DEF Lower

(* No behaviour goes down for ever, so none of a session's has more than   *)
(* finitely many steps: there is no sequence of counts each of which is    *)
(* lower than the one before.                                              *)
THEOREM NoEndlessDescent ==
  ASSUME NEW n \in Nat, NEW f \in [Nat -> [1 .. n -> Nat]]
  PROVE  \E k \in Nat : ~Lower(f[k + 1], f[k])
<1> DEFINE T == {f[k] : k \in Nat}
<1>1. T # {} /\ T \subseteq [1 .. n -> Nat]
  OBVIOUS
<1>2. PICK t \in T : \A s \in T : ~Lower(s, t)
  BY <1>1, LowestCount
<1>3. PICK k \in Nat : t = f[k]
  OBVIOUS
<1>4. f[k + 1] \in T
  OBVIOUS
<1> QED
  BY <1>2, <1>3, <1>4
=============================================================================
