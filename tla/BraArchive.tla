---------------------------- MODULE BraArchive ----------------------------
(***************************************************************************)
(* An archive is written by one session (BraWriter) and read by another    *)
(* (BraReader) that starts when the first has ended, well or not.  The     *)
(* writer may crash; between the sessions the archive file may lose its    *)
(* tail or have a part of it damaged; either session may meet an I/O error.*)
(***************************************************************************)
EXTENDS BraWriter, BraReader, FiniteSets

CONSTANT MaxFaults   \* bound on how often the archive file suffers

ASSUME FaultsAssumption == MaxFaults \in Nat

VARIABLES
  faults,   \* of {"cut", "damage", "io"}: what happened since the writer ended
  before    \* the output directory as the reader found it

avars == <<hdr, arc, wvars, rvars, faults, before>>

ATypeOK ==
  /\ WTypeOK
  /\ RTypeOK
  /\ faults \subseteq {"cut", "damage", "io"}

Init ==
  /\ WInit
  /\ RInit
  /\ faults = {}
  /\ before = [files |-> files, dirs |-> dirs]

----------------------------------------------------------------------------
WriterStep == WStep /\ UNCHANGED <<rvars, faults, before>>

WriterError == WIoError /\ UNCHANGED <<rvars, faults, before>>

Crash ==
  /\ ~WEnded
  /\ wpc' = "crashed"
  /\ wopen' = {}
  /\ UNCHANGED <<hdr, arc, input, compress, wpos, wtree, wnode, wdir, wcrc, wbuf, wcnt,
                 rvars, faults, before>>

AtRest == WEnded /\ rpc = "idle" /\ Cardinality(faults) < MaxFaults

(* The file ends early: before an entry, after the name of one, within its *)
(* payload or just before its sum.                                         *)
Stumps(e) ==
  (IF e.type = "dir" THEN {} ELSE
     {[e EXCEPT !.num = Unwritten, !.data = <<>>, !.crc = NoCrc]}) \union
  {[e EXCEPT !.data = SubSeq(@, 1, k), !.crc = NoCrc] : k \in 0 .. Len(e.data)}

Cut ==
  /\ AtRest /\ "cut" \notin faults
  /\ \/ hdr' = NoHeader /\ arc' = <<>>
     \/ /\ hdr' = hdr
        /\ \E k \in 1 .. Len(arc) :
             \/ arc' = SubSeq(arc, 1, k - 1)
             \/ \E e \in Stumps(arc[k]) : arc' = Append(SubSeq(arc, 1, k - 1), e)
  /\ faults' = faults \union {"cut"}
  /\ UNCHANGED <<wvars, rvars, before>>

(* One field of one entry changes.  The sizes that frame the fields are    *)
(* left out: what follows a wrong one is noise, and no unit of it.         *)
Damages(e) ==
  {[e EXCEPT !.name = <<n>>] : n \in {m \in Name : e.name # <<m>>}} \union
  {[e EXCEPT !.data[k] = Damaged(@)] : k \in 1 .. Len(e.data)} \union
  (IF e.crc = NoCrc THEN {} ELSE {[e EXCEPT !.crc.ok = FALSE]}) \union
  (IF e.type # "subdir" THEN {} ELSE
     {[e EXCEPT !.num = p] : p \in {q \in 0 .. Len(arc) : q # e.num}}) \union
  (IF e.type # "file" THEN {} ELSE
     {[e EXCEPT !.comp = c] : c \in {d \in Comps : d # e.comp}})

Damage ==
  /\ AtRest /\ "damage" \notin faults
  /\ \E k \in 1 .. Len(arc) : \E e \in Damages(arc[k]) : arc' = [arc EXCEPT ![k] = e]
  /\ faults' = faults \union {"damage"}
  /\ UNCHANGED <<hdr, wvars, rvars, before>>

ReaderStep == WEnded /\ RStep /\ UNCHANGED <<hdr, arc, wvars, faults, before>>

ReaderError ==
  /\ WEnded /\ RIoError
  /\ faults' = faults \union {"io"}
  /\ UNCHANGED <<hdr, arc, wvars, before>>

(* Both sessions are over. *)
Over == REnded /\ UNCHANGED avars

Next ==
  \/ WriterStep \/ WriterError \/ Crash \/ Cut \/ Damage
  \/ ReaderStep \/ ReaderError \/ Over

Spec == Init /\ [][Next]_avars

(* Both programs are sequential and run to their end unless they crash. *)
FairSpec == Spec /\ WF_avars(WriterStep) /\ WF_avars(ReaderStep)

----------------------------------------------------------------------------
(* The writer numbers directories while it adds them by path, the reader   *)
(* while it inserts them under the index the file names: unless the file   *)
(* was damaged, the reader's tree is at every moment a prefix of the       *)
(* writer's, so that an index names the same directory to both.            *)
TreesAlike ==
  "damage" \notin faults =>
    /\ Len(rtree) <= Len(wtree)
    /\ rtree = SubSeq(wtree, 1, Len(rtree))

(* The path the reader rebuilds for an entry (cached last directory + name *)
(* of the entry) is the path the writer was given.                         *)
NamesRestored ==
  "damage" \notin faults /\ rpc \in {"ask", "data", "mkdir", "crc"} =>
    rfn = input[rpos + 1].path

Content(s) == RawUnits(s.chunks)

(* An entry that was written to its end says of itself what the reader     *)
(* will compute, whichever way it went (stored, compressed, or compressed, *)
(* found not to pay, rewound and stored): its size, its compression and    *)
(* the sum over all of it.                                                 *)
EntriesSealed ==
  "cut" \notin faults /\ "damage" \notin faults =>
    \A k \in 1 .. wpos :
      /\ arc[k].type = "file" => arc[k].num = TotalBytes(arc[k].data)
      /\ arc[k].comp = "compressed" =>
           arc[k].num < TotalBytes(Content(input[k]))
      /\ [j \in 1 .. Len(arc[k].data) |-> Decoded(arc[k].data[j])] = Content(input[k])
      /\ \A j \in 1 .. Len(arc[k].data) :
           arc[k].data[j].enc <=> arc[k].comp = "compressed"
      /\ arc[k].crc = [HeaderCrc(arc[k].type, arc[k].comp, input[k].path)
                         EXCEPT !.num = arc[k].num, !.data = arc[k].data]

(* The output directory stands in the way of the entry. *)
Obstructed(s) ==
  IF s.kind = "file" THEN s.path \in dirs
                     ELSE Ancestry(s.path) \cap DOMAIN files # {}

(* An archive that was completely written, and not touched since, is read  *)
(* without an error: tested, listed and extracted, unless something in the *)
(* output directory is in the way, or a chunk is Oversized (the writer     *)
(* stores such a chunk, and the reader does not take it).                  *)
NoFalseAlarm ==
  wpc = "done" /\ faults = {} /\ rpc = "failed" =>
    \/ mode = "extract" /\ Obstructed(input[rpos + 1])
    \/ \E k \in 1 .. Len(input[rpos + 1].chunks) :
         input[rpos + 1].chunks[k] \in Oversized

(* The tests write with -c and then expect "unbra -t" to succeed           *)
(* (test/test_bra.cpp): what was completely written can be read.           *)
WrittenIsReadable ==
  wpc = "done" /\ faults = {} /\ rpc = "failed" =>
    mode = "extract" /\ Obstructed(input[rpos + 1])

(* Whatever happened to the archive file and whoever failed: a file in the *)
(* output directory is what it was before, or the complete file of the     *)
(* plan, or the one file the session was busy with (whose old content is   *)
(* lost if it had one); a directory that is new belongs to the plan or to  *)
(* that last entry.                                                        *)
AtMostOnePartial ==
  /\ \A p \in DOMAIN files :
       \/ p \in DOMAIN before.files /\ files[p] = before.files[p]
       \/ \E k \in 1 .. rpos :
            /\ input[k].kind = "file" /\ input[k].path = p
            /\ files[p] = Content(input[k])
       \/ rpc \in {"data", "crc", "failed"} /\ p = rfn
  /\ \A d \in dirs :
       \/ d \in before.dirs
       \/ \E k \in 1 .. rpos : input[k].kind = "dir" /\ input[k].path = d
       \/ rpc \in {"crc", "failed"} /\ d \in Ancestry(rfn)
  /\ DOMAIN before.files \subseteq DOMAIN files

(* Exit status 0 means the whole plan: after an extraction every entry     *)
(* that was not skipped is on the disk, after a test the archive file is   *)
(* as the writer left it.                                                  *)
SuccessIsComplete ==
  rpc = "ok" =>
    /\ Len(rlog) = Len(input)
    /\ mode = "extract" =>
         \A k \in 1 .. Len(input) : rlog[k].how = "done" =>
           IF input[k].kind = "dir" THEN input[k].path \in dirs
             ELSE /\ input[k].path \in DOMAIN files
                  /\ files[input[k].path] = Content(input[k])
    /\ mode = "test" => faults = {}

(* Each session has open what its phase needs, and nothing when it ended,  *)
(* on every path (the fallback to stored and every error path included).   *)
HandlesClosed ==
  /\ wpc \in {"entry", "crc"} => wopen = {"arc"}
  /\ WEnded => wopen = {}
  /\ rpc \in {"entry", "ask", "mkdir", "crc"} => ropen = {"arc"}
  /\ REnded => ropen = {}

(* Once the policy is "no" (-n, or the answer "none") it stays, and no     *)
(* file that is there changes but one this session created, being written. *)
NoneIsNone ==
  [][ policy = "no" =>
        /\ policy' = "no"
        /\ \A p \in DOMAIN files :
             files'[p] = files[p] \/ (rpc = "data" /\ p = rfn) ]_avars

(* Both sessions end: no archive, however it was cut or damaged, and no    *)
(* answer keeps the reader busy for ever.                                  *)
Termination == <>(WEnded /\ REnded)

(* What is left to do: entries to write, where in the entry the writer is, *)
(* the units it has left there, faults that may come, the header, entries  *)
(* to read, where in the entry the reader is, and the units left there.    *)
WriterAhead ==
  CASE wpc = "open" -> 7 [] wpc = "header" -> 6 [] wpc = "entry" -> 5
    [] wpc = "compress" -> 4 [] wpc = "size" -> 3 [] wpc = "copy" -> 2
    [] wpc = "crc" -> 1 [] OTHER -> 0

ReaderAhead ==
  CASE rpc = "entry" -> 4 [] rpc = "ask" -> 3 [] rpc \in {"data", "mkdir"} -> 2
    [] rpc = "crc" -> 1 [] OTHER -> 0

UnitsToWrite ==
  CASE wpc = "compress" -> Len(Current.chunks) - wcnt
    [] wpc = "copy" -> Len(wbuf) - wcnt
    [] OTHER -> 0

UnitsToRead == IF rpc = "data" THEN Len(Reading.data) - rcnt ELSE 0

Remaining == << Len(input) - wpos, WriterAhead, UnitsToWrite,
                Cardinality({"cut", "damage"} \ faults),
                IF rpc = "idle" THEN 1 ELSE 0,
                rnum - rpos, ReaderAhead, UnitsToRead >>

(* The first place where p and q differ is smaller in p. *)
Lower(p, q) == \E i \in DOMAIN q : p[i] < q[i] /\ \A j \in 1 .. i - 1 : p[j] = q[j]

(* Neither session goes in circles: whatever it does, the fallback to      *)
(* stored, the prompt, a skipped entry, a refusal and an error included,   *)
(* less is left to do than before.                                         *)
Advances == [][Lower(Remaining', Remaining)]_avars

(* bra_io_file_skip_data promises "false on seek error or if skip would go *)
(* past EOF" (io/lib_bra_io_file.h): so an entry that is skipped is there. *)
SkippedIsThere ==
  \A k \in 1 .. Len(rlog) : rlog[k].how = "kept" =>
    k <= Len(arc) /\ arc[k].crc # NoCrc

----------------------------------------------------------------------------
(* The abstract specification. *)
Planned(s) == [path |-> s.path, data |-> Content(s)]

Promise == INSTANCE BraTransfer WITH
  Unverified <- [path |-> <<>>, data |-> <<>>],
  plan       <- [k \in 1 .. Len(input) |-> Planned(input[k])],
  delivered  <- [k \in 1 .. Len(rlog) |->
                   IF rlog[k].how = "done"
                     THEN [path |-> rlog[k].path, data |-> rlog[k].data]
                     ELSE [path |-> <<>>, data |-> <<>>]],
  status     <- CASE rpc = "ok"     -> "ok"
                  [] rpc = "failed" -> "failed"
                  [] OTHER          -> "running"

(* Through any fault, the pair of sessions does what an archive promises:  *)
(* what is reported as done is the plan's entry, byte for byte, in order.  *)
KeepsPromise == Promise!TSpec
============================================================================
