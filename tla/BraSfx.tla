------------------------------ MODULE BraSfx ------------------------------
(***************************************************************************)
(* bra -s: a self-extracting archive is written into a temporary file that *)
(* starts as a copy of the module bra.sfx, and moved onto the output when  *)
(* it is complete (prog/bra.cpp, io/lib_bra_io_file_ctx.c, file_rename in  *)
(* fs/bra_fs.cpp).  The program runs again and again, may crash at any     *)
(* step and have any of its calls fail.                                    *)
(*                                                                         *)
(* A file is a sequence of units.  The last bytes of bra.sfx are what the  *)
(* footer overwrites.  What is written goes to the buffer of the stream    *)
(* first, and from there to the file whenever the C library likes.         *)
(***************************************************************************)
EXTENDS Integers, Sequences, SequencesExt

CONSTANTS
  Entries,   \* how many entries are archived
  Inner,     \* those that are self-extracting archives themselves
  Before,    \* what may be at the place of the output at the start
  MaxRuns,   \* bound on the runs of bra
  MaxFaults  \* bound on the crashes and the failing calls

ASSUME SfxAssumption ==
  /\ Entries \in Nat \ {0} /\ Inner \subseteq 1 .. Entries
  /\ MaxRuns \in Nat /\ MaxFaults \in Nat

VARIABLES
  run,     \* the number of the run
  pc,      \* where it is; "failed", "crashed" or "done" when it has ended
  policy,  \* m_overwrite_policy
  agreed,  \* the places the user agreed to overwrite in this run
  tmp,     \* the temporary file
  final,   \* the output
  offset,  \* m_header_offset
  count,   \* the units written
  buffer,  \* those of them that are still in the stream's buffer
  place,   \* where in the file the buffer goes
  faults,  \* the faults so far
  old,     \* history: the output when the run started
  lost     \* history: closing the file lost the buffer, in some run

svars == <<run, pc, policy, agreed, tmp, final, offset, count, buffer, place, faults, old, lost>>

Ended == {"idle", "failed", "crashed", "done"}

----------------------------------------------------------------------------
Unit(what, r, k) == [what |-> what, run |-> r, k |-> k]
Stub   == Unit("stub", 0, 0)
Module == <<Stub, Unit("tail", 0, 0)>>
Steps  == <<"meta", "data", "crc">>

(* What a run writes: header, entries, and a footer that says where the    *)
(* header is.                                                              *)
Header(r) == Unit("header", r, Entries)
Payload(r) == [j \in 1 .. 3 * Entries |-> Unit(Steps[((j - 1) % 3) + 1], r, ((j - 1) \div 3) + 1)]
Footer(r, where) == Unit("footer", r, where)
Whole(r) == <<Stub, Header(r)>> \o Payload(r) \o <<Footer(r, 1)>>

(* The data of an entry that is an archive ends with its footer, and where *)
(* the header is depends on the module alone.                              *)
IsFooter(u) == u.what = "footer" \/ (u.what = "data" /\ u.k \in Inner)
HeaderOffset(u) == IF u.what = "footer" THEN u.k ELSE 1

(* bra_io_file_ctx_sfx_open_and_read_footer_header, and the entries        *)
ReadsThrough(s) ==
  /\ Len(s) > 0 /\ IsFooter(Last(s))
  /\ LET at == HeaderOffset(Last(s)) + 1
     IN  /\ at > 1 /\ at < Len(s) - 1
         /\ s[at].what = "header"
         /\ at + 3 * Entries <= Len(s)
         /\ \A j \in 1 .. 3 * Entries :
              s[at + j].what = Payload(0)[j].what /\ s[at + j].k = Payload(0)[j].k

----------------------------------------------------------------------------
Nothing   == [kind |-> "none", units |-> <<>>]
EmptyDir  == [kind |-> "empty", units |-> <<>>]
FullDir   == [kind |-> "full", units |-> <<>>]
File(s)   == [kind |-> "file", units |-> s]
IsDir(n)  == n.kind \in {"empty", "full"}

Init ==
  /\ run = 0 /\ pc = "idle" /\ policy = "ask" /\ agreed = {}
  /\ tmp = Nothing /\ final \in Before /\ old = final
  /\ offset = 0 /\ count = 0 /\ buffer = <<>> /\ place = 0
  /\ faults = 0 /\ lost = FALSE

Start ==
  /\ pc \in Ended /\ run < MaxRuns
  /\ run' = run + 1 /\ pc' = "asktmp" /\ policy' \in {"ask", "yes", "no"}
  /\ agreed' = {} /\ old' = final
  /\ offset' = -1 /\ count' = 0 /\ buffer' = <<>> /\ place' = 0
  /\ UNCHANGED <<tmp, final, faults, lost>>

(* file_exists_ask_overwrite asks about regular files only.  (And one that *)
(* takes the temporary for its own.)                                       *)
AskedOutput(name) == name = "final" /\ final.kind = "file"
Asked(name) == (IF name = "tmp" THEN tmp ELSE final).kind = "file"

(* Bra::validateArgs: the temporary file, then the output. *)
Ask(name, here, next) ==
  /\ pc = here
  /\ \E yes \in IF policy = "ask" THEN BOOLEAN ELSE {policy = "yes"} :
       /\ pc' = IF Asked(name) /\ ~yes THEN "failed" ELSE next
       /\ agreed' = IF Asked(name) /\ yes THEN agreed \union {name} ELSE agreed
  /\ UNCHANGED <<run, policy, tmp, final, offset, count, buffer, place, faults, old, lost>>

AskTemporary == Ask("tmp", "asktmp", "askfinal")
AskOutput    == Ask("final", "askfinal", "copy")

----------------------------------------------------------------------------
(* fs::copy_file of the module, overwriting.  (And one that writes over    *)
(* what is there.)                                                         *)
CopyKept == IF tmp.kind = "file" /\ Len(tmp.units) > 2 THEN tmp ELSE File(Module)
Copied == File(Module)

CopyModule ==
  /\ pc = "copy"
  /\ tmp' = Copied /\ pc' = "open"
  /\ UNCHANGED <<run, policy, agreed, final, offset, count, buffer, place, faults, old, lost>>

(* bra_io_file_ctx_sfx_open: at the end less the size of a footer *)
OpenTemporary ==
  /\ pc = "open"
  /\ place' = Len(tmp.units) - 1 /\ offset' = place' /\ pc' = "write"
  /\ UNCHANGED <<run, policy, agreed, tmp, final, count, buffer, faults, old, lost>>

Write(u) ==
  /\ buffer' = Append(buffer, u) /\ count' = count + 1
  /\ UNCHANGED <<run, policy, agreed, tmp, final, offset, place, faults, old, lost>>

WriteHeader ==
  /\ pc = "write" /\ count = 0
  /\ Write(Header(run)) /\ UNCHANGED pc

WriteEntry ==
  /\ pc = "write" /\ count \in 1 .. 3 * Entries
  /\ Write(Payload(run)[count]) /\ UNCHANGED pc

(* m_header_offset.  (And one that was never set.) *)
OffsetUnset == -1
OffsetOfHeader == offset

(* The loops of run_prog are through.  (And one that stops one short.) *)
AllButOne == count = 3 * Entries
AllWritten == count = 3 * Entries + 1

WriteFooter ==
  /\ pc = "write" /\ AllWritten
  /\ Write(Footer(run, OffsetOfHeader)) /\ pc' = "close"

(* The file with the first n units of the buffer in it. *)
Flushed(n) == File(SubSeq(tmp.units, 1, place) \o SubSeq(buffer, 1, n))

Flush ==
  /\ pc \in {"write", "close"} /\ buffer # <<>>
  /\ tmp' = Flushed(1) /\ place' = place + 1 /\ buffer' = Tail(buffer)
  /\ UNCHANGED <<run, pc, policy, agreed, final, offset, count, faults, old, lost>>

(* bra_io_file_ctx_close: what fclose says of the rest is ignored. *)
CloseTemporary ==
  /\ pc = "close" /\ pc' = "remove" /\ buffer' = <<>>
  /\ \/ tmp' = Flushed(Len(buffer)) /\ UNCHANGED <<faults, lost>>
     \/ /\ buffer # <<>> /\ faults < MaxFaults
        /\ \E n \in 0 .. Len(buffer) - 1 : tmp' = IF n = 0 THEN tmp ELSE Flushed(n)
        /\ faults' = faults + 1 /\ lost' = TRUE
  /\ UNCHANGED <<run, policy, agreed, final, offset, count, place, old>>

----------------------------------------------------------------------------
(* bra::fs::file_rename: remove the destination (what comes of it is       *)
(* ignored), rename, and else copy and remove the source.  (And a rename   *)
(* nobody looks at the result of.)                                         *)
RemoveOutput ==
  /\ pc = "remove" /\ pc' = "rename"
  /\ \/ final' = (IF final.kind = "full" THEN final ELSE Nothing) /\ UNCHANGED faults
     \/ faults < MaxFaults /\ faults' = faults + 1 /\ UNCHANGED final
  /\ UNCHANGED <<run, policy, agreed, tmp, offset, count, buffer, place, old, lost>>

RenameUnchecked ==
  /\ pc = "rename" /\ pc' = "done"
  /\ IF IsDir(final) THEN UNCHANGED <<tmp, final>> ELSE final' = tmp /\ tmp' = Nothing
  /\ UNCHANGED <<run, policy, agreed, offset, count, buffer, place, faults, old, lost>>

Rename ==
  /\ pc = "rename"
  /\ \/ /\ ~IsDir(final)
        /\ final' = tmp /\ tmp' = Nothing /\ pc' = "done" /\ UNCHANGED faults
     \/ IsDir(final) /\ pc' = "failed" /\ UNCHANGED <<tmp, final, faults>>
     \/ /\ ~IsDir(final) /\ faults < MaxFaults /\ faults' = faults + 1
        /\ final' = File(<<>>) /\ pc' = "copyover" /\ UNCHANGED tmp
  /\ UNCHANGED <<run, policy, agreed, offset, count, buffer, place, old, lost>>

CopyOver ==
  /\ pc = "copyover" /\ Len(final.units) < Len(tmp.units)
  /\ final' = File(SubSeq(tmp.units, 1, Len(final.units) + 1))
  /\ UNCHANGED <<run, pc, policy, agreed, tmp, offset, count, buffer, place, faults, old, lost>>

RemoveTemporary ==
  /\ pc = "copyover" /\ final.units = tmp.units /\ pc' = "done"
  /\ \/ tmp' = Nothing /\ UNCHANGED faults
     \/ faults < MaxFaults /\ faults' = faults + 1 /\ UNCHANGED tmp
  /\ UNCHANGED <<run, policy, agreed, final, offset, count, buffer, place, old, lost>>

----------------------------------------------------------------------------
(* Some call fails: the program returns an error, and closing the file     *)
(* flushes what can be flushed.  The copy of the module may stop halfway,  *)
(* with an exception nobody catches.                                       *)
Fail ==
  /\ pc \in {"copy", "open", "write", "copyover"} /\ faults < MaxFaults
  /\ faults' = faults + 1 /\ pc' = "failed" /\ buffer' = <<>>
  /\ IF pc = "copy" THEN tmp' \in {tmp, File(<<>>), File(<<Stub>>)}
     ELSE IF buffer = <<>> THEN UNCHANGED tmp
     ELSE \E n \in 0 .. Len(buffer) : tmp' = IF n = 0 THEN tmp ELSE Flushed(n)
  /\ UNCHANGED <<run, policy, agreed, final, offset, count, place, old, lost>>

Crash ==
  /\ pc \notin Ended /\ faults < MaxFaults
  /\ faults' = faults + 1 /\ pc' = "crashed" /\ buffer' = <<>>
  /\ UNCHANGED <<run, policy, agreed, tmp, final, offset, count, place, old, lost>>

Halt == pc \in Ended /\ run = MaxRuns /\ UNCHANGED svars

Next ==
  \/ Start \/ AskTemporary \/ AskOutput
  \/ CopyModule \/ OpenTemporary \/ WriteHeader \/ WriteEntry \/ WriteFooter \/ Flush
  \/ CloseTemporary \/ RemoveOutput \/ Rename \/ CopyOver \/ RemoveTemporary
  \/ Fail \/ Crash \/ Halt

Spec == Init /\ [][Next]_svars

----------------------------------------------------------------------------
Kinds == {"none", "empty", "full", "file"}

IsUnit(u) == u.run \in 0 .. MaxRuns /\ u.k \in Nat
IsNode(n) == n.kind \in Kinds /\ \A i \in DOMAIN n.units : IsUnit(n.units[i])

STypeOK ==
  /\ run \in 0 .. MaxRuns
  /\ pc \in Ended \union {"asktmp", "askfinal", "copy", "open", "write", "close",
                          "remove", "rename", "copyover"}
  /\ policy \in {"ask", "yes", "no"} /\ agreed \subseteq {"tmp", "final"}
  /\ IsNode(tmp) /\ IsNode(final) /\ IsNode(old)
  /\ offset \in Nat \union {-1} /\ count \in 0 .. 3 * Entries + 2
  /\ (\A i \in DOMAIN buffer : IsUnit(buffer[i])) /\ place \in Nat
  /\ faults \in 0 .. MaxFaults /\ lost \in BOOLEAN

IsWhole(n, r) == n.kind = "file" /\ n.units = Whole(r)

(* What was made before is no half of an archive either. *)
ASSUME BeforeAssumption ==
  \A n \in Before :
    /\ IsNode(n)
    /\ ReadsThrough(n.units) => \E r \in 0 .. MaxRuns : IsWhole(n, r)

(* Whatever run crashed or failed where, and whatever is archived: a file  *)
(* that the reader takes to its end is one archive from its first to its   *)
(* last unit, never the beginning of one or the remains of two.            *)
AcceptedIsWhole ==
  \A n \in {tmp, final} : ReadsThrough(n.units) => \E r \in 0 .. MaxRuns : IsWhole(n, r)

(* The output is touched only when what replaces it is complete: from then *)
(* on the new archive is in one of the two places.  Unless fclose failed.  *)
ReplacedByWhole ==
  \/ final = old \/ lost
  \/ IsWhole(final, run) \/ IsWhole(tmp, run)

(* An archive that was complete is gone only after the user agreed, in     *)
(* that run, to overwrite the file it was in: also the temporary file that *)
(* a crash left behind.                                                    *)
Survives(r) == IsWhole(tmp, r) \/ IsWhole(final, r)

GoneOnlyIfAgreed ==
  [][\A r \in 0 .. MaxRuns :
       Survives(r) /\ ~Survives(r)' =>
         \/ IsWhole(tmp, r) /\ "tmp" \in agreed
         \/ IsWhole(final, r) /\ "final" \in agreed]_svars

(* Exit status 0: the output is the archive of this run, and a temporary   *)
(* file that is still there is the same.  Unless fclose failed.            *)
SuccessIsMoved ==
  pc = "done" /\ ~lost =>
    IsWhole(final, run) /\ (tmp = Nothing \/ tmp = final)

(* The same, of every run: closing a file "always succeeds".               *)
SuccessIsWhole == pc = "done" => IsWhole(final, run)

(* "if to is a directory, the operation fails"                             *)
DirectoryStays == IsDir(old) => final = old
============================================================================
