----------------------------- MODULE BraReader -----------------------------
(***************************************************************************)
(* unbra and the self-extractor: the session that reads an archive         *)
(* (prog/unbra.cpp and prog/bra_sfx.cpp run_prog, the reading half of      *)
(* io/lib_bra_io_file_ctx.c, meta_entries.c and chunks.c).                 *)
(*                                                                         *)
(* A session extracts into a directory that may hold files and directories *)
(* already, tests the archive (-t) or lists it (-l).                       *)
(***************************************************************************)
EXTENDS BraFormat, BraTreeDir

CONSTANTS
  Modes,   \* the modes of the sessions to consider
  Disks    \* what may be in the output directory: [files, dirs]

ASSUME ModesAssumption == Modes \subseteq {"extract", "test", "list"}

ASSUME DisksAssumption ==
  \A d \in Disks :
    /\ DOMAIN d.files \subseteq Path /\ d.dirs \subseteq Path
    /\ \A p \in DOMAIN d.files : d.files[p] \in Seq(Unit)

VARIABLES
  mode,     \* "extract", "test" or "list"
  policy,   \* BraProgram::m_overwrite_policy
  rpc,      \* where the session is
  rnum,     \* bh.num_files
  rtree,    \* ctx->tree
  rnode,    \* ctx->last_dir_node
  rfn,      \* the reconstructed full path of the entry
  rcrc,     \* me.crc32
  rcnt,     \* units of the payload handled
  files,    \* the regular files of the output directory: path -> content
  dirs,     \* its directories
  ropen,    \* open file handles: "arc" and "out"
  rlog      \* what became of each entry: the lines the session prints

rvars == <<mode, policy, rpc, rnum, rtree, rnode, rfn, rcrc, rcnt, files, dirs, ropen, rlog>>

RPhases == {"idle", "entry", "ask", "data", "mkdir", "crc", "ok", "failed"}

REnded == rpc \in {"ok", "failed"}

(* "done": verified; "kept": skipped, the user keeps a file; "listed". *)
Outcome == [how : {"done", "kept", "listed"}, path : Path, data : Seq(Unit)]

RTypeOK ==
  /\ mode \in Modes
  /\ policy \in {"ask", "yes", "no"}
  /\ rpc \in RPhases
  /\ rnum \in Nat
  /\ rtree \in Seq([parent : Nat, name : Name])
  /\ rnode \in Nodes(rtree)
  /\ rfn \in Path
  /\ rcrc \in Crc
  /\ rcnt \in Nat
  /\ DOMAIN files \subseteq Path
  /\ \A p \in DOMAIN files : files[p] \in Seq(Unit)
  /\ dirs \subseteq Path
  /\ ropen \subseteq {"arc", "out"}
  /\ rlog \in Seq(Outcome)

RInit ==
  /\ mode \in Modes
  /\ policy \in {"ask", "yes", "no"}
  /\ mode # "extract" => policy = "ask"
  /\ \E disk \in Disks : files = disk.files /\ dirs = disk.dirs
  /\ rpc = "idle"
  /\ rnum = 0
  /\ rtree = <<>>
  /\ rnode = Root
  /\ rfn = <<>>
  /\ rcrc = HeaderCrc("dir", "stored", <<>>)
  /\ rcnt = 0
  /\ ropen = {}
  /\ rlog = <<>>

rpos == Len(rlog)
Reading == arc[rpos + 1]

(* The loop over the entries is over.  (An off-by-one of it.) *)
AllReadButOne == rpos + 1 >= rnum
AllRead == rpos = rnum

----------------------------------------------------------------------------
(* An entry is refused: the handler of the step, or the destructor of      *)
(* BraProgram after it, closes what is open.                               *)
Refuse ==
  /\ rpc' = "failed"
  /\ ropen' = {}
  /\ UNCHANGED <<mode, policy, rnum, rtree, rnode, rfn, rcrc, rcnt, files, dirs, rlog>>

(* bra_io_file_ctx_open and bra_io_file_ctx_read_header. *)
ReadHeader ==
  /\ rpc = "idle"
  /\ IF hdr = NoHeader
       THEN Refuse
       ELSE /\ rpc' = "entry"
            /\ rnum' = hdr
            /\ ropen' = {"arc"}
            /\ UNCHANGED <<mode, policy, rtree, rnode, rfn, rcrc, rcnt, files, dirs, rlog>>

(* What bra_io_file_ctx_read_meta_entry does to the tree: a subdir goes    *)
(* under the parent the entry names, a dir under the root, and a file      *)
(* belongs to the last directory.  (And a reader that ignores the parent.) *)
PlacedAtRoot(e) ==
  IF e.type = "file" THEN Found(rtree, rnode) ELSE InsertAtParent(rtree, Root, e.name[1])

Placed(e) ==
  CASE e.type = "subdir" -> InsertAtParent(rtree, e.num, e.name[1])
    [] e.type = "dir"    -> InsertAtParent(rtree, Root, e.name[1])
    [] e.type = "file"   -> Found(rtree, rnode)

(* _bra_io_file_ctx_reconstruct_meta_entry_name *)
FullName(e, placed) ==
  IF e.type = "file" THEN PathOf(placed.tree, placed.node) \o e.name
                     ELSE PathOf(placed.tree, placed.node)

(* bra_io_file_ctx_read_meta_entry, the full name and the header's sum:    *)
(* the start of decode_and_write_to_disk and of print_meta_entry.          *)
ReadMetaEntry ==
  /\ rpc = "entry" /\ ~AllRead
  /\ IF rpos >= Len(arc) \/ (rpos < Len(arc) /\ Reading.num = Unwritten)
       THEN Refuse
       ELSE LET placed == Placed(Reading)
                name   == FullName(Reading, placed)
            IN  IF placed.node = NoNode
                  THEN Refuse
                  ELSE /\ rtree' = placed.tree
                       /\ rnode' = placed.node
                       /\ rfn' = name
                       /\ rcrc' = [HeaderCrc(Reading.type, Reading.comp, name)
                                     EXCEPT !.num = IF Reading.type = "dir"
                                                      THEN 0 ELSE Reading.num]
                       /\ rcnt' = 0
                       /\ rpc' = CASE Reading.type = "file" ->
                                        IF mode = "extract" THEN "ask" ELSE "data"
                                   [] OTHER ->
                                        IF mode = "extract" THEN "mkdir" ELSE "crc"
                       /\ UNCHANGED <<mode, policy, rnum, files, dirs, ropen, rlog>>

----------------------------------------------------------------------------
(* bra_fs_file_exists_ask_overwrite: the policy decides, or an answer of   *)
(* the user, "all" and "none" being remembered; no answer is a no.  (And   *)
(* a prompt that always asks, one that has no answer at the end of the     *)
(* input, and a policy that stores the answer as it is.)                   *)
AnswersUnheeded == {"yes", "no", "all", "none"}
AnswersUnending == IF policy = "ask" THEN {} ELSE {policy}
Answers == CASE policy = "yes" -> {"yes"}
             [] policy = "no"  -> {"no"}
             [] OTHER          -> {"yes", "no", "all", "none"}

RememberedAsIs(answer) == IF answer \in {"all", "none"} THEN answer ELSE policy
Remembered(answer) == CASE answer = "all"  -> "yes"
                        [] answer = "none" -> "no"
                        [] OTHER           -> policy

(* bra_io_file_skip_data: a relative seek, which the end of the file does  *)
(* not stop; neither payload nor sum is looked at.                         *)
KeepFile ==
  /\ rpc = "ask" /\ rfn \in DOMAIN files
  /\ \E answer \in Answers \cap {"no", "none"} : policy' = Remembered(answer)
  /\ rlog' = Append(rlog, [how |-> "kept", path |-> rfn, data |-> <<>>])
  /\ rpc' = "entry"
  /\ UNCHANGED <<mode, rnum, rtree, rnode, rfn, rcrc, rcnt, files, dirs, ropen>>

InDirectory(path) == Len(path) = 1 \/ SubSeq(path, 1, Len(path) - 1) \in dirs

(* bra_io_file_open(&f2, fn, "wb"): a file that is there is emptied, and   *)
(* the directory has to be there.  (And one that is opened to append.)     *)
OpenedToAppend(path) ==
  [p \in DOMAIN files \union {path} |-> IF p \in DOMAIN files THEN files[p] ELSE <<>>]
Opened(path) ==
  [p \in DOMAIN files \union {path} |-> IF p = path THEN <<>> ELSE files[p]]

OpenOutput ==
  /\ rpc = "ask"
  /\ IF rfn \in DOMAIN files
       THEN \E answer \in Answers \cap {"yes", "all"} : policy' = Remembered(answer)
       ELSE policy' = policy
  /\ IF InDirectory(rfn) /\ rfn \notin dirs
       THEN /\ files' = Opened(rfn)
            /\ ropen' = ropen \union {"out"}
            /\ rpc' = "data"
       ELSE /\ rpc' = "failed"
            /\ ropen' = {}
            /\ UNCHANGED files
  /\ UNCHANGED <<mode, rnum, rtree, rnode, rfn, rcrc, rcnt, dirs, rlog>>

(* The next unit of the payload goes to the output and into the sum:       *)
(* bra_io_file_chunks_copy_file.                                           *)
Take(unit, written) ==
  /\ files' = IF mode = "extract" THEN [files EXCEPT ![rfn] = Append(@, written)]
                                  ELSE files
  /\ rcrc' = [rcrc EXCEPT !.data = Append(@, unit)]
  /\ rcnt' = rcnt + 1
  /\ UNCHANGED <<mode, policy, rpc, rnum, rtree, rnode, rfn, dirs, ropen, rlog>>

(* The payload is shorter than its size says. *)
Truncated == TotalBytes(Reading.data) < Reading.num

Left == rcnt < Len(Reading.data)

CopyStored ==
  /\ rpc = "data" /\ Reading.comp = "stored" /\ Left
  /\ Take(Reading.data[rcnt + 1], Reading.data[rcnt + 1])

(* bra_io_file_chunks_decompress_file: a chunk header with a size above    *)
(* BRA_MAX_CHUNK_SIZE is refused.  What is no encoding, or a damaged one,  *)
(* may be noticed by a decoder, or decode to something else.               *)
Decodable(unit) == unit.enc /\ unit.ok

Decompress ==
  /\ rpc = "data" /\ Reading.comp = "compressed" /\ Left
  /\ LET unit == Reading.data[rcnt + 1]
     IN  \/ /\ unit.enc => unit.chunk \notin Oversized
            /\ Take(IF unit.enc THEN unit ELSE Damaged(unit),
                    IF Decodable(unit) THEN Decoded(unit) ELSE Damaged(Decoded(unit)))
         \/ /\ ~Decodable(unit) \/ unit.chunk \in Oversized
            /\ Refuse

(* The data is there but for its end. *)
MissingData ==
  /\ rpc = "data" /\ ~Left /\ Truncated
  /\ Refuse

(* After the last unit; compressed data has to be smaller than the file.   *)
DecodedAll(units) == [k \in 1 .. Len(units) |-> Decoded(units[k])]
DecodedSize == TotalBytes(DecodedAll(Reading.data))

DataEnd ==
  /\ rpc = "data" /\ ~Left /\ ~Truncated
  /\ IF Reading.comp = "compressed" /\ DecodedSize <= Reading.num
       THEN Refuse
       ELSE /\ rpc' = "crc"
            /\ ropen' = ropen \ {"out"}
            /\ UNCHANGED <<mode, policy, rnum, rtree, rnode, rfn, rcrc, rcnt, files, dirs, rlog>>

----------------------------------------------------------------------------
(* bra_fs_dir_make: create_directories, with every directory on the way.   *)
Ancestry(path) == {SubSeq(path, 1, k) : k \in 1 .. Len(path)}

MakeDir ==
  /\ rpc = "mkdir"
  /\ IF rfn \notin dirs /\ Ancestry(rfn) \cap DOMAIN files # {}
       THEN Refuse
       ELSE /\ dirs' = dirs \union Ancestry(rfn)
            /\ rpc' = "crc"
            /\ UNCHANGED <<mode, policy, rnum, rtree, rnode, rfn, rcrc, rcnt, files, ropen, rlog>>

(* The sum of the entry is read, and compared unless listing.  (And a      *)
(* reader that does not compare, and one that only does when extracting.)  *)
CrcRead == Reading.crc # NoCrc
CrcReadOrExtracted == Reading.crc # NoCrc /\ (mode = "extract" => Reading.crc = rcrc)
CrcAccepted == Reading.crc # NoCrc /\ (mode # "list" => Reading.crc = rcrc)

CheckCrc ==
  /\ rpc = "crc"
  /\ IF ~CrcAccepted
       THEN Refuse
       ELSE /\ rlog' = Append(rlog,
                 [how  |-> IF mode = "list" THEN "listed" ELSE "done",
                  path |-> rfn,
                  data |-> IF mode = "extract" /\ Reading.type = "file"
                             THEN files[rfn] ELSE DecodedAll(rcrc.data)])
            /\ rpc' = "entry"
            /\ UNCHANGED <<mode, policy, rnum, rtree, rnode, rfn, rcrc, rcnt, files, dirs, ropen>>

(* All num_files entries are handled: the archive is closed, status 0. *)
CloseInput ==
  /\ rpc = "entry" /\ AllRead
  /\ rpc' = "ok"
  /\ ropen' = {}
  /\ UNCHANGED <<mode, policy, rnum, rtree, rnode, rfn, rcrc, rcnt, files, dirs, rlog>>

RStep ==
  \/ ReadHeader \/ ReadMetaEntry \/ KeepFile \/ OpenOutput
  \/ CopyStored \/ Decompress \/ MissingData \/ DataEnd
  \/ MakeDir \/ CheckCrc \/ CloseInput

(* A read or a write fails: what the error path of the step closes.  (And  *)
(* one that forgets the output file.)                                      *)
RClosedArchive == {"arc"}
RClosedOnError == IF rpc = "data" THEN {"arc", "out"} ELSE {"arc"}

RIoError ==
  /\ ~REnded
  /\ rpc' = "failed"
  /\ ropen' = ropen \ RClosedOnError
  /\ UNCHANGED <<mode, policy, rnum, rtree, rnode, rfn, rcrc, rcnt, files, dirs, rlog>>
============================================================================
