----------------------------- MODULE BraWriter -----------------------------
(***************************************************************************)
(* bra: the session that writes an archive (prog/bra.cpp run_prog, the     *)
(* writing half of io/lib_bra_io_file_ctx.c, meta_entries.c and chunks.c). *)
(*                                                                         *)
(* The entries to archive are given in the order run_prog visits m_tree:   *)
(* each directory, then its files, then the next directory.                *)
(***************************************************************************)
EXTENDS BraFormat, BraTreeDir, BraPlan

CONSTANT Inputs   \* the entry lists a session may be started with

(* A source entry: a file with its chunks, or a directory, which has none. *)
Source ==
  {s \in [kind : {"dir", "file"}, path : Path \ {<<>>}, chunks : Seq(Chunk)] :
     s.kind = "dir" => s.chunks = <<>>}

(* BraInputs shows that validateArgs leaves nothing but plans. *)
ASSUME InputsAssumption == \A s \in Inputs : s \in Seq(Source) /\ IsPlan(s)

VARIABLES
  input,      \* the entries of this session
  compress,   \* BraProgram::m_compress
  wpc,        \* where the session is
  wpos,       \* entries written (m_written_num_files)
  wtree,      \* ctx->tree
  wnode,      \* ctx->last_dir_node
  wdir,       \* ctx->last_dir
  wcrc,       \* me->crc32 of the entry being written
  wbuf,       \* the units to write as payload: of the source, or of the tmpfile
  wcnt,       \* how many of them were handled
  wopen       \* open file handles: "arc", "src" and "tmp"

wvars == <<input, compress, wpc, wpos, wtree, wnode, wdir, wcrc, wbuf, wcnt, wopen>>

WPhases == {"open", "header", "entry", "size", "compress", "copy", "crc",
            "done", "failed", "crashed"}

WEnded == wpc \in {"done", "failed", "crashed"}

WTypeOK ==
  /\ FormatTypeOK
  /\ input \in Seq(Source)
  /\ compress \in BOOLEAN
  /\ wpc \in WPhases
  /\ wpos \in 0 .. Len(input)
  /\ wtree \in Seq([parent : Nat, name : Name])
  /\ wnode \in Nodes(wtree)
  /\ wdir \in Path
  /\ wcrc \in Crc
  /\ wbuf \in Seq(Unit)
  /\ wcnt \in Nat
  /\ wopen \subseteq {"arc", "src", "tmp"}

WInit ==
  /\ input \in Inputs
  /\ compress \in BOOLEAN
  /\ hdr = NoHeader
  /\ arc = <<>>
  /\ wpc = "open"
  /\ wpos = 0
  /\ wtree = <<>>
  /\ wnode = Root
  /\ wdir = <<>>
  /\ wcrc = HeaderCrc("dir", "stored", <<>>)
  /\ wbuf = <<>>
  /\ wcnt = 0
  /\ wopen = {}

Current == input[wpos + 1]
Last == Len(arc)

----------------------------------------------------------------------------
(* bra_io_file_ctx_open, mode "wb": an archive of that name is truncated. *)
OpenArchive ==
  /\ wpc = "open"
  /\ wpc' = "header"
  /\ wopen' = {"arc"}
  /\ hdr' = NoHeader
  /\ arc' = <<>>
  /\ UNCHANGED <<input, compress, wpos, wtree, wnode, wdir, wcrc, wbuf, wcnt>>

(* bra_io_file_ctx_write_header: the count comes first, the entries later. *)
WriteHeader ==
  /\ wpc = "header"
  /\ wpc' = "entry"
  /\ hdr' = Len(input)
  /\ UNCHANGED <<arc, input, compress, wpos, wtree, wnode, wdir, wcrc, wbuf, wcnt, wopen>>

(* The entry cannot be written: every path of the code closes the archive. *)
GiveUp ==
  /\ wpc' = "failed"
  /\ wopen' = {}
  /\ UNCHANGED <<hdr, arc, input, compress, wpos, wtree, wnode, wdir, wcrc, wbuf, wcnt>>

(* _bra_io_file_ctx_write_meta_entry_dir_subdir: the entry holds the last  *)
(* component and, below the first level, the index of the parent.          *)
WriteDir ==
  /\ wpc = "entry" /\ wpos < Len(input) /\ Current.kind = "dir"
  /\ LET added  == DirAdd(wtree, Current.path)
         node   == added.tree[added.node]
         type   == IF node.parent = Root THEN "dir" ELSE "subdir"
     IN  IF added.node = NoNode
           THEN GiveUp
           ELSE /\ wtree' = added.tree
                /\ wnode' = added.node
                /\ wdir' = Current.path
                /\ arc' = Append(arc,
                     [type |-> type, comp |-> "stored", name |-> <<node.name>>,
                      num |-> node.parent, data |-> <<>>, crc |-> NoCrc])
                /\ wcrc' = [HeaderCrc(type, "stored", Current.path)
                              EXCEPT !.num = node.parent]
                /\ wpc' = "crc"
                /\ UNCHANGED <<hdr, input, compress, wpos, wbuf, wcnt, wopen>>

InLastDir(path) ==
  /\ Len(wdir) < Len(path)
  /\ SubSeq(path, 1, Len(wdir)) = wdir

(* _bra_io_file_ctx_write_meta_entry_file down to the payload: the name is *)
(* what follows the last directory, the attributes carry the compression   *)
(* before it is known whether compressing pays.                            *)
WriteFileHeader ==
  /\ wpc = "entry" /\ wpos < Len(input) /\ Current.kind = "file"
  /\ LET comp == IF compress THEN "compressed" ELSE "stored"
     IN  IF ~InLastDir(Current.path)
           THEN GiveUp
           ELSE /\ arc' = Append(arc,
                     [type |-> "file", comp |-> comp,
                      name |-> SubSeq(Current.path, Len(wdir) + 1, Len(Current.path)),
                      num |-> Unwritten, data |-> <<>>, crc |-> NoCrc])
                /\ wcrc' = HeaderCrc("file", comp, Current.path)
                /\ wbuf' = IF compress THEN <<>> ELSE RawUnits(Current.chunks)
                /\ wcnt' = 0
                /\ wpc' = IF compress THEN "compress" ELSE "size"
                /\ wopen' = wopen \union (IF compress THEN {"src", "tmp"} ELSE {"src"})
                /\ UNCHANGED <<hdr, input, compress, wpos, wtree, wnode, wdir>>

(* bra_io_file_chunks_compress_file, one chunk into the tmpfile. *)
CompressChunk ==
  /\ wpc = "compress" /\ wcnt < Len(Current.chunks)
  /\ wbuf' = Append(wbuf, Enc(Current.chunks[wcnt + 1]))
  /\ wcnt' = wcnt + 1
  /\ UNCHANGED <<hdr, arc, input, compress, wpc, wpos, wtree, wnode, wdir, wcrc, wopen>>

(* The tmpfile is smaller: its size goes to the archive, its sum into the  *)
(* sum of the entry (bra_crc32c_combine), its units are copied next.  (And *)
(* the same without the combination.)                                      *)
KeepUnsummed ==
  /\ wpc = "compress" /\ wcnt = Len(Current.chunks)
  /\ TotalBytes(wbuf) < TotalBytes(RawUnits(Current.chunks))
  /\ arc' = [arc EXCEPT ![Last].num = TotalBytes(wbuf)]
  /\ wcrc' = [wcrc EXCEPT !.num = TotalBytes(wbuf)]
  /\ wcnt' = 0
  /\ wpc' = "copy"
  /\ UNCHANGED <<hdr, input, compress, wpos, wtree, wnode, wdir, wbuf, wopen>>

KeepCompressed ==
  /\ wpc = "compress" /\ wcnt = Len(Current.chunks)
  /\ TotalBytes(wbuf) < TotalBytes(RawUnits(Current.chunks))
  /\ arc' = [arc EXCEPT ![Last].num = TotalBytes(wbuf)]
  /\ wcrc' = [wcrc EXCEPT !.num = TotalBytes(wbuf), !.data = wbuf]
  /\ wcnt' = 0
  /\ wpc' = "copy"
  /\ UNCHANGED <<hdr, input, compress, wpos, wtree, wnode, wdir, wbuf, wopen>>

(* It is not: the attributes become STORED, the archive is rewound to the  *)
(* start of the entry and the whole of it is done again, sum included.     *)
(* (And the same with the attributes left as they are, and with the sum    *)
(* going on from the first attempt.)                                       *)
FallBackToCompressed ==
  /\ wpc = "compress" /\ wcnt = Len(Current.chunks)
  /\ TotalBytes(wbuf) >= TotalBytes(RawUnits(Current.chunks))
  /\ wcrc' = HeaderCrc("file", "compressed", Current.path)
  /\ wbuf' = <<>>
  /\ wcnt' = 0
  /\ UNCHANGED <<hdr, arc, input, compress, wpc, wpos, wtree, wnode, wdir, wopen>>

FallBackHalfway ==
  /\ wpc = "compress" /\ wcnt = Len(Current.chunks)
  /\ TotalBytes(wbuf) >= TotalBytes(RawUnits(Current.chunks))
  /\ arc' = [arc EXCEPT ![Last].comp = "stored"]
  /\ wbuf' = RawUnits(Current.chunks)
  /\ wcnt' = 0
  /\ wpc' = "size"
  /\ wopen' = wopen \ {"tmp"}
  /\ UNCHANGED <<hdr, input, compress, wpos, wtree, wnode, wdir, wcrc>>

FallBackToStored ==
  /\ wpc = "compress" /\ wcnt = Len(Current.chunks)
  /\ TotalBytes(wbuf) >= TotalBytes(RawUnits(Current.chunks))
  /\ arc' = [arc EXCEPT ![Last].comp = "stored"]
  /\ wcrc' = HeaderCrc("file", "stored", Current.path)
  /\ wbuf' = RawUnits(Current.chunks)
  /\ wcnt' = 0
  /\ wpc' = "size"
  /\ wopen' = wopen \ {"tmp"}
  /\ UNCHANGED <<hdr, input, compress, wpos, wtree, wnode, wdir>>

(* The stored payload: first its size... *)
WriteSize ==
  /\ wpc = "size"
  /\ arc' = [arc EXCEPT ![Last].num = TotalBytes(wbuf)]
  /\ wcrc' = [wcrc EXCEPT !.num = TotalBytes(wbuf)]
  /\ wpc' = "copy"
  /\ UNCHANGED <<hdr, input, compress, wpos, wtree, wnode, wdir, wbuf, wcnt, wopen>>

(* ...then bra_io_file_chunks_copy_file, which sums a stored payload as it *)
(* goes and leaves the sum of a compressed one alone (compute_crc32).      *)
CopyUnit ==
  /\ wpc = "copy" /\ wcnt < Len(wbuf)
  /\ arc' = [arc EXCEPT ![Last].data = Append(@, wbuf[wcnt + 1])]
  /\ wcrc' = IF arc[Last].comp = "stored"
               THEN [wcrc EXCEPT !.data = Append(@, wbuf[wcnt + 1])]
               ELSE wcrc
  /\ wcnt' = wcnt + 1
  /\ UNCHANGED <<hdr, input, compress, wpc, wpos, wtree, wnode, wdir, wbuf, wopen>>

CopyEnd ==
  /\ wpc = "copy" /\ wcnt = Len(wbuf)
  /\ wpc' = "crc"
  /\ wopen' = {"arc"}
  /\ UNCHANGED <<hdr, arc, input, compress, wpos, wtree, wnode, wdir, wcrc, wbuf, wcnt>>

(* The end of bra_io_file_ctx_write_meta_entry. *)
WriteCrc ==
  /\ wpc = "crc"
  /\ arc' = [arc EXCEPT ![Last].crc = wcrc]
  /\ wpos' = wpos + 1
  /\ wpc' = "entry"
  /\ UNCHANGED <<hdr, input, compress, wtree, wnode, wdir, wcrc, wbuf, wcnt, wopen>>

(* bra_io_file_ctx_close after the last entry. *)
CloseArchive ==
  /\ wpc = "entry" /\ wpos = Len(input)
  /\ wpc' = "done"
  /\ wopen' = {}
  /\ UNCHANGED <<hdr, arc, input, compress, wpos, wtree, wnode, wdir, wcrc, wbuf, wcnt>>

WStep ==
  \/ OpenArchive \/ WriteHeader \/ WriteDir \/ WriteFileHeader
  \/ CompressChunk \/ KeepCompressed \/ FallBackToStored
  \/ WriteSize \/ CopyUnit \/ CopyEnd \/ WriteCrc \/ CloseArchive

----------------------------------------------------------------------------
(* Which handles the error path of a step closes, the destructor of        *)
(* BraProgram included (it closes the archive, and nothing else).          *)
ClosedOnError(pc) ==
  CASE pc = "compress" -> {"arc", "src", "tmp"}
    [] pc = "copy"     -> {"arc", "src", "tmp"}
    [] pc = "size"     -> {"arc", "src"}
    [] OTHER           -> {"arc"}

(* A read, a write, an open or the tmpfile fails: the session ends with    *)
(* what was written so far left on the disk.                               *)
WIoError ==
  /\ ~WEnded
  /\ wpc' = "failed"
  /\ wopen' = wopen \ ClosedOnError(wpc)
  /\ UNCHANGED <<hdr, arc, input, compress, wpos, wtree, wnode, wdir, wcrc, wbuf, wcnt>>
============================================================================
