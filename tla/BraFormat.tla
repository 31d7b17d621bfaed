----------------------------- MODULE BraFormat -----------------------------
(***************************************************************************)
(* The archive file (.BRa): a header with the number of entries, then the  *)
(* entries, each one                                                       *)
(*                                                                         *)
(*   attributes | name size | name | data size (file) or parent index     *)
(*   (subdir) | payload (file) | crc32                                     *)
(*                                                                         *)
(* An entry is a record; what a crash or a truncation cut off is Unwritten *)
(* or NoCrc or a payload shorter than the size says.  A payload is a       *)
(* sequence of units: a unit is one chunk of the source file as it is, or  *)
(* its encoding together with its chunk header (enc).                      *)
(*                                                                         *)
(* A crc32 is the record of what was fed to bra_crc32c: two of them are    *)
(* equal when the same things were hashed.  That different inputs give     *)
(* different sums is the assumption the format makes of CRC-32C.           *)
(***************************************************************************)
EXTENDS Integers, Sequences

CONSTANTS
  Name,        \* names of files and directories: one path component each
  Chunk,       \* what a chunk of a source file can hold
  RawSize,     \* [Chunk -> Nat]: its size in bytes
  EncSize,     \* [Chunk -> Nat]: size of its encoding, chunk header included
  Oversized,   \* chunks whose RLE output is longer than BRA_MAX_CHUNK_SIZE
  Unwritten,   \* a field the archive file ends before
  NoCrc,       \* the same for the crc32 of an entry
  NoHeader     \* an archive file that ends before its header does

ASSUME ChunkAssumption ==
  /\ RawSize \in [Chunk -> Nat \ {0}]
  /\ EncSize \in [Chunk -> Nat \ {0}]
  /\ Oversized \subseteq Chunk

VARIABLES
  hdr,   \* bra_io_header_t.num_files, or NoHeader
  arc    \* the entries in the archive file

Path == Seq(Name)

Unit == [chunk : Chunk, enc : BOOLEAN, ok : BOOLEAN]

Raw(c) == [chunk |-> c, enc |-> FALSE, ok |-> TRUE]
Enc(c) == [chunk |-> c, enc |-> TRUE, ok |-> TRUE]

(* What decoding makes of a unit, and what the medium makes of one. *)
Decoded(u) == [u EXCEPT !.enc = FALSE]
Damaged(u) == [u EXCEPT !.ok = FALSE]

Bytes(u) == IF u.enc THEN EncSize[u.chunk] ELSE RawSize[u.chunk]

TotalBytes(s) ==
  LET total[k \in 0 .. Len(s)] ==
        IF k = 0 THEN 0 ELSE total[k - 1] + Bytes(s[k])
  IN  total[Len(s)]

RawUnits(chunks) == [k \in 1 .. Len(chunks) |-> Raw(chunks[k])]

Types == {"file", "dir", "subdir"}
Comps == {"stored", "compressed"}

(* _bra_compute_header_crc32 starts a sum over attributes and full path;   *)
(* num is the data size or the parent index, data the payload.  (And a sum *)
(* that leaves the name out.)                                              *)
NamelessCrc(type, comp, path) ==
  [type |-> type, comp |-> comp, path |-> <<>>, num |-> 0, data |-> <<>>,
   ok |-> TRUE]

HeaderCrc(type, comp, path) ==
  [type |-> type, comp |-> comp, path |-> path, num |-> 0, data |-> <<>>,
   ok |-> TRUE]

Crc == [type : Types, comp : Comps, path : Path, num : Nat, data : Seq(Unit),
        ok : BOOLEAN]

Entry == [type : Types, comp : Comps, name : Path \ {<<>>}, num : Nat \union {Unwritten},
          data : Seq(Unit), crc : Crc \union {NoCrc}]

(* What is not in the file is no value of its field. *)
ASSUME MarkersAssumption ==
  Unwritten \notin Nat /\ NoHeader \notin Nat /\ NoCrc \notin Crc

FormatTypeOK ==
  /\ hdr \in Nat \union {NoHeader}
  /\ arc \in Seq(Entry)
============================================================================
