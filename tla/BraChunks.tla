----------------------------- MODULE BraChunks -----------------------------
(***************************************************************************)
(* The payload of one file entry, byte for byte: chunk by chunk into the   *)
(* archive (io/lib_bra_io_file_chunks.c, flush_entry_file) and out again,  *)
(* with the sums of both sides.  BraWriter and BraReader have the same     *)
(* steps for whole sessions, with payloads and sums that are only marked;  *)
(* here the encoders and the arithmetic of the sums are at work, and the   *)
(* source file may change under the writer, and the archive before it is   *)
(* read.                                                                   *)
(***************************************************************************)
EXTENDS BraCodecs, BraCrc32c

CONSTANTS
  MaxChunk,     \* BRA_MAX_CHUNK_SIZE
  HeaderSize,   \* BRA_IO_CHUNK_HEADER_SIZE, at the scale of the chunks
  Files,        \* the contents the source may have
  Unsteady      \* those of them that something else changes

ASSUME ChunksAssumption ==
  /\ Alphabet <= 256
  /\ MaxChunk \in Nat \ {0} /\ MaxChunk \div 65536 < 65536   \* an index has four octets
  /\ HeaderSize \in Nat
  /\ Files \subseteq Seq(Bytes) /\ Unsteady \subseteq Files

VARIABLES
  source,      \* the bytes of the source file
  changed,     \* what was changed from outside, once at most: source, archive
  stage,       \* what is done next
  me,          \* the entry in memory: compression, data_size and crc32
  at,          \* i, how far a loop over chunks has come
  g_buf, buf_rle, chunk,  \* the last chunk: moved to front, RLE, and on disk
  crc32,       \* the sum of the chunks so far
  tmpfile,     \* the chunks so far
  entry,       \* the entry in the archive
  kept,        \* the bytes that were read for it
  decode, file_orig_size, out  \* the reader: what it does and what it has

wvars == <<g_buf, buf_rle, chunk, crc32, tmpfile, kept>>
rvars == <<decode, file_orig_size, out>>
fvars == <<source, changed, stage, me, at, wvars, entry, rvars>>

----------------------------------------------------------------------------
NoChunk == [primary_index |-> 0, lengths |-> [b \in Bytes |-> 0], orig_size |-> 0,
            encoded_size |-> 0, bits |-> <<>>]

(* bra_io_chunk_header_t as it lies in memory, which is what is summed.    *)
(* (And one that starts behind the index.)                                 *)
HeaderOctetsLessIndex(c) ==
  LittleEndian(0, 4)
    \o OctetsOf([i \in 1 .. Alphabet |-> c.lengths[i - 1]])
    \o LittleEndian(c.orig_size, 4) \o LittleEndian(c.encoded_size, 4)
HeaderOctets(c) ==
  LittleEndian(c.primary_index, 4)
    \o OctetsOf([i \in 1 .. Alphabet |-> c.lengths[i - 1]])
    \o LittleEndian(c.orig_size, 4) \o LittleEndian(c.encoded_size, 4)
sizeof_chunk_header == 12 + Alphabet

FileSize(chunks) ==
  LET size[k \in 0 .. Len(chunks)] ==
        IF k = 0 THEN 0 ELSE size[k - 1] + HeaderSize + chunks[k].encoded_size
  IN  size[Len(chunks)]

Crc(octets, crc) == bra_crc32c_table(octets, crc)

(* _bra_compute_header_crc32 of a file "f": attributes, length, name. *)
NameSum(comp) ==
  Crc(<<IF comp = "compressed" THEN {2} ELSE {}, {0}, {}, {1, 2, 5, 6}>>, BRA_CRC32C_INIT)

(* The sum goes over the whole of a chunk.  (And over all but its end.) *)
UpToTheLast(bytes) == OctetsOf(SubSeq(bytes, 1, Len(bytes) - 1))
Summed(bytes) == OctetsOf(bytes)

(* What crc32 is the sum of: the file and a header for each chunk.  (And   *)
(* the same without the headers.)                                          *)
JustTheFile(data_size) == data_size
SummedLength(data_size) ==
  data_size + ((data_size + MaxChunk - 1) \div MaxChunk) * sizeof_chunk_header

(* Compression pays.  (And when it comes to the same.) *)
PaysOrNot(size, data_size) == size <= data_size
Pays(size, data_size) == size < data_size

(* bra_io_file_chunks_header_validate *)
ValidHeader(c) ==
  /\ c.primary_index < MaxChunk
  /\ c.encoded_size \in 1 .. MaxChunk
  /\ c.orig_size \in 1 .. MaxChunk

----------------------------------------------------------------------------
Init ==
  /\ source \in Files /\ changed = {}
  /\ stage = "new"
  /\ me = [comp |-> "stored", data_size |-> 0, crc32 |-> BRA_CRC32C_INIT]
  /\ at = 0 /\ g_buf = <<>> /\ buf_rle = <<>> /\ chunk = NoChunk
  /\ crc32 = BRA_CRC32C_INIT /\ tmpfile = <<>>
  /\ entry = [comp |-> "stored", data_size |-> 0, data |-> <<>>, crc32 |-> BRA_CRC32C_INIT]
  /\ kept = <<>>
  /\ decode = FALSE /\ file_orig_size = 0 /\ out = <<>>

(* The size of the entry is that of the file before it is opened. *)
TakeSize ==
  /\ stage = "new" /\ stage' = "flush"
  /\ \E comp \in {"stored", "compressed"} :
       me' = [me EXCEPT !.comp = comp, !.data_size = Len(source)]
  /\ UNCHANGED <<source, changed, wvars, rvars, at, entry>>

(* bra_io_file_meta_entry_flush_entry_file up to the payload.  A second    *)
(* time it starts from the sum of the name again.  (And one that goes on   *)
(* from the sum it has.)                                                   *)
Flush(sum) ==
  /\ stage = "flush" /\ stage' = me.comp
  /\ me' = [me EXCEPT !.crc32 = IF me.comp = "stored"
                                THEN Crc(LittleEndian(me.data_size, 8), sum) ELSE sum]
  /\ entry' = [entry EXCEPT !.comp = me.comp, !.data_size = me.data_size, !.data = <<>>]
  /\ at' = 0 /\ kept' = <<>> /\ tmpfile' = <<>> /\ crc32' = BRA_CRC32C_INIT
  /\ UNCHANGED <<source, changed, g_buf, buf_rle, chunk, rvars>>

FlushEntryOnce ==
  Flush(IF me.crc32 = BRA_CRC32C_INIT THEN NameSum(me.comp) ELSE me.crc32)
FlushEntry == Flush(NameSum(me.comp))

(* The loops over chunks.  (And loops over whole chunks only.) *)
MoreWhole == at + MaxChunk <= me.data_size
More == at < me.data_size
Piece == Min({MaxChunk, me.data_size - at})

(* A source that has become too short. *)
ShortRead ==
  /\ stage \in {"stored", "compressed"} /\ More
  /\ Len(source) < at + Piece
  /\ stage' = "failed"
  /\ UNCHANGED <<source, changed, wvars, rvars, me, at, entry>>

(* A round of bra_io_file_chunks_compress_file. *)
CompressChunk ==
  /\ stage = "compressed" /\ More /\ Len(source) >= at + Piece
  /\ LET bytes == SubSeq(source, at + 1, at + Piece)
         crc_source_chunk == Crc(Summed(bytes), BRA_CRC32C_INIT)
     IN  /\ g_buf' = MtfEncoded(LastColumn(bytes))
         /\ buf_rle' = RleEncoded(g_buf')
         /\ LET h == HuffmanEncoded(buf_rle')
            IN  \E p \in PrimaryIndices(bytes) :
                  chunk' = [primary_index |-> p, lengths |-> h.lengths, orig_size |-> h.orig_size,
                            encoded_size |-> h.encoded_size, bits |-> h.bits]
         /\ crc32' = bra_crc32c_combine(Crc(HeaderOctets(chunk'), crc32), crc_source_chunk, Piece)
         /\ tmpfile' = Append(tmpfile, chunk')
         /\ kept' = kept \o bytes
  /\ at' = at + Piece
  /\ UNCHANGED <<source, changed, stage, me, entry, rvars>>

(* It pays: the size goes in front of the chunks, and into the sum. *)
KeepCompressed ==
  /\ stage = "compressed" /\ ~More /\ Pays(FileSize(tmpfile), me.data_size)
  /\ LET size == FileSize(tmpfile)
         sum == bra_crc32c_combine(Crc(LittleEndian(size, 8), me.crc32), crc32,
                                   SummedLength(me.data_size))
     IN  /\ me' = [me EXCEPT !.data_size = size, !.crc32 = sum]
         /\ entry' = [entry EXCEPT !.data_size = size, !.data = tmpfile]
  /\ stage' = "crc"
  /\ UNCHANGED <<source, changed, wvars, rvars, at>>

(* It does not: all is done again, from a source that is read again. *)
FallBack ==
  /\ stage = "compressed" /\ ~More /\ ~Pays(FileSize(tmpfile), me.data_size)
  /\ me' = [me EXCEPT !.comp = "stored"]
  /\ stage' = "flush"
  /\ UNCHANGED <<source, changed, wvars, rvars, at, entry>>

(* A round of bra_io_file_chunks_copy_file, out of the source. *)
StoreChunk ==
  /\ stage = "stored" /\ More /\ Len(source) >= at + Piece
  /\ LET bytes == SubSeq(source, at + 1, at + Piece)
     IN  /\ me' = [me EXCEPT !.crc32 = Crc(Summed(bytes), @)]
         /\ entry' = [entry EXCEPT !.data = @ \o bytes]
         /\ kept' = kept \o bytes
  /\ at' = at + Piece
  /\ UNCHANGED <<source, changed, stage, g_buf, buf_rle, chunk, crc32, tmpfile, rvars>>

StoreEnd ==
  /\ stage = "stored" /\ ~More /\ stage' = "crc"
  /\ UNCHANGED <<source, changed, wvars, rvars, me, at, entry>>

WriteCrc ==
  /\ stage = "crc" /\ stage' = "sealed"
  /\ entry' = [entry EXCEPT !.crc32 = me.crc32]
  /\ UNCHANGED <<source, changed, wvars, rvars, me, at>>

----------------------------------------------------------------------------
(* Another program writes to the source while it is archived. *)
Change ==
  /\ stage \in {"flush", "stored", "compressed"}
  /\ source \in Unsteady /\ "source" \notin changed
  /\ source' \in Unsteady \ {source}
  /\ changed' = changed \union {"source"}
  /\ UNCHANGED <<stage, me, at, wvars, entry, rvars>>

(* A byte of the archive changes: one that is stored, or the index of the  *)
(* first chunk.                                                            *)
Damage ==
  /\ stage = "sealed"
  /\ source \in Unsteady /\ "archive" \notin changed
  /\ \/ /\ entry.comp = "stored"
        /\ \E i \in DOMAIN entry.data, b \in Bytes :
             b # entry.data[i] /\ entry' = [entry EXCEPT !.data[i] = b]
     \/ /\ entry.comp = "compressed" /\ entry.data # <<>>
        /\ \E p \in 0 .. MaxChunk - 1 :
             /\ p # entry.data[1].primary_index
             /\ entry' = [entry EXCEPT !.data[1].primary_index = p]
  /\ changed' = changed \union {"archive"}
  /\ UNCHANGED <<source, stage, me, at, wvars, rvars>>

----------------------------------------------------------------------------
Refuse ==
  /\ stage' = "refused"
  /\ UNCHANGED <<me, at, rvars>>

(* The start of decode_and_write_to_disk and of print_meta_entry in test   *)
(* mode (decode) or not, up to the payload.                                *)
ReadEntry ==
  /\ stage = "sealed" /\ stage' = "reading"
  /\ decode' \in BOOLEAN
  /\ me' = [comp |-> entry.comp, data_size |-> entry.data_size,
            crc32 |-> IF decode' THEN Crc(LittleEndian(entry.data_size, 8), NameSum(entry.comp))
                                 ELSE BRA_CRC32C_INIT]
  /\ at' = 0 /\ file_orig_size' = 0 /\ out' = <<>>
  /\ UNCHANGED <<source, changed, wvars, entry>>

(* A round of bra_io_file_chunks_copy_file, out of the archive. *)
CopyChunk ==
  /\ stage = "reading" /\ me.comp = "stored" /\ More
  /\ LET bytes == SubSeq(entry.data, at + 1, at + Piece)
     IN  /\ me' = IF decode THEN [me EXCEPT !.crc32 = Crc(Summed(bytes), @)] ELSE me
         /\ out' = IF decode THEN out \o bytes ELSE out
  /\ at' = at + Piece
  /\ UNCHANGED <<source, changed, stage, wvars, entry, decode, file_orig_size>>

(* A round of bra_io_file_chunks_decompress_file: the chunk that starts    *)
(* where the last one ended, decoded, or measured for a listing.  (And     *)
(* measured by what its header says.)                                      *)
ChunkAt ==
  LET k == CHOOSE j \in DOMAIN entry.data : FileSize(SubSeq(entry.data, 1, j - 1)) = at
  IN  entry.data[k]

Unpacked(c, bytes) == BwtDecoded(MtfDecoded(bytes), c.primary_index)

MeasuredByHeader(c, huffman) == c.orig_size
Measured(c, huffman) == LET rle == RleDecoded(huffman) IN IF rle.ok THEN Len(rle.out) ELSE 0

UnpackChunk ==
  /\ stage = "reading" /\ me.comp = "compressed" /\ More
  /\ LET c == ChunkAt
         huffman == HuffmanDecoded(c)
         rle == RleDecoded(huffman.out)
     IN  IF ~ValidHeader(c) \/ ~huffman.ok THEN Refuse
         ELSE IF decode /\ (~rle.ok \/ c.primary_index >= Len(rle.out)) THEN Refuse
         ELSE /\ file_orig_size' = file_orig_size
                   + IF decode THEN Len(rle.out) ELSE Measured(c, huffman.out)
              /\ out' = IF decode THEN out \o Unpacked(c, rle.out) ELSE out
              /\ me' = IF ~decode THEN me
                       ELSE [me EXCEPT !.crc32 =
                               Crc(Summed(SubSeq(out', Len(out) + 1, Len(out'))),
                                   Crc(HeaderOctets(c), @))]
              /\ at' = at + c.encoded_size + HeaderSize
              /\ UNCHANGED <<stage, decode>>
  /\ UNCHANGED <<source, changed, wvars, entry>>

(* After the last chunk: it must have paid, and the sum must agree. *)
EndRead ==
  /\ stage = "reading" /\ ~More
  /\ IF \/ me.comp = "compressed" /\ file_orig_size <= me.data_size
        \/ decode /\ me.crc32 # entry.crc32
       THEN Refuse
       ELSE /\ stage' = IF decode THEN "accepted" ELSE "listed"
            /\ UNCHANGED <<me, at, rvars>>
  /\ UNCHANGED <<source, changed, wvars, entry>>

Finished ==
  /\ stage \in {"accepted", "listed", "refused", "failed"}
  /\ UNCHANGED fvars

Write ==
  \/ TakeSize \/ FlushEntry \/ ShortRead
  \/ CompressChunk \/ KeepCompressed \/ FallBack
  \/ StoreChunk \/ StoreEnd \/ WriteCrc
Read == ReadEntry \/ CopyChunk \/ UnpackChunk \/ EndRead

Next == Write \/ Change \/ Damage \/ Read \/ Finished

Spec == Init /\ [][Next]_fvars

----------------------------------------------------------------------------
(* Properties *)

ChunkTypeOK(c) ==
  /\ DOMAIN c = DOMAIN NoChunk
  /\ c.primary_index \in Nat /\ c.orig_size \in Nat /\ c.encoded_size \in Nat
  /\ c.lengths \in [Bytes -> Nat] /\ c.bits \in Seq({0, 1})

(* Every variable has its type: a chunk is bytes all the way, the controls *)
(* of RLE among them, and a sum is a word.                                 *)
CTypeOK ==
  /\ source \in Files /\ changed \subseteq {"source", "archive"}
  /\ stage \in {"new", "flush", "stored", "compressed", "crc", "sealed", "reading",
                "accepted", "listed", "refused", "failed"}
  /\ me.comp \in {"stored", "compressed"} /\ me.data_size \in Nat /\ me.crc32 \in Words
  /\ at \in Nat /\ file_orig_size \in Nat /\ decode \in BOOLEAN
  /\ g_buf \in Seq(Bytes) /\ buf_rle \in Seq(Bytes) /\ ChunkTypeOK(chunk)
  /\ crc32 \in Words /\ entry.crc32 \in Words
  /\ \A k \in DOMAIN tmpfile : ChunkTypeOK(tmpfile[k])
  /\ kept \in Seq(Bytes) /\ out \in Seq(Bytes)

(* A chunk has just been encoded, of these bytes. *)
Encoded == stage = "compressed" /\ tmpfile # <<>>
ChunkBytes == SubSeq(kept, Len(kept) - Len(g_buf) + 1, Len(kept))

(* Whatever order qsort gives equal rotations, the decoders give back what *)
(* the encoders got (encoders/*.c), for a file that is stored in the end   *)
(* too.                                                                    *)
RoundTrip ==
  Encoded =>
    LET huffman == HuffmanDecoded(chunk)
        rle == RleDecoded(huffman.out)
    IN  huffman.ok /\ rle.ok /\ Unpacked(chunk, rle.out) = ChunkBytes

(* RLE makes a chunk longer by one byte in MaxRuns at most, which is what  *)
(* decides whether the reader takes the chunk (chunks.c:40).               *)
RleBound == Len(buf_rle) <= Len(g_buf) + (Len(g_buf) + MaxRuns - 1) \div MaxRuns

(* No code goes on from another, and where there are two or more, whatever *)
(* bits come they lead to one: the tree that huffman.c:205 rebuilds has no *)
(* dead end.                                                               *)
CodesArePrefixFree ==
  Encoded =>
    LET used == Coded(chunk.lengths)
        top == Max({chunk.lengths[b] : b \in used})
    IN  /\ Rebuilt(chunk.lengths)
        /\ Cardinality(used) > 1 =>
             \A w \in [1 .. top -> {0, 1}] : \E b \in used : IsPrefix(Code(chunk.lengths, b), w)

Cost(used, lengths) == SumFunction([b \in used |-> Count(buf_rle, b) * lengths[b]])

(* Huffman's promise, kept by the sorted list of huffman.c:110: no other   *)
(* lengths that a prefix code can have make the chunk shorter.             *)
HuffmanIsMinimal ==
  Encoded =>
    LET used == Coded(chunk.lengths)
        top == Cardinality(used)
    IN  \A lengths \in [used -> 1 .. top] :
          SumFunction([b \in used |-> 2 ^ (top - lengths[b])]) <= 2 ^ top
            => Cost(used, chunk.lengths) <= Cost(used, lengths)

(* What the writer may leave that the reader cannot take: a chunk that RLE *)
(* or Huffman made too long, and a file too long for the length that       *)
(* bra_crc32c_combine takes.                                               *)
Oversized == entry.comp = "compressed" /\ \E k \in DOMAIN tmpfile : ~ValidHeader(tmpfile[k])
FitsLength == SummedLength(Len(kept)) < LengthLimit

(* Apart from these, the reader takes every entry that no one has changed  *)
(* since: the sum that compress_file puts together from those of headers   *)
(* and bytes is the sum decompress_file takes of all of it, and a second   *)
(* go that stores the file starts its sum anew (meta_entries.c:204).       *)
WrittenIsAccepted ==
  stage = "refused" =>
    "archive" \in changed \/ (entry.comp = "compressed" /\ (Oversized \/ ~FitsLength))

(* What the reader takes is what the writer read for the entry, the file   *)
(* if that stayed as it was; and where it changed between the size and the *)
(* data, or between the two goes, still as many bytes as it had            *)
(* (ctx.c:148).  An index that has changed is left to DamageNoticed: a sum *)
(* of 32 bits cannot tell all of them, whatever the size of the chunks.    *)
AcceptedIsKept ==
  stage = "accepted" /\ (entry.comp = "compressed" => "archive" \notin changed) =>
    /\ out = kept
    /\ "source" \notin changed => out = source

(* The sum tells: no entry is taken of which a stored byte or the primary  *)
(* index of a chunk has changed.                                           *)
DamageNoticed == stage = "accepted" => "archive" \notin changed

(* A 32-bit build takes one piece of four octets at most, and no more than *)
(* seven octets after the aligned address: it is left out beyond that.     *)
SevenAtMost(align, addr, length) == align = 8 \/ length - Before(align, addr, length) <= 7

(* Wherever a buffer begins, the instructions and the table give the same  *)
(* sum, and so two machines agree on an archive (crc32c.c:117).            *)
PathsAgree ==
  stage = "sealed" =>
    \A align \in {4, 8} : \A addr \in 0 .. align - 1 :
      SevenAtMost(align, addr, Len(kept)) =>
        bra_crc32c_sse42(OctetsOf(kept), addr, align, entry.crc32)
          = bra_crc32c_table(OctetsOf(kept), entry.crc32)

(* A listing that decodes nothing but Huffman's codes knows how long the   *)
(* file was.                                                               *)
ListedIsOriginal ==
  stage = "listed" /\ entry.comp = "compressed" => file_orig_size = Len(kept)

(* "@param len_b length of the input used for @p crc32b": an entry of any  *)
(* length has the sum the reader takes.                                    *)
SumsAgree == stage = "refused" => "archive" \in changed \/ Oversized
============================================================================
