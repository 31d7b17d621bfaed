# BR-Archive in TLA+

BR-Archive packs files and directories into one archive (`bra`), takes them out again, tests or lists
them (`unbra`), and makes archives that extract themselves (`bra -s`, which puts the archive behind the
program `bra.sfx`). This directory holds specifications of its core, TLC configurations that check them
on small instances, and TLAPS proofs of what could be proved for every instance. Paths below are relative
to the repository's `src/` directory.

## 1. The system

| Component | Source | State it keeps | Operations | What makes it correct |
|---|---|---|---|---|
| directory tree | `utils/bra_tree_dir.c` | numbered nodes, each with parent and name | add by path, insert under an index, rebuild a path | writer and reader give the same directory the same number; no directory has two |
| archive format | `io/lib_bra_io_file_meta_entries.c`, `lib_bra_types.h`, `lib_bra_private.c` | header with an entry count; entries with attributes, name, size or parent index, payload, CRC | write, read, sum | the sum the writer stores is the sum the reader computes, and covers what can change |
| writing session | `io/lib_bra_io_file_ctx.c`, `prog/bra.cpp` | cached last directory, tree, archive file, temporary file | open, header, entry, close | every path comes back as it was, whichever way a file was stored; handles closed on every path |
| reading session | `io/lib_bra_io_file_ctx.c`, `prog/unbra.cpp`, `prog/bra_sfx.cpp` | cached last directory, tree, overwrite policy, output directory | header, extract, skip, test, list | success only for the whole archive; nothing overwritten against the policy; one partial file at most |
| chunk pipeline and encoders | `io/lib_bra_io_file_chunks.c`, `encoders/*.c` | shared buffers, chunk header, the sum so far, a temporary file | copy, compress (or fall back), decompress, measure; BWT, MTF, RLE, Huffman and back | what goes in comes out; the sum the writer puts together is the one the reader takes; a change is noticed |
| command line | `prog/BraProgram.cpp`, `fs/bra_fs.cpp` | overwrite policy, the options so far | parse, ask, make names of archives out of names of the user | one answer for the whole run; the name that is written is the one the user meant |
| input selection | `prog/bra.cpp`, `fs/bra_fs.cpp` | set of paths, tree of the files by directory | add, search, add directories, ask, make the tree, visit it | everything that was meant and nothing else, in an order the writer can use, without the output itself |
| front end of `unbra` and of the self-extractor | `prog/unbra.cpp`, `prog/bra_sfx.cpp`, `prog/BraProgramOutputArgTrait.cpp` | archive's name, mode, output directory, current directory | find the archive, open it, make and enter the directory, entries, back | entries land in the output directory, the archive survives, nothing is made for nothing |
| self-extracting output | `prog/bra.cpp`, `io/lib_bra_io_file_ctx.c`, `fs/bra_fs.cpp` | temporary file, output | copy the module, write behind it, footer, rename | the output is replaced by a complete archive or not at all |
| CRC-32C | `utils/lib_bra_crc32c.c` | none | sum by table, by instructions, combine | all ways give the same sum |
| wildcards, sanitising, messages | `fs/bra_wildcards.cpp`, `fs/bra_fs.cpp`, `log/` | none | string to string | not modelled |

The parts call each other in one thread: `BraProgram::run` parses and validates the arguments (command
line, input selection), `run_prog` opens the archive and hands the entries one by one to the session, which uses the
tree, the chunk pipeline and the file wrapper. Writer and reader are two programs that meet in a file, and
this is where the hard behaviours are: both keep state that the file does not hold (the tree, the last
directory, the sum so far) and must keep it alike; the file may be cut off by a crash, damaged, or
incomplete because of an I/O error; an entry that does not compress is rewound and written again, from a
source that may have changed; the sum of a compressed entry is put together from pieces and must be that
of the whole; the reader changes its current directory between opening the archive and writing, may be
told to write over the archive it reads, and changes the disk before it knows the sum of an entry; the user answers questions that change the
policy for the rest of the session. There are no threads; concurrency is with the file system: files
vanish, a process dies between two calls, a stream's buffer is not yet in the file.

## 2. The modules

| Module | Models | Its actions in the code |
|---|---|---|
| `BraTreeDir` | the tree as a sequence of `[parent, name]`, index 0 the root; `DirAdd`, `InsertAtParent`, `PathOf` | `bra_tree_dir_add`, `_insert_at_parent`, `_reconstruct_path` |
| `BraFormat` | the archive file: entry count and entries; a payload is a sequence of units (raw or encoded chunks); a sum is the record of what was fed to it | structures of `lib_bra_types.h`, `_bra_compute_header_crc32` |
| `BraPlan` | `IsPlan`, what the input selection hands to the writer | order in which `run_prog` visits `m_tree` |
| `BraWriter` | the session of `bra`: `OpenArchive`, `WriteHeader`, `WriteDir`, `WriteFileHeader`, `CompressChunk`, `KeepCompressed`, `FallBackToStored`, `WriteSize`, `CopyUnit`, `CopyEnd`, `WriteCrc`, `CloseArchive`, `WIoError` | `bra_io_file_ctx_encode_and_write_to_disk` and below, one action per write the medium could stop at |
| `BraReader` | the session of `unbra`: `ReadHeader`, `ReadMetaEntry`, `KeepFile`, `OpenOutput`, `CopyStored`, `Decompress`, `MissingData`, `DataEnd`, `MakeDir`, `CheckCrc`, `CloseInput`, `RIoError` | `bra_io_file_ctx_decode_and_write_to_disk`, `bra_io_file_ctx_print_meta_entry` |
| `BraArchive` | the two sessions and the medium between them: `Crash`, `Cut`, `Damage` | composition; states most properties |
| `BraTransfer` | what an archive promises: entries in order, exactly or not at all | abstract; `BraArchive!KeepsPromise` is the refinement |
| `BraProgram` | what the three programs share: the launch, the disk, the arguments one by one (`ParseHelp`, `ParsePolicy`, `ParseUnknownOption`), the names of archives, `Vanish` | `BraProgram::parseArgs`, `set_overwrite_policy`, `file_exists_ask_overwrite`, `filename_archive_adjust`, `filename_sfx_adjust` |
| `BraInputs` | `bra`, from its arguments to the visited entries: `ParseOption`, `ParseFile`, `ParseDir`, `ParseGlob`, `ParseUnknown`, `AddDirs`, `FindModule`, `AskTemporary`, `AskOutput`, `MakeTree` | `Bra::parseArgs_*`, `search`, `file_set_add_dirs`, `validateArgs`, `make_tree`, loops of `run_prog` |
| `BraUnbra` | `unbra` and the self-extractor, from their arguments to where each entry ends up: `ParseModeOption`, `ParseOutput`, `ParseArchive`, `IgnoreArgument`, `ParseMissing`, `UValidate`, `UOpen`, `EnterOutput`, `ListEntry`, `ExtractDir`, `KeepThere`, `ExtractFile`, `BadEntry`, `UEnd` | `Unbra::*`, `BraSfx::*`, `BraProgramOutputArgTrait::*` |
| `BraPrograms` | the three on one disk, one of them at a time | composition; the specification of the run `inputs` |
| `BraSfx` | runs of `bra -s` one after another, with a buffer between program and file, `Fail` and `Crash` | `run_prog`, `bra_io_file_ctx_sfx_open`, footer, `file_rename` |
| `BraCodecs` | operators: the four encoders and their decoders, over bytes of three bits | `bra_bwt_*`, `bra_mtf_*`, `bra_rle_*`, `bra_huffman_*` |
| `BraCrc32c` | operators: CRC-32C by table, by SSE4.2 instructions at any address, of two pieces; and the division by the polynomial that all must amount to | `bra_crc32c_table`, `_sse42`, `_combine` |
| `BraChunks` | the payload of one file, byte for byte with its sums: `TakeSize`, `FlushEntry`, `CompressChunk`, `KeepCompressed`, `FallBack`, `StoreChunk`, `StoreEnd`, `ShortRead`, `WriteCrc`, `ReadEntry`, `CopyChunk`, `UnpackChunk`, `EndRead`, and from outside `Change` (of the source) and `Damage` (of the archive) | `bra_io_file_chunks_*`, `bra_io_file_meta_entry_flush_entry_file`, reader's side of `lib_bra_io_file_ctx.c` |

The rest are instances for TLC (`MC*`) and proofs, in eight modules. Those about archives build on each
other: `BraSessionProofs` (the tree, the types, what the two sessions agree on, what a sum vouches for) and
`BraArchiveProofs` (what the reader does with it). So do those about a payload: `BraCrc32cProofs` (the sums),
`BraCodecsProofs` (MTF, RLE, BWT), `BraHuffmanProofs`, and `BraChunksProofs`, which puts them together.
`BraSfxProofs` and `BraProgramsProofs` stand alone.

`BraWriter` assumes that its inputs satisfy `IsPlan` (`InputsAssumption`); `BraInputs!VisitIsPlan` is the
property that what the input selection produces does. `BraFormat` assumes nothing about which chunks are
`Oversized` (RLE form longer than `BRA_MAX_CHUNK_SIZE`); `BraChunks!RleBound` says by how much they may be.
`BraWriter` and `BraReader` take the payload as marked units and sums as lists of what went in;
`BraChunks` has the same steps for one file with real bytes and real sums. `BraUnbra` has one step per entry,
`BraReader` its parts.

Abstractions worth knowing when reading:

- A path is a sequence of names, a name its stem and its extensions (`x.BRa.brx` is `<<"x", "BRa", "brx">>`).
  Spelling (`./x`, case, separators) is gone, except that an output may be `dotted` in `BraInputs`, because
  the code compares it unsanitised. The extension of an SFX is that of Linux, `.brx`.
- In `BraPrograms` an archive is the list of its entries' kinds and paths, and whether it has a footer; its
  bytes are the business of the other modules. Which entry cannot be read is any (`BadEntry`), which is also
  what becomes of the rest of an archive that is overwritten while it is read. The option `-c`, which
  changes only how bytes are stored, is left out.
- The system refuses to open the file of a running program for writing (`CanOpen`); a self-extractor
  cannot overwrite itself, `unbra` its archive can.
- A sum is the list of what went into it. Two sums are equal only when the same fields and units went in,
  so CRC collisions do not exist, and `bra_crc32c_combine` is appending: in the sessions. In `BraChunks`
  both are what the code computes, 32 bits wide, a word being the set of the positions of its ones.
- A damaged unit or sum is marked (`ok = FALSE`); a sum over a damaged unit differs from any other.
- In `BraSfx` a file is a sequence of units (module, header, the parts of an entry, footer) and the file
  gets the stream's buffer one unit at a time, whenever it likes.
- In `BraCodecs` the signed control byte of RLE, the byte width of Huffman's packing and the alphabet shrink
  together (4, 3 bits, 8 values for 128, 8 bits, 256 values), so limits are met by chunks of six bytes. A
  chunk's header takes one unit of the file in `BraChunks` (`HeaderSize`), so that compression can pay for
  chunks of six; its octets, all of them, go into the sum. The length that `bra_crc32c_combine` takes has 6
  bits instead of 32: the summed length of one and of two chunks fits, that of three does not.
- Definitions in brackets in a comment ("And one that ...") are mistakes a change of the code could make.
  No specification uses them; substituting one shows that a property notices.

## 3. The runs

| Run | Instance | Shows |
|---|---|---|
| `extract` (`MCBraExtract.cfg`, about 2 min) | inputs of up to 3 entries out of a tree of two levels, contents incompressible and mixed (empty ones are in `verify`); three output directories (empty, with older files, with files and directories swapped); all policies and answers; one fault | types, `NamesRestored`, `AtMostOnePartial`, `SuccessIsComplete`, `HandlesClosed`, `NoneIsNone`, `KeepsPromise`, `Advances`, `Termination` |
| `verify` (`MCBraVerify.cfg`, 45 s) | up to 4 entries, every kind of content, test and list, one fault | `TreesAlike`, `EntriesSealed`, `NoFalseAlarm`, `SuccessIsComplete`, `KeepsPromise` |
| `inputs` (`MCBraInputs.cfg`, 40 s) | 12 126 launches, 492 353 states. `bra`: up to two arguments out of eight (files, directories, globs, the current directory) with `-r` anywhere or nowhere, sets of other options (outputs plain, dotted, with each extension and with two others, in directories that are there or not; `-s`, `-y`, `-n`), four disks. `unbra`: twelve sets of options, ten lists of archives; the self-extractor with the same options; six disks with archives inside and outside of the output directory, whose entries bear their names, and a directory that bears the name of an archive. One file vanishes | types, `VisitIsPlan`, `NothingElse`, `NothingMissing`, `OutputLeftOut`, `OutputWhereNamed`, `LandsInOutput`, `KeptUnlessAgreed`, `NothingForNothing`, `NamedIsRead` |
| `sfx` (`MCBraSfx.cfg`, 15 s) | two entries, the second an SFX archive itself; three runs, two faults; onto nothing, a file, an older archive, an empty and a full directory | types, `AcceptedIsWhole`, `ReplacedByWhole`, `SuccessIsMoved`, `GoneOnlyIfAgreed` |
| `codecs` (`MCBraCodecs.cfg`, about 1 min) | every file of up to six bytes of three values (one chunk), and some of two and three chunks; four of them may change while they are archived and their archive before it is read, each once | types, `RoundTrip`, `RleBound`, `CodesArePrefixFree`, `HuffmanIsMinimal`, `WrittenIsAccepted`, `AcceptedIsKept`, `DamageNoticed`, `PathsAgree`, `ListedIsOriginal` |
| `skip`, `oversized`, `inputs_glob`, `inputs_out`, `sfx_close`, `sfx_dir`, `codecs_length` | small | seven disagreements, section 5 |

Why the bounds are enough to meet the cases: three entries are the least that have a directory, a
directory in it and a file in that (or a file on either side of a change of directory), which is what the
cached directory and the numbering can get wrong; four let siblings of different parents follow each
other. Contents of two chunks make the partial states between chunks visible, and a chunk that encodes
well before one that does not leads to the fallback after something was written. One fault per behaviour
keeps causes apart: `NoFalseAlarm` and the promise are about one, and a fault may come anywhere. In
`sfx`, three runs and two faults are needed for the longest story: a run that completes, one that crashes
between the removal and the rename, and one that finds the temporary file. In `codecs`, six bytes exceed
the longest run (4) and the longest literal, contain periods of 1, 2 and 3 (equal rotations), and their
RLE forms exceed a chunk; files of two chunks make the sum of the second go through
`bra_crc32c_combine` with what is there, and three make its length too large. `PathsAgree` takes
every address modulo the width of an address, for both widths. In `inputs`, two paths are enough for one
to be below, to match or to repeat the other, with `-r` before, between and behind them; a third adds
nothing that the set of paths could tell.

Fairness is assumed in `extract` only, for `Termination`: `WF(WriterStep)` and `WF(ReaderStep)`. Both
programs are sequential and do something in every phase unless they are killed, which is the separate
action `Crash` with no fairness; the prompt is part of a reader's step, and its answers (the end of the
input counts as "no") are all finite. Nothing is assumed of faults. `Advances` is the half of it that needs
no fairness: every step of a session leaves less to do than there was (proved in section 4); fairness is
for the other half, that a session which can go on does.

`BraPrograms`, `BraSfx`, `BraChunks` and `BraArchive` have a stuttering step at their ends (`Done`, `Halt`,
`Finished`, `Over`), so deadlock is checked everywhere: a program that can neither go on nor refuse shows.

## 4. What is proved

The theorems hold for all constants that satisfy the assumptions. Of an archive: any names, any chunks with
positive sizes (`ChunkAssumption`), any set of inputs that are plans (`InputsAssumption`), any output
directories (`DisksAssumption`), any number of faults; what is not in a file is no value
(`MarkersAssumption`).

- `TypesAlwaysOK`: `Spec => []ATypeOK`. `ATypeOK` is not inductive: that reading an entry stays inside the
  archive depends on the phase. `TypeInv` adds `WriterFacts` and `ReaderFacts`, what each phase knows (the
  entry it works on is there, the reader's tree is well formed and its node in it, the output file exists
  while it is filled), and has one lemma per group of actions. The types of the recursive functions
  (`TotalBytes`, the paths of a tree) are shown by least counterexample (`LeastNat`), as the provers have
  no induction over data.
- `HandlesAlwaysClosed`: `Spec => []HandlesClosed`, from `HandlesInv`, which says what is open in every
  phase, and not only in those the property names.
- `NoneStaysNone`: `Spec => NoneIsNone`, an action property, directly from the actions.
- `SameNumbering`: for every well-formed tree and node, adding the node's path extended by a name (writer)
  and inserting the name under the node (reader) give the same tree and the same index. It is the reason
  for `TreesAlike`. The argument: paths and walks satisfy their defining equations (`PathsExist`,
  `WalksExist`); walking the path of a node ends at it (`WalkToNode`); a walk of one step more is the walk
  and one child (`WalkOfAppend`).
- `NoDirTwice`: adding a path that is there is refused.
- `TreesStayAlike`, `NamesAreRestored` (`BraSessionProofs`): `TreesAlike` and `NamesRestored`. Neither
  relates the archive to the plan entry by entry, so `RestoreInv` has a numbering `c` of the entries: after
  entry k the writer's tree has `c[k]` nodes, and every entry restores its path from the first `c[k]` of them
  (`Restores`, `Numbered`). What the reader has is the part of the writer's tree up to the entry it is at
  (`RSession`); a tree and its beginning rebuild the same paths (`PlacedAlike`, from `SameNumbering`). A step
  of the writer extends the numbering (`Extended`, `Regrown`), a cut keeps a beginning of it (`Renumbered`).
- `EntriesAreSealed` (`BraSessionProofs`): `EntriesSealed`. `SealInv` says what each phase of the writer knows
  of buffer, payload, number and sum (`Writing`), which way the file went, and what remains true of an
  archive through any fault: the sum of an entry is missing, damaged, or that of the entry as it was written
  (`Vouched`), and where a fault was there is an entry whose sum contradicts it or is missing (`Tainted`,
  `Spoiled`). The other theorems about readers rest on the latter.
- `PromiseIsKept` (`BraArchiveProofs`): `Spec => KeepsPromise`, the refinement of `BraTransfer`. `ReadInv`
  says what the reader has summed and written of the entry in hand (`Summing`, `Writes`) and that what
  it reported is true (`Told`). The lemma behind it is `AcceptedIsPlanned`: a sum that is accepted was
  computed from the path and the units the writer was given, because it is vouched for. Then initial states
  map to initial states, and each step to a delivery, an end or a stutter (`Refines`).
- `SuccessMeansAll`, `OnlyOneIsPartial`: `SuccessIsComplete` and `AtMostOnePartial`. `DiskInv` says of every
  file that it was there before, or is one of the plan already reported (`FileFrom`), or is the one in hand
  (`Busy`), the same of directories (`DirFrom`), and that what was reported is there still (`IsThere`): no two
  entries of a plan have the same path, and the directories on the way to a path are in the plan before it
  (`PlanAncestors`). That a test accepts nothing but an untouched archive follows from `Tainted`.
- `NoFalseAlarms`: `NoFalseAlarm`, from the two invariants. One lemma per step that can fail: of an archive
  that is complete and untouched, the header and every entry are there, an entry finds its place in the
  tree, its data is as long as its size says, its sum is the one computed; what is left is a directory or
  file in the way, or an oversized chunk (`Excuse`).
- `SessionsAdvance`, `NoEndlessDescent` (`BraArchiveProofs`): `Advances`, and that what it counts are naturals.
  Eight counts, compared lexicographically: entries to write, the phase of the writer, units to write, faults
  to come, the header to be read, entries to read, the phase of the reader, units to read (`Remaining`). The
  fallback to stored starts the units of an entry again, but in a phase further on; the loop of the prompt
  ends in one step of the model. `Counted` is the inductive invariant: no count is below zero, because a session
  is never behind the end of what it copies or reads. `NoEndlessDescent` says that lexicographic counts cannot
  go down for ever (`LowestCount`: any set of them has a lowest one, place by place, from the least
  natural). The two together are termination but for the step "something can always be done", which is
  ENABLED and fairness and stays with TLC.
- `AcceptedAreWhole`, `OutputReplacedByWhole`, `SuccessMoves`, `ArchivesSurvive`, `SfxTypesOK`: the properties
  of `BraSfx`, for any number of entries, whichever of them are archives themselves, any number of runs and
  faults, and any file before that is not half an archive (`BeforeAssumption`). None is inductive, not even
  the types, as what a flush puts into a file was in the buffer:
  `SfxInv` adds `Streaming` (the file up to `place` and the buffer together are the beginning of the
  archive of this run, which survives a write, a flush and a failing close), that every file a run leaves
  is a `Piece` (the module or the beginning of one run's archive), and what each phase of `file_rename`
  has in which place. `AcceptedPiece` is the lemma behind the first one: a piece that ends in a footer,
  its own or that of an archived archive, and has room for all entries is whole, because the sum that
  follows an entry's data is no footer. `ArchivesSurvive` also needs `AgreedInv`: past a question, the
  regular file it was about is in `agreed`.

- `UnbraTypes`, `EntriesLand`, `ArchivesKept`, `DiskLeftAlone` (`BraProgramsProofs`): the properties of
  `BraUnbra`, for any number of launches with any arguments, any disk whose directories are closed
  upwards, any archives that have entries, any number of files that vanish (`ProgramAssumption`). None is
  inductive: `UnbraInv` adds what each phase says of the archive and the current directory (`Stage`: no
  entry is known before the archive is open, the current directory is the output directory while
  entries are extracted), that entries already done are there (`Landed`), and that an archive on the disk
  is as it was and `-n` among the arguments done means the policy (`Saved`). `PathOfEntry` is the lemma on
  paths: the output directory, extended by the path of an entry, is below it, and so is every directory on
  the way to it that is not on the way to the output directory.
- `TableDivides`, `InstructionsDivide` (`BraCrc32cProofs`): for data of every length, the sum by table
  and the sum by instructions are the remainder of the division by the polynomial of CRC-32C, the latter
  whatever the address is. A bit step is linear (`BitStepLinear`), so eight of them on a register
  are a lookup of its lowest octet and a shift of the rest (`LookupDivides`); an instruction on n octets
  carries those to come above the sum so far (`NextOctet`, `Instruction`); and the pieces leave nothing
  out and take nothing twice (`PiecesCover`). Loops are recursive functions; that two of them agree is
  shown by the least round at which they would not (`StepByStep`, from `LeastNat`), as the provers have no
  induction. In a 32-bit build the second theorem is restricted: see section 5.
- `CombineJoins` (`BraCrc32cProofs`): `bra_crc32c_combine` gives the sum of both pieces of data together, for
  every content and every length that fits its argument. Two sums of the same data differ by what as many
  zero bytes make of the difference of their beginnings (`SumsApart`); a matrix stands for a linear map when
  its columns are the images of the bits (`TimesApplies`, from the parity of a symmetric difference, `OddXor`),
  its square for the map twice (`SquareRepresents`); so the k-th operator of the loop is 2^(k-1) zero bytes
  (`ZeroBytesRepresent`), and what is done and what is left of the length add up in every round (`NextBit`).
- `ShortApart` (`BraCrc32cProofs`): up to four octets that differ have different sums, from any sum before: all
  of them fit into the register at once (`RegisterSum`, `RegisterTells`), and zero bytes lose nothing of it.

- `InputTypes`, `VisitsAreOrdered`, `OutputNotInput`, `OnlyWhatWasMeant`, `AllThatWasMeant`
  (`BraProgramsProofs`): properties of `BraInputs`, for any command line and any disk that
  `ProgramAssumption` allows: finite, with the directory of everything on it, its names ordered in some way.
  The argument has four parts. *The order.* Paths compared name by name are ordered totally
  (`PathsTransitive`, `PathsTotal`), a way to a path comes before it, and so visits are ordered totally, a
  directory before its files (`VisitTransitive`, `VisitTotal`, `ParentBefore`); a finite set under such an
  order becomes a sequence of all its elements (`SortedOK`: the rank of an element is one more than the
  number of those before it, an injection into as many numbers). *The set.* `SelectInv` says that from
  `file_set_add_dirs` on `m_files` contains the ways to each of its paths, but for the temporary file, and that
  everything in it is on the disk; then `make_tree` has an entry for each path of `m_files`, and no other
  (`EntriesOfTree`, `TreeIsPlannable`), and all of that is a plan (`PlanOfTree`). *The search.* It is a
  recursive function on the directories. What matches below a directory satisfies its equation
  (`MatchingStep`), and two functions that satisfy it are the same (`SearchFinds`): of the directories at
  which they differ, take one with the least number of directories below it. *The arguments.* `ChooseInv`
  says that after each argument `m_files` is what the arguments so far meant (`MeantBefore`), with the value
  that `recursive` had at each, and what that becomes in the phases behind. A directory that is in `m_files`
  already is not searched again: it was found by a search that entered it, which found all that is below
  it (`BelowTransitive`), or by a glob, which `GlobbedBefore` excludes.

- `OutputNamed` (`BraProgramsProofs`): `OutputWhereNamed`, for names with any number of extensions. `OutputInv`
  says that `out` is what the last `-o` so far was given (`OutNoted`), and from `validateArgs` on what
  the code makes of that name (`OutAdjusted`), in a directory that is there when the question about it is done
  (`OutThere`). What a name becomes is computed part by part: an extension appended (`PlusIs`), an extension
  taken off if the name ends in it (`WithoutIs`), and the name of an SFX made of both (`NameOfSfx`).
- `NamedArchivesAreRead` (`BraProgramsProofs`): `NamedIsRead`. `NamedInv` says that nothing on the disk changes
  before the first entry, that `m_bra_file` is what `adjustFilename` makes of the last argument so far
  (`LastRead`), that `m_sfx` is set when that is an SFX (`SfxNoted`), that a policy was asked for by an
  option (`PolicyNoted`), and that what is refused is none of the archives the property is about. The first
  attempt showed a case that the property had to leave out and the instance now has: an argument under none
  of whose names there is a file, but a directory under one of them.
- `MtfUndone`, `RleUndone`, `BwtUndone` (`BraCodecsProofs`), `HuffmanUndone` (`BraHuffmanProofs`): for every
  sequence of bytes, every alphabet and every limit of a run that `CodecsAssumption` allows, the decoder gives
  back what the encoder got. Encoders and decoders are recursive functions: each is first shown to satisfy its
  equation, then two of them to agree at every place, as there is no least place where they do not (`Climb`,
  `Descend`). MTF: encoder and decoder have the same table before every byte. RLE: a block is read as what it
  was made of, whatever comes before and behind it (`BlockRead`); `RleIsBounded` gives the bound. BWT: the
  bytes of the last column, sorted stably, say for each rotation where the one is that starts a byte later
  (`TableLeads`), and so the decoder goes around once (`OnceAround`), in whatever order equal rotations are.
  Huffman: of the `2 ^ l` words of length l, `u[l]` are codes or go on from one, and that is never too many
  (`Levels`), because the lengths are depths in a tree made by joining two trees at a time (`JoinedTree`); from
  this it follows that codes are apart (`PrefixFree`), and, as every such tree is full, that each long enough
  word begins with one (`NoDeadEnd`).
- `HuffmanCheapest` (`BraHuffmanProofs`): no lengths that a prefix code can have give fewer bits, whatever the
  longest of them is. The argument is Huffman's. Take any lengths for the nodes of the list that leave room
  for each other (`Fits`), and their bill: what the depths inside of the nodes and these lengths come
  to. Without becoming dearer they can be changed until the two rarest nodes have codes of the same length
  (`Exchange`, `Shorten`, `TwoLast`); then the joined node can have what these codes begin with
  (`JoinedFits`), and all inside of it is one deeper (`JoinedCost`), so the bill after the round is no
  higher (`JoinedBill`). At the end there is one node, and what is inside of it is the code's own lengths.
  That the first two nodes are the rarest in every round is that the list stays sorted (`InsertSorted`).
- `ChunksKeepTheirTypes`, `ChunksAreBounded`, `ChunksComeBack`, `CodesStayApart`, `CodesAreCheapest`,
  `PathsAlwaysAgree`, `ListedLengthIsRight`, `WhatIsWrittenIsTaken`, `WhatIsTakenIsTheFile`, `StoredDamageShows`
  (`BraChunksProofs`): the properties of `BraChunks`, for any files, any size of a chunk and of its header, and any
  alphabet of at most 256 symbols (`ChunksAssumption`: a symbol goes into the sum as one octet). None is inductive.
  The invariants, each resting on the ones before it:
  `TypesAndPlaces` (the types, and what each phase knows of sizes; the reader is always at the start of a chunk);
  `LastChunk` (the buffers hold the MTF and RLE forms of the last piece of the source, and the chunk stands for
  it: `StandsFor`); `Origin` (what was read is a beginning of the source while nobody changed it); `StoredStory`
  (the sum of a stored entry is that of its bytes so far, on both sides); and `StoryTold` (`StoryHolds`), for
  compressed entries. The last one has two witnesses: the bytes of the file up to each chunk, and
  what went into the sum up to there (`Made`). The writer's sum of each phase is that of all headers and pieces
  one after the other, which `CombineJoins` gives for the pieces that `bra_crc32c_combine` puts together, and the reader
  takes the same sum in the same order. While the length fits, the sums are equal; and a chunk gives its bytes
  because the codecs are undone.

- `OffStoryHolds`, `OnlyACollisionIsMissed` (`BraChunksProofs`): what the sum of a compressed entry notices. A
  changed index changes the header of the chunk, by up to four octets (`FourOctets`, `IndexTells`; an index has
  no more, which is the second half of `ChunksAssumption`), and what the chunk is decoded to, which the sum
  takes behind it. `OnlyTheFirst` says what damage is, in every phase: the first chunk has another index, which
  fits, and the rest is as written. `OffStory` follows the reader through it: the first chunk gives as many
  bytes as it had, and from there on everything that is given and summed is what the writer read and summed
  (`SinceFirst`). Sums that differ at the end of the first chunk therefore differ at the end (`TablesApart`), and if
  the bytes were the same the sums would differ by `ShortApart` (`IndexShows`). So a changed entry that is taken
  has an index *and* bytes in its first chunk that are not the ones written and have the same sum all the same
  (`Collision`), or it is longer than `bra_crc32c_combine` takes, in which case nothing is said of it.

Only model-checked: `DamageNoticed` for compressed entries, and `Termination`. A changed byte of a stored entry
changes the sum, whatever the length, as sums that differ stay different under the same bytes
(`StoredDamageShows`). For compressed entries the property as it stands is one of the instance: the index and
the bytes are summed at two places that may be any distance apart, and for some size of a chunk the two
differences may cancel out, as in any sum of 32 bits. `OnlyACollisionIsMissed` is what can be said for every size:
nothing but such a collision is missed. Liveness is beyond these provers, and so is what the
property counts on besides `Advances`, that a step is ENABLED.

## 5. Where the code and its documents disagree

| Run | What |
|---|---|
| `oversized` | The reader refuses a chunk whose RLE form exceeds `BRA_MAX_CHUNK_SIZE` (`lib_bra_io_file_chunks.c:40`), the writer stores it: RLE makes a full chunk without runs up to 1/128 longer, Huffman may still make it smaller than the file. `bra -c` succeeds and `unbra` fails. |
| `inputs_glob` | `parseArgs_dir` (`bra.cpp:122`) searches a directory only if it is new in the set, and a glob puts directories there unsearched; with `-r`, `'a*' a` archives `a` without its contents. And `-r` is read where it stands: a directory before it is ignored. |
| `inputs_out` | The output is erased from the inputs by the spelling of the user (`bra.cpp:207`), so `-o ./x` leaves `x` in; the SFX's temporary is erased only if the SFX exists. |
| `sfx_close` | `bra_io_file_close` ignores `fclose`'s result (`lib_bra_io_file.c:218`): a failing last flush ends in exit status 0 and an output that is no archive. |
| `sfx_dir` | `file_rename` (`bra_fs.cpp:348`) removes an empty directory at the destination; its description says it fails. |
| `skip` | `bra_io_file_skip_data` (`lib_bra_io_file.c:323`) seeks, and so succeeds beyond the end of the file; its description says it fails. |
| `codecs_length` | `compress_file` passes the 64-bit length of what it summed to `bra_crc32c_combine`, which takes 32 bits (`lib_bra_io_file_chunks.c:292`): a compressed file of 4 GiB and more gets a sum that the reader refuses. |

The properties of the passing runs exclude these cases by name (`Oversized`, `FitsLength`, `GlobbedBefore`,
`RecursiveAt`, `TemporaryIsDirectory`, `dotted`, `lost`), and four more that the code has without a run of their own:

- `SevenAtMost`: without 64-bit instructions `bra_crc32c_sse42` takes four octets once, where a loop is needed
  (`lib_bra_crc32c.c:153`), so in a 32-bit build with SSE4.2 all but the first seven octets behind the aligned
  address are not summed.
- `LosesDirectory`: `filename_sfx_adjust` takes the stem of an output that ends in `.brx` (`bra_fs.cpp:153`),
  and with it drops the directory: `bra -s -o d/x.brx` writes to the current directory.
- `TemporaryIsDirectory`: when `d/x.BRa.brx` is there and a *directory* `d/x.BRa.tmp` is among the inputs,
  `bra -s -o d/x` erases that directory from its inputs (`bra.cpp:209`) but not what is below it. The copy of the
  SFX module over a directory then fails, so no archive is written.
- `SfxBefore`: `m_sfx` of `unbra` is set by any file of the command line and never reset (`unbra.cpp:114`),
  while `m_bra_file` is that of the last one: an archive behind an SFX is refused.

`README.md:52` says that `bra` expands a directory argument to `dir/*`; the code ignores a directory without
`-r`, and `NothingElse` and `NothingMissing` say the latter.

## 6. What is not modelled, and why

- Path sanitising, the regular expression of a wildcard, relative paths: computations on strings by
  `std::filesystem` and `std::regex`. A pattern is the set of names it matches.
- The tests for SSE4.2 (`bra_has_sse42`) and the choice it makes: both choices are modelled and agree.
- Symbolic links (refused by the writer), allocation failures, messages, progress, list layout.
- The decoders on data that no encoder wrote; `Damage` leaves alone the sizes that frame an entry, and in
  `BraChunks` changes stored bytes and the first chunk's index.
- Two processes writing the same output. The code does not try to make that safe.
- Loss of data the kernel had accepted (power failure): the crash is that of a process.

## 7. Plan

Done since the first version: the chunk pipeline byte for byte with its sums, the front ends of all three
programs with their options in place, and proofs of every property of section 3 but the two named at the end of
section 4: of the sessions, the self-extracting archive, the three ways to sum, the front ends, the encoders
and the payload.
Left, in order of importance:

1. The decoders on data that no encoder wrote (`bra_bwt_decode` with any index, `bra_huffman_decode` with any
   table), which would replace the exclusions of `Damage` by what the code does with such a chunk.
2. Two runs of `bra -s` for the same output at once, which share the temporary file.
3. That the session with marked payloads (`BraWriter`, `BraReader`) is an abstraction of `BraChunks`, as a
   refinement rather than by the same names of actions.
