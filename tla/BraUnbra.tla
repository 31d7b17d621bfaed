------------------------------ MODULE BraUnbra ------------------------------
(***************************************************************************)
(* unbra and the self-extractor: from the command line to the entries on   *)
(* the disk (prog/unbra.cpp, prog/bra_sfx.cpp,                             *)
(* prog/BraProgramOutputArgTrait.cpp): which file is opened and how, when  *)
(* the output directory is made and entered, where entries end up.  What   *)
(* the session does to one entry is in BraReader; here an entry is its     *)
(* path, and any entry may be bad.                                         *)
(***************************************************************************)
EXTENDS BraProgram

VARIABLES
  brafile,   \* m_bra_file, argv[0] for the self-extractor, which reads itself
  msfx,      \* m_sfx: read the footer first
  mode,      \* "extract", "test" or "list" (m_testContent, m_listContent)
  outpath,   \* m_output_path, from the directory the program started in
  cwd,       \* the current directory, from the one the program started in
  archives,  \* the archives on the disk: path -> [sfx, entries]
  entries,   \* what the file that was opened held
  pos,       \* how many entries are done
  agreed     \* history: the files the user, or -y, gave up

uown == <<brafile, msfx, mode, outpath, cwd, archives, entries, pos, agreed>>
uvars == <<pvars, uown>>

OfUnbra == prog \in {"unbra", "bra_sfx"}

UTypeOK ==
  /\ OfUnbra => pc \in {"args", "open", "enter", "entry"} \union Ends
  /\ brafile \in Path /\ msfx \in BOOLEAN
  /\ mode \in {"extract", "test", "list"}
  /\ outpath \in Path /\ cwd \in {<<>>, outpath}
  /\ OfUnbra => DOMAIN archives \subseteq files
  /\ pos \in 0 .. Len(entries)
  /\ agreed \subseteq Path

UInit ==
  /\ brafile = IF prog = "bra_sfx" THEN launch.argv0 ELSE <<>>
  /\ msfx = (prog = "bra_sfx")
  /\ mode = "extract" /\ outpath = <<>> /\ cwd = <<>>
  /\ archives = launch.archives /\ entries = <<>> /\ pos = 0 /\ agreed = {}

URefuse == Refused /\ UNCHANGED uown

(* Unbra::parseArgs_option and BraProgramOutputArgTrait::parseArgs_option: *)
(* a test is a list, also with -l behind it.                               *)
ParseModeOption ==
  /\ Parsing /\ Arg.kind \in {"list", "test"} \cap Options
  /\ mode' = IF mode = "test" THEN "test" ELSE Arg.kind
  /\ NextArg
  /\ UNCHANGED <<policy, brafile, msfx, outpath, cwd, archives, entries, pos, agreed>>

ParseOutput ==
  /\ Parsing /\ Arg.kind = "out"
  /\ outpath' = Arg.path
  /\ NextArg
  /\ UNCHANGED <<policy, brafile, msfx, mode, cwd, archives, entries, pos, agreed>>

(* Unbra::parseArgs_adjustFilename: the first of these that is a file, or  *)
(* the name as it is; the self-extractor has nothing to adjust.  (And one  *)
(* that ends with the last name it tried.)                                 *)
Candidates(p) ==
  LET q == filename_archive_adjust(p) IN <<q, Plus(q, "brx"), Plus(q, "exe")>>

FirstThere(p, otherwise) ==
  LET c == Candidates(p)
      there == {k \in DOMAIN c : c[k] \in files}
  IN  IF there = {} THEN otherwise ELSE c[CHOOSE k \in there : \A j \in there : k <= j]

NotRestored(p) ==
  IF prog = "bra_sfx" \/ p = <<>> THEN p ELSE FirstThere(p, Candidates(p)[3])

adjustFilename(p) ==
  IF prog = "bra_sfx" \/ p = <<>> THEN p ELSE FirstThere(p, p)

SfxName(p) == Extension(p) \in {"brx", "exe"}

(* parseArgs_file: the last file counts, and whether any of them was an    *)
(* SFX; the self-extractor takes none.                                     *)
ParseArchive ==
  /\ Parsing /\ Arg.kind = "path" /\ adjustFilename(Arg.path) \in files
  /\ IF prog = "bra_sfx"
       THEN URefuse
       ELSE /\ brafile' = adjustFilename(Arg.path)
            /\ msfx' = (msfx \/ SfxName(brafile'))
            /\ NextArg
            /\ UNCHANGED <<policy, mode, outpath, cwd, archives, entries, pos, agreed>>

(* A directory and a glob are no input, and are only warned about. *)
IgnoreArgument ==
  /\ Parsing
  /\ \/ Arg.kind = "glob"
     \/ Arg.kind = "path" /\ adjustFilename(Arg.path) \in dirs
  /\ NextArg
  /\ UNCHANGED <<policy, uown>>

ParseMissing ==
  /\ Parsing /\ Arg.kind = "path" /\ ~Exists(adjustFilename(Arg.path))
  /\ URefuse

----------------------------------------------------------------------------
(* validateArgs: there is an archive to read, or the self-extractor is an  *)
(* executable (and still there).                                           *)
UValidate ==
  /\ Parsed
  /\ IF brafile = <<>> \/ (prog = "bra_sfx" /\ brafile \notin files)
       THEN URefuse
       ELSE Goto("open") /\ UNCHANGED uown

(* run_prog: the file is an archive with a footer, or one without, as its  *)
(* name promised.                                                          *)
Readable(p) == p \in DOMAIN archives /\ archives[p].sfx = msfx

(* (And a run_prog that makes the output directory whatever the mode.) *)
OpenToWrite ==
  /\ pc = "open"
  /\ IF ~Readable(brafile)
       THEN URefuse
       ELSE /\ entries' = archives[brafile].entries
            /\ Goto("enter")
            /\ UNCHANGED <<brafile, msfx, mode, outpath, cwd, archives, pos, agreed>>

UOpen ==
  /\ pc = "open"
  /\ IF ~Readable(brafile)
       THEN URefuse
       ELSE /\ entries' = archives[brafile].entries
            /\ Goto(IF mode = "extract" THEN "enter" ELSE "entry")
            /\ UNCHANGED <<brafile, msfx, mode, outpath, cwd, archives, pos, agreed>>

(* BraProgramOutputArgTrait::run_prog: dir_make, then change into it.  (And *)
(* one that does not change into it.)                                      *)
MakeOutputOnly ==
  /\ pc = "enter"
  /\ IF Ways(outpath) \cap files # {}
       THEN URefuse
       ELSE /\ dirs' = dirs \union Ways(outpath)
            /\ pc' = "entry"
            /\ UNCHANGED <<launch, argi, policy, files, vanished, uown>>

EnterOutput ==
  /\ pc = "enter"
  /\ IF Ways(outpath) \cap files # {}
       THEN URefuse
       ELSE /\ dirs' = dirs \union Ways(outpath)
            /\ cwd' = outpath
            /\ pc' = "entry"
            /\ UNCHANGED <<launch, argi, policy, files, vanished,
                           brafile, msfx, mode, outpath, archives, entries, pos, agreed>>

----------------------------------------------------------------------------
More == pc = "entry" /\ pos < Len(entries)

Entry == entries[pos + 1]

(* Names of entries count from the current directory. *)
Target == cwd \o Entry.path

(* The next entry; W is what the user gave up. *)
EntryDone(W) ==
  /\ pos' = pos + 1 /\ agreed' = agreed \union W
  /\ UNCHANGED <<launch, argi, pc, vanished, brafile, msfx, mode, outpath, cwd, entries>>

(* bra_io_file_ctx_print_meta_entry *)
ListEntry ==
  /\ More /\ mode # "extract"
  /\ EntryDone({})
  /\ UNCHANGED <<policy, files, dirs, archives>>

(* bra_io_file_ctx_decode_and_write_to_disk of a directory: it is there,   *)
(* or is made with what is on the way to it.                               *)
ExtractDir ==
  /\ More /\ mode = "extract" /\ Entry.kind = "dir"
  /\ Ways(Target) \cap files = {}
  /\ dirs' = dirs \union Ways(Target)
  /\ EntryDone({})
  /\ UNCHANGED <<policy, files, archives>>

(* Of a file: the user may keep what is there, for this file or from now   *)
(* on.                                                                     *)
KeepThere ==
  /\ More /\ mode = "extract" /\ Entry.kind = "file"
  /\ "no" \in Answers(Target)
  /\ policy' \in {policy, "no"}
  /\ EntryDone({})
  /\ UNCHANGED <<files, dirs, archives>>

(* Or it is opened with "wb": what it was is gone, and if it was the       *)
(* archive that is being read, the rest comes out of a buffer, or does not *)
(* (BadEntry).  The system refuses that of a program that runs.            *)
(* (And one that does not ask.)                                            *)
CanOpen(p) == p \notin dirs /\ Parent(p) \in dirs /\ ~(prog = "bra_sfx" /\ p = launch.argv0)

UnaskedFile ==
  /\ More /\ mode = "extract" /\ Entry.kind = "file"
  /\ CanOpen(Target)
  /\ policy' = policy
  /\ files' = files \union {Target}
  /\ archives' = [p \in DOMAIN archives \ {Target} |-> archives[p]]
  /\ EntryDone({})
  /\ UNCHANGED dirs

ExtractFile ==
  /\ More /\ mode = "extract" /\ Entry.kind = "file"
  /\ Answers(Target) \cap {"yes", "absent"} # {}
  /\ CanOpen(Target)
  /\ policy' \in IF Target \in files THEN {policy, "yes"} ELSE {policy}
  /\ files' = files \union {Target}
  /\ archives' = [p \in DOMAIN archives \ {Target} |-> archives[p]]
  /\ EntryDone({Target} \cap files)
  /\ UNCHANGED dirs

(* An entry cannot be read, or not be written: the program ends where it   *)
(* is, also with regard to the current directory.                          *)
BadEntry ==
  /\ More
  /\ URefuse

(* run_prog_end: back to where the program started.  (And one directory up *)
(* instead.)                                                               *)
EndOneUp ==
  /\ pc = "entry" /\ pos = Len(entries)
  /\ cwd' = IF cwd = <<>> THEN <<>> ELSE Parent(cwd)
  /\ Goto("ended")
  /\ UNCHANGED <<brafile, msfx, mode, outpath, archives, entries, pos, agreed>>

UEnd ==
  /\ pc = "entry" /\ pos = Len(entries)
  /\ cwd' = <<>>
  /\ Goto("ended")
  /\ UNCHANGED <<brafile, msfx, mode, outpath, archives, entries, pos, agreed>>

(* What vanishes is no archive any more; what was opened can be read on.   *)
Forgotten == archives' = [p \in DOMAIN archives \cap files' |-> archives[p]]
             /\ UNCHANGED <<brafile, msfx, mode, outpath, cwd, entries, pos, agreed>>

UNext ==
  \/ ParseModeOption \/ ParseOutput \/ ParseArchive \/ IgnoreArgument \/ ParseMissing
  \/ UValidate \/ UOpen \/ EnterOutput
  \/ ListEntry \/ ExtractDir \/ KeepThere \/ ExtractFile \/ BadEntry \/ UEnd

----------------------------------------------------------------------------
(* Everything that is made or overwritten is in the output directory, but  *)
(* for that directory and those on the way to it, and after a success all  *)
(* entries are there: the archive is named from one directory, its entries *)
(* from another.                                                           *)
LandsInOutput ==
  OfUnbra =>
    /\ \A p \in (files \ launch.files) \union agreed : Below(outpath, p)
    /\ \A p \in dirs \ launch.dirs : Below(outpath, p) \/ p \in Ways(outpath)
    /\ pc = "ended" /\ mode = "extract" /\ vanished = 0 =>
         \A k \in 1 .. Len(entries) : Exists(outpath \o entries[k].path)

(* An archive, also the one that is being read, is lost only if the user   *)
(* gave it up, which -n and listing never do.                              *)
KeptUnlessAgreed ==
  OfUnbra /\ vanished = 0 =>
    /\ DOMAIN launch.archives \subseteq DOMAIN archives \union agreed
    /\ mode # "extract" \/ (\E k \in 1 .. Len(args) : args[k].kind = "no") => agreed = {}

(* A file that is no archive, and a listing, leave the disk as it is: the  *)
(* output directory is made for the entries only.                          *)
NothingForNothing ==
  OfUnbra /\ (entries = <<>> \/ mode # "extract") =>
    dirs = launch.dirs /\ files \subseteq launch.files

(* The command line is in order: each path is there, or a file under one   *)
(* of the names the help text says (a directory is not looked for under    *)
(* these), and so is each option.                                          *)
InOrder ==
  /\ \A k \in 1 .. Len(args) :
       /\ args[k].kind \in Options \union {"yes", "no", "path", "glob"}
       /\ args[k].kind = "path" =>
            Exists(args[k].path) \/ \E i \in 1 .. 3 : Candidates(args[k].path)[i] \in files
  /\ Cardinality({k \in 1 .. Len(args) : args[k].kind \in {"yes", "no"}}) <= 1

PathArgs == {k \in 1 .. Len(args) : args[k].kind = "path"}

(* An SFX was given before an archive. *)
SfxBefore == msfx /\ ~SfxName(brafile)

(* "<input_file>[.BRa]" and "<input_file>.BRa[.brx|.exe]" (the help text   *)
(* of unbra): an archive that is there under just one of these names, of   *)
(* the kind the name says, is read, and not refused, when it is the last   *)
(* (or only) argument, unless an SFX was given before it.                  *)
NamedIsRead ==
  prog = "unbra" /\ pc = "refused" /\ entries = <<>> /\ vanished = 0 /\ InOrder
  /\ PathArgs # {} /\ ~SfxBefore =>
    LET q == args[CHOOSE k \in PathArgs : \A j \in PathArgs : j <= k].path
        there == ({q} \union {Candidates(q)[i] : i \in 1 .. 3}) \cap launch.files
    IN  \A p \in DOMAIN launch.archives :
          ~(q # <<>> /\ there = {p} /\ launch.archives[p].sfx = SfxName(p))
============================================================================
