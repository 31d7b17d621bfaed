------------------------- MODULE BraProgramsProofs -------------------------
(***************************************************************************)
(* Theorems about every launch of the three programs: any command line,    *)
(* any disk, any archives, any number of files that vanish.  First those   *)
(* about unbra and the self-extractor, then those about bra: the order of  *)
(* the entries, and which entries there are.                               *)
(***************************************************************************)
EXTENDS BraPrograms, SequenceTheorems, FiniteSetTheorems, WellFoundedInduction, TLAPS

(* Where the run is: what the phase says of the archive and the directory. *)
Stage ==
  /\ pc \in {"args", "open", "enter", "entry"} \union Ends
  /\ pc \in {"args", "open"} => entries = <<>>
  /\ pc \in {"args", "open", "enter"} => pos = 0 /\ agreed = {} /\ cwd = <<>>
  /\ pc \in {"open", "enter", "entry"} => argi = Len(args)
  /\ pc = "enter" => mode = "extract" /\ entries # <<>>
  /\ pc = "entry" /\ mode = "extract" => cwd = outpath
  /\ pc = "ended" => pos = Len(entries)

(* What was extracted is where it should be. *)
Landed ==
  /\ \A p \in (files \ launch.files) \union agreed : Below(outpath, p)
  /\ \A p \in dirs \ launch.dirs : Below(outpath, p) \/ p \in Ways(outpath)
  /\ mode = "extract" /\ vanished = 0 =>
       \A k \in 1 .. pos : Exists(outpath \o entries[k].path)

(* What was given up was given up by the user. *)
Saved ==
  /\ \A p \in DOMAIN archives :
       p \in files /\ p \in DOMAIN launch.archives /\ archives[p] = launch.archives[p]
  /\ vanished = 0 => DOMAIN launch.archives \subseteq DOMAIN archives \union agreed
  /\ \A k \in 1 .. argi : args[k].kind = "no" => policy = "no"
  /\ mode # "extract" \/ (\E k \in 1 .. Len(args) : args[k].kind = "no") => agreed = {}

Types ==
  /\ brafile \in Path /\ msfx \in BOOLEAN
  /\ mode \in {"extract", "test", "list"}
  /\ outpath \in Path /\ cwd \in {<<>>, outpath}
  /\ entries \in Seq(Listed) /\ pos \in 0 .. Len(entries)
  /\ agreed \subseteq Path

UnbraInv ==
  /\ launch \in Launches
  /\ argi \in 0 .. Len(args) /\ vanished \in Nat
  /\ files \subseteq Path /\ Types
  /\ OfUnbra => Stage /\ Landed /\ Saved /\ NothingForNothing

----------------------------------------------------------------------------
(* What a path of the output directory is, and the ways to it. *)
LEMMA PathOfEntry ==
  ASSUME NEW p \in Path, NEW q \in Path \ {<<>>}
  PROVE  /\ p \o q \in Path /\ Below(p, p \o q)
         /\ p \o q \in Ways(p \o q)
         /\ \A w \in Ways(p \o q) : Below(p, w) \/ w \in Ways(p)
<1> DEFINE N == Seq(STRING) \ {<<>>}
<1>0. p \in Seq(N) /\ q \in Seq(N) /\ q # <<>>
  BY DEF Path
<1> HIDE DEF N
<1>1. /\ p \o q \in Seq(N) /\ Len(p \o q) = Len(p) + Len(q)
      /\ Len(p) \in Nat /\ Len(q) \in Nat /\ Len(q) > 0
      /\ \A i \in 1 .. Len(p) : (p \o q)[i] = p[i]
  BY <1>0, ConcatProperties, EmptySeq, LenProperties
<1>2. ASSUME NEW k \in 1 .. Len(p) PROVE SubSeq(p \o q, 1, k) = SubSeq(p, 1, k)
  BY <1>0, <1>1
<1>3. SubSeq(p \o q, 1, Len(p)) = p
  BY <1>0, <1>1
<1>4. p \o q \in Ways(p \o q)
  <2>1. SubSeq(p \o q, 1, Len(p \o q)) = p \o q
    BY <1>1
  <2> QED
    BY <1>1, <2>1 DEF Ways
<1>5. ASSUME NEW k \in 1 .. Len(p \o q), k > Len(p)
      PROVE  Below(p, SubSeq(p \o q, 1, k))
  <2>1. /\ Len(SubSeq(p \o q, 1, k)) = k
        /\ SubSeq(SubSeq(p \o q, 1, k), 1, Len(p)) = SubSeq(p \o q, 1, Len(p))
    BY <1>1, <1>5
  <2> QED
    BY <1>1, <1>3, <1>5, <2>1 DEF Below
<1>6. \A w \in Ways(p \o q) : Below(p, w) \/ w \in Ways(p)
  <2> SUFFICES ASSUME NEW k \in 1 .. Len(p \o q)
               PROVE  LET w == SubSeq(p \o q, 1, k) IN Below(p, w) \/ w \in Ways(p)
    BY DEF Ways
  <2>1. k \in 1 .. Len(p) \/ k > Len(p)
    BY <1>1
  <2>2. ASSUME k \in 1 .. Len(p) PROVE SubSeq(p \o q, 1, k) \in Ways(p)
    BY <1>2, <2>2 DEF Ways
  <2> QED
    BY <1>5, <2>1, <2>2
<1>7. Below(p, p \o q)
  BY <1>1, <1>3 DEF Below
<1>8. p \o q \in Path
  BY <1>1 DEF Path, N
<1> QED
  BY ONLY <1>4, <1>6, <1>7, <1>8

LEMMA InitOK == Init => UnbraInv
<1> SUFFICES ASSUME Init PROVE UnbraInv
  OBVIOUS
<1>1. /\ launch \in Launches /\ launch.args \in Seq(Argument) /\ launch.argv0 \in Path
      /\ launch.files \subseteq Path /\ DOMAIN launch.archives \subseteq launch.files
  BY ProgramAssumption DEF Init, PInit
<1>2. Len(launch.args) \in Nat
  BY <1>1
<1>3. <<>> \in Path
  BY DEF Path
<1> QED
  BY <1>1, <1>2, <1>3
     DEF Init, PInit, UInit, UnbraInv, Types, Stage, Landed, Saved, NothingForNothing, OfUnbra,
         args, prog, Ends

----------------------------------------------------------------------------
(* Every step keeps the launch, and what it leaves alone. *)
LEMMA RefuseOK == UnbraInv /\ OfUnbra /\ URefuse => UnbraInv'
<1> SUFFICES ASSUME UnbraInv, OfUnbra, URefuse PROVE UnbraInv'
  OBVIOUS
<1>1. /\ UNCHANGED <<launch, argi, policy, disk, uown>> /\ pc' = "refused"
  BY DEF URefuse, Refused, Goto
<1> QED
  BY <1>1 DEF UnbraInv, Types, Stage, Landed, Saved, NothingForNothing, OfUnbra, prog, args, Ends,
              disk, uown, Exists

LEMMA CommonOK == UnbraInv /\ Common => UnbraInv'
<1> SUFFICES ASSUME UnbraInv, Common PROVE UnbraInv'
  OBVIOUS
<1> USE DEF UnbraInv, Types, Stage, Landed, Saved, NothingForNothing, OfUnbra, prog, args, Ends,
            disk, uown, Exists
<1>1. CASE ParseHelp /\ UNCHANGED <<iown, uown>>
  BY <1>1 DEF ParseHelp, Parsing, Goto
<1>2. CASE ParsePolicy /\ UNCHANGED <<iown, uown>>
  <2>1. CASE policy # "ask"
    BY <1>2, <2>1 DEF ParsePolicy, Refused, Goto
  <2>2. CASE policy = "ask"
    BY <1>2, <2>2 DEF ParsePolicy, NextArg, Parsing, Arg
  <2> QED
    BY <2>1, <2>2
<1>3. CASE ParseUnknownOption /\ UNCHANGED <<iown, uown>>
  BY <1>3 DEF ParseUnknownOption, Refused, Goto
<1>4. CASE Vanish /\ Forgotten /\ UNCHANGED iown
  BY <1>4 DEF Vanish, Forgotten
<1> QED
  BY <1>1, <1>2, <1>3, <1>4 DEF Common

LEMMA BraOK == UnbraInv /\ Bra => UnbraInv'
<1> SUFFICES ASSUME UnbraInv, Bra PROVE UnbraInv'
  OBVIOUS
<1>1. prog = "bra" /\ INext /\ UNCHANGED uown
  BY DEF Bra
<1>2. launch' = launch /\ argi' \in 0 .. Len(args) /\ vanished' = vanished /\ files' = files
  <2> USE DEF disk, pvars
  <2>1. \A P : Add(P) /\ Parsing => /\ launch' = launch /\ argi' \in 0 .. Len(args)
                                   /\ vanished' = vanished /\ files' = files
    BY DEF Add, NextArg, Parsing, UnbraInv
  <2>2. Refuse => /\ launch' = launch /\ argi' \in 0 .. Len(args)
                  /\ vanished' = vanished /\ files' = files
    BY DEF Refuse, Refused, Goto, UnbraInv
  <2>3. \A phase : Goto(phase) => /\ launch' = launch /\ argi' \in 0 .. Len(args)
                                  /\ vanished' = vanished /\ files' = files
    BY DEF Goto, UnbraInv
  <2>4. ParseOption => /\ launch' = launch /\ argi' \in 0 .. Len(args)
                       /\ vanished' = vanished /\ files' = files
    BY DEF ParseOption, NextArg, Parsing, UnbraInv
  <2>5. CASE ParseFile \/ ParseDir \/ ParseGlob \/ ParseUnknown \/ ParseOption
    BY <2>1, <2>2, <2>4, <2>5 DEF ParseFile, ParseDir, ParseGlob, ParseUnknown
  <2>6. CASE AddDirs \/ FindModule \/ AskTemporary \/ MakeTree
    BY <2>2, <2>3, <2>6 DEF AddDirs, FindModule, AskTemporary, MakeTree
  <2>7. CASE AskOutput
    BY <2>2, <2>3, <2>7 DEF AskOutput, UnbraInv
  <2> QED
    BY <1>1, <2>5, <2>6, <2>7 DEF INext
<1>3. ~OfUnbra
  BY <1>1 DEF OfUnbra
<1>4. Types'
  BY <1>1 DEF UnbraInv, Types, uown
<1> QED
  BY <1>2, <1>3, <1>4 DEF UnbraInv, OfUnbra, prog, args

(* The arguments of unbra and of the self-extractor. *)
LEMMA ArgumentsOK ==
  UnbraInv /\ OfUnbra
    /\ (ParseModeOption \/ ParseOutput \/ ParseArchive \/ IgnoreArgument \/ ParseMissing)
  => UnbraInv'
<1> SUFFICES ASSUME UnbraInv, OfUnbra,
                    ParseModeOption \/ ParseOutput \/ ParseArchive \/ IgnoreArgument \/ ParseMissing
             PROVE  UnbraInv'
  OBVIOUS
<1>1. /\ launch \in Launches /\ launch.args \in Seq(Argument) /\ Len(args) \in Nat
      /\ pc = "args" /\ argi + 1 \in 1 .. Len(args) /\ Arg \in Argument /\ Arg.path \in Path
  <2>1. launch \in Launches /\ launch.args \in Seq(Argument)
    BY ProgramAssumption DEF UnbraInv
  <2>2. pc = "args" /\ argi < Len(args) /\ argi \in Nat
    BY DEF ParseModeOption, ParseOutput, ParseArchive, IgnoreArgument, ParseMissing, Parsing, UnbraInv
  <2>3. Len(args) \in Nat /\ argi + 1 \in 1 .. Len(args)
    BY <2>1, <2>2 DEF args
  <2>4. args[argi + 1] \in Argument
    BY <2>1, <2>3 DEF args
  <2> QED
    BY <2>1, <2>2, <2>3, <2>4 DEF Arg, Argument
<1> USE DEF UnbraInv, Types, Stage, Landed, Saved, NothingForNothing, OfUnbra, prog, args, Ends,
            disk, uown, Exists
<1>2. CASE ParseModeOption
  BY <1>1, <1>2 DEF ParseModeOption, NextArg, Arg, Options
<1>3. CASE ParseOutput
  BY <1>1, <1>3 DEF ParseOutput, NextArg, Arg
<1>4. CASE ParseArchive
  <2>1. CASE prog = "bra_sfx"
    BY <1>4, <2>1, RefuseOK DEF ParseArchive
  <2>2. CASE prog # "bra_sfx"
    BY <1>1, <1>4, <2>2 DEF ParseArchive, NextArg, Arg, SfxName
  <2> QED
    BY <2>1, <2>2
<1>5. CASE IgnoreArgument
  BY <1>1, <1>5 DEF IgnoreArgument, NextArg, Arg
<1>6. CASE ParseMissing
  BY <1>6, RefuseOK DEF ParseMissing
<1> QED
  BY <1>2, <1>3, <1>4, <1>5, <1>6

LEMMA OpenOK == UnbraInv /\ OfUnbra /\ (UValidate \/ UOpen) => UnbraInv'
<1> SUFFICES ASSUME UnbraInv, OfUnbra, UValidate \/ UOpen PROVE UnbraInv'
  OBVIOUS
<1> USE DEF UnbraInv, Types, Stage, Landed, Saved, NothingForNothing, OfUnbra, prog, args, Ends,
            disk, uown, Exists
<1>1. CASE UValidate
  <2>1. URefuse \/ (pc = "args" /\ argi = Len(args) /\ pc' = "open"
                      /\ UNCHANGED <<launch, argi, policy, disk, uown>>)
    BY <1>1 DEF UValidate, Parsed, Goto
  <2> QED
    BY <2>1, RefuseOK
<1>2. CASE UOpen
  <2>1. CASE ~Readable(brafile)
    BY <1>2, <2>1, RefuseOK DEF UOpen
  <2>2. CASE Readable(brafile)
    <3>1. brafile \in DOMAIN archives /\ archives[brafile] = launch.archives[brafile]
      BY <2>2 DEF Readable
    <3>2. launch.archives[brafile].entries \in Seq(Listed) \ {<<>>}
      BY <3>1, ProgramAssumption
    <3>3. /\ entries' = launch.archives[brafile].entries
          /\ pc = "open" /\ pc' = (IF mode = "extract" THEN "enter" ELSE "entry")
          /\ UNCHANGED <<launch, argi, policy, disk>>
          /\ UNCHANGED <<brafile, msfx, mode, outpath, cwd, archives, pos, agreed>>
      BY <1>2, <2>2, <3>1 DEF UOpen, Goto
    <3>4. pos = 0 /\ Len(entries') \in Nat
      BY <3>2, <3>3
    <3>5. Types'
      BY <3>2, <3>3, <3>4
    <3>6. Stage' /\ Landed' /\ Saved' /\ NothingForNothing'
      BY <3>2, <3>3, <3>4
    <3> QED
      BY <3>3, <3>5, <3>6
  <2> QED
    BY <2>1, <2>2
<1> QED
  BY <1>1, <1>2

LEMMA EnterOK == UnbraInv /\ OfUnbra /\ EnterOutput => UnbraInv'
<1> SUFFICES ASSUME UnbraInv, OfUnbra, EnterOutput PROVE UnbraInv'
  OBVIOUS
<1> USE DEF UnbraInv, Types, Stage, Landed, Saved, NothingForNothing, OfUnbra, prog, args, Ends,
            disk, uown, Exists
<1>1. CASE Ways(outpath) \cap files # {}
  BY <1>1, RefuseOK DEF EnterOutput
<1>2. CASE Ways(outpath) \cap files = {}
  <2>1. /\ pc = "enter" /\ pc' = "entry" /\ cwd' = outpath /\ dirs' = dirs \union Ways(outpath)
        /\ UNCHANGED <<launch, argi, policy, files, vanished>>
        /\ UNCHANGED <<brafile, msfx, mode, outpath, archives, entries, pos, agreed>>
    BY <1>2 DEF EnterOutput
  <2>2. mode = "extract" /\ pos = 0 /\ entries # <<>> /\ agreed = {}
    BY <2>1
  <2>3. Types' /\ Stage'
    BY <2>1, <2>2
  <2>4. Landed' /\ Saved' /\ NothingForNothing'
    BY <2>1, <2>2
  <2> QED
    BY <2>1, <2>3, <2>4
<1> QED
  BY <1>1, <1>2

LEMMA EntryOK ==
  UnbraInv /\ OfUnbra /\ (ListEntry \/ ExtractDir \/ KeepThere \/ ExtractFile) => UnbraInv'
<1> SUFFICES ASSUME UnbraInv, OfUnbra, ListEntry \/ ExtractDir \/ KeepThere \/ ExtractFile
             PROVE  UnbraInv'
  OBVIOUS
<1> USE DEF UnbraInv, OfUnbra, prog, args
<1>1. PICK W : EntryDone(W)
  BY DEF ListEntry, ExtractDir, KeepThere, ExtractFile
<1>2. /\ pos' = pos + 1 /\ pc = "entry" /\ UNCHANGED <<launch, argi, pc, vanished>>
      /\ UNCHANGED <<brafile, msfx, mode, outpath, cwd, entries>>
      /\ pos \in Nat /\ pos + 1 \in 1 .. Len(entries)
      /\ Entry \in Listed
  BY <1>1 DEF EntryDone, More, ListEntry, ExtractDir, KeepThere, ExtractFile, Types, Entry
<1>3. Entry.path \in Path \ {<<>>} /\ outpath \in Path
  BY <1>2 DEF Listed, Types
<1>4. Stage'
  <2>1. pc' = "entry" /\ argi' = Len(args)' /\ (mode' = "extract" => cwd' = outpath')
    BY <1>2 DEF Stage
  <2> QED
    BY <2>1 DEF Stage, Ends
<1>5. CASE ListEntry
  <2>1. UNCHANGED <<policy, files, dirs, archives>> /\ mode # "extract" /\ agreed' = agreed
    BY <1>5 DEF ListEntry, EntryDone
  <2> QED
    BY <1>2, <1>4, <2>1 DEF Types, Landed, Saved, NothingForNothing
<1>6. CASE ExtractDir \/ KeepThere \/ ExtractFile
  <2>1. mode = "extract" /\ cwd = outpath /\ Target = outpath \o Entry.path /\ entries # <<>>
    <3>1. mode = "extract"
      BY <1>6 DEF ExtractDir, KeepThere, ExtractFile
    <3>2. cwd = outpath
      BY <1>2, <3>1 DEF Stage
    <3>3. entries # <<>>
      <4> SUFFICES ASSUME entries = <<>> PROVE FALSE
        OBVIOUS
      <4>1. Len(entries) = 0
        OBVIOUS
      <4> QED
        BY <1>2, <4>1
    <3> QED
      BY <3>1, <3>2, <3>3 DEF Target
  <2>2. /\ Target \in Path /\ Below(outpath, Target) /\ Target \in Ways(Target)
        /\ \A w \in Ways(Target) : Below(outpath, w) \/ w \in Ways(outpath)
    BY <1>3, <2>1, PathOfEntry
  <2>3. /\ files \subseteq files' /\ files' \subseteq files \union {Target}
        /\ dirs \subseteq dirs' /\ dirs' \subseteq dirs \union Ways(Target)
        /\ Target \in files' \union dirs'
        /\ agreed \subseteq agreed' /\ agreed' \subseteq agreed \union ({Target} \cap files)
        /\ DOMAIN archives' \subseteq files'
        /\ \A p \in DOMAIN archives' : p \in DOMAIN archives /\ archives'[p] = archives[p]
        /\ \A p \in DOMAIN archives : p \in DOMAIN archives' \union agreed'
        /\ policy = "no" => policy' = "no" /\ agreed' = agreed
    <3>1. CASE ExtractDir
      BY <2>2, <3>1 DEF ExtractDir, EntryDone, Saved
    <3>2. CASE KeepThere
      <4>1. Target \in files
        BY <3>2 DEF KeepThere, Answers
      <4>2. /\ UNCHANGED <<files, dirs, archives>> /\ agreed' = agreed
            /\ policy' \in {policy, "no"}
        BY <3>2 DEF KeepThere, EntryDone
      <4> QED
        BY <4>1, <4>2 DEF Saved
    <3>3. CASE ExtractFile
      <4>1. policy = "no" => Target \notin files
        BY <3>3 DEF ExtractFile, Answers
      <4>2. /\ files' = files \union {Target} /\ dirs' = dirs
            /\ archives' = [p \in DOMAIN archives \ {Target} |-> archives[p]]
            /\ agreed' = agreed \union ({Target} \cap files)
            /\ policy' \in IF Target \in files THEN {policy, "yes"} ELSE {policy}
        BY <3>3 DEF ExtractFile, EntryDone
      <4>3. \A p \in DOMAIN archives : p \in files
        BY DEF Saved
      <4> QED
        BY <4>1, <4>2, <4>3
    <3> QED
      BY <1>6, <3>1, <3>2, <3>3
  <2>4. Types'
    BY <1>2, <2>2, <2>3 DEF Types
  <2>5. files' \subseteq Path
    BY <2>2, <2>3
  <2>6. Landed'
    <3>1. \A p \in (files' \ launch.files) \union agreed' : Below(outpath, p)
      BY <2>2, <2>3 DEF Landed
    <3>2. \A p \in dirs' \ launch.dirs : Below(outpath, p) \/ p \in Ways(outpath)
      BY <2>2, <2>3 DEF Landed
    <3>3. vanished = 0 => \A k \in 1 .. pos : Exists(outpath \o entries[k].path)
      BY <2>1 DEF Landed
    <3>4. \A k \in 1 .. pos + 1 : k \in 1 .. pos \/ k = pos + 1
      BY <1>2
    <3>5. vanished = 0 => \A k \in 1 .. pos + 1 : (outpath \o entries[k].path) \in files' \union dirs'
      BY <2>1, <2>3, <3>3, <3>4 DEF Exists, Entry
    <3> QED
      BY <1>2, <3>1, <3>2, <3>5 DEF Landed, Exists
  <2>7. Saved'
    <3>1. (\E k \in 1 .. Len(args) : args[k].kind = "no") => policy = "no" /\ agreed = {}
      BY <1>2 DEF Saved, Stage
    <3> QED
      BY <1>2, <2>1, <2>3, <3>1 DEF Saved
  <2>8. NothingForNothing'
    BY <1>2, <2>1 DEF NothingForNothing
  <2> QED
    BY <1>2, <1>4, <2>4, <2>5, <2>6, <2>7, <2>8
<1> QED
  BY <1>5, <1>6

LEMMA EndOK == UnbraInv /\ OfUnbra /\ (BadEntry \/ UEnd) => UnbraInv'
<1> SUFFICES ASSUME UnbraInv, OfUnbra, BadEntry \/ UEnd PROVE UnbraInv'
  OBVIOUS
<1>1. CASE BadEntry
  BY <1>1, RefuseOK DEF BadEntry
<1>2. CASE UEnd
  BY <1>2 DEF UEnd, Goto, UnbraInv, Types, Stage, Landed, Saved, NothingForNothing, OfUnbra, prog,
              args, Ends, disk, uown, Exists
<1> QED
  BY <1>1, <1>2

LEMMA StepOK == UnbraInv /\ [Next]_vars => UnbraInv'
<1> SUFFICES ASSUME UnbraInv, [Next]_vars PROVE UnbraInv'
  OBVIOUS
<1>1. CASE Common
  BY <1>1, CommonOK
<1>2. CASE Bra
  BY <1>2, BraOK
<1>3. CASE Unbra
  <2>1. prog \in Programs
    BY ProgramAssumption DEF UnbraInv, prog
  <2>2. OfUnbra /\ UNext
    BY <1>3, <2>1 DEF Unbra, OfUnbra, Programs
  <2> QED
    BY <2>2, ArgumentsOK, OpenOK, EnterOK, EntryOK, EndOK DEF UNext
<1>4. CASE Done \/ UNCHANGED vars
  BY <1>4 DEF Done, vars, pvars, uown, disk, UnbraInv, Types, Stage, Landed, Saved,
              NothingForNothing, OfUnbra, prog, args, Ends, Exists
<1> QED
  BY <1>1, <1>2, <1>3, <1>4 DEF Next

----------------------------------------------------------------------------
LEMMA UnbraAlways == Spec => []UnbraInv
<1>1. Init => UnbraInv
  BY InitOK
<1>2. UnbraInv /\ [Next]_vars => UnbraInv'
  BY StepOK
<1> QED
  BY <1>1, <1>2, PTL DEF Spec

(* Whatever the launch, the state of unbra is what its type says. *)
THEOREM UnbraTypes == Spec => []UTypeOK
<1>1. UnbraInv => UTypeOK
  BY DEF UnbraInv, UTypeOK, Types, Stage, Saved
<1> QED
  BY <1>1, UnbraAlways, PTL

(* Whatever the launch, entries land in the output directory, and all of   *)
(* them do if the run succeeds.                                            *)
THEOREM EntriesLand == Spec => []LandsInOutput
<1>1. UnbraInv => LandsInOutput
  BY DEF UnbraInv, LandsInOutput, Landed, Stage
<1> QED
  BY <1>1, UnbraAlways, PTL

(* Whatever the launch, no archive is lost that the user did not give up.  *)
THEOREM ArchivesKept == Spec => []KeptUnlessAgreed
<1>1. UnbraInv => KeptUnlessAgreed
  BY DEF UnbraInv, KeptUnlessAgreed, Saved
<1> QED
  BY <1>1, UnbraAlways, PTL

(* Whatever the launch, the disk is left alone until there are entries to  *)
(* extract.                                                                *)
THEOREM DiskLeftAlone == Spec => []NothingForNothing
<1>1. UnbraInv => NothingForNothing
  BY DEF UnbraInv, NothingForNothing
<1> QED
  BY <1>1, UnbraAlways, PTL

----------------------------------------------------------------------------
(* A set of naturals has a least element. *)
LEMMA LeastOf ==
  ASSUME NEW T, T \subseteq Nat, T # {}
  PROVE  \E k \in T : \A i \in T : k <= i
<1>1. IsWellFoundedOn(OpToRel(<, Nat), Nat)
  BY NatLessThanWellFounded
<1>2. PICK k \in T : \A i \in T : ~(<<i, k>> \in OpToRel(<, Nat))
  BY <1>1, WFMin
<1>3. \A i \in T : k \in Nat /\ i \in Nat /\ ~(i < k)
  BY <1>2 DEF OpToRel
<1> QED
  BY <1>3

(* Sorted puts every element of a finite set once into a sequence, in the  *)
(* order given.                                                            *)
LEMMA SortedOK ==
  ASSUME NEW S, NEW R, IsFiniteSet(S),
         \A x \in S : <<x, x>> \notin R,
         \A x, y, z \in S : <<x, y>> \in R /\ <<y, z>> \in R => <<x, z>> \in R,
         \A x, y \in S : x # y => <<x, y>> \in R \/ <<y, x>> \in R
  PROVE  /\ Cardinality(S) \in Nat /\ Sorted(S, R) \in Seq(S)
         /\ Len(Sorted(S, R)) = Cardinality(S)
         /\ \A x \in S : \E k \in 1 .. Cardinality(S) : Sorted(S, R)[k] = x
         /\ \A i, j \in 1 .. Cardinality(S) : Sorted(S, R)[i] = Sorted(S, R)[j] => i = j
         /\ \A i, j \in 1 .. Cardinality(S) :
              <<Sorted(S, R)[i], Sorted(S, R)[j]>> \in R => i < j
<1> DEFINE n == Cardinality(S)
           s == Sorted(S, R)
           low == [x \in S |-> {y \in S : <<y, x>> \in R}]
           rank == [x \in S |-> Cardinality(low[x]) + 1]
<1>1. n \in Nat
  BY FS_CardinalityType
<1>2. \A x \in S : /\ low[x] \subseteq S
                   /\ \A y \in S : y \in low[x] <=> <<y, x>> \in R
                   /\ rank[x] = Cardinality(low[x]) + 1
  OBVIOUS
<1>3. s = [k \in 1 .. n |-> CHOOSE x \in S : Cardinality({y \in S : <<y, x>> \in R}) = k - 1]
  BY DEF Sorted
<1>4. \A x \in S : low[x] = {y \in S : <<y, x>> \in R}
  OBVIOUS
<1>5. DOMAIN rank = S /\ rank = [x \in S |-> rank[x]]
  OBVIOUS
<1> HIDE DEF n, s, low, rank
<1>6. ASSUME NEW x \in S
      PROVE  /\ IsFiniteSet(low[x]) /\ Cardinality(low[x]) \in Nat /\ Cardinality(low[x]) < n
             /\ rank[x] \in 1 .. n
  <2>0. low[x] \in SUBSET S /\ x \notin low[x]
    BY <1>2
  <2>1. low[x] \in SUBSET S /\ low[x] # S
    BY <2>0
  <2>2. IsFiniteSet(low[x]) /\ Cardinality(low[x]) <= n /\ Cardinality(low[x]) # n
    BY <2>1, FS_Subset DEF n
  <2>3. Cardinality(low[x]) \in Nat
    BY <2>2, FS_CardinalityType
  <2> QED
    BY <1>1, <1>2, <2>2, <2>3
<1>7. ASSUME NEW x \in S, NEW y \in S, <<x, y>> \in R PROVE rank[x] < rank[y]
  <2>1. low[x] \in SUBSET low[y] /\ x \in low[y] /\ x \notin low[x]
    BY <1>2, <1>7
  <2>2. Cardinality(low[x]) <= Cardinality(low[y]) /\ Cardinality(low[x]) # Cardinality(low[y])
    BY <1>6, <2>1, FS_Subset
  <2> QED
    BY <1>2, <1>6, <2>2
<1>8. ASSUME NEW x \in S, NEW y \in S, rank[x] = rank[y] PROVE x = y
  <2>1. ~(rank[x] < rank[y]) /\ ~(rank[y] < rank[x])
    BY <1>1, <1>6, <1>8
  <2> QED
    BY <1>7, <2>1
<1>9. rank \in Injection(S, 1 .. n)
  <2>1. rank \in [S -> 1 .. n]
    BY <1>5, <1>6
  <2>2. \A x, y \in S : rank[x] = rank[y] => x = y
    BY <1>8
  <2> QED
    BY <2>1, <2>2, Zenon DEF Injection, IsInjective
<1>10. rank \in Surjection(S, 1 .. n)
  <2>1. IsFiniteSet(1 .. n) /\ Cardinality(1 .. n) = n
    BY <1>1, FS_Interval
  <2> QED
    BY <1>9, <2>1, FS_Injection DEF n
<1>11. ASSUME NEW k \in 1 .. n PROVE s[k] \in S /\ rank[s[k]] = k
  <2>1. PICK x \in S : rank[x] = k
    BY <1>10 DEF Surjection
  <2>2. Cardinality(low[x]) = k - 1
    BY <1>2, <1>6, <2>1
  <2>3. s[k] = CHOOSE z \in S : Cardinality({y \in S : <<y, z>> \in R}) = k - 1
    BY <1>3
  <2>4. Cardinality({y \in S : <<y, x>> \in R}) = k - 1
    BY <1>4, <2>2
  <2>5. s[k] \in S /\ Cardinality({y \in S : <<y, s[k]>> \in R}) = k - 1
    BY <2>3, <2>4
  <2>6. s[k] \in S /\ Cardinality(low[s[k]]) = k - 1
    BY <1>4, <2>5
  <2> QED
    BY <1>2, <1>6, <2>6
<1>12. s \in Seq(S) /\ Len(s) = n
  <2>1. s \in [1 .. n -> S]
    BY <1>3, <1>11, Zenon
  <2> QED
    BY <1>1, <2>1
<1>13. \A x \in S : \E k \in 1 .. n : s[k] = x
  <2> SUFFICES ASSUME NEW x \in S PROVE s[rank[x]] = x
    BY <1>6
  <2>1. rank[x] \in 1 .. n
    BY <1>6
  <2>2. s[rank[x]] \in S /\ rank[s[rank[x]]] = rank[x]
    BY <1>11, <2>1
  <2> QED
    BY <1>8, <2>2
<1>14. \A i, j \in 1 .. n : s[i] = s[j] => i = j
  BY <1>11
<1>15. \A i, j \in 1 .. n : <<s[i], s[j]>> \in R => i < j
  <2> SUFFICES ASSUME NEW i \in 1 .. n, NEW j \in 1 .. n, <<s[i], s[j]>> \in R PROVE i < j
    OBVIOUS
  <2> QED
    BY <1>7, <1>11
<1> QED
  BY <1>1, <1>12, <1>13, <1>14, <1>15 DEF n, s

----------------------------------------------------------------------------
(* Paths whose names have a rank. *)
Ranked == {p \in Path : \A i \in 1 .. Len(p) : p[i] \in DOMAIN Rank}

(* p and q begin with the same m names. *)
Agree(p, q, m) == m <= Len(p) /\ m <= Len(q) /\ \A i \in 1 .. m : p[i] = q[i]

LEMMA SubSeqAgree ==
  ASSUME NEW p \in Path, NEW q \in Path, NEW m \in Nat, m <= Len(p), m <= Len(q)
  PROVE  SubSeq(p, 1, m) = SubSeq(q, 1, m) <=> Agree(p, q, m)
<1> DEFINE N == Seq(STRING) \ {<<>>}
<1>0. p \in Seq(N) /\ q \in Seq(N)
  BY DEF Path
<1> HIDE DEF N
<1>1. ASSUME NEW r \in Seq(N), m <= Len(r)
      PROVE  /\ SubSeq(r, 1, m) = [i \in 1 .. m |-> r[i]]
             /\ \A i \in 1 .. m : SubSeq(r, 1, m)[i] = r[i]
  BY <1>1
<1>2. ASSUME Agree(p, q, m) PROVE SubSeq(p, 1, m) = SubSeq(q, 1, m)
  <2>1. [i \in 1 .. m |-> p[i]] = [i \in 1 .. m |-> q[i]]
    BY <1>2 DEF Agree
  <2>2. SubSeq(p, 1, m) = [i \in 1 .. m |-> p[i]]
    BY <1>0, <1>1
  <2>3. SubSeq(q, 1, m) = [i \in 1 .. m |-> q[i]]
    BY <1>0, <1>1
  <2> QED
    BY ONLY <2>1, <2>2, <2>3
<1>3. ASSUME SubSeq(p, 1, m) = SubSeq(q, 1, m) PROVE Agree(p, q, m)
  BY <1>0, <1>1, <1>3 DEF Agree
<1> QED
  BY <1>2, <1>3

(* A path and what it is made of. *)
LEMMA PathParts ==
  ASSUME NEW p \in Path
  PROVE  /\ Len(p) \in Nat
         /\ p = <<>> <=> Len(p) = 0
         /\ \A k \in 0 .. Len(p) :
              /\ SubSeq(p, 1, k) \in Path /\ Len(SubSeq(p, 1, k)) = k
              /\ \A i \in 1 .. k : SubSeq(p, 1, k)[i] = p[i]
         /\ SubSeq(p, 1, Len(p)) = p
         /\ \A n \in Seq(STRING) \ {<<>>} :
              /\ Append(p, n) \in Path /\ Append(p, n) # <<>>
              /\ Parent(Append(p, n)) = p /\ NameOf(Append(p, n)) = n
              /\ Len(Append(p, n)) = Len(p) + 1
              /\ \A i \in 1 .. Len(p) : Append(p, n)[i] = p[i]
         /\ p # <<>> =>
              /\ Parent(p) \in Path /\ Len(Parent(p)) = Len(p) - 1
              /\ NameOf(p) \in Seq(STRING) \ {<<>>}
              /\ p = Append(Parent(p), NameOf(p))
<1> DEFINE N == Seq(STRING) \ {<<>>}
<1>0. p \in Seq(N) /\ Path = Seq(N)
  BY DEF Path
<1> HIDE DEF N
<1>1. Len(p) \in Nat /\ (p = <<>> <=> Len(p) = 0)
  BY <1>0, EmptySeq
<1>2. ASSUME NEW k \in 0 .. Len(p)
      PROVE  /\ SubSeq(p, 1, k) \in Seq(N) /\ Len(SubSeq(p, 1, k)) = k
             /\ \A i \in 1 .. k : SubSeq(p, 1, k)[i] = p[i]
  BY <1>0, <1>1
<1>3. SubSeq(p, 1, Len(p)) = p
  BY <1>0, <1>1
<1>4. ASSUME NEW n \in N
      PROVE  /\ Append(p, n) \in Seq(N) /\ Append(p, n) # <<>>
             /\ Parent(Append(p, n)) = p /\ NameOf(Append(p, n)) = n
             /\ Len(Append(p, n)) = Len(p) + 1
             /\ \A i \in 1 .. Len(p) : Append(p, n)[i] = p[i]
  <2>1. /\ Append(p, n) \in Seq(N) /\ Len(Append(p, n)) = Len(p) + 1
        /\ Append(p, n)[Len(p) + 1] = n
        /\ \A i \in 1 .. Len(p) : Append(p, n)[i] = p[i]
    BY <1>0, <1>1, AppendProperties
  <2>2. SubSeq(Append(p, n), 1, Len(p)) = p
    BY <1>0, <1>1, <2>1
  <2> QED
    BY <1>0, <1>1, <2>1, <2>2 DEF Parent, NameOf
<1>5. ASSUME p # <<>>
      PROVE  /\ Parent(p) \in Seq(N) /\ Len(Parent(p)) = Len(p) - 1
             /\ NameOf(p) \in N
             /\ p = Append(Parent(p), NameOf(p))
  <2>1. Len(p) \in 1 .. Len(p) /\ Len(p) - 1 \in 0 .. Len(p)
    BY <1>1, <1>5
  <2>2. Parent(p) \in Seq(N) /\ Len(Parent(p)) = Len(p) - 1
    BY <1>2, <2>1 DEF Parent
  <2>5. NameOf(p) \in N
    BY <1>0, <2>1 DEF NameOf
  <2>3. \A i \in 1 .. Len(p) - 1 : Parent(p)[i] = p[i]
    BY <1>2, <2>1 DEF Parent
  <2>4. /\ Append(Parent(p), NameOf(p)) \in Seq(N) /\ Len(Append(Parent(p), NameOf(p))) = Len(p)
        /\ \A i \in 1 .. Len(p) : Append(Parent(p), NameOf(p))[i] = p[i]
    BY <1>1, <2>1, <2>2, <2>3, <2>5, AppendProperties DEF NameOf
  <2> QED
    BY <1>0, <2>2, <2>4, <2>5, SeqEqual
<1> QED
  BY <1>0, <1>1, <1>2, <1>3, <1>4, <1>5 DEF N

----------------------------------------------------------------------------
(* q is greater than p for its k-th name. *)
Greater(p, q, k) ==
  /\ k \in 1 .. Len(q) /\ Agree(p, q, k - 1)
  /\ Len(p) = k - 1 \/ (k <= Len(p) /\ Rank[p[k]] < Rank[q[k]])

LEMMA LessByName ==
  ASSUME NEW p \in Path, NEW q \in Path
  PROVE  PathLess(p, q) <=> \E k \in 1 .. Len(q) : Greater(p, q, k)
<1>1. Len(p) \in Nat /\ Len(q) \in Nat /\ SubSeq(p, 1, Len(p)) = p
  BY PathParts
<1>2. Below(p, q) <=> Len(p) < Len(q) /\ Agree(p, q, Len(p))
  <2>1. Len(p) < Len(q) => (SubSeq(q, 1, Len(p)) = p <=> Agree(p, q, Len(p)))
    BY <1>1, SubSeqAgree
  <2> QED
    BY <1>1, <2>1 DEF Below
<1>3. ASSUME NEW k \in 1 .. Len(p), k <= Len(q)
      PROVE  SubSeq(p, 1, k - 1) = SubSeq(q, 1, k - 1) <=> Agree(p, q, k - 1)
  <2>1. k - 1 \in Nat /\ k - 1 <= Len(p) /\ k - 1 <= Len(q)
    BY <1>1, <1>3
  <2> QED
    BY <2>1, SubSeqAgree
<1>4. ASSUME Below(p, q) PROVE Greater(p, q, Len(p) + 1)
  BY <1>1, <1>2, <1>4 DEF Greater
<1>5. ASSUME NEW k \in 1 .. Len(p), k <= Len(q), SubSeq(p, 1, k - 1) = SubSeq(q, 1, k - 1),
             Rank[p[k]] < Rank[q[k]]
      PROVE  k \in 1 .. Len(q) /\ Greater(p, q, k)
  BY <1>1, <1>3, <1>5 DEF Greater
<1>6. ASSUME NEW k \in 1 .. Len(q), Greater(p, q, k) PROVE PathLess(p, q)
  <2>1. CASE Len(p) = k - 1
    BY <1>1, <1>2, <1>6, <2>1 DEF Greater, PathLess
  <2>2. CASE k <= Len(p) /\ Rank[p[k]] < Rank[q[k]]
    BY <1>1, <1>3, <1>6, <2>2 DEF Greater, PathLess
  <2> QED
    BY <1>6, <2>1, <2>2 DEF Greater
<1>7. ASSUME PathLess(p, q) PROVE \E k \in 1 .. Len(q) : Greater(p, q, k)
  <2>1. CASE Below(p, q)
    BY <1>4, <2>1 DEF Greater
  <2>2. CASE ~Below(p, q)
    BY <1>5, <1>7, <2>2 DEF PathLess
  <2> QED
    BY <2>1, <2>2
<1> QED
  BY <1>6, <1>7

(* The order of paths: irreflexive, transitive and total, and a directory  *)
(* is before what is below it.                                             *)
LEMMA PathsNotBefore ==
  ASSUME NEW p \in Ranked PROVE ~PathLess(p, p) /\ ~PathLess(p, <<>>)
<1>1. /\ p \in Path /\ Len(p) \in Nat /\ <<>> \in Path /\ Len(<<>>) = 0
      /\ \A i \in 1 .. Len(p) : Rank[p[i]] \in Nat
  BY PathParts, ProgramAssumption DEF Ranked, Path
<1>2. \A k \in 1 .. Len(p) : ~Greater(p, p, k)
  BY <1>1 DEF Greater
<1> QED
  BY <1>1, <1>2, LessByName

LEMMA PathsTransitive ==
  ASSUME NEW p \in Ranked, NEW q \in Ranked, NEW r \in Ranked, PathLess(p, q), PathLess(q, r)
  PROVE  PathLess(p, r)
<1>1. /\ p \in Path /\ q \in Path /\ r \in Path
      /\ Len(p) \in Nat /\ Len(q) \in Nat /\ Len(r) \in Nat
      /\ \A i \in 1 .. Len(p) : Rank[p[i]] \in Nat
      /\ \A i \in 1 .. Len(q) : Rank[q[i]] \in Nat
      /\ \A i \in 1 .. Len(r) : Rank[r[i]] \in Nat
  BY PathParts, ProgramAssumption DEF Ranked
<1>2. PICK i \in 1 .. Len(q) : Greater(p, q, i)
  BY <1>1, LessByName
<1>3. PICK j \in 1 .. Len(r) : Greater(q, r, j)
  BY <1>1, LessByName
<1>4. CASE i < j
  <2>1. i \in 1 .. Len(r) /\ i <= j - 1 /\ q[i] = r[i] /\ i - 1 <= Len(p)
    BY <1>1, <1>2, <1>3, <1>4 DEF Greater, Agree
  <2>2. Agree(p, r, i - 1)
    BY <1>1, <1>2, <1>3, <1>4, <2>1 DEF Greater, Agree
  <2>3. Greater(p, r, i)
    BY <1>1, <1>2, <2>1, <2>2 DEF Greater
  <2> QED
    BY <1>1, <2>1, <2>3, LessByName
<1>5. CASE i >= j
  <2>1. j \in 1 .. Len(q) /\ j <= Len(q)
    BY <1>1, <1>2, <1>3, <1>5
  <2>2. Rank[q[j]] < Rank[r[j]] /\ Agree(q, r, j - 1) /\ Agree(p, q, i - 1)
    BY <1>1, <1>2, <1>3, <2>1 DEF Greater
  <2>3. Agree(p, r, j - 1)
    BY <1>1, <1>2, <1>3, <1>5, <2>2 DEF Agree
  <2>4. CASE Len(p) = j - 1
    BY <1>1, <1>3, <2>3, <2>4, LessByName DEF Greater
  <2>5. CASE Len(p) # j - 1
    <3>1. j \in 1 .. Len(p)
      BY <1>1, <2>3, <2>5 DEF Agree
    <3>2. Rank[p[j]] = Rank[q[j]] \/ Rank[p[j]] < Rank[q[j]]
      <4>1. CASE j < i
        BY <1>1, <1>2, <1>3, <2>2, <4>1 DEF Agree
      <4>2. CASE j = i
        BY <1>1, <1>2, <2>5, <4>2 DEF Greater
      <4> QED
        BY <1>5, <4>1, <4>2
    <3>3. Rank[p[j]] < Rank[r[j]]
      BY <1>1, <2>1, <2>2, <3>1, <3>2
    <3>4. Greater(p, r, j)
      BY <1>1, <1>3, <2>3, <3>1, <3>3 DEF Greater
    <3> QED
      BY <1>1, <3>4, LessByName
  <2> QED
    BY <2>4, <2>5
<1> QED
  BY <1>4, <1>5

LEMMA PathsTotal ==
  ASSUME NEW p \in Ranked, NEW q \in Ranked, p # q
  PROVE  PathLess(p, q) \/ PathLess(q, p)
<1> DEFINE N == Seq(STRING) \ {<<>>}
<1>1. /\ p \in Path /\ q \in Path /\ Len(p) \in Nat /\ Len(q) \in Nat
      /\ \A i \in 1 .. Len(p) : p[i] \in DOMAIN Rank
      /\ \A i \in 1 .. Len(q) : q[i] \in DOMAIN Rank
      /\ \A n \in DOMAIN Rank : Rank[n] \in Nat
      /\ \A n, m \in DOMAIN Rank : Rank[n] = Rank[m] => n = m
  BY PathParts, ProgramAssumption DEF Ranked
<1>2. p \in Seq(N) /\ q \in Seq(N)
  BY <1>1 DEF Path
<1> HIDE DEF N
<1> DEFINE Differ == {k \in Nat : k >= 1 /\ \/ k > Len(p) \/ k > Len(q) \/ p[k] # q[k]}
<1>3. Len(p) + Len(q) + 1 \in Differ
  BY <1>1
<1>4. Differ \subseteq Nat /\ Differ # {}
  BY <1>3
<1>5. PICK k \in Differ : \A i \in Differ : k <= i
  BY <1>4, LeastOf, Zenon
<1>6. \A i \in 1 .. k - 1 : i <= Len(p) /\ i <= Len(q) /\ p[i] = q[i]
  BY <1>1, <1>5
<1>7. k \in Nat /\ k >= 1 /\ k - 1 <= Len(p) /\ k - 1 <= Len(q)
  <2>1. k \in Nat /\ k >= 1
    BY <1>5
  <2>2. k - 1 >= 1 => k - 1 <= Len(p) /\ k - 1 <= Len(q)
    BY <1>6, <2>1
  <2> QED
    BY <1>1, <2>1, <2>2
<1>8. Agree(p, q, k - 1) /\ Agree(q, p, k - 1)
  BY <1>1, <1>6, <1>7 DEF Agree
<1>9. k <= Len(p) \/ k <= Len(q)
  <2> SUFFICES ASSUME k > Len(p), k > Len(q) PROVE FALSE
    BY <1>1, <1>7
  <2>1. Len(p) = k - 1 /\ Len(q) = k - 1
    BY <1>1, <1>7
  <2> QED
    BY <1>1, <1>2, <1>6, <2>1, SeqEqual
<1>10. CASE k > Len(p)
  <2>1. Greater(p, q, k)
    BY <1>1, <1>7, <1>8, <1>9, <1>10 DEF Greater
  <2> QED
    BY <1>1, <2>1, LessByName DEF Greater
<1>11. CASE k > Len(q)
  <2>1. Greater(q, p, k)
    BY <1>1, <1>7, <1>8, <1>9, <1>11 DEF Greater
  <2> QED
    BY <1>1, <2>1, LessByName DEF Greater
<1>12. CASE k <= Len(p) /\ k <= Len(q)
  <2>1. p[k] # q[k]
    BY <1>5, <1>12
  <2>2. k \in 1 .. Len(p) /\ k \in 1 .. Len(q)
    BY <1>1, <1>7, <1>12
  <2>3. Rank[p[k]] < Rank[q[k]] \/ Rank[q[k]] < Rank[p[k]]
    BY <1>1, <2>1, <2>2
  <2>4. Greater(p, q, k) \/ Greater(q, p, k)
    BY <1>1, <1>8, <1>12, <2>2, <2>3 DEF Greater
  <2> QED
    BY <1>1, <2>2, <2>4, LessByName
<1> QED
  BY <1>1, <1>7, <1>10, <1>11, <1>12

(* The order of entries, likewise. *)
Ordered == [kind : {"dir", "file"}, path : Ranked \ {<<>>}]

LEMMA DirOfOK ==
  ASSUME NEW e \in Ordered
  PROVE  /\ e.path \in Ranked \ {<<>>} /\ DirOf(e) \in Ranked
         /\ Rank[NameOf(e.path)] \in Nat /\ NameOf(e.path) \in DOMAIN Rank
         /\ e.kind = "dir" => DirOf(e) = e.path
         /\ e.kind # "dir" => e.kind = "file" /\ e.path = Append(DirOf(e), NameOf(e.path))
<1>1. e.path \in Ranked /\ e.path \in Path /\ e.path # <<>> /\ e.kind \in {"dir", "file"}
  BY DEF Ordered, Ranked
<1>2. /\ Len(e.path) \in Nat /\ Len(e.path) # 0 /\ Parent(e.path) \in Path
      /\ Len(Parent(e.path)) = Len(e.path) - 1
      /\ e.path = Append(Parent(e.path), NameOf(e.path))
  BY <1>1, PathParts
<1>3. Len(e.path) \in 1 .. Len(e.path) /\ Len(e.path) - 1 \in 0 .. Len(e.path)
  BY <1>2
<1>4. NameOf(e.path) \in DOMAIN Rank /\ Rank[NameOf(e.path)] \in Nat
  BY <1>1, <1>3, ProgramAssumption DEF Ranked, NameOf
<1>5. Parent(e.path) \in Ranked
  <2>1. \A i \in 1 .. Len(e.path) - 1 : Parent(e.path)[i] = e.path[i]
    BY <1>1, <1>3, PathParts DEF Parent
  <2> QED
    BY <1>1, <1>2, <2>1 DEF Ranked
<1> QED
  BY <1>1, <1>2, <1>4, <1>5 DEF DirOf

LEMMA NotBeforeItself ==
  ASSUME NEW e \in Ordered PROVE ~VisitedBefore(e, e)
BY DirOfOK, PathsNotBefore DEF VisitedBefore

LEMMA VisitTransitive ==
  ASSUME NEW e \in Ordered, NEW g \in Ordered, NEW h \in Ordered,
         VisitedBefore(e, g), VisitedBefore(g, h)
  PROVE  VisitedBefore(e, h)
<1>1. /\ DirOf(e) \in Ranked /\ DirOf(g) \in Ranked /\ DirOf(h) \in Ranked
      /\ Rank[NameOf(e.path)] \in Nat /\ Rank[NameOf(g.path)] \in Nat
      /\ Rank[NameOf(h.path)] \in Nat
  BY DirOfOK
<1>2. CASE PathLess(DirOf(e), DirOf(g)) /\ PathLess(DirOf(g), DirOf(h))
  BY <1>1, <1>2, PathsTransitive DEF VisitedBefore
<1>3. CASE ~(PathLess(DirOf(e), DirOf(g)) /\ PathLess(DirOf(g), DirOf(h)))
  <2>1. DirOf(e) = DirOf(g) \/ DirOf(g) = DirOf(h)
    BY <1>3 DEF VisitedBefore
  <2>2. CASE PathLess(DirOf(e), DirOf(g)) \/ PathLess(DirOf(g), DirOf(h))
    BY <1>3, <2>1, <2>2 DEF VisitedBefore
  <2>3. CASE ~PathLess(DirOf(e), DirOf(g)) /\ ~PathLess(DirOf(g), DirOf(h))
    BY <1>1, <2>3 DEF VisitedBefore
  <2> QED
    BY <2>2, <2>3
<1> QED
  BY <1>2, <1>3

LEMMA VisitTotal ==
  ASSUME NEW e \in Ordered, NEW g \in Ordered, e # g
  PROVE  VisitedBefore(e, g) \/ VisitedBefore(g, e)
<1>1. DirOf(e) \in Ranked /\ DirOf(g) \in Ranked
  BY DirOfOK
<1>2. CASE DirOf(e) # DirOf(g)
  BY <1>1, <1>2, PathsTotal DEF VisitedBefore
<1>3. CASE DirOf(e) = DirOf(g)
  <2>1. CASE e.kind = "dir" /\ g.kind = "dir"
    <3>1. e.path = g.path
      BY <1>3, <2>1, DirOfOK
    <3> QED
      BY <2>1, <3>1 DEF Ordered
  <2>2. CASE e.kind = "dir" /\ g.kind # "dir"
    BY <1>3, <2>2, DirOfOK DEF VisitedBefore
  <2>3. CASE e.kind # "dir" /\ g.kind = "dir"
    BY <1>3, <2>3, DirOfOK DEF VisitedBefore
  <2>4. CASE e.kind # "dir" /\ g.kind # "dir"
    <3>1. /\ e.kind = "file" /\ g.kind = "file"
          /\ e.path = Append(DirOf(e), NameOf(e.path))
          /\ g.path = Append(DirOf(g), NameOf(g.path))
      BY <2>4, DirOfOK
    <3>2. e.path # g.path
      BY <3>1 DEF Ordered
    <3>3. NameOf(e.path) # NameOf(g.path)
      BY <1>3, <3>1, <3>2
    <3>4. Rank[NameOf(e.path)] # Rank[NameOf(g.path)]
      BY <3>3, DirOfOK, ProgramAssumption
    <3>5. Rank[NameOf(e.path)] < Rank[NameOf(g.path)] \/ Rank[NameOf(g.path)] < Rank[NameOf(e.path)]
      BY <3>4, DirOfOK
    <3> QED
      BY <1>3, <3>1, <3>5 DEF VisitedBefore
  <2> QED
    BY <2>1, <2>2, <2>3, <2>4
<1> QED
  BY <1>2, <1>3

----------------------------------------------------------------------------
DirEntry(d) == [kind |-> "dir", path |-> d]

Parented == \A e \in Entries : Parent(e.path) = <<>> \/ DirEntry(Parent(e.path)) \in Entries

(* What makes a plan of the visit. *)
Plannable ==
  /\ IsFiniteSet(Entries) /\ Entries # {} /\ Entries \subseteq Ordered
  /\ \A e, g \in Entries : e.path = g.path => e = g

LEMMA ParentBefore ==
  ASSUME NEW e \in Ordered, Parent(e.path) # <<>>, DirEntry(Parent(e.path)) \in Ordered
  PROVE  VisitedBefore(DirEntry(Parent(e.path)), e)
<1> DEFINE d == DirEntry(Parent(e.path))
<1>1. d.kind = "dir" /\ DirOf(d) = Parent(e.path)
  BY DEF DirEntry, DirOf
<1>2. CASE e.kind = "file"
  BY <1>1, <1>2 DEF VisitedBefore, DirOf
<1>3. CASE e.kind = "dir"
  <2>1. DirOf(e) = e.path /\ e.path \in Path /\ e.path # <<>>
    BY <1>3 DEF DirOf, Ordered, Ranked
  <2>2. Len(Parent(e.path)) < Len(e.path) /\ SubSeq(e.path, 1, Len(Parent(e.path))) = Parent(e.path)
    <3>1. Len(Parent(e.path)) = Len(e.path) - 1 /\ Len(e.path) \in Nat
      BY <2>1, PathParts
    <3> QED
      BY <3>1 DEF Parent
  <2>3. PathLess(Parent(e.path), e.path)
    BY <2>2 DEF PathLess, Below
  <2> QED
    BY <1>1, <2>1, <2>3 DEF VisitedBefore
<1> QED
  BY <1>2, <1>3 DEF Ordered

LEMMA PlanOfTree ==
  ASSUME Plannable
  PROVE  Len(Visited) = Cardinality(Entries) /\ (Parented => IsPlan(Visited))
<1> DEFINE R == {r \in Entries \X Entries : VisitedBefore(r[1], r[2])}
           s == Visited
           n == Cardinality(Entries)
<1>1. \A e, g \in Entries : <<e, g>> \in R <=> VisitedBefore(e, g)
  OBVIOUS
<1>2. Visited = Sorted(Entries, R)
  BY DEF Visited
<1> HIDE DEF R, s
<1>3. /\ n \in Nat /\ s \in Seq(Entries) /\ Len(s) = n
      /\ \A x \in Entries : \E k \in 1 .. n : s[k] = x
      /\ \A i, j \in 1 .. n : s[i] = s[j] => i = j
      /\ \A i, j \in 1 .. n : <<s[i], s[j]>> \in R => i < j
  <2>1. IsFiniteSet(Entries) /\ Entries \subseteq Ordered
    BY DEF Plannable
  <2>2. \A x \in Entries : <<x, x>> \notin R
    BY <1>1, <2>1, NotBeforeItself
  <2>3. \A x, y, z \in Entries : <<x, y>> \in R /\ <<y, z>> \in R => <<x, z>> \in R
    BY <1>1, <2>1, VisitTransitive
  <2>4. \A x, y \in Entries : x # y => <<x, y>> \in R \/ <<y, x>> \in R
    BY <1>1, <2>1, VisitTotal
  <2> HIDE DEF n
  <2> QED
    BY <1>2, <2>1, <2>2, <2>3, <2>4, SortedOK DEF n, s
<1> HIDE DEF n
<1>4. \A i \in 1 .. n : s[i] \in Entries /\ s[i] \in Ordered /\ s[i].kind \in {"dir", "file"}
  BY <1>3 DEF Plannable, Ordered
<1>5. \A i, j \in 1 .. n : VisitedBefore(s[i], s[j]) <=> i < j
  <2>1. ASSUME NEW i \in 1 .. n, NEW j \in 1 .. n, VisitedBefore(s[i], s[j]) PROVE i < j
    BY <1>1, <1>3, <1>4, <2>1
  <2>2. ASSUME NEW i \in 1 .. n, NEW j \in 1 .. n, i < j PROVE VisitedBefore(s[i], s[j])
    <3>1. s[i] # s[j]
      BY <1>3, <2>2
    <3>2. VisitedBefore(s[i], s[j]) \/ VisitedBefore(s[j], s[i])
      BY <1>4, <3>1, VisitTotal
    <3>3. ~(j < i)
      BY <2>2
    <3> QED
      BY <2>1, <3>2, <3>3
  <2> QED
    BY <2>1, <2>2
<1>6. ASSUME Parented, NEW i \in 1 .. n, Parent(s[i].path) # <<>>
      PROVE  \E j \in 1 .. i - 1 : s[j] = DirEntry(Parent(s[i].path))
  <2>1. DirEntry(Parent(s[i].path)) \in Entries /\ DirEntry(Parent(s[i].path)) \in Ordered
    BY <1>4, <1>6 DEF Parented, Plannable
  <2>2. PICK j \in 1 .. n : s[j] = DirEntry(Parent(s[i].path))
    BY <1>3, <2>1
  <2>3. VisitedBefore(s[j], s[i])
    BY <1>4, <1>6, <2>1, <2>2, ParentBefore
  <2> QED
    BY <1>3, <1>5, <2>2, <2>3
<1>7. ASSUME Parented PROVE IsPlan(s)
  <2>1. s # <<>>
    BY <1>3 DEF Plannable
  <2>2. \A i, j \in 1 .. Len(s) : s[i].path = s[j].path => i = j
    BY <1>3, <1>4 DEF Plannable
  <2>3. ASSUME NEW i \in 1 .. n
        PROVE  \/ Parent(s[i].path) = <<>>
               \/ \E j \in 1 .. i - 1 : s[j].kind = "dir" /\ s[j].path = Parent(s[i].path)
    <3> SUFFICES ASSUME Parent(s[i].path) # <<>>
                 PROVE  \E j \in 1 .. i - 1 : s[j].kind = "dir" /\ s[j].path = Parent(s[i].path)
      OBVIOUS
    <3>1. PICK j \in 1 .. i - 1 : s[j] = DirEntry(Parent(s[i].path))
      BY <1>6, <1>7
    <3> QED
      BY <3>1 DEF DirEntry
  <2>4. ASSUME NEW i \in 1 .. n, s[i].kind = "file"
        PROVE  \E j \in 0 .. i - 1 :
                 /\ Parent(s[i].path) = IF j = 0 THEN <<>> ELSE s[j].path
                 /\ j > 0 => s[j].kind = "dir"
                 /\ \A k \in j + 1 .. i - 1 : s[k].kind = "file"
    <3>1. DirOf(s[i]) = Parent(s[i].path) /\ DirOf(s[i]) \in Ranked
      BY <1>4, <2>4, DirOfOK DEF DirOf
    <3>2. ASSUME NEW k \in 1 .. i - 1
          PROVE  PathLess(DirOf(s[k]), DirOf(s[i])) \/ DirOf(s[k]) = DirOf(s[i])
      <4>1. k \in 1 .. n /\ k < i
        BY <1>3
      <4> QED
        BY <1>5, <4>1 DEF VisitedBefore
    <3>3. CASE Parent(s[i].path) = <<>>
      <4>1. ASSUME NEW k \in 1 .. i - 1 PROVE s[k].kind = "file"
        <5>1. k \in 1 .. n
          BY <1>3
        <5>2. s[k] \in Ordered
          BY <1>4, <5>1
        <5>3. DirOf(s[k]) = <<>>
          BY <3>1, <3>2, <3>3, <5>2, DirOfOK, PathsNotBefore
        <5> QED
          BY <5>2, <5>3, DirOfOK DEF Ordered
      <4> QED
        BY <1>3, <3>3, <4>1
    <3>4. CASE Parent(s[i].path) # <<>>
      <4>1. PICK j \in 1 .. i - 1 : s[j] = DirEntry(Parent(s[i].path))
        BY <1>6, <1>7, <3>4
      <4>2. s[j].kind = "dir" /\ s[j].path = Parent(s[i].path) /\ DirOf(s[j]) = DirOf(s[i])
        BY <3>1, <4>1 DEF DirEntry, DirOf
      <4>3. ASSUME NEW k \in j + 1 .. i - 1 PROVE s[k].kind = "file"
        <5>1. k \in 1 .. n /\ j \in 1 .. n /\ k \in 1 .. i - 1 /\ j < k
          BY <1>3
        <5>2. VisitedBefore(s[j], s[k]) /\ s[k] \in Ordered /\ s[j] \in Ordered
          BY <1>4, <1>5, <5>1
        <5>3. PathLess(DirOf(s[k]), DirOf(s[i])) \/ DirOf(s[k]) = DirOf(s[i])
          BY <3>2, <5>1
        <5>4. CASE PathLess(DirOf(s[j]), DirOf(s[k]))
          <6>1. DirOf(s[k]) \in Ranked /\ ~PathLess(DirOf(s[i]), DirOf(s[i]))
            BY <3>1, <5>2, DirOfOK, PathsNotBefore
          <6>2. CASE DirOf(s[k]) = DirOf(s[i])
            BY <4>2, <5>4, <6>1, <6>2
          <6>3. CASE PathLess(DirOf(s[k]), DirOf(s[i]))
            BY <3>1, <4>2, <5>4, <6>1, <6>3, PathsTransitive
          <6> QED
            BY <5>3, <6>2, <6>3
        <5> QED
          BY <5>2, <5>4 DEF VisitedBefore
      <4> QED
        BY <1>3, <4>1, <4>2, <4>3
    <3> QED
      BY <3>3, <3>4
  <2> HIDE DEF s
  <2> QED
    BY <1>3, <2>1, <2>2, <2>3, <2>4 DEF IsPlan
<1> QED
  BY <1>3, <1>7 DEF s, n

----------------------------------------------------------------------------
FileEntry(p) == [kind |-> "file", path |-> p]

There == launch.files \union launch.dirs

(* The disk that bra sees is the one it was started on, but for files that *)
(* vanish and the directory it makes.                                      *)
Seen ==
  /\ launch \in Launches /\ files \subseteq launch.files /\ launch.dirs \subseteq dirs
  /\ pc \in {"args", "module", "tmp", "output"} => dirs = launch.dirs
  /\ files \cap dirs = {}

(* m_files from when the directories were added until the tree is made.    *)
Collected ==
  /\ pc \in {"module", "tmp", "output", "tree"} => mfiles \subseteq There \ {<<>>}
  /\ pc \in {"module", "tmp", "output"} => \A p \in mfiles : Ways(p) \subseteq mfiles
  /\ pc = "tree" =>
       /\ \A p \in mfiles : \A w \in Ways(p) :
            w \in mfiles \/ w \notin dirs \/ (sfx /\ w = out.path)
       /\ ~out.dotted => Final \notin mfiles \cap files

Ready ==
  pc = "ready" =>
    /\ ~TemporaryIsDirectory => Plannable /\ Parented /\ total = Cardinality(Entries)
    /\ ~out.dotted => FileEntry(Final) \notin Entries

SelectInv == launch \in Launches /\ (prog = "bra" => Seen /\ Collected /\ Ready)

(* A way to a way to a path is a way to it. *)
LEMMA WaysToWays ==
  ASSUME NEW p \in Path, NEW w \in Ways(p)
  PROVE  w \in Path \ {<<>>} /\ Ways(w) \subseteq Ways(p)
<1>1. PICK k \in 1 .. Len(p) : w = SubSeq(p, 1, k)
  BY DEF Ways
<1>2. /\ Len(p) \in Nat /\ k \in 0 .. Len(p) /\ w \in Path /\ Len(w) = k
      /\ \A i \in 1 .. k : w[i] = p[i]
  BY <1>1, PathParts
<1>3. ASSUME NEW j \in 1 .. k PROVE SubSeq(w, 1, j) = SubSeq(p, 1, j) /\ j \in 1 .. Len(p)
  <2>1. j \in Nat /\ j <= Len(w) /\ j <= Len(p) /\ Agree(w, p, j)
    BY <1>2 DEF Agree
  <2> QED
    BY <1>2, <2>1, SubSeqAgree
<1>4. Ways(w) \subseteq Ways(p)
  BY <1>2, <1>3 DEF Ways
<1>5. w # <<>>
  <2>1. Len(w) # 0
    BY <1>2
  <2> QED
    BY <1>2, <2>1, PathParts
<1> QED
  BY <1>2, <1>4, <1>5

(* The ways to what is on the disk. *)
LEMMA WaysThere ==
  ASSUME NEW l \in Launches, NEW p \in l.files \union l.dirs
  PROVE  /\ p \in Path /\ p \in Ranked /\ <<>> \in Path
         /\ Ways(p) \subseteq Path \ {<<>>}
         /\ \A w \in Ways(p) : w = p \/ w \in l.dirs
         /\ \A w \in Ways(p) : Ways(w) \subseteq Ways(p)
         /\ p # <<>> => p \in Ways(p) /\ (Parent(p) = <<>> \/ Parent(p) \in Ways(p))
<1>1. /\ p \in Path /\ Ways(p) \ {p} \subseteq l.dirs
      /\ \A i \in 1 .. Len(p) : p[i] \in DOMAIN Rank
  BY ProgramAssumption
<1>2. p \in Ranked /\ <<>> \in Path /\ Len(<<>>) = 0
  BY <1>1 DEF Ranked, Path
<1>3. ASSUME NEW w \in Ways(p)
      PROVE  w \in Path \ {<<>>} /\ (w = p \/ w \in l.dirs) /\ Ways(w) \subseteq Ways(p)
  BY <1>1, WaysToWays
<1>4. ASSUME p # <<>> PROVE p \in Ways(p) /\ (Parent(p) = <<>> \/ Parent(p) \in Ways(p))
  <2>1. Len(p) \in Nat /\ Len(p) # 0 /\ SubSeq(p, 1, Len(p)) = p
        /\ Parent(p) \in Path /\ Len(Parent(p)) = Len(p) - 1
    BY <1>1, <1>4, PathParts
  <2>0. Len(p) \in 1 .. Len(p)
    BY <2>1
  <2>2. p \in Ways(p)
    BY <2>0, <2>1, Zenon DEF Ways
  <2>3. CASE Len(p) = 1
    <3>1. Len(Parent(p)) = 0
      BY <2>1, <2>3
    <3> QED
      BY <2>1, <2>2, <3>1, PathParts
  <2>4. CASE Len(p) # 1
    <3>1. Len(p) - 1 \in 1 .. Len(p)
      BY <2>1, <2>4
    <3>2. Parent(p) \in Ways(p)
      BY <3>1, Zenon DEF Ways, Parent
    <3> QED
      BY <2>2, <3>2
  <2> QED
    BY <2>3, <2>4
<1> QED
  BY <1>1, <1>2, <1>3, <1>4

(* What make_tree puts into m_tree is what was in m_files. *)
LEMMA EntriesOfTree ==
  ASSUME tree' = Tree, mfiles \subseteq Path \ {<<>>}
  PROVE  /\ \A e \in Entries' : \/ \E p \in mfiles \cap files : e = FileEntry(p)
                                \/ \E p \in mfiles \cap dirs : e = DirEntry(p)
                                \/ \E p \in mfiles \cap files :
                                     Parent(p) # <<>> /\ e = DirEntry(Parent(p))
         /\ \A p \in mfiles \cap files : FileEntry(p) \in Entries'
         /\ \A p \in mfiles \cap dirs : DirEntry(p) \in Entries'
<1> DEFINE D == (mfiles \cap dirs) \union {Parent(p) : p \in mfiles \cap files}
           F == {p \in mfiles \cap files : TRUE}
<1>1. /\ tree' = [d \in D |-> FilesUnder(d)] /\ DOMAIN tree' = D
      /\ \A d \in D : tree'[d] = FilesUnder(d)
  BY DEF Tree
<1>2. \A d : FilesUnder(d) = {NameOf(p) : p \in {q \in F : Parent(q) = d}}
  BY DEF FilesUnder
<1>3. \A p \in mfiles : Append(Parent(p), NameOf(p)) = p /\ p # <<>>
  BY PathParts
<1>4. \A e : e \in Entries' <=>
        \/ \E d \in D \ {<<>>} : e = DirEntry(d)
        \/ \E d \in D : \E n \in FilesUnder(d) : e = FileEntry(Append(d, n))
  BY <1>1 DEF Entries, DirEntry, FileEntry
<1>5. ASSUME NEW e \in Entries'
      PROVE  \/ \E p \in mfiles \cap files : e = FileEntry(p)
             \/ \E p \in mfiles \cap dirs : e = DirEntry(p)
             \/ \E p \in mfiles \cap files : Parent(p) # <<>> /\ e = DirEntry(Parent(p))
  <2>1. CASE \E d \in D \ {<<>>} : e = DirEntry(d)
    BY <2>1
  <2>2. CASE \E d \in D : \E n \in FilesUnder(d) : e = FileEntry(Append(d, n))
    <3>0. PICK d \in D : \E n \in FilesUnder(d) : e = FileEntry(Append(d, n))
      BY <2>2
    <3>1. PICK n \in FilesUnder(d) : e = FileEntry(Append(d, n))
      BY <3>0
    <3>2. PICK p \in F : Parent(p) = d /\ n = NameOf(p)
      BY <1>2, <3>1
    <3> QED
      BY <1>3, <3>1, <3>2
  <2> QED
    BY <1>4, <2>1, <2>2
<1>6. ASSUME NEW p \in mfiles \cap files PROVE FileEntry(p) \in Entries'
  <2>1. Parent(p) \in D /\ NameOf(p) \in FilesUnder(Parent(p))
    BY <1>2
  <2> QED
    BY <1>3, <1>4, <2>1
<1>7. ASSUME NEW p \in mfiles \cap dirs PROVE DirEntry(p) \in Entries'
  BY <1>3, <1>4
<1> QED
  BY <1>5, <1>6, <1>7

(* There is an entry for every path in m_files when every parent is one of *)
(* them, and no other.                                                     *)
LEMMA TreeIsPlannable ==
  ASSUME tree' = Tree, launch \in Launches, mfiles # {}, files \cap dirs = {},
         mfiles \subseteq There \ {<<>>}, mfiles \subseteq files \union dirs,
         \A p \in mfiles : \A w \in Ways(p) : w \in mfiles /\ (w = p \/ w \in dirs)
  PROVE  Plannable' /\ Parented' /\ Cardinality(Entries') = Cardinality(mfiles)
<1>1. /\ \A p \in mfiles : p \in Path \ {<<>>} /\ p \in Ranked
      /\ \A p \in mfiles : Parent(p) = <<>> \/ Parent(p) \in Ways(p)
  BY WaysThere DEF There
<1>2. \A p \in mfiles : Parent(p) # <<>> => Parent(p) \in mfiles \cap dirs
  <2> SUFFICES ASSUME NEW p \in mfiles, Parent(p) # <<>> PROVE Parent(p) \in mfiles \cap dirs
    OBVIOUS
  <2>1. Parent(p) # p
    <3>1. Len(Parent(p)) = Len(p) - 1 /\ Len(p) \in Nat
      BY <1>1, PathParts
    <3> QED
      BY <3>1
  <2> QED
    BY <1>1, <2>1
<1> DEFINE entry == [p \in mfiles |-> IF p \in dirs THEN DirEntry(p) ELSE FileEntry(p)]
           E == Entries'
<1>3. /\ \A p \in mfiles : entry[p] = IF p \in dirs THEN DirEntry(p) ELSE FileEntry(p)
      /\ DOMAIN entry = mfiles /\ entry = [p \in mfiles |-> entry[p]]
  OBVIOUS
<1> HIDE DEF entry
<1>4. mfiles \subseteq Path \ {<<>>}
  BY <1>1
<1>5. /\ \A e \in E : \E p \in mfiles : e = entry[p]
      /\ \A p \in mfiles : entry[p] \in E
  BY <1>2, <1>3, <1>4, EntriesOfTree
<1> HIDE DEF E
<1>6. \A p \in mfiles : entry[p].path = p /\ entry[p].kind \in {"dir", "file"} /\ entry[p] \in Ordered
  BY <1>1, <1>3 DEF DirEntry, FileEntry, Ordered
<1>7. IsFiniteSet(mfiles)
  <2>1. IsFiniteSet(There) /\ mfiles \in SUBSET There
    BY ProgramAssumption DEF There
  <2> QED
    BY <2>1, FS_Subset
<1>8. entry \in Bijection(mfiles, E)
  <2>1. entry \in [mfiles -> E]
    BY <1>3, <1>5
  <2>2. \A p, q \in mfiles : entry[p] = entry[q] => p = q
    BY <1>6
  <2>3. entry \in Injection(mfiles, E)
    BY <2>1, <2>2, Zenon DEF Injection, IsInjective
  <2>4. entry \in Surjection(mfiles, E)
    <3>1. \A e \in E : \E p \in mfiles : entry[p] = e
      BY <1>5
    <3> QED
      BY <2>1, <3>1, Zenon DEF Surjection
  <2> QED
    BY <2>3, <2>4 DEF Bijection
<1>9. IsFiniteSet(E) /\ Cardinality(E) = Cardinality(mfiles)
  <2>1. ExistsBijection(mfiles, E)
    BY <1>8 DEF ExistsBijection
  <2> QED
    BY <1>7, <2>1, FS_Bijection
<1>10. E # {} /\ E \subseteq Ordered /\ \A e, g \in E : e.path = g.path => e = g
  BY <1>5, <1>6
<1>11. \A e \in E : Parent(e.path) = <<>> \/ DirEntry(Parent(e.path)) \in E
  <2> SUFFICES ASSUME NEW p \in mfiles, Parent(p) # <<>> PROVE DirEntry(Parent(p)) \in E
    BY <1>5, <1>6
  <2>1. Parent(p) \in mfiles /\ entry[Parent(p)] = DirEntry(Parent(p))
    BY <1>2, <1>3
  <2> QED
    BY <1>5, <2>1
<1> QED
  BY <1>9, <1>10, <1>11 DEF E, Plannable, Parented, DirEntry

----------------------------------------------------------------------------
LEMMA SelectInitOK == Init => SelectInv
BY ProgramAssumption
   DEF Init, PInit, SelectInv, Seen, Collected, Ready, prog

LEMMA SelectCommonOK == SelectInv /\ Common => SelectInv'
<1> SUFFICES ASSUME SelectInv, Common PROVE SelectInv'
  OBVIOUS
<1>1. UNCHANGED <<launch, iown, dirs>>
  BY DEF Common, ParseHelp, ParsePolicy, ParseUnknownOption, Vanish, Refused, Goto, NextArg, disk
<1>2. /\ files' \subseteq files
      /\ \/ pc' \in {"ended", "refused"}
         \/ pc = "args" /\ pc' = pc
         \/ pc # "ready" /\ pc' = pc
  BY DEF Common, ParseHelp, ParsePolicy, ParseUnknownOption, Vanish, Refused, Goto, NextArg, disk,
         Parsing, Ends
<1>3. Seen /\ Collected => Seen' /\ Collected'
  BY <1>1, <1>2 DEF Seen, Collected, iown, given, There, Final
<1> QED
  BY <1>1, <1>2, <1>3 DEF SelectInv, Ready, prog

LEMMA RefusedOK == SelectInv /\ Refuse => SelectInv'
BY DEF SelectInv, Refuse, Refused, Goto, Seen, Collected, Ready, prog, disk, iown, given, There

LEMMA SelectParseOK ==
  SelectInv /\ (ParseOption \/ ParseFile \/ ParseDir \/ ParseGlob \/ ParseUnknown) => SelectInv'
<1> SUFFICES ASSUME SelectInv, ~Refuse,
                    ParseOption \/ ParseFile \/ ParseDir \/ ParseGlob \/ ParseUnknown
             PROVE  SelectInv'
  BY RefusedOK
<1>1. UNCHANGED <<launch, files, dirs, pc>> /\ pc = "args"
  BY DEF ParseOption, ParseFile, ParseDir, ParseGlob, ParseUnknown, Add, NextArg, disk, Parsing
<1> QED
  BY <1>1 DEF SelectInv, Seen, Collected, Ready, prog

LEMMA SelectDirsOK == SelectInv /\ prog = "bra" /\ AddDirs => SelectInv'
<1> SUFFICES ASSUME SelectInv, prog = "bra", AddDirs, ~Refuse PROVE SelectInv'
  BY RefusedOK
<1>1. /\ mfiles' = WithDirs(mfiles) /\ \A p \in mfiles \ {<<>>} : Exists(p)
      /\ UNCHANGED <<launch, files, dirs>> /\ pc = "args" /\ pc' \in {"module", "output"}
  BY DEF AddDirs, Parsed, Goto, disk
<1>2. launch \in Launches /\ files \subseteq launch.files /\ dirs = launch.dirs
  BY <1>1 DEF SelectInv, Seen
<1>3. \A p \in mfiles \ {<<>>} : p \in There
  BY <1>1, <1>2 DEF Exists, There
<1>4. Ways(<<>>) = {}
  BY DEF Ways
<1>5. ASSUME NEW w \in mfiles'
      PROVE  w \in There \ {<<>>} /\ Ways(w) \subseteq mfiles'
  <2>1. PICK p \in mfiles : w \in Ways(p)
    BY <1>1 DEF WithDirs
  <2>2. p \in There
    BY <1>3, <1>4, <2>1
  <2>3. /\ Ways(p) \subseteq Path \ {<<>>} /\ (w = p \/ w \in launch.dirs)
        /\ Ways(w) \subseteq Ways(p)
    BY <1>2, <2>1, <2>2, WaysThere DEF There
  <2> QED
    BY <1>1, <2>1, <2>2, <2>3 DEF WithDirs, There
<1>6. There' = There
  BY <1>1 DEF There
<1> QED
  BY <1>1, <1>5, <1>6 DEF SelectInv, Seen, Collected, Ready, prog

LEMMA SelectAskOK == SelectInv /\ prog = "bra" /\ (FindModule \/ AskTemporary) => SelectInv'
<1> SUFFICES ASSUME SelectInv, prog = "bra", FindModule \/ AskTemporary, ~Refuse PROVE SelectInv'
  BY RefusedOK
<1>1. /\ UNCHANGED <<launch, files, dirs, iown>>
      /\ pc \in {"module", "tmp"} /\ pc' \in {"tmp", "output"}
  BY DEF FindModule, AskTemporary, Goto, Refuse, Refused, disk
<1> QED
  BY <1>1 DEF SelectInv, Seen, Collected, Ready, prog, iown, given, There

LEMMA SelectOutputOK == SelectInv /\ prog = "bra" /\ AskOutput => SelectInv'
<1> SUFFICES ASSUME SelectInv, prog = "bra", AskOutput, ~Refuse PROVE SelectInv'
  BY RefusedOK
<1>1. /\ launch \in Launches /\ Seen
      /\ mfiles \subseteq There \ {<<>>} /\ \A p \in mfiles : Ways(p) \subseteq mfiles
  BY DEF SelectInv, Collected, AskOutput
<1>2. PICK answer \in Answers(Final) :
        CASE answer = "no" -> Refuse
          [] answer = "yes" ->
               /\ mfiles' = mfiles \ Erased
               /\ Goto("tree")
               /\ UNCHANGED <<given, tree, total>>
          [] OTHER ->
               IF Ways(Parent(out.path)) \cap files # {}
                 THEN Refuse
                 ELSE /\ dirs' = dirs \union Ways(Parent(out.path))
                      /\ pc' = "tree"
                      /\ UNCHANGED <<launch, argi, policy, files, vanished, iown>>
  BY DEF AskOutput
<1>3. CASE answer = "yes"
  <2>1. /\ mfiles' = mfiles \ Erased /\ pc' = "tree"
        /\ UNCHANGED <<launch, files, dirs, given, tree, total>>
    BY <1>2, <1>3 DEF Goto, disk
  <2>2. Final \in files
    BY <1>3 DEF Answers
  <2>3. Final \notin dirs
    BY <1>1, <2>2 DEF Seen
  <2>4. ASSUME NEW p \in mfiles', NEW w \in Ways(p)
        PROVE  w \in mfiles' \/ w \notin dirs \/ (sfx /\ w = out.path)
    <3>1. w \in mfiles
      BY <1>1, <2>1, <2>4
    <3>2. w \in mfiles' \/ w \in {Final, out.path}
      BY <2>1, <3>1 DEF Erased
    <3>3. sfx \/ Final = out.path
      BY DEF Final
    <3> QED
      BY <2>3, <3>2, <3>3
  <2>5. ~out.dotted => Final \notin mfiles'
    BY <2>1 DEF Erased
  <2>6. sfx' = sfx /\ out' = out /\ Final' = Final /\ There' = There
    BY <2>1 DEF given, Final, There
  <2>7. Seen'
    BY <1>1, <2>1 DEF Seen
  <2>8. Collected'
    BY <1>1, <2>1, <2>4, <2>5, <2>6 DEF Collected
  <2> QED
    BY <1>1, <2>1, <2>7, <2>8 DEF SelectInv, Ready, prog
<1>4. CASE answer # "yes"
  <2>1. /\ Ways(Parent(out.path)) \cap files = {} /\ dirs' = dirs \union Ways(Parent(out.path))
        /\ pc' = "tree" /\ UNCHANGED <<launch, files, iown>> /\ answer # "no"
    BY <1>2, <1>4
  <2>2. Final \notin files
    BY <1>4, <2>1 DEF Answers
  <2>3. Seen'
    BY <1>1, <2>1 DEF Seen
  <2>4. Collected'
    BY <1>1, <2>1, <2>2 DEF Collected, iown, given, Final, There
  <2> QED
    BY <1>1, <2>1, <2>3, <2>4 DEF SelectInv, Ready, prog
<1> QED
  BY <1>3, <1>4

LEMMA SelectTreeOK == SelectInv /\ prog = "bra" /\ MakeTree => SelectInv'
<1> SUFFICES ASSUME SelectInv, prog = "bra", MakeTree, ~Refuse PROVE SelectInv'
  BY RefusedOK
<1>1. /\ mfiles # {} /\ \A p \in mfiles : p \in files \union dirs
      /\ tree' = Tree /\ total' = Cardinality(mfiles) /\ pc = "tree" /\ pc' = "ready"
      /\ UNCHANGED <<launch, files, dirs, sfx, out>>
  BY DEF MakeTree, Goto, disk, Exists, given
<1>2. /\ launch \in Launches /\ Seen /\ mfiles \subseteq There \ {<<>>}
      /\ \A p \in mfiles : \A w \in Ways(p) :
            w \in mfiles \/ w \notin dirs \/ (sfx /\ w = out.path)
      /\ ~out.dotted => Final \notin mfiles \cap files
  BY <1>1 DEF SelectInv, Collected
<1>3. Seen'
  BY <1>1, <1>2 DEF Seen
<1>4. ASSUME ~TemporaryIsDirectory
      PROVE  Plannable' /\ Parented' /\ total' = Cardinality(Entries')
  <2>1. \A p \in mfiles : \A w \in Ways(p) : w = p \/ w \in dirs
    BY <1>2, WaysThere DEF There, Seen
  <2>2. \A p \in mfiles : \A w \in Ways(p) : w \in mfiles
    BY <1>2, <1>4, <2>1 DEF TemporaryIsDirectory
  <2>3. files \cap dirs = {} /\ mfiles \subseteq files \union dirs
    BY <1>1, <1>2 DEF Seen
  <2> QED
    BY <1>1, <1>2, <2>1, <2>2, <2>3, TreeIsPlannable
<1>5. ~out.dotted => FileEntry(Final) \notin Entries'
  <2>1. \A p \in mfiles : p \in Path \ {<<>>}
    BY <1>2, WaysThere DEF There
  <2>2. mfiles \subseteq Path \ {<<>>}
    BY <2>1
  <2>3. FileEntry(Final) \in Entries' => Final \in mfiles \cap files
    BY <1>1, <2>2, EntriesOfTree DEF FileEntry, DirEntry
  <2> QED
    BY <1>2, <2>3
<1>6. Final' = Final /\ TemporaryIsDirectory' = TemporaryIsDirectory /\ FileEntry(Final)' = FileEntry(Final)
  BY <1>1 DEF Final, TemporaryIsDirectory, FileEntry
<1>7. Ready'
  BY <1>1, <1>4, <1>5, <1>6 DEF Ready
<1> QED
  BY <1>1, <1>2, <1>3, <1>7 DEF SelectInv, Collected

LEMMA LaunchKept == Unbra => launch' = launch
BY DEF Unbra, UNext, URefuse, Refused, Goto, NextArg, ParseModeOption, ParseOutput,
       ParseArchive, IgnoreArgument, ParseMissing, UValidate, UOpen, EnterOutput,
       ListEntry, ExtractDir, KeepThere, ExtractFile, EntryDone, BadEntry, UEnd

LEMMA SelectStepOK == SelectInv /\ [Next]_vars => SelectInv'
<1> SUFFICES ASSUME SelectInv, [Next]_vars PROVE SelectInv'
  OBVIOUS
<1>1. CASE Common
  BY <1>1, SelectCommonOK
<1>2. CASE Bra
  BY <1>2, SelectParseOK, SelectDirsOK, SelectAskOK, SelectOutputOK, SelectTreeOK DEF Bra, INext
<1>3. CASE Unbra
  <2>1. launch' = launch
    BY <1>3, LaunchKept
  <2> QED
    BY <1>3, <2>1 DEF Unbra, SelectInv, prog
<1>4. CASE Done \/ UNCHANGED vars
  <2>1. UNCHANGED <<launch, files, dirs, pc, sfx, out, mfiles, tree, total>>
    BY <1>4 DEF Done, vars, pvars, disk, iown, given
  <2>2. Entries' = Entries /\ Final' = Final
    BY <2>1 DEF Entries, Final
  <2>3. Plannable' = Plannable /\ Parented' = Parented
    BY <2>2 DEF Plannable, Parented
  <2>4. TemporaryIsDirectory' = TemporaryIsDirectory /\ FileEntry(Final)' = FileEntry(Final)
    BY <2>1, <2>2 DEF TemporaryIsDirectory, FileEntry
  <2>5. Ready => Ready'
    BY <2>1, <2>2, <2>3, <2>4, Zenon DEF Ready
  <2>6. Seen => Seen'
    BY <2>1 DEF Seen
  <2>7. Collected => Collected'
    BY <2>1, <2>2 DEF Collected, There
  <2> QED
    BY <2>1, <2>5, <2>6, <2>7 DEF SelectInv, prog
<1> QED
  BY <1>1, <1>2, <1>3, <1>4 DEF Next

LEMMA SelectAlways == Spec => []SelectInv
<1>1. Init => SelectInv
  BY SelectInitOK
<1>2. SelectInv /\ [Next]_vars => SelectInv'
  BY SelectStepOK
<1> QED
  BY <1>1, <1>2, PTL DEF Spec

(* Whatever the launch and the disk, what run_prog visits is a plan: what  *)
(* BraWriter assumes of its input.                                         *)
THEOREM VisitsAreOrdered == Spec => []VisitIsPlan
<1>1. SelectInv => VisitIsPlan
  BY PlanOfTree DEF SelectInv, Ready, VisitIsPlan
<1> QED
  BY <1>1, SelectAlways, PTL

(* Whatever the launch and the disk, an archive that is to be overwritten  *)
(* is not archived into itself.                                            *)
THEOREM OutputNotInput == Spec => []OutputLeftOut
<1>1. SelectInv => OutputLeftOut
  BY DEF SelectInv, Ready, OutputLeftOut, OfBra, FileEntry
<1> QED
  BY <1>1, SelectAlways, PTL

----------------------------------------------------------------------------
(* What is below a directory is in it or below a directory that is in it.  *)
LEMMA BelowByName ==
  ASSUME NEW d \in Path, NEW p \in Path
  PROVE  /\ p # <<>> => (Below(d, p) <=> d = Parent(p) \/ Below(d, Parent(p)))
         /\ Below(d, p) => /\ p # <<>> /\ Len(d) + 1 \in 1 .. Len(p)
                           /\ SubSeq(p, 1, Len(d) + 1) \in Ways(p)
                           /\ SubSeq(p, 1, Len(d) + 1) # <<>>
                           /\ Parent(SubSeq(p, 1, Len(d) + 1)) = d
                           /\ \/ p = SubSeq(p, 1, Len(d) + 1)
                              \/ Below(SubSeq(p, 1, Len(d) + 1), p)
<1>1. Len(d) \in Nat /\ Len(p) \in Nat /\ SubSeq(d, 1, Len(d)) = d /\ SubSeq(p, 1, Len(p)) = p
  BY PathParts
<1>2. Below(d, p) <=> Len(d) < Len(p) /\ Agree(d, p, Len(d))
  <2>1. Len(d) < Len(p) => (SubSeq(p, 1, Len(d)) = d <=> Agree(d, p, Len(d)))
    BY <1>1, SubSeqAgree
  <2> QED
    BY <1>1, <2>1 DEF Below
<1>3. ASSUME NEW k \in Nat, k < Len(p)
      PROVE  LET s == SubSeq(p, 1, k)
             IN  /\ s \in Path /\ Len(s) = k /\ (Below(d, s) <=> k > Len(d) /\ Agree(d, p, Len(d)))
                 /\ k = Len(d) /\ Agree(d, p, k) <=> d = s
                 /\ Below(s, p)
  <2> DEFINE s == SubSeq(p, 1, k)
  <2>1. s \in Path /\ Len(s) = k /\ \A i \in 1 .. k : s[i] = p[i]
    BY <1>1, <1>3, PathParts
  <2>2. SubSeq(s, 1, k) = s
    BY <2>1, PathParts
  <2> HIDE DEF s
  <2>3. Below(s, p)
    BY <1>1, <1>3, <2>1 DEF Below, s
  <2>4. Below(d, s) <=> Len(d) < k /\ Agree(d, s, Len(d))
    <3>1. Len(d) < k => (SubSeq(s, 1, Len(d)) = SubSeq(d, 1, Len(d)) <=> Agree(s, d, Len(d)))
      BY <1>1, <2>1, SubSeqAgree
    <3> QED
      BY <1>1, <2>1, <3>1 DEF Below, Agree
  <2>5. Below(d, s) <=> k > Len(d) /\ Agree(d, p, Len(d))
    BY <1>1, <1>3, <2>1, <2>4 DEF Agree
  <2>6. k = Len(d) /\ Agree(d, p, k) => d = s
    <3>1. k = Len(d) /\ Agree(d, p, k) => SubSeq(d, 1, k) = SubSeq(p, 1, k)
      BY <1>1, <1>3, SubSeqAgree
    <3> QED
      BY <1>1, <3>1 DEF s
  <2>7. ASSUME d = s PROVE k = Len(d) /\ Agree(d, p, k)
    <3>1. Len(d) = k /\ \A i \in 1 .. k : d[i] = p[i]
      BY <2>1, <2>7
    <3> QED
      BY <1>1, <1>3, <3>1 DEF Agree
  <2> QED
    BY <2>1, <2>3, <2>5, <2>6, <2>7 DEF s
<1>4. ASSUME p # <<>> PROVE Below(d, p) <=> d = Parent(p) \/ Below(d, Parent(p))
  <2>1. Len(p) - 1 \in Nat /\ Len(p) - 1 < Len(p)
    BY <1>1, <1>4, PathParts
  <2>2. /\ Below(d, Parent(p)) <=> Len(p) - 1 > Len(d) /\ Agree(d, p, Len(d))
        /\ Len(p) - 1 = Len(d) /\ Agree(d, p, Len(p) - 1) <=> d = Parent(p)
    BY <1>3, <2>1 DEF Parent
  <2>3. CASE Len(d) = Len(p) - 1
    BY <1>1, <1>2, <2>1, <2>2, <2>3
  <2>4. CASE Len(d) # Len(p) - 1
    <3>1. Len(d) < Len(p) <=> Len(p) - 1 > Len(d)
      <4>1. Len(d) \in Nat /\ Len(p) \in Nat
        BY <1>1
      <4> QED
        BY <2>4, <4>1
    <3>2. d # Parent(p)
      BY <2>2, <2>4
    <3> QED
      BY <1>2, <2>2, <3>1, <3>2
  <2> QED
    BY <2>3, <2>4
<1>5. ASSUME Below(d, p)
      PROVE  LET s == SubSeq(p, 1, Len(d) + 1)
             IN  /\ p # <<>> /\ Len(d) + 1 \in 1 .. Len(p) /\ s \in Ways(p)
                 /\ s # <<>> /\ Parent(s) = d /\ (p = s \/ Below(s, p))
  <2> DEFINE s == SubSeq(p, 1, Len(d) + 1)
  <2>1. Len(d) < Len(p) /\ Len(d) + 1 \in 1 .. Len(p) /\ Agree(d, p, Len(d))
    BY <1>1, <1>2, <1>5
  <2>2. s \in Ways(p)
    BY <2>1, Zenon DEF Ways
  <2>3. s \in Path /\ Len(s) = Len(d) + 1 /\ \A i \in 1 .. Len(s) : s[i] = p[i]
    BY <1>1, <2>1, PathParts
  <2>6. p = s \/ Below(s, p)
    <3>1. CASE Len(d) + 1 = Len(p)
      BY <1>1, <3>1
    <3>2. CASE Len(d) + 1 # Len(p)
      <4>0. Len(d) \in Nat /\ Len(p) \in Nat /\ Len(d) < Len(p)
        BY <1>1, <2>1
      <4>1. Len(d) + 1 \in Nat /\ Len(d) + 1 < Len(p)
        BY <3>2, <4>0
      <4> QED
        BY <1>3, <4>1
    <3> HIDE DEF s
    <3> QED
      BY ONLY <3>1, <3>2, Zenon
  <2>7. s = SubSeq(p, 1, Len(d) + 1)
    OBVIOUS
  <2> HIDE DEF s
  <2>4. p # <<>> /\ s # <<>>
    <3>1. Len(p) # 0 /\ Len(s) # 0
      BY <1>1, <2>1, <2>3
    <3> QED
      BY <2>3, <3>1, PathParts
  <2>5. Parent(s) = d
    <3>1. Parent(s) = SubSeq(s, 1, Len(d))
      BY <1>1, <2>3 DEF Parent
    <3>2. Agree(s, d, Len(d))
      BY <1>1, <2>1, <2>3 DEF Agree
    <3>3. Len(d) <= Len(s)
      BY <1>1, <2>3
    <3>4. SubSeq(s, 1, Len(d)) = SubSeq(d, 1, Len(d))
      BY <1>1, <2>3, <3>2, <3>3, SubSeqAgree
    <3> QED
      BY <1>1, <3>1, <3>4
  <2> QED
    BY <2>1, <2>2, <2>4, <2>5, <2>6 DEF s
<1> QED
  BY <1>4, <1>5

LEMMA BelowTransitive ==
  ASSUME NEW d \in Path, NEW s \in Path, NEW p \in Path, Below(d, s), Below(s, p)
  PROVE  Below(d, p)
<1>1. Len(d) \in Nat /\ Len(s) \in Nat /\ Len(p) \in Nat
      /\ SubSeq(d, 1, Len(d)) = d /\ SubSeq(s, 1, Len(s)) = s
  BY PathParts
<1>2. Len(d) < Len(s) /\ Len(s) < Len(p)
  BY DEF Below
<1>3. Agree(s, d, Len(d)) /\ Agree(p, s, Len(s))
  <2>1. SubSeq(s, 1, Len(d)) = SubSeq(d, 1, Len(d)) /\ SubSeq(p, 1, Len(s)) = SubSeq(s, 1, Len(s))
    BY <1>1 DEF Below
  <2>2. Len(d) <= Len(s) /\ Len(s) <= Len(p)
    BY <1>1, <1>2
  <2>3. Agree(s, d, Len(d))
    BY <1>1, <2>1, <2>2, SubSeqAgree
  <2> QED
    BY <1>1, <2>1, <2>2, <2>3, SubSeqAgree
<1>4. Agree(p, d, Len(d))
  BY <1>1, <1>2, <1>3 DEF Agree
<1>5. SubSeq(p, 1, Len(d)) = SubSeq(d, 1, Len(d))
  <2> DEFINE m == Len(d)
  <2>1. m \in Nat /\ m <= Len(p) /\ m <= Len(d)
    BY <1>1, <1>2
  <2>2. p \in Path /\ d \in Path /\ Agree(p, d, m)
    BY <1>4
  <2> HIDE DEF m
  <2>3. SubSeq(p, 1, m) = SubSeq(d, 1, m)
    BY ONLY <2>1, <2>2, SubSeqAgree
  <2> QED
    BY ONLY <2>3 DEF m
<1> QED
  BY <1>1, <1>2, <1>5 DEF Below

----------------------------------------------------------------------------
(* One step of the search, and that the equation that defines the search   *)
(* has one solution: what matches, below the directory if -r was given.    *)
SearchStep(d, names, found) ==
  MatchesIn(d, names) \union
  (IF recursive THEN UNION {found[s] : s \in In(d) \cap dirs} ELSE {})

LEMMA MatchingStep ==
  ASSUME launch \in Launches, Seen, dirs = launch.dirs, NEW names, NEW d \in dirs
  PROVE  Matching(d, names, recursive) =
           MatchesIn(d, names) \union
           (IF recursive THEN UNION {Matching(s, names, recursive) : s \in In(d) \cap dirs} ELSE {})
<1>1. files \union dirs \subseteq There /\ files \cap dirs = {} /\ d \in There
  BY DEF Seen, There
<1>2. /\ \A p \in files \union dirs : p \in Path /\ \A w \in Ways(p) : w = p \/ w \in dirs
      /\ d \in Path
  BY <1>1, WaysThere DEF There
<1>3. \A s \in In(d) : s \in files \union dirs /\ s # <<>> /\ Parent(s) = d /\ Below(d, s)
  BY <1>2, BelowByName DEF In
<1>4. \A p : p \in MatchesIn(d, names) <=>
               /\ p \in files \union dirs /\ p # <<>> /\ Parent(p) = d
               /\ NameOf(p) \in names /\ (p \in dirs => recursive)
  BY DEF MatchesIn, In, NameOf
<1>5. \A s, p : p \in Matching(s, names, recursive) <=>
               /\ p \in files \union dirs /\ Below(s, p) /\ NameOf(p) \in names
               /\ recursive \/ (Parent(p) = s /\ p \in files)
  BY DEF Matching
<1>6. MatchesIn(d, names) \subseteq Matching(d, names, recursive)
  BY <1>1, <1>2, <1>4, <1>5, BelowByName
<1>7. CASE ~recursive
  <2>1. Matching(d, names, recursive) \subseteq MatchesIn(d, names)
    BY <1>1, <1>2, <1>4, <1>5, <1>7, BelowByName
  <2> QED
    BY <1>6, <1>7, <2>1
<1>8. CASE recursive
  <2>1. ASSUME NEW s \in In(d) \cap dirs, NEW p \in Matching(s, names, recursive)
        PROVE  p \in Matching(d, names, recursive)
    <3>1. Below(d, s) /\ Below(s, p) /\ s \in Path /\ p \in Path
      BY <1>2, <1>3, <1>5
    <3>2. Below(d, p)
      BY <1>2, <3>1, BelowTransitive
    <3> QED
      BY <1>5, <1>8, <3>2
  <2>2. ASSUME NEW p \in Matching(d, names, recursive)
        PROVE  p \in MatchesIn(d, names) \/ \E s \in In(d) \cap dirs : p \in Matching(s, names, recursive)
    <3> DEFINE s == SubSeq(p, 1, Len(d) + 1)
    <3>1. p \in files \union dirs /\ p \in Path /\ Below(d, p) /\ NameOf(p) \in names
      BY <1>2, <1>5
    <3>2. p # <<>> /\ s # <<>> /\ s \in Ways(p) /\ Parent(s) = d /\ (p = s \/ Below(s, p))
      BY <1>2, <3>1, BelowByName
    <3> HIDE DEF s
    <3>3. CASE p = s
      BY <1>4, <1>8, <3>1, <3>2, <3>3
    <3>4. CASE p # s
      <4>1. s \in In(d) \cap dirs
        BY <1>2, <3>1, <3>2, <3>4 DEF In
      <4>2. p \in Matching(s, names, recursive)
        BY <1>5, <1>8, <3>1, <3>2, <3>4
      <4> QED
        BY <4>1, <4>2
    <3> QED
      BY <3>3, <3>4
  <2>3. ASSUME NEW p
        PROVE  p \in UNION {Matching(s, names, recursive) : s \in In(d) \cap dirs}
                 <=> \E s \in In(d) \cap dirs : p \in Matching(s, names, recursive)
    BY Zenon
  <2> QED
    BY <1>6, <1>8, <2>1, <2>2, <2>3, Zenon
<1> QED
  BY <1>7, <1>8

LEMMA SearchFinds ==
  ASSUME launch \in Launches, Seen, dirs = launch.dirs, NEW names, NEW dir \in dirs
  PROVE  Search(dir, names) = Matching(dir, names, recursive)
<1> DEFINE Solves(f) == f = [d \in dirs |-> SearchStep(d, names, f)]
           all == [d \in dirs |-> Matching(d, names, recursive)]
           found == CHOOSE f : Solves(f)
           beneath == [d \in dirs |-> {x \in dirs : Below(d, x)}]
           depth == [d \in dirs |-> Cardinality(beneath[d])]
           Bad == {d \in dirs : found[d] # all[d]}
<1>1. Search(dir, names) = found[dir]
  BY DEF Search, SearchStep
<1>2. \A d \in dirs : In(d) \cap dirs \subseteq dirs /\ all[d] = Matching(d, names, recursive)
  OBVIOUS
<1>3. ASSUME NEW d \in dirs PROVE Matching(d, names, recursive) = SearchStep(d, names, all)
  <2>1. {Matching(s, names, recursive) : s \in In(d) \cap dirs} = {all[s] : s \in In(d) \cap dirs}
    BY <1>2
  <2>2. Matching(d, names, recursive) =
          MatchesIn(d, names) \union
          (IF recursive THEN UNION {Matching(s, names, recursive) : s \in In(d) \cap dirs} ELSE {})
    BY MatchingStep
  <2> HIDE DEF all
  <2>3. SearchStep(d, names, all) =
          MatchesIn(d, names) \union
          (IF recursive THEN UNION {Matching(s, names, recursive) : s \in In(d) \cap dirs} ELSE {})
    BY <2>1, Zenon DEF SearchStep
  <2> QED
    BY <2>2, <2>3
<1>4. Solves(all)
  BY <1>3
<1>5. Solves(found)
  BY <1>4
<1> HIDE DEF all, found
<1>6. \A d \in dirs : found[d] = SearchStep(d, names, found) /\ all[d] = SearchStep(d, names, all)
  BY <1>2, <1>3, <1>5
<1>7. /\ \A d \in dirs : d \in Path /\ d \in There
      /\ IsFiniteSet(dirs)
  <2>1. \A d \in dirs : d \in Path /\ d \in There
    BY WaysThere DEF There
  <2>2. IsFiniteSet(There) /\ dirs \in SUBSET There
    BY ProgramAssumption DEF There
  <2> QED
    BY <2>1, <2>2, FS_Subset
<1>8. \A d \in dirs : beneath[d] \in SUBSET dirs /\ beneath[d] = {x \in dirs : Below(d, x)}
                      /\ depth[d] = Cardinality(beneath[d])
  OBVIOUS
<1> HIDE DEF beneath, depth
<1>9. \A d \in dirs : IsFiniteSet(beneath[d]) /\ depth[d] \in Nat
  BY <1>7, <1>8, FS_Subset, FS_CardinalityType
<1>10. ASSUME NEW d \in dirs, NEW s \in In(d) \cap dirs PROVE depth[s] < depth[d]
  <2>1. Below(d, s)
    BY <1>7, <1>10, BelowByName DEF In
  <2>2. beneath[s] \in SUBSET beneath[d] /\ s \in beneath[d]
    BY <1>7, <1>8, <2>1, BelowTransitive
  <2>3. s \notin beneath[s]
    BY <1>8 DEF Below
  <2>4. Cardinality(beneath[s]) <= Cardinality(beneath[d]) /\ Cardinality(beneath[s]) # Cardinality(beneath[d])
    BY <1>9, <2>2, <2>3, FS_Subset
  <2> QED
    BY <1>8, <1>9, <2>4
<1>11. Bad = {}
  <2> SUFFICES ASSUME Bad # {} PROVE FALSE
    OBVIOUS
  <2> DEFINE Depths == {depth[d] : d \in Bad}
  <2>1. Depths \subseteq Nat /\ Depths # {}
    BY <1>9
  <2>2. PICK k \in Depths : \A i \in Depths : k <= i
    BY <2>1, LeastOf, Zenon
  <2>3. PICK d \in Bad : depth[d] = k
    BY <2>2
  <2>4. \A s \in In(d) \cap dirs : s \notin Bad
    <3> SUFFICES ASSUME NEW s \in In(d) \cap dirs, s \in Bad PROVE FALSE
      OBVIOUS
    <3>1. depth[s] < depth[d] /\ depth[s] \in Nat /\ depth[d] \in Nat
      BY <1>9, <1>10, <2>3
    <3>2. k <= depth[s]
      BY <2>2
    <3> QED
      BY <2>3, <3>1, <3>2
  <2>5. \A s \in In(d) \cap dirs : found[s] = all[s]
    BY <2>4
  <2>6. {found[s] : s \in In(d) \cap dirs} = {all[s] : s \in In(d) \cap dirs}
    BY <2>5
  <2>7. SearchStep(d, names, found) = SearchStep(d, names, all)
    BY <2>6 DEF SearchStep
  <2> QED
    BY <1>6, <2>3, <2>7
<1> QED
  BY <1>1, <1>2, <1>11

----------------------------------------------------------------------------
(* What was meant by the arguments so far is in m_files, and nothing else. *)
MeantBefore(n) == UNION {Meant(k, RecursiveAt(k)) : k \in 1 .. n}

Chosen ==
  /\ argi \in 0 .. Len(args) /\ vanished \in Nat
  /\ vanished = 0 => files = launch.files
  /\ pc = "args" => recursive = RecursiveAt(argi + 1)
  /\ pc = "args" /\ vanished = 0 =>
       /\ mfiles \subseteq MeantBefore(argi)
       /\ ~GlobbedBefore => MeantBefore(argi) \subseteq mfiles
  /\ pc \in {"module", "tmp", "output", "tree"} /\ vanished = 0 =>
       /\ mfiles \subseteq MeantByAll
       /\ ~GlobbedBefore => MeantByAll \subseteq mfiles \union
                             (IF pc = "tree" THEN OutputNames ELSE {})
  /\ NothingElse /\ NothingMissing

ChooseInv == SelectInv /\ (prog = "bra" => Chosen)

LEMMA MeantUnchanged ==
  ASSUME UNCHANGED <<launch, files>>
  PROVE  /\ \A n : MeantBefore(n)' = MeantBefore(n)
         /\ MeantByAll' = MeantByAll /\ GlobbedBefore' = GlobbedBefore
         /\ args' = args /\ \A k : RecursiveAt(k)' = RecursiveAt(k)
         /\ \A k : Meant(k, RecursiveAt(k))' = Meant(k, RecursiveAt(k))
<1>1. args' = args
  BY DEF args
<1>2. \A k : RecursiveAt(k)' = RecursiveAt(k)
  BY <1>1 DEF RecursiveAt
<1>3. \A d, names, r : Matching(d, names, r)' = Matching(d, names, r)
  BY DEF Matching
<1>4. \A k, r : Meant(k, r)' = Meant(k, r)
  BY <1>1, <1>3 DEF Meant
<1>5. \A k : Meant(k, RecursiveAt(k))' = Meant(k, RecursiveAt(k))
  BY <1>2, <1>4
<1>6. \A n : MeantBefore(n)' = MeantBefore(n)
  BY <1>5 DEF MeantBefore
<1>7. MeantByAll' = MeantByAll
  BY <1>1, <1>5 DEF MeantByAll
<1>8. GlobbedBefore' = GlobbedBefore
  BY <1>1, <1>2, <1>3 DEF GlobbedBefore
<1> QED
  BY <1>1, <1>2, <1>5, <1>6, <1>7, <1>8

(* An argument is done when all it means is in m_files, and nothing else   *)
(* was added.                                                              *)
LEMMA ArgumentDone ==
  ASSUME ChooseInv, prog = "bra", pc = "args", argi < Len(args), argi' = argi + 1,
         UNCHANGED <<launch, files, vanished, pc>>, SelectInv',
         recursive' = (recursive \/ Arg.kind = "recursive"),
         NEW P, mfiles' = mfiles \union P,
         vanished = 0 => /\ P \subseteq Meant(argi + 1, recursive)
                         /\ ~GlobbedBefore => Meant(argi + 1, recursive) \subseteq mfiles \union P
  PROVE  ChooseInv'
<1> DEFINE M(k) == Meant(k, RecursiveAt(k))
<1>1. Chosen /\ argi \in Nat /\ Len(args) \in Nat /\ argi + 1 \in 0 .. Len(args)
  <2>1. Chosen /\ launch \in Launches
    BY DEF ChooseInv, SelectInv
  <2>2. Len(args) \in Nat
    BY <2>1, ProgramAssumption DEF args
  <2> QED
    BY <2>1, <2>2 DEF Chosen
<1>2. recursive = RecursiveAt(argi + 1)
  BY <1>1 DEF Chosen
<1>3. recursive' = RecursiveAt(argi + 2)
  <2>1. \A j : j \in 1 .. (argi + 2) - 1 <=> j \in 1 .. (argi + 1) - 1 \/ j = argi + 1
    BY <1>1
  <2> QED
    BY <1>2, <2>1 DEF RecursiveAt, Arg
<1>4. MeantBefore(argi + 1) = MeantBefore(argi) \union M(argi + 1)
  <2>1. 1 .. argi + 1 = (1 .. argi) \union {argi + 1}
    BY <1>1
  <2> QED
    BY <2>1, Zenon DEF MeantBefore
<1>5. /\ MeantBefore(argi)' = MeantBefore(argi + 1) /\ GlobbedBefore' = GlobbedBefore
      /\ args' = args /\ RecursiveAt(argi + 1)' = RecursiveAt(argi + 2)
  <2>1. /\ GlobbedBefore' = GlobbedBefore /\ args' = args
        /\ \A k : M(k)' = M(k)
    BY MeantUnchanged
  <2>2. MeantBefore(argi)' = MeantBefore(argi + 1)
    BY <2>1 DEF MeantBefore
  <2>3. RecursiveAt(argi + 1)' = RecursiveAt(argi + 2)
    BY <1>1, <2>1 DEF RecursiveAt
  <2> QED
    BY <2>1, <2>2, <2>3
<1>6. CASE vanished # 0
  BY <1>1, <1>3, <1>5, <1>6 DEF ChooseInv, Chosen, NothingElse, NothingMissing, OfBra
<1>7. CASE vanished = 0
  <2>1. mfiles' \subseteq MeantBefore(argi)'
    BY <1>1, <1>2, <1>4, <1>5, <1>7 DEF Chosen
  <2>2. ~GlobbedBefore' => MeantBefore(argi)' \subseteq mfiles'
    BY <1>1, <1>2, <1>4, <1>5, <1>7 DEF Chosen
  <2> QED
    BY <1>1, <1>3, <1>5, <2>1, <2>2 DEF ChooseInv, Chosen, NothingElse, NothingMissing, OfBra
<1> QED
  BY <1>6, <1>7

(* A run that refuses, or ends, or goes on with what it has.               *)
LEMMA ChooseStays ==
  ASSUME ChooseInv, prog = "bra", SelectInv', UNCHANGED <<launch, argi, iown>>,
         vanished' \in Nat, vanished' = 0 => vanished = 0 /\ files' = files,
         \/ pc' \in Ends
         \/ pc' = pc /\ pc # "ready"
         \/ pc \in {"module", "tmp"} /\ pc' \in {"tmp", "output"}
  PROVE  ChooseInv'
<1>1. Chosen /\ args' = args /\ pc' # "ready" /\ UNCHANGED <<recursive, mfiles>>
  BY DEF ChooseInv, Ends, args, iown, given
<1>2. RecursiveAt(argi + 1)' = RecursiveAt(argi + 1)
  BY <1>1 DEF RecursiveAt
<1>3. OutputNames' = OutputNames
  BY DEF OutputNames, Final, iown, given
<1>4. CASE vanished' = 0
  <2>1. /\ GlobbedBefore' = GlobbedBefore /\ MeantByAll' = MeantByAll
        /\ \A k : Meant(k, RecursiveAt(k))' = Meant(k, RecursiveAt(k))
    BY <1>4, MeantUnchanged
  <2>2. MeantBefore(argi)' = MeantBefore(argi)
    BY <2>1 DEF MeantBefore
  <2> QED
    BY <1>1, <1>2, <1>3, <1>4, <2>1, <2>2
       DEF ChooseInv, Chosen, NothingElse, NothingMissing, OfBra, Ends
<1>5. CASE vanished' # 0
  BY <1>1, <1>2, <1>5 DEF ChooseInv, Chosen, NothingElse, NothingMissing, OfBra, Ends
<1> QED
  BY <1>4, <1>5

LEMMA ChooseCommonOK == ChooseInv /\ SelectInv' /\ Common => ChooseInv'
<1> SUFFICES ASSUME ChooseInv, SelectInv', Common PROVE ChooseInv'
  OBVIOUS
<1>0. CASE prog # "bra"
  <2>1. launch' = launch
    BY DEF Common, ParseHelp, ParsePolicy, ParseUnknownOption, Vanish, Refused, Goto, NextArg
  <2> QED
    BY <1>0, <2>1 DEF ChooseInv, prog
<1>1. CASE prog = "bra" /\ ParsePolicy /\ policy = "ask"
  <2>1. /\ pc = "args" /\ argi < Len(args) /\ argi' = argi + 1 /\ Arg.kind \in {"yes", "no"}
        /\ UNCHANGED <<launch, files, vanished, pc, recursive, mfiles>>
    BY <1>1 DEF Common, ParsePolicy, NextArg, Parsing, disk, ParseHelp, ParseUnknownOption, Vanish,
                Goto, Refused, iown, given, Ends
  <2>2. Meant(argi + 1, recursive) = {} /\ mfiles' = mfiles \union {}
    BY <2>1 DEF Meant, Arg
  <2>3. recursive \in BOOLEAN
    BY <1>1, <2>1 DEF ChooseInv, Chosen, RecursiveAt
  <2>4. recursive' = (recursive \/ Arg.kind = "recursive")
    BY <2>1, <2>3
  <2> QED
    BY <1>1, <2>1, <2>2, <2>4, ArgumentDone
<1>2. CASE prog = "bra" /\ ~(ParsePolicy /\ policy = "ask")
  <2>1. /\ UNCHANGED <<launch, argi, iown>>
        /\ \/ pc' \in Ends /\ UNCHANGED <<files, vanished>>
           \/ pc' = pc /\ pc # "ready" /\ vanished' = vanished + 1
    BY <1>2 DEF Common, ParseHelp, ParsePolicy, ParseUnknownOption, Vanish, Refused, Goto, disk, Ends
  <2>2. vanished \in Nat
    BY <1>2 DEF ChooseInv, Chosen
  <2>3. vanished' \in Nat /\ (vanished' = 0 => vanished = 0 /\ files' = files)
    BY <2>1, <2>2
  <2> QED
    BY <1>2, <2>1, <2>3, ChooseStays
<1> QED
  BY <1>0, <1>1, <1>2

LEMMA ChooseRefuseOK == ChooseInv /\ SelectInv' /\ prog = "bra" /\ Refuse => ChooseInv'
<1> SUFFICES ASSUME ChooseInv, SelectInv', prog = "bra", Refuse PROVE ChooseInv'
  OBVIOUS
<1>1. UNCHANGED <<launch, argi, iown, files, vanished>> /\ pc' \in Ends /\ vanished \in Nat
  BY DEF Refuse, Refused, Goto, disk, Ends, ChooseInv, Chosen
<1> QED
  BY <1>1, ChooseStays

LEMMA ChooseParseOK ==
  ChooseInv /\ SelectInv' /\ prog = "bra"
    /\ (ParseOption \/ ParseFile \/ ParseDir \/ ParseGlob \/ ParseUnknown)
  => ChooseInv'
<1> SUFFICES ASSUME ChooseInv, SelectInv', prog = "bra", ~Refuse,
                    ParseOption \/ ParseFile \/ ParseDir \/ ParseGlob \/ ParseUnknown
             PROVE  ChooseInv'
  BY ChooseRefuseOK
<1>1. /\ pc = "args" /\ argi < Len(args) /\ argi' = argi + 1
      /\ UNCHANGED <<launch, files, vanished, pc>>
      /\ launch \in Launches /\ Seen /\ Chosen
  BY DEF ParseOption, ParseFile, ParseDir, ParseGlob, ParseUnknown, Add, NextArg, Parsing, disk,
         ChooseInv, SelectInv
<1>2. dirs = launch.dirs /\ files \cap dirs = {}
  BY <1>1 DEF Seen
<1>8. recursive \in BOOLEAN
  BY <1>1 DEF Chosen, RecursiveAt
<1>3. CASE ParseOption
  <2>1. /\ Arg.kind \in {"out", "out./", "sfx", "recursive"} /\ mfiles' = mfiles \union {}
        /\ recursive' = (recursive \/ Arg.kind = "recursive")
    BY <1>3 DEF ParseOption, Options
  <2>2. Meant(argi + 1, recursive) = {}
    BY <2>1 DEF Meant, Arg
  <2> QED
    BY <1>1, <2>1, <2>2, ArgumentDone
<1>4. CASE ParseFile
  <2>1. /\ Arg.kind = "path" /\ Arg.path \in files /\ mfiles' = mfiles \union {Arg.path}
        /\ recursive' = (recursive \/ Arg.kind = "recursive")
    BY <1>4, <1>8 DEF ParseFile, Add, given
  <2>2. Meant(argi + 1, recursive) = {Arg.path}
    BY <2>1 DEF Meant, Arg
  <2> QED
    BY <1>1, <2>1, <2>2, ArgumentDone
<1>5. CASE ParseGlob
  <2>1. /\ Arg.kind = "glob" /\ Arg.path \in dirs
        /\ mfiles' = mfiles \union Search(Arg.path, Arg.names)
        /\ recursive' = (recursive \/ Arg.kind = "recursive")
    BY <1>5, <1>8 DEF ParseGlob, Add, given
  <2>2. Search(Arg.path, Arg.names) = Matching(Arg.path, Arg.names, recursive)
    BY <1>1, <1>2, <2>1, SearchFinds
  <2>3. Meant(argi + 1, recursive) = Search(Arg.path, Arg.names)
    BY <2>1, <2>2 DEF Meant, Arg
  <2> QED
    BY <1>1, <2>1, <2>3, ArgumentDone
<1>6. CASE ParseDir
  <2> DEFINE P == IF recursive /\ Arg.path \notin mfiles
                    THEN {Arg.path} \union Search(Arg.path, DOMAIN Rank) ELSE {}
  <2>1. /\ Arg.kind = "path" /\ Arg.path \in dirs /\ mfiles' = mfiles \union P
        /\ recursive' = (recursive \/ Arg.kind = "recursive")
    BY <1>6, <1>8 DEF ParseDir, Add, given
  <2>2. Search(Arg.path, DOMAIN Rank) = Matching(Arg.path, DOMAIN Rank, recursive)
    BY <1>1, <1>2, <2>1, SearchFinds
  <2>3. Meant(argi + 1, recursive) =
          IF recursive THEN {Arg.path} \union Search(Arg.path, DOMAIN Rank) ELSE {}
    BY <1>2, <2>1, <2>2 DEF Meant, Arg
  <2>4. P \subseteq Meant(argi + 1, recursive)
    BY <2>3
  <2>5. ASSUME vanished = 0, ~GlobbedBefore, recursive, Arg.path \in mfiles
        PROVE  Meant(argi + 1, recursive) \subseteq mfiles
    <3>0. argi \in Nat /\ Len(args) \in Nat /\ argi + 1 \in 1 .. Len(args) /\ args \in Seq(Argument)
      <4>1. args \in Seq(Argument)
        BY <1>1, ProgramAssumption DEF args
      <4> QED
        BY <1>1, <4>1 DEF Chosen
    <3>1. mfiles \subseteq MeantBefore(argi) /\ MeantBefore(argi) \subseteq mfiles
      BY <1>1, <2>5 DEF Chosen
    <3>2. PICK i \in 1 .. argi : Arg.path \in Meant(i, RecursiveAt(i))
      BY <2>5, <3>1 DEF MeantBefore
    <3>3. Meant(i, RecursiveAt(i)) \subseteq mfiles
      BY <3>1 DEF MeantBefore
    <3>4. /\ i \in 1 .. (argi + 1) - 1 /\ i \in 1 .. Len(args)
          /\ args[i].path \in Path /\ Arg.path \in Path
      <4>1. i \in 1 .. (argi + 1) - 1 /\ i \in 1 .. Len(args)
        BY <3>0
      <4>2. args[i] \in Argument /\ args[argi + 1] \in Argument
        BY <3>0, <4>1
      <4> QED
        BY <4>1, <4>2 DEF Argument, Arg
    <3>5. CASE args[i].kind = "glob"
      <4>1. Arg.path \in Matching(args[i].path, args[i].names, RecursiveAt(i))
        BY <3>2, <3>5 DEF Meant
      <4>2. GlobbedBefore
        BY <2>1, <3>0, <3>4, <3>5, <4>1, Zenon DEF GlobbedBefore, Arg
      <4> QED
        BY <2>5, <4>2
    <3>6. CASE args[i].kind = "path"
      <4>1. args[i].path \notin files /\ RecursiveAt(i)
        BY <1>2, <2>1, <3>2, <3>6 DEF Meant
      <4>2. Meant(i, RecursiveAt(i)) =
              {args[i].path} \union Matching(args[i].path, DOMAIN Rank, TRUE)
        BY <3>6, <4>1 DEF Meant
      <4>3. Meant(argi + 1, recursive) = {Arg.path} \union Matching(Arg.path, DOMAIN Rank, TRUE)
        BY <2>2, <2>3, <2>5
      <4>4. CASE Arg.path = args[i].path
        BY <3>3, <4>2, <4>3, <4>4
      <4>5. CASE Arg.path \in Matching(args[i].path, DOMAIN Rank, TRUE)
        <5>1. Below(args[i].path, Arg.path)
          BY <4>5 DEF Matching
        <5>2. \A q \in files \union launch.dirs : q \in Path
          BY <1>1, WaysThere DEF Seen
        <5>3. Matching(Arg.path, DOMAIN Rank, TRUE) \subseteq Matching(args[i].path, DOMAIN Rank, TRUE)
          BY <3>4, <5>1, <5>2, BelowTransitive DEF Matching
        <5> QED
          BY <3>3, <4>2, <4>3, <4>5, <5>3
      <4> QED
        BY <3>2, <4>2, <4>4, <4>5
    <3> QED
      BY <3>2, <3>5, <3>6 DEF Meant
  <2>6. vanished = 0 => /\ P \subseteq Meant(argi + 1, recursive)
                        /\ ~GlobbedBefore => Meant(argi + 1, recursive) \subseteq mfiles \union P
    BY <2>3, <2>4, <2>5
  <2> HIDE DEF P
  <2> QED
    BY <1>1, <2>1, <2>6, ArgumentDone
<1>7. CASE ParseUnknown
  BY <1>7 DEF ParseUnknown
<1> QED
  BY <1>3, <1>4, <1>5, <1>6, <1>7

LEMMA ChooseDirsOK == ChooseInv /\ SelectInv' /\ prog = "bra" /\ AddDirs => ChooseInv'
<1> SUFFICES ASSUME ChooseInv, SelectInv', prog = "bra", AddDirs, ~Refuse PROVE ChooseInv'
  BY ChooseRefuseOK
<1>1. /\ mfiles' = WithDirs(mfiles) /\ pc = "args" /\ argi = Len(args)
      /\ UNCHANGED <<launch, argi, files, vanished>> /\ pc' \in {"module", "output"}
      /\ Chosen
  BY DEF AddDirs, Parsed, Goto, disk, ChooseInv
<1>2. MeantByAll' = MeantByAll /\ GlobbedBefore' = GlobbedBefore /\ args' = args
  BY <1>1, MeantUnchanged
<1>3. \A w : w \in MeantByAll <=> \E p \in MeantBefore(argi) : w \in Ways(p)
  <2>1. ASSUME NEW w \in MeantByAll PROVE \E p \in MeantBefore(argi) : w \in Ways(p)
    <3>1. PICK k \in 1 .. argi : w \in UNION {Ways(p) : p \in Meant(k, RecursiveAt(k))}
      BY <1>1 DEF MeantByAll
    <3>2. PICK p \in Meant(k, RecursiveAt(k)) : w \in Ways(p)
      BY <3>1
    <3> QED
      BY <3>2 DEF MeantBefore
  <2>2. ASSUME NEW p \in MeantBefore(argi), NEW w \in Ways(p) PROVE w \in MeantByAll
    <3>1. PICK k \in 1 .. argi : p \in Meant(k, RecursiveAt(k))
      BY DEF MeantBefore
    <3>2. w \in UNION {Ways(q) : q \in Meant(k, RecursiveAt(k))}
      BY <3>1
    <3> QED
      BY <1>1, <3>2 DEF MeantByAll
  <2> QED
    BY <2>1, <2>2
<1>4. \A w : w \in mfiles' <=> \E p \in mfiles : w \in Ways(p)
  BY <1>1, Zenon DEF WithDirs
<1>5. vanished = 0 => /\ mfiles' \subseteq MeantByAll
                      /\ ~GlobbedBefore => MeantByAll \subseteq mfiles'
  BY <1>1, <1>3, <1>4 DEF Chosen
<1> QED
  BY <1>1, <1>2, <1>5 DEF ChooseInv, Chosen, NothingElse, NothingMissing, OfBra

LEMMA ChooseAskOK ==
  ChooseInv /\ SelectInv' /\ prog = "bra" /\ (FindModule \/ AskTemporary) => ChooseInv'
<1> SUFFICES ASSUME ChooseInv, SelectInv', prog = "bra", FindModule \/ AskTemporary, ~Refuse
             PROVE  ChooseInv'
  BY ChooseRefuseOK
<1>1. /\ UNCHANGED <<launch, argi, iown, files, vanished>> /\ vanished \in Nat
      /\ pc \in {"module", "tmp"} /\ pc' \in {"tmp", "output"}
  BY DEF FindModule, AskTemporary, Goto, Refuse, Refused, disk, ChooseInv, Chosen
<1> QED
  BY <1>1, ChooseStays

LEMMA ChooseOutputOK == ChooseInv /\ SelectInv' /\ prog = "bra" /\ AskOutput => ChooseInv'
<1> SUFFICES ASSUME ChooseInv, SelectInv', prog = "bra", AskOutput, ~Refuse PROVE ChooseInv'
  BY ChooseRefuseOK
<1>1. /\ mfiles' \subseteq mfiles /\ mfiles \subseteq mfiles' \union OutputNames
      /\ pc = "output" /\ pc' = "tree"
      /\ UNCHANGED <<launch, argi, files, vanished, sfx, out>> /\ Chosen
  <2>1. PICK answer \in Answers(Final) :
          CASE answer = "no" -> Refuse
            [] answer = "yes" ->
                 /\ mfiles' = mfiles \ Erased
                 /\ Goto("tree")
                 /\ UNCHANGED <<given, tree, total>>
            [] OTHER ->
                 IF Ways(Parent(out.path)) \cap files # {}
                   THEN Refuse
                   ELSE /\ dirs' = dirs \union Ways(Parent(out.path))
                        /\ pc' = "tree"
                        /\ UNCHANGED <<launch, argi, policy, files, vanished, iown>>
    BY DEF AskOutput
  <2>2. CASE answer = "yes"
    BY <2>1, <2>2 DEF Goto, disk, given, Erased, OutputNames, AskOutput, ChooseInv
  <2>3. CASE answer # "yes"
    BY <2>1, <2>3 DEF iown, given, AskOutput, ChooseInv
  <2> QED
    BY <2>2, <2>3
<1>2. /\ MeantByAll' = MeantByAll /\ GlobbedBefore' = GlobbedBefore /\ args' = args
      /\ OutputNames' = OutputNames
  BY <1>1, MeantUnchanged DEF OutputNames, Final
<1>3. vanished = 0 => /\ mfiles' \subseteq MeantByAll
                      /\ ~GlobbedBefore => MeantByAll \subseteq mfiles' \union OutputNames
  BY <1>1 DEF Chosen
<1> QED
  BY <1>1, <1>2, <1>3 DEF ChooseInv, Chosen, NothingElse, NothingMissing, OfBra

LEMMA ChooseTreeOK == ChooseInv /\ SelectInv' /\ prog = "bra" /\ MakeTree => ChooseInv'
<1> SUFFICES ASSUME ChooseInv, SelectInv', prog = "bra", MakeTree, ~Refuse PROVE ChooseInv'
  BY ChooseRefuseOK
<1>1. /\ \A p \in mfiles : p \in files \union dirs
      /\ tree' = Tree /\ pc = "tree" /\ pc' = "ready" /\ launch \in Launches
      /\ UNCHANGED <<launch, argi, files, vanished, sfx, out>> /\ Chosen
      /\ mfiles \subseteq There \ {<<>>}
  BY DEF MakeTree, Goto, disk, Exists, given, ChooseInv, SelectInv, Collected
<1>2. /\ MeantByAll' = MeantByAll /\ GlobbedBefore' = GlobbedBefore /\ args' = args
      /\ OutputNames' = OutputNames
  BY <1>1, MeantUnchanged DEF OutputNames, Final
<1>3. \A p \in mfiles : p \in Path \ {<<>>} /\ (Parent(p) = <<>> \/ Parent(p) \in Ways(p))
  BY <1>1, WaysThere DEF There
<1>4. mfiles \subseteq Path \ {<<>>}
  BY <1>3
<1>5. /\ \A e \in Entries' : \E p \in mfiles : e.path = p \/ (e.path = Parent(p) /\ Parent(p) # <<>>)
      /\ \A p \in mfiles : \E e \in Entries' : e.path = p
  <2>1. \A p : FileEntry(p).path = p /\ DirEntry(p).path = p
    BY DEF FileEntry, DirEntry
  <2>2. /\ \A e \in Entries' : \/ \E p \in mfiles \cap files : e = FileEntry(p)
                               \/ \E p \in mfiles \cap dirs : e = DirEntry(p)
                               \/ \E p \in mfiles \cap files :
                                    Parent(p) # <<>> /\ e = DirEntry(Parent(p))
        /\ \A p \in mfiles \cap files : FileEntry(p) \in Entries'
        /\ \A p \in mfiles \cap dirs : DirEntry(p) \in Entries'
    BY <1>1, <1>4, EntriesOfTree
  <2>3. ASSUME NEW e \in Entries'
        PROVE  \E p \in mfiles : e.path = p \/ (e.path = Parent(p) /\ Parent(p) # <<>>)
    <3>1. CASE \E p \in mfiles \cap files : e = FileEntry(p)
      BY <2>1, <3>1
    <3>2. CASE \E p \in mfiles \cap dirs : e = DirEntry(p)
      BY <2>1, <3>2
    <3>3. CASE \E p \in mfiles \cap files : Parent(p) # <<>> /\ e = DirEntry(Parent(p))
      BY <2>1, <3>3
    <3> QED
      BY <2>2, <3>1, <3>2, <3>3
  <2>4. ASSUME NEW p \in mfiles PROVE \E e \in Entries' : e.path = p
    BY <1>1, <2>1, <2>2
  <2> QED
    BY <2>3, <2>4
<1>6. /\ \A q \in Selected' : \E p \in mfiles : q = p \/ q \in Ways(p)
      /\ mfiles \subseteq Selected'
  BY <1>3, <1>5 DEF Selected
<1>7. ASSUME NEW w \in MeantByAll, NEW v \in Ways(w) PROVE v \in MeantByAll
  <2>1. PICK k \in 1 .. Len(args) : w \in UNION {Ways(p) : p \in Meant(k, RecursiveAt(k))}
    BY DEF MeantByAll
  <2>2. PICK p \in Meant(k, RecursiveAt(k)) : w \in Ways(p)
    BY <2>1
  <2>3. p \in Path
    <3>0. args \in Seq(Argument)
      BY <1>1, ProgramAssumption DEF args
    <3>1. args[k] \in Argument
      BY <3>0
    <3>2. args[k].path \in Path
      BY <3>1 DEF Argument
    <3>3. files \union launch.dirs \subseteq Path
      BY <1>1, ProgramAssumption DEF ChooseInv, SelectInv, Seen
    <3> QED
      BY <3>2, <3>3 DEF Meant, Matching
  <2>4. v \in Ways(p)
    BY <2>2, <2>3, WaysToWays
  <2>5. v \in UNION {Ways(q) : q \in Meant(k, RecursiveAt(k))}
    BY <2>4
  <2> QED
    BY <2>5 DEF MeantByAll
<1>8. vanished = 0 => /\ Selected' \subseteq MeantByAll
                      /\ ~GlobbedBefore => MeantByAll \subseteq Selected' \union OutputNames
  <2>1. vanished = 0 => Selected' \subseteq MeantByAll
    <3> SUFFICES ASSUME vanished = 0, NEW q \in Selected' PROVE q \in MeantByAll
      OBVIOUS
    <3>1. PICK p \in mfiles : q = p \/ q \in Ways(p)
      BY <1>6
    <3>2. p \in MeantByAll
      BY <1>1 DEF Chosen
    <3> QED
      BY <1>7, <3>1, <3>2
  <2>2. vanished = 0 /\ ~GlobbedBefore => MeantByAll \subseteq Selected' \union OutputNames
    BY <1>1, <1>6 DEF Chosen
  <2> QED
    BY <2>1, <2>2
<1> QED
  BY <1>1, <1>2, <1>8 DEF ChooseInv, Chosen, NothingElse, NothingMissing, OfBra

LEMMA ChooseInitOK == Init => ChooseInv
<1> SUFFICES ASSUME Init PROVE ChooseInv
  OBVIOUS
<1>1. SelectInv
  BY SelectInitOK
<1>2. args \in Seq(Argument)
  BY ProgramAssumption DEF Init, PInit, args
<1>3. argi \in 0 .. Len(args) /\ vanished \in Nat
  BY <1>2 DEF Init, PInit
<1>4. argi = 0 /\ vanished = 0 /\ files = launch.files /\ pc = "args" /\ ~recursive /\ mfiles = {}
      /\ recursive = FALSE
  BY DEF Init, PInit, IInit
<1>5. ~RecursiveAt(argi + 1) /\ RecursiveAt(argi + 1) \in BOOLEAN /\ MeantBefore(argi) = {}
  BY <1>4 DEF RecursiveAt, MeantBefore
<1>6. NothingElse /\ NothingMissing
  BY <1>4 DEF NothingElse, NothingMissing, OfBra
<1> QED
  BY <1>1, <1>3, <1>4, <1>5, <1>6 DEF ChooseInv, Chosen

LEMMA ChooseStepOK == ChooseInv /\ [Next]_vars => ChooseInv'
<1> SUFFICES ASSUME ChooseInv, [Next]_vars PROVE ChooseInv'
  OBVIOUS
<1>0. SelectInv'
  BY SelectStepOK DEF ChooseInv
<1>1. CASE Common
  BY <1>0, <1>1, ChooseCommonOK
<1>2. CASE Bra
  BY <1>0, <1>2, ChooseParseOK, ChooseDirsOK, ChooseAskOK, ChooseOutputOK, ChooseTreeOK
     DEF Bra, INext
<1>3. CASE Unbra
  <2>1. launch' = launch
    BY <1>3, LaunchKept
  <2> QED
    BY <1>0, <1>3, <2>1 DEF Unbra, ChooseInv, prog
<1>4. CASE Done \/ UNCHANGED vars
  <2>1. /\ UNCHANGED <<launch, argi, files, vanished, pc>>
        /\ UNCHANGED <<recursive, sfx, out, mfiles, tree>>
    BY <1>4 DEF Done, vars, pvars, disk, iown, given
  <2>2. /\ MeantByAll' = MeantByAll /\ GlobbedBefore' = GlobbedBefore /\ args' = args
        /\ \A k : RecursiveAt(k)' = RecursiveAt(k)
        /\ \A k : Meant(k, RecursiveAt(k))' = Meant(k, RecursiveAt(k))
    BY <2>1, MeantUnchanged
  <2>3. MeantBefore(argi)' = MeantBefore(argi)
    BY <2>1, <2>2 DEF MeantBefore
  <2>4. RecursiveAt(argi + 1)' = RecursiveAt(argi + 1)
    BY <2>1, <2>2 DEF RecursiveAt
  <2>5. OutputNames' = OutputNames
    BY <2>1 DEF OutputNames, Final
  <2>6. Selected' = Selected
    BY <2>1 DEF Selected, Entries
  <2> QED
    BY <1>0, <2>1, <2>2, <2>3, <2>4, <2>5, <2>6
       DEF ChooseInv, Chosen, NothingElse, NothingMissing, OfBra, prog
<1> QED
  BY <1>1, <1>2, <1>3, <1>4 DEF Next

LEMMA ChooseAlways == Spec => []ChooseInv
<1>1. Init => ChooseInv
  BY ChooseInitOK
<1>2. ChooseInv /\ [Next]_vars => ChooseInv'
  BY ChooseStepOK
<1> QED
  BY <1>1, <1>2, PTL DEF Spec

(* Whatever the launch and the disk, nothing is archived that no argument  *)
(* meant.                                                                  *)
THEOREM OnlyWhatWasMeant == Spec => []NothingElse
<1>1. ChooseInv => NothingElse
  BY DEF ChooseInv, Chosen, NothingElse, OfBra
<1> QED
  BY <1>1, ChooseAlways, PTL

(* Whatever the launch and the disk, all that was meant is archived, unless *)
(* a glob found a directory that is given later.                           *)
THEOREM AllThatWasMeant == Spec => []NothingMissing
<1>1. ChooseInv => NothingMissing
  BY DEF ChooseInv, Chosen, NothingMissing, OfBra
<1> QED
  BY <1>1, ChooseAlways, PTL

----------------------------------------------------------------------------
(* A sequence that gets longer, shorter, or another last element.          *)
LEMMA Longer ==
  ASSUME NEW S, NEW s \in Seq(S), NEW x \in S
  PROVE  Append(s, x) \in Seq(S) \ {<<>>}
<1>1. Append(s, x) \in Seq(S) /\ Len(Append(s, x)) = Len(s) + 1 /\ Len(s) \in Nat
  OBVIOUS
<1>2. Len(Append(s, x)) # 0
  BY <1>1
<1> QED
  BY <1>1, <1>2, EmptySeq

LEMMA Shorter ==
  ASSUME NEW S, NEW s \in Seq(S) \ {<<>>}, Len(s) # 1
  PROVE  SubSeq(s, 1, Len(s) - 1) \in Seq(S) \ {<<>>}
<1>1. Len(s) \in Nat \ {0} /\ \A i \in 1 .. Len(s) : s[i] \in S
  BY EmptySeq, ElementOfSeq
<1>2. Len(s) - 1 \in Nat /\ 1 <= Len(s) - 1 /\ \A i \in 1 .. Len(s) - 1 : s[i] \in S
  <2>1. \A n \in Nat \ {0, 1} : n - 1 \in Nat /\ 1 <= n - 1 /\ 1 .. n - 1 \subseteq 1 .. n
    OBVIOUS
  <2>2. Len(s) \in Nat \ {0, 1}
    BY <1>1
  <2> QED
    BY <1>1, <2>1, <2>2
<1>3. SubSeq(s, 1, Len(s) - 1) \in Seq(S) /\ Len(SubSeq(s, 1, Len(s) - 1)) = Len(s) - 1
  BY <1>1, <1>2, SubSeqProperties
<1>4. Len(SubSeq(s, 1, Len(s) - 1)) # 0
  BY <1>2, <1>3
<1> QED
  BY <1>3, <1>4, EmptySeq

LEMMA OtherLast ==
  ASSUME NEW S, NEW s \in Seq(S) \ {<<>>}, NEW x \in S
  PROVE  LET t == [s EXCEPT ![Len(s)] = x]
         IN  t \in Seq(S) \ {<<>>} /\ Len(t) = Len(s) /\ t[Len(t)] = x /\ s[Len(s)] \in S
<1>1. Len(s) \in Nat \ {0}
  BY EmptySeq
<1>2. Len(s) \in 1 .. Len(s)
  BY <1>1
<1> DEFINE t == [s EXCEPT ![Len(s)] = x]
<1>3. t \in Seq(S) /\ Len(t) = Len(s) /\ t[Len(s)] = x
  BY <1>2, ExceptSeq
<1>4. s[Len(s)] \in S
  BY <1>2, ElementOfSeq
<1> HIDE DEF t
<1>5. t # <<>>
  BY <1>1, <1>3, EmptySeq
<1> QED
  BY <1>3, <1>4, <1>5 DEF t

(* The rules for names of archives make names of names.                    *)
LEMMA PlusOK ==
  ASSUME NEW p \in Path \ {<<>>}, NEW ext \in STRING
  PROVE  Plus(p, ext) \in Path \ {<<>>}
<1> DEFINE N == Seq(STRING) \ {<<>>}
<1>1. p \in Seq(N) \ {<<>>}
  BY DEF Path
<1>2. p[Len(p)] \in N
  BY <1>1, EmptySeq, ElementOfSeq
<1>3. Append(p[Len(p)], ext) \in N
  BY <1>2, Longer
<1> HIDE DEF N
<1>4. [p EXCEPT ![Len(p)] = Append(p[Len(p)], ext)] \in Seq(N) \ {<<>>}
  BY <1>1, <1>3, OtherLast
<1> QED
  BY <1>4 DEF Plus, Path, N

LEMMA StemOK ==
  ASSUME NEW p \in Path \ {<<>>}, Extension(p) = "brx"
  PROVE  Stem(p) \in Path \ {<<>>}
<1> DEFINE N == Seq(STRING) \ {<<>>}
           name == p[Len(p)]
           stem == SubSeq(name, 1, Len(name) - 1)
<1>1. p \in Seq(N) \ {<<>>}
  BY DEF Path
<1>2. name \in N /\ Len(name) # 1
  BY <1>1, EmptySeq, ElementOfSeq DEF Extension, NameOf
<1>3. stem \in N
  BY <1>2, Shorter
<1>4. Bare(p) = [p EXCEPT ![Len(p)] = stem]
  BY DEF Bare
<1> HIDE DEF N, name, stem
<1>5. Bare(p)[Len(Bare(p))] = stem
  BY <1>1, <1>3, <1>4, OtherLast
<1>6. Stem(p) = <<stem>>
  BY <1>5 DEF Stem, NameOf
<1>7. Stem(p) \in Seq(N) /\ Stem(p) # <<>>
  BY <1>3, <1>6
<1> QED
  BY <1>7 DEF Path, N

LEMMA AdjustedOK ==
  ASSUME out.path \in Path \ {<<>>}
  PROVE  Adjusted \in Path \ {<<>>}
<1>0. "BRa" \in STRING /\ "tmp" \in STRING
  BY ExtensionAssumption
<1>1. filename_archive_adjust(out.path) \in Path \ {<<>>}
  BY <1>0, PlusOK DEF filename_archive_adjust
<1>2. filename_sfx_adjust(out.path) \in Path \ {<<>>}
  <2> DEFINE q == IF Extension(out.path) = "brx" THEN Stem(out.path) ELSE out.path
             r == IF Extension(q) = "BRa" THEN q ELSE Plus(q, "BRa")
  <2>1. q \in Path \ {<<>>}
    BY StemOK
  <2> HIDE DEF q
  <2>2. r \in Path \ {<<>>}
    BY <1>0, <2>1, PlusOK
  <2> HIDE DEF r
  <2>3. Plus(r, "tmp") \in Path \ {<<>>}
    BY <1>0, <2>2, PlusOK
  <2> QED
    BY <2>3 DEF filename_sfx_adjust, q, r
<1> QED
  BY <1>1, <1>2 DEF Adjusted

(* What ITypeOK says of the disk, and of what bra keeps.                   *)
DiskTypes ==
  /\ policy \in {"ask", "yes", "no"}
  /\ dirs \subseteq Path /\ files \cap dirs = {} /\ vanished <= MaxVanished

OwnTypes ==
  /\ recursive \in BOOLEAN /\ sfx \in BOOLEAN
  /\ out.path \in Path /\ out.dotted \in BOOLEAN /\ (out.path = <<>> => out = NoOut)
  /\ mfiles \subseteq Path
  /\ DOMAIN tree \subseteq Path
  /\ \A d \in DOMAIN tree : tree[d] \subseteq DOMAIN Rank
  /\ total \in Nat

InputTypesInv ==
  UnbraInv /\ SelectInv /\ DiskTypes /\ OwnTypes /\ (prog = "bra" => pc \in Phases)

LEMMA WaysArePaths == \A p \in Path : Ways(p) \subseteq Path
  BY WaysToWays

LEMMA ParentIsPath == \A p \in Path : Parent(p) \in Path
<1>1. ASSUME NEW p \in Path \ {<<>>} PROVE Parent(p) \in Path
  <2>1. Len(p) \in Nat /\ Len(p) # 0
    BY PathParts
  <2>2. Len(p) - 1 \in 0 .. Len(p)
    BY <2>1
  <2> QED
    BY <2>2, PathParts DEF Parent
<1>2. Parent(<<>>) \in Path
  BY DEF Parent, Path
<1> QED
  BY <1>1, <1>2

LEMMA CommonTypesOK == InputTypesInv /\ Common => DiskTypes' /\ OwnTypes'
<1> SUFFICES ASSUME InputTypesInv, Common PROVE DiskTypes' /\ OwnTypes'
  OBVIOUS
<1>1. UNCHANGED iown
  BY DEF Common
<1>2. DiskTypes'
  <2>1. /\ policy' \in {policy, "yes", "no"} /\ dirs' = dirs /\ files' \subseteq files
        /\ \/ vanished' = vanished
           \/ vanished < MaxVanished /\ vanished' = vanished + 1
    BY DEF Common, ParseHelp, ParsePolicy, ParseUnknownOption, Vanish, Refused, Goto, NextArg, disk
  <2>2. vanished \in Nat /\ MaxVanished \in Nat
    BY ProgramAssumption DEF InputTypesInv, UnbraInv
  <2> QED
    BY <2>1, <2>2 DEF InputTypesInv, DiskTypes
<1> QED
  BY <1>1, <1>2 DEF InputTypesInv, OwnTypes, iown, given

LEMMA UnbraTypesOK == InputTypesInv /\ UnbraInv' /\ Unbra => DiskTypes' /\ OwnTypes'
<1> SUFFICES ASSUME InputTypesInv, Unbra PROVE DiskTypes' /\ OwnTypes'
  OBVIOUS
<1>1. OwnTypes'
  BY DEF InputTypesInv, OwnTypes, Unbra, iown, given
<1>2. OfUnbra
  BY ProgramAssumption DEF InputTypesInv, SelectInv, Unbra, OfUnbra, prog, Programs
<1>3. ASSUME UNCHANGED <<policy, files, dirs, vanished>> PROVE DiskTypes'
  BY <1>3 DEF InputTypesInv, DiskTypes
<1>4. CASE \/ URefuse \/ ParseModeOption \/ ParseOutput \/ ParseArchive \/ IgnoreArgument
           \/ ParseMissing \/ UValidate \/ UOpen \/ ListEntry \/ BadEntry \/ UEnd
  BY <1>1, <1>3, <1>4
     DEF URefuse, Refused, Goto, NextArg, ParseModeOption, ParseOutput, ParseArchive, IgnoreArgument,
         ParseMissing, UValidate, UOpen, ListEntry, EntryDone, BadEntry, UEnd, disk
<1>5. CASE EnterOutput
  <2>1. /\ dirs' = dirs \/ (dirs' = dirs \union Ways(outpath) /\ Ways(outpath) \cap files = {})
        /\ UNCHANGED <<policy, files, vanished>>
    BY <1>5 DEF EnterOutput, URefuse, Refused, Goto, disk
  <2>2. Ways(outpath) \subseteq Path
    BY WaysArePaths DEF InputTypesInv, UnbraInv, Types
  <2> QED
    BY <1>1, <2>1, <2>2 DEF InputTypesInv, DiskTypes
<1>6. ASSUME More PROVE Target \in Path
  <2>1. pos + 1 \in 1 .. Len(entries) /\ entries \in Seq(Listed)
    BY <1>6 DEF More, InputTypesInv, UnbraInv, Types
  <2>2. Entry \in Listed
    BY <2>1 DEF Entry
  <2>3. Entry.path \in Path \ {<<>>}
    BY <2>2 DEF Listed
  <2>4. <<>> \in Path
    BY DEF Path
  <2>5. cwd \in Path
    BY <2>4 DEF InputTypesInv, UnbraInv, Types
  <2> QED
    BY <2>3, <2>5, PathOfEntry DEF Target
<1>7. CASE ExtractDir
  <2>1. /\ dirs' = dirs \union Ways(Target) /\ Ways(Target) \cap files = {}
        /\ UNCHANGED <<policy, files, vanished>> /\ More
    BY <1>7 DEF ExtractDir, EntryDone
  <2>2. Ways(Target) \subseteq Path
    BY <1>6, <2>1, WaysArePaths
  <2> QED
    BY <1>1, <2>1, <2>2 DEF InputTypesInv, DiskTypes
<1>8. CASE KeepThere
  BY <1>1, <1>8 DEF KeepThere, EntryDone, InputTypesInv, DiskTypes
<1>9. CASE ExtractFile
  <2>1. /\ files' = files \union {Target} /\ Target \notin dirs
        /\ policy' \in {policy, "yes"} /\ UNCHANGED <<dirs, vanished>>
    BY <1>9 DEF ExtractFile, EntryDone, CanOpen
  <2> QED
    BY <1>1, <2>1 DEF InputTypesInv, DiskTypes
<1> QED
  BY <1>1, <1>4, <1>5, <1>7, <1>8, <1>9 DEF Unbra, UNext

LEMMA BraTypesOK == InputTypesInv /\ Bra => DiskTypes' /\ OwnTypes' /\ pc' \in Phases
<1> SUFFICES ASSUME InputTypesInv, Bra PROVE DiskTypes' /\ OwnTypes' /\ pc' \in Phases
  OBVIOUS
<1>1. /\ prog = "bra" /\ pc \in Phases /\ launch \in Launches /\ Seen /\ Collected
      /\ DiskTypes /\ OwnTypes
  BY DEF Bra, InputTypesInv, SelectInv
<1>2. CASE Refuse
  BY <1>1, <1>2 DEF Refuse, Refused, Goto, disk, iown, given, DiskTypes, OwnTypes, Phases, Ends
<1>3. ASSUME Parsing PROVE pc = "args" /\ Arg.path \in Path /\ (Arg.kind = "out./" => Arg.path # <<>>)
  <2>1. /\ args \in Seq(Argument)
        /\ \A k \in 1 .. Len(args) : args[k].kind = "out./" => args[k].path # <<>>
    BY <1>1, ProgramAssumption DEF args
  <2>2. pc = "args" /\ argi + 1 \in 1 .. Len(args)
    BY <1>3, <2>1 DEF Parsing, InputTypesInv, UnbraInv
  <2>3. args[argi + 1] \in Argument
    BY <2>1, <2>2
  <2> QED
    BY <2>1, <2>2, <2>3 DEF Arg, Argument
<1>4. CASE ParseOption
  <2>1. /\ Parsing /\ UNCHANGED <<policy, files, dirs, vanished, pc, mfiles, tree, total>>
        /\ recursive' \in BOOLEAN /\ sfx' \in BOOLEAN
        /\ out' = out \/ /\ out' = [path |-> Arg.path, dotted |-> Arg.kind = "out./"]
                         /\ Arg.kind \in {"out", "out./"}
    BY <1>1, <1>4 DEF ParseOption, NextArg, disk, OwnTypes
  <2>2. out'.path \in Path /\ out'.dotted \in BOOLEAN /\ (out'.path = <<>> => out' = NoOut)
    <3>1. CASE out' = out
      BY <1>1, <3>1 DEF OwnTypes
    <3>2. CASE out' = [path |-> Arg.path, dotted |-> Arg.kind = "out./"] /\ Arg.kind \in {"out", "out./"}
      <4>1. out'.path = Arg.path /\ out'.dotted = (Arg.kind = "out./")
        BY <3>2
      <4>2. CASE Arg.kind = "out./"
        BY <1>3, <2>1, <4>1, <4>2
      <4>3. CASE Arg.kind # "out./"
        BY <1>3, <2>1, <3>2, <4>1, <4>3 DEF NoOut
      <4> QED
        BY <4>2, <4>3
    <3> QED
      BY <2>1, <3>1, <3>2
  <2> QED
    BY <1>1, <2>1, <2>2 DEF DiskTypes, OwnTypes
<1>5. ASSUME NEW P, P \subseteq Path, Parsing, Add(P)
      PROVE  DiskTypes' /\ OwnTypes' /\ pc' \in Phases
  BY <1>1, <1>5 DEF Add, NextArg, disk, given, DiskTypes, OwnTypes
<1>6. ASSUME NEW d \in dirs, NEW names, Parsing PROVE Search(d, names) \subseteq Path
  <2>1. dirs = launch.dirs
    BY <1>1, <1>3, <1>6 DEF Seen
  <2>2. \A q \in files \union launch.dirs : q \in Path
    BY <1>1, WaysThere DEF Seen
  <2> QED
    BY <1>1, <2>1, <2>2, SearchFinds DEF Matching
<1>7. CASE ParseFile \/ ParseDir \/ ParseGlob \/ ParseUnknown
  <2>1. CASE ParseFile
    BY <1>3, <1>5, <2>1 DEF ParseFile
  <2>2. CASE ParseDir
    <3>1. Parsing /\ Arg.path \in dirs
      BY <2>2 DEF ParseDir
    <3>2. {Arg.path} \union Search(Arg.path, DOMAIN Rank) \subseteq Path
      BY <1>3, <1>6, <3>1
    <3> QED
      BY <1>5, <2>2, <3>1, <3>2 DEF ParseDir
  <2>3. CASE ParseGlob
    BY <1>5, <1>6, <2>3 DEF ParseGlob
  <2> QED
    BY <1>2, <1>7, <2>1, <2>2, <2>3 DEF ParseUnknown
<1>8. CASE AddDirs /\ ~Refuse
  <2>1. /\ mfiles' = WithDirs(mfiles) /\ out # NoOut
        /\ out' = [path |-> Adjusted, dotted |-> StillDotted]
        /\ pc' \in {"module", "output"}
        /\ UNCHANGED <<policy, files, dirs, vanished, recursive, sfx, tree, total>>
    BY <1>8 DEF AddDirs, Goto, disk
  <2>2. out'.path \in Path \ {<<>>} /\ out'.dotted \in BOOLEAN
    BY <1>1, <2>1, AdjustedOK DEF OwnTypes, StillDotted
  <2>3. mfiles' \subseteq Path
    BY <1>1, <2>1, WaysArePaths DEF OwnTypes, WithDirs
  <2> QED
    BY <1>1, <2>1, <2>2, <2>3 DEF DiskTypes, OwnTypes, Phases
<1>9. CASE (FindModule \/ AskTemporary) /\ ~Refuse
  BY <1>1, <1>9 DEF FindModule, AskTemporary, Goto, disk, iown, given, DiskTypes, OwnTypes, Phases, Refuse
<1>10. CASE AskOutput /\ ~Refuse
  <2>1. /\ \/ dirs' = dirs
           \/ /\ dirs' = dirs \union Ways(Parent(out.path))
              /\ Ways(Parent(out.path)) \cap files = {}
        /\ mfiles' \subseteq mfiles /\ pc' = "tree"
        /\ UNCHANGED <<policy, files, vanished, given, tree, total>>
    <3>1. PICK answer \in Answers(Final) :
            CASE answer = "no" -> Refuse
              [] answer = "yes" ->
                   /\ mfiles' = mfiles \ Erased
                   /\ Goto("tree")
                   /\ UNCHANGED <<given, tree, total>>
              [] OTHER ->
                   IF Ways(Parent(out.path)) \cap files # {}
                     THEN Refuse
                     ELSE /\ dirs' = dirs \union Ways(Parent(out.path))
                          /\ pc' = "tree"
                          /\ UNCHANGED <<launch, argi, policy, files, vanished, iown>>
      BY <1>10 DEF AskOutput
    <3>2. CASE answer = "yes"
      BY <3>1, <3>2 DEF Goto, disk
    <3>3. CASE answer # "yes"
      BY <1>10, <3>1, <3>3 DEF iown
    <3> QED
      BY <3>2, <3>3
  <2>2. Ways(Parent(out.path)) \subseteq Path
    BY <1>1, WaysArePaths, ParentIsPath DEF OwnTypes
  <2>3. DiskTypes'
    BY <1>1, <2>1, <2>2 DEF DiskTypes
  <2> QED
    BY <1>1, <2>1, <2>3 DEF OwnTypes, given, Phases
<1>11. CASE MakeTree /\ ~Refuse
  <2>1. /\ tree' = Tree /\ total' = Cardinality(mfiles) /\ mfiles' = {}
        /\ pc = "tree" /\ pc' = "ready"
        /\ UNCHANGED <<policy, files, dirs, vanished, given>>
    BY <1>11 DEF MakeTree, Goto, disk
  <2>2. ASSUME NEW p \in mfiles PROVE p \in Path \ {<<>>} /\ NameOf(p) \in DOMAIN Rank /\ p \in There
    <3>1. p \in There /\ p # <<>>
      BY <1>1, <2>1 DEF Collected
    <3>2. p \in Path /\ p \in Ranked
      BY <1>1, <3>1, WaysThere DEF There
    <3>3. Len(p) \in 1 .. Len(p)
      BY <3>1, <3>2, PathParts
    <3> QED
      BY <3>1, <3>2, <3>3 DEF Ranked, NameOf
  <2>3. total' \in Nat
    <3>1. IsFiniteSet(There) /\ mfiles \in SUBSET There
      BY <1>1, <2>2, ProgramAssumption DEF There
    <3> QED
      BY <2>1, <3>1, FS_Subset, FS_CardinalityType
  <2>4. DOMAIN tree' \subseteq Path /\ \A d \in DOMAIN tree' : tree'[d] = FilesUnder(d)
    BY <2>1, <2>2, ParentIsPath DEF Tree
  <2>5. \A d : FilesUnder(d) \subseteq DOMAIN Rank
    BY <2>2 DEF FilesUnder
  <2> QED
    BY <1>1, <2>1, <2>3, <2>4, <2>5 DEF DiskTypes, OwnTypes, given, Phases
<1> QED
  BY <1>2, <1>4, <1>7, <1>8, <1>9, <1>10, <1>11 DEF Bra, INext

LEMMA InputTypesInitOK == Init => InputTypesInv
<1> SUFFICES ASSUME Init PROVE InputTypesInv
  OBVIOUS
<1>1. /\ launch.dirs \subseteq Path /\ launch.files \cap launch.dirs = {} /\ MaxVanished \in Nat
  BY ProgramAssumption DEF Init, PInit
<1>2. <<>> \in Path
  BY DEF Path
<1>3. UnbraInv /\ SelectInv
  BY InitOK, SelectInitOK
<1>4. DiskTypes
  BY <1>1 DEF Init, PInit, DiskTypes
<1>5. OwnTypes
  <2>1. recursive = FALSE /\ sfx = FALSE /\ out = NoOut /\ mfiles = {} /\ tree = <<>> /\ total = 0
    BY DEF Init, IInit
  <2>2. NoOut.path = <<>> /\ NoOut.dotted = FALSE
    BY DEF NoOut
  <2>3. DOMAIN tree = {}
    BY <2>1
  <2> QED
    BY <1>2, <2>1, <2>2, <2>3 DEF OwnTypes
<1>6. pc \in Phases
  BY DEF Init, PInit, Phases
<1> QED
  BY <1>3, <1>4, <1>5, <1>6 DEF InputTypesInv

LEMMA InputTypesStepOK == InputTypesInv /\ [Next]_vars => InputTypesInv'
<1> SUFFICES ASSUME InputTypesInv, [Next]_vars PROVE InputTypesInv'
  OBVIOUS
<1>1. UnbraInv' /\ SelectInv'
  BY StepOK, SelectStepOK DEF InputTypesInv
<1>2. CASE Common
  <2>1. launch' = launch /\ pc' \in {pc} \union Ends
    BY <1>2 DEF Common, ParseHelp, ParsePolicy, ParseUnknownOption, Vanish, Refused, Goto, NextArg,
                Ends
  <2> QED
    BY <1>1, <1>2, <2>1, CommonTypesOK DEF InputTypesInv, prog, Phases
<1>3. CASE Bra
  BY <1>1, <1>3, BraTypesOK DEF InputTypesInv
<1>4. CASE Unbra
  <2>1. prog' # "bra"
    <3>1. launch' = launch
      BY <1>4, LaunchKept
    <3> QED
      BY <1>4, <3>1 DEF Unbra, prog
  <2> QED
    BY <1>1, <1>4, <2>1, UnbraTypesOK DEF InputTypesInv
<1>5. CASE Done \/ UNCHANGED vars
  <2>1. UNCHANGED <<launch, policy, files, dirs, vanished, pc, iown>>
    BY <1>5 DEF Done, vars, pvars, disk
  <2> QED
    BY <1>1, <2>1 DEF InputTypesInv, DiskTypes, OwnTypes, iown, given, prog
<1> QED
  BY <1>2, <1>3, <1>4, <1>5 DEF Next

(* Whatever the launch, what bra keeps has its type; m_tree has names, not *)
(* paths, of files.                                                        *)
THEOREM InputTypes == Spec => []ITypeOK
<1>1. Init => InputTypesInv
  BY InputTypesInitOK
<1>2. InputTypesInv /\ [Next]_vars => InputTypesInv'
  BY InputTypesStepOK
<1>3. InputTypesInv => ITypeOK
  BY ProgramAssumption DEF InputTypesInv, UnbraInv, DiskTypes, OwnTypes, ITypeOK
<1> QED
  BY <1>1, <1>2, <1>3, PTL DEF Spec

----------------------------------------------------------------------------
(* The archive that is named is read.                                      *)
LEMMA FirstThereIs ==
  ASSUME NEW p, NEW otherwise
  PROVE  /\ (\E i \in 1 .. 3 : Candidates(p)[i] \in files) =>
              \E i \in 1 .. 3 : Candidates(p)[i] \in files
                                /\ FirstThere(p, otherwise) = Candidates(p)[i]
         /\ ~(\E i \in 1 .. 3 : Candidates(p)[i] \in files) => FirstThere(p, otherwise) = otherwise
<1> DEFINE c == Candidates(p)
           there == {k \in 1 .. 3 : c[k] \in files}
<1>1. DOMAIN c = 1 .. 3
  BY DEF Candidates
<1> HIDE DEF c
<1>2. FirstThere(p, otherwise) =
        IF there = {} THEN otherwise ELSE c[CHOOSE k \in there : \A j \in there : k <= j]
  BY <1>1 DEF FirstThere, c
<1>3. ASSUME there # {} PROVE (CHOOSE k \in there : \A j \in there : k <= j) \in there
  <2>1. there \subseteq Nat
    OBVIOUS
  <2>2. \E k \in there : \A j \in there : k <= j
    BY <1>3, <2>1, LeastOf
  <2> QED
    BY <2>2
<1> QED
  BY <1>2, <1>3 DEF c

(* What the name q of an archive is adjusted to. *)
LEMMA AdjustedIs ==
  ASSUME prog = "unbra", NEW q
  PROVE  /\ q = <<>> => adjustFilename(q) = q
         /\ q # <<>> /\ (\E i \in 1 .. 3 : Candidates(q)[i] \in files) =>
              \E i \in 1 .. 3 : Candidates(q)[i] \in files /\ adjustFilename(q) = Candidates(q)[i]
         /\ q # <<>> /\ ~(\E i \in 1 .. 3 : Candidates(q)[i] \in files) => adjustFilename(q) = q
BY FirstThereIs DEF adjustFilename

LastPath == args[CHOOSE k \in PathArgs : \A j \in PathArgs : j <= k].path
NamesThere(q) == ({q} \union {Candidates(q)[i] : i \in 1 .. 3}) \cap launch.files
Named(q, p) == q # <<>> /\ NamesThere(q) = {p} /\ launch.archives[p].sfx = SfxName(p)

(* What the last argument names should be read. *)
ToBeRead ==
  /\ entries = <<>> /\ vanished = 0 /\ InOrder /\ PathArgs # {} /\ ~SfxBefore
  /\ \E p \in DOMAIN launch.archives : Named(LastPath, p)

(* What unbra has noted of the arguments so far.                           *)
LastRead ==
  pc \in {"args", "open"} /\ vanished = 0 =>
    \A k \in 1 .. argi :
      /\ args[k].kind = "path" /\ adjustFilename(args[k].path) \in files
      /\ \A j \in k + 1 .. argi : args[j].kind # "path"
      => brafile = adjustFilename(args[k].path)
SfxNoted == pc \in {"args", "open"} /\ brafile # <<>> /\ SfxName(brafile) => msfx
PolicyNoted ==
  pc = "args" /\ policy # "ask" => \E k \in 1 .. argi : args[k].kind \in {"yes", "no"}
NamedInv ==
  /\ vanished = 0 /\ entries = <<>> => files = launch.files
  /\ LastRead /\ SfxNoted /\ PolicyNoted
  /\ pc = "refused" => ~ToBeRead

LEMMA NamedGives == prog = "unbra" /\ NamedInv => NamedIsRead
<1> SUFFICES ASSUME prog = "unbra", NamedInv, pc = "refused", entries = <<>>, vanished = 0, InOrder,
                    PathArgs # {}, ~SfxBefore, NEW p \in DOMAIN launch.archives,
                    LastPath # <<>>, NamesThere(LastPath) = {p},
                    launch.archives[p].sfx = SfxName(p)
             PROVE  FALSE
  BY DEF NamedIsRead, LastPath, NamesThere
<1> QED
  BY DEF NamedInv, ToBeRead, Named

(* The name of the one that is there is adjusted to that.                  *)
LEMMA NamedAdjusted ==
  ASSUME prog = "unbra", files = launch.files, NEW q, NEW p, Named(q, p)
  PROVE  adjustFilename(q) = p /\ p \in files
<1>1. q # <<>> /\ p \in files /\ p \in {q} \union {Candidates(q)[i] : i \in 1 .. 3}
      /\ \A i \in 1 .. 3 : Candidates(q)[i] \in files => Candidates(q)[i] = p
  BY DEF Named, NamesThere
<1>2. CASE \E i \in 1 .. 3 : Candidates(q)[i] \in files
  BY <1>1, <1>2, AdjustedIs
<1>3. CASE ~(\E i \in 1 .. 3 : Candidates(q)[i] \in files)
  <2>1. p = q
    BY <1>1, <1>3
  <2> QED
    BY <1>1, <1>3, <2>1, AdjustedIs
<1> QED
  BY <1>2, <1>3

LEMMA LastPathIs ==
  ASSUME Len(args) \in Nat, PathArgs # {}
  PROVE  \E k \in 1 .. Len(args) :
           /\ args[k].kind = "path" /\ LastPath = args[k].path
           /\ \A j \in k + 1 .. Len(args) : args[j].kind # "path"
<1> DEFINE n == Len(args)
           S == PathArgs
           T == {n - k : k \in S}
<1>1. S \subseteq 1 .. n /\ \A k \in 1 .. n : k \in S <=> args[k].kind = "path"
  BY DEF PathArgs
<1>2. S # {} /\ n \in Nat
  OBVIOUS
<1>3. LastPath = args[CHOOSE k \in S : \A j \in S : j <= k].path
  BY DEF LastPath
<1> HIDE DEF n, S
<1>4. T \subseteq Nat /\ T # {}
  <2>1. \A k \in S : n - k \in Nat
    BY <1>1, <1>2
  <2>2. PICK k \in S : TRUE
    BY <1>2
  <2>3. n - k \in T
    OBVIOUS
  <2> QED
    BY <2>1, <2>3
<1>5. PICK t \in T : \A i \in T : t <= i
  <2> HIDE DEF T
  <2> QED
    BY <1>4, LeastOf
<1>6. PICK k \in S : t = n - k
  BY <1>5
<1>7. \A j \in S : j <= k
  <2> SUFFICES ASSUME NEW j \in S PROVE j <= k
    OBVIOUS
  <2>1. n - k <= n - j
    BY <1>5, <1>6
  <2> QED
    BY <1>1, <1>2, <2>1
<1>8. PICK m : m = CHOOSE i \in S : \A j \in S : j <= i
  OBVIOUS
<1>9. m \in S /\ \A j \in S : j <= m
  BY <1>7, <1>8
<1>10. m \in 1 .. n /\ args[m].kind = "path" /\ LastPath = args[m].path
  BY <1>1, <1>3, <1>8, <1>9
<1>11. ASSUME NEW j \in m + 1 .. n PROVE args[j].kind # "path"
  <2>1. j \in 1 .. n /\ ~(j <= m)
    BY <1>2, <1>10, <1>11
  <2> QED
    BY <1>1, <1>9, <2>1
<1> QED
  BY <1>10, <1>11 DEF n


(* No step refuses what should be read.                                    *)
LEMMA OneAnswerOnly ==
  ASSUME InOrder, Len(args) \in Nat, NEW i \in 1 .. Len(args), NEW j \in 1 .. Len(args),
         args[i].kind \in {"yes", "no"}, args[j].kind \in {"yes", "no"}
  PROVE  i = j
<1> SUFFICES ASSUME i # j PROVE FALSE
  OBVIOUS
<1> DEFINE S == {k \in 1 .. Len(args) : args[k].kind \in {"yes", "no"}}
           P == {i, j}
<1>1. IsFiniteSet(1 .. Len(args)) /\ S \in SUBSET (1 .. Len(args))
  BY FS_Interval
<1>2. IsFiniteSet(S)
  BY <1>1, FS_Subset
<1>3. P \in SUBSET S /\ Cardinality(P) = 2
  <2>1. IsFiniteSet({i}) /\ Cardinality({i}) = 1
    BY FS_Singleton
  <2> DEFINE I == {i}
  <2>2. j \notin I /\ P = I \union {j} /\ P \in SUBSET S
    OBVIOUS
  <2>3. IsFiniteSet(I) /\ Cardinality(I) = 1
    BY <2>1
  <2> HIDE DEF I, P
  <2>4. Cardinality(I \union {j}) = Cardinality(I) + 1
    BY <2>2, <2>3, FS_AddElement
  <2> QED
    BY <2>2, <2>3, <2>4
<1>4. Cardinality(S) <= 1
  BY DEF InOrder
<1> HIDE DEF S, P
<1>5. Cardinality(P) <= Cardinality(S) /\ Cardinality(S) \in Nat
  BY <1>2, <1>3, FS_Subset, FS_CardinalityType
<1> QED
  BY <1>3, <1>4, <1>5

LEMMA ArgsOfUnbra ==
  ASSUME UnbraInv
  PROVE  /\ Len(args) \in Nat /\ argi \in 0 .. Len(args) /\ args \in Seq(Argument)
         /\ vanished \in Nat /\ <<>> \in launch.dirs
         /\ launch.files \cap launch.dirs = {} /\ DOMAIN launch.archives \subseteq launch.files
         /\ Parsing => pc = "args" /\ argi + 1 \in 1 .. Len(args) /\ Arg = args[argi + 1]
<1>1. launch \in Launches /\ args \in Seq(Argument) /\ argi \in 0 .. Len(args) /\ vanished \in Nat
  BY ProgramAssumption DEF UnbraInv, args
<1>2. Len(args) \in Nat
  BY <1>1
<1>3. /\ <<>> \in launch.dirs /\ launch.files \cap launch.dirs = {}
      /\ DOMAIN launch.archives \subseteq launch.files
  BY <1>1, ProgramAssumption
<1>4. Parsing => pc = "args" /\ argi + 1 \in 1 .. Len(args) /\ Arg = args[argi + 1]
  BY <1>1, <1>2 DEF Parsing, Arg
<1> QED
  BY <1>1, <1>2, <1>3, <1>4

LEMMA NoneIsMissing ==
  ASSUME UnbraInv, NamedInv, prog = "unbra", ToBeRead, ParseMissing
  PROVE  FALSE
<1>1. Parsing /\ Arg.kind = "path" /\ ~Exists(adjustFilename(Arg.path))
  BY DEF ParseMissing
<1>2. argi + 1 \in 1 .. Len(args) /\ Arg = args[argi + 1] /\ <<>> \in launch.dirs
  BY <1>1, ArgsOfUnbra
<1> DEFINE q == Arg.path
<1>3. Exists(q) \/ \E i \in 1 .. 3 : Candidates(q)[i] \in files
  BY <1>1, <1>2 DEF ToBeRead, InOrder
<1>4. dirs = launch.dirs
  BY DEF UnbraInv, NothingForNothing, OfUnbra, ToBeRead
<1> HIDE DEF q
<1>5. CASE q = <<>>
  BY <1>1, <1>2, <1>4, <1>5, AdjustedIs DEF Exists, q
<1>6. CASE q # <<>> /\ \E i \in 1 .. 3 : Candidates(q)[i] \in files
  BY <1>1, <1>6, AdjustedIs DEF Exists, q
<1>7. CASE q # <<>> /\ ~(\E i \in 1 .. 3 : Candidates(q)[i] \in files)
  BY <1>1, <1>3, <1>7, AdjustedIs DEF q
<1> QED
  BY <1>5, <1>6, <1>7

(* After the last argument, the file is the one that is named.             *)
LEMMA NamedIsFile ==
  ASSUME UnbraInv, NamedInv, prog = "unbra", pc \in {"args", "open"}, argi = Len(args), ToBeRead
  PROVE  /\ brafile # <<>> /\ brafile \in DOMAIN launch.archives
         /\ launch.archives[brafile].sfx = SfxName(brafile)
<1>1. /\ files = launch.files /\ PathArgs # {} /\ vanished = 0
  BY DEF NamedInv, ToBeRead
<1>2. PICK p \in DOMAIN launch.archives : Named(LastPath, p)
  BY DEF ToBeRead
<1>3. PICK k \in 1 .. Len(args) :
        /\ args[k].kind = "path" /\ LastPath = args[k].path
        /\ \A j \in k + 1 .. Len(args) : args[j].kind # "path"
  BY <1>1, ArgsOfUnbra, LastPathIs
<1>4. adjustFilename(LastPath) = p /\ p \in files
  BY <1>1, <1>2, NamedAdjusted
<1>5. brafile = p
  <2>1. LastRead
    BY DEF NamedInv
  <2> QED
    BY <1>1, <1>3, <1>4, <2>1 DEF LastRead
<1>6. p # <<>>
  BY <1>1, <1>4, ArgsOfUnbra
<1> QED
  BY <1>2, <1>5, <1>6 DEF Named

LEMMA NamedIsReadable ==
  ASSUME UnbraInv, NamedInv, prog = "unbra", pc = "open", ToBeRead
  PROVE  Readable(brafile)
<1>1. Stage /\ Saved
  BY DEF UnbraInv, OfUnbra
<1>2. argi = Len(args) /\ agreed = {} /\ vanished = 0
  BY <1>1 DEF Stage, ToBeRead
<1>3. /\ brafile # <<>> /\ brafile \in DOMAIN launch.archives
      /\ launch.archives[brafile].sfx = SfxName(brafile)
  BY <1>2, NamedIsFile
<1>4. brafile \in DOMAIN archives /\ archives[brafile] = launch.archives[brafile]
  BY <1>1, <1>2, <1>3 DEF Saved
<1>5. SfxName(brafile) <=> msfx
  <2>1. ~SfxBefore /\ SfxNoted
    BY DEF ToBeRead, NamedInv
  <2> QED
    BY <1>3, <2>1 DEF SfxBefore, SfxNoted
<1>6. msfx \in BOOLEAN /\ SfxName(brafile) \in BOOLEAN
  BY DEF UnbraInv, Types, SfxName
<1>7. SfxName(brafile) = msfx
  BY <1>5, <1>6
<1> QED
  BY <1>3, <1>4, <1>7 DEF Readable

LEMMA ToBeReadSame ==
  ASSUME UNCHANGED <<launch, files, dirs, vanished, entries, msfx, brafile>>
  PROVE  ToBeRead' = ToBeRead
<1>1. prog' = prog /\ args' = args /\ Options' = Options
  BY DEF prog, args, Options
<1>2. InOrder' = InOrder
  <2>1. \A q : Exists(q)' = Exists(q)
    BY DEF Exists
  <2> QED
    BY <1>1, <2>1 DEF InOrder
<1>3. PathArgs' = PathArgs
  BY ONLY <1>1 DEF PathArgs
<1>4. LastPath' = LastPath
  BY ONLY <1>1, <1>3 DEF LastPath
<1>5. SfxBefore' = SfxBefore
  BY DEF SfxBefore
<1>6. /\ launch' = launch
      /\ NamesThere(LastPath)' = NamesThere(LastPath)
  BY <1>4 DEF NamesThere, Candidates
<1>7. \A p : Named(LastPath, p)' = Named(LastPath, p)
  BY <1>4, <1>6 DEF Named
<1> QED
  BY <1>1, <1>2, <1>3, <1>5, <1>6, <1>7 DEF ToBeRead

LEMMA AdjustedSame ==
  ASSUME UNCHANGED <<launch, files>>
  PROVE  \A q : adjustFilename(q)' = adjustFilename(q)
<1>1. prog' = prog
  BY DEF prog
<1>2. \A q, o : FirstThere(q, o)' = FirstThere(q, o)
  <2> SUFFICES ASSUME NEW q, NEW o PROVE FirstThere(q, o)' = FirstThere(q, o)
    OBVIOUS
  <2> DEFINE c == Candidates(q)
  <2>1. c' = c
    BY DEF Candidates
  <2>2. {k \in DOMAIN c : c[k] \in files}' = {k \in DOMAIN c : c[k] \in files}
    BY <2>1
  <2> QED
    BY <2>1, <2>2 DEF FirstThere
<1> QED
  BY <1>1, <1>2 DEF adjustFilename

(* A step that goes where the arguments are no longer looked at. *)
LEMMA NamedLeaves ==
  ASSUME NamedInv, pc' \notin {"args", "open"},
         vanished' = 0 /\ entries' = <<>> =>
           vanished = 0 /\ entries = <<>> /\ UNCHANGED <<files, launch>>,
         pc' = "refused" => ~ToBeRead'
  PROVE  NamedInv'
BY DEF NamedInv, LastRead, SfxNoted, PolicyNoted

LEMMA NamedRefused ==
  ASSUME NamedInv, ~ToBeRead, pc' = "refused",
         UNCHANGED <<launch, files, dirs, vanished, entries, msfx, brafile>>
  PROVE  NamedInv'
BY NamedLeaves, ToBeReadSame

(* A step that takes an argument. *)
LEMMA NamedArgument ==
  ASSUME UnbraInv, NamedInv, Parsing, argi' = argi + 1,
         UNCHANGED <<launch, files, dirs, vanished, entries, pc>>,
         SfxNoted', PolicyNoted',
         \/ brafile' = brafile /\ (vanished = 0 /\ Arg.kind = "path" => adjustFilename(Arg.path) \notin files)
         \/ brafile' = adjustFilename(Arg.path) /\ Arg.kind = "path"
  PROVE  NamedInv'
<1>1. /\ pc = "args" /\ argi \in Nat /\ argi + 1 \in 1 .. Len(args) /\ Arg = args[argi + 1]
      /\ args' = args
  BY ArgsOfUnbra DEF args
<1>2. \A q : adjustFilename(q)' = adjustFilename(q)
  BY AdjustedSame
<1>3. LastRead'
  <2> SUFFICES ASSUME vanished = 0, NEW k \in 1 .. argi + 1, args[k].kind = "path",
                      adjustFilename(args[k].path) \in files,
                      \A j \in k + 1 .. argi + 1 : args[j].kind # "path"
               PROVE  brafile' = adjustFilename(args[k].path)
    BY <1>1, <1>2 DEF LastRead
  <2>1. CASE k = argi + 1
    BY <1>1, <2>1
  <2>2. CASE k # argi + 1
    <3>1. k \in 1 .. argi /\ argi + 1 \in k + 1 .. argi + 1
      BY <1>1, <2>2
    <3>2. Arg.kind # "path"
      BY <1>1, <3>1
    <3>3. \A j \in k + 1 .. argi : args[j].kind # "path"
      BY <1>1
    <3>4. brafile = adjustFilename(args[k].path)
      BY <1>1, <3>1, <3>3 DEF NamedInv, LastRead
    <3> QED
      BY <3>2, <3>4
  <2> QED
    BY <2>1, <2>2
<1> QED
  BY <1>1, <1>3 DEF NamedInv

LEMMA NamedCommonOK ==
  ASSUME UnbraInv, NamedInv, prog = "unbra", Common
  PROVE  NamedInv'
<1>1. CASE ParseHelp /\ UNCHANGED <<iown, uown>>
  <2>1. pc' = "ended" /\ UNCHANGED <<launch, files, dirs, vanished, entries>>
    BY <1>1 DEF ParseHelp, Goto, disk, uown
  <2> QED
    BY <2>1, NamedLeaves
<1>2. CASE ParsePolicy /\ UNCHANGED <<iown, uown>>
  <2>1. /\ Parsing /\ Arg.kind \in {"yes", "no"} /\ UNCHANGED <<entries, msfx, brafile>>
        /\ argi \in Nat /\ argi + 1 \in 1 .. Len(args) /\ Arg = args[argi + 1] /\ pc = "args"
    BY <1>2, ArgsOfUnbra DEF ParsePolicy, uown
  <2>2. CASE policy # "ask"
    <3>1. pc' = "refused" /\ UNCHANGED <<launch, files, dirs, vanished>>
      BY <1>2, <2>2 DEF ParsePolicy, Refused, Goto, disk
    <3>2. PICK k \in 1 .. argi : args[k].kind \in {"yes", "no"}
      BY <2>1, <2>2 DEF NamedInv, PolicyNoted
    <3>3. k \in 1 .. Len(args) /\ k # argi + 1 /\ Len(args) \in Nat
      BY <2>1, ArgsOfUnbra
    <3>4. ~InOrder
      BY <2>1, <3>2, <3>3, OneAnswerOnly
    <3> QED
      BY <2>1, <3>1, <3>4, NamedRefused DEF ToBeRead
  <2>3. CASE policy = "ask"
    <3>1. /\ argi' = argi + 1 /\ policy' = Arg.kind
          /\ UNCHANGED <<launch, files, dirs, vanished, pc>>
      BY <1>2, <2>3 DEF ParsePolicy, NextArg, disk
    <3>2. PolicyNoted'
      BY <2>1, <3>1 DEF PolicyNoted, args
    <3>3. SfxNoted'
      BY <2>1, <3>1 DEF NamedInv, SfxNoted, SfxName
    <3> QED
      BY <2>1, <3>1, <3>2, <3>3, NamedArgument
  <2> QED
    BY <2>2, <2>3
<1>3. CASE ParseUnknownOption /\ UNCHANGED <<iown, uown>>
  <2>1. /\ pc' = "refused" /\ UNCHANGED <<launch, files, dirs, vanished, entries, msfx, brafile>>
        /\ Parsing /\ Arg.kind \notin {"yes", "no", "path", "glob"} \union Options
    BY <1>3 DEF ParseUnknownOption, Refused, Goto, disk, uown
  <2>2. ~InOrder
    BY <2>1, ArgsOfUnbra DEF InOrder
  <2> QED
    BY <2>1, <2>2, NamedRefused DEF ToBeRead
<1>4. CASE Vanish /\ Forgotten /\ UNCHANGED iown
  <2>1. /\ vanished' = vanished + 1 /\ pc \notin Ends
        /\ UNCHANGED <<launch, argi, policy, pc, brafile, msfx>>
    BY <1>4 DEF Vanish, Forgotten
  <2>2. vanished' # 0
    BY <2>1, ArgsOfUnbra
  <2>3. SfxNoted' /\ PolicyNoted'
    BY <2>1 DEF NamedInv, SfxNoted, SfxName, PolicyNoted, args
  <2> QED
    BY <2>1, <2>2, <2>3 DEF NamedInv, LastRead, Ends
<1> QED
  BY <1>1, <1>2, <1>3, <1>4 DEF Common

LEMMA NamedUnbraOK ==
  ASSUME UnbraInv, NamedInv, prog = "unbra", Unbra
  PROVE  NamedInv'
<1>1. UNext
  BY DEF Unbra
<1>2. CASE ParseModeOption \/ ParseOutput \/ IgnoreArgument
  <2>1. /\ Parsing /\ argi' = argi + 1 /\ argi \in Nat
        /\ UNCHANGED <<launch, files, dirs, vanished, pc, policy, entries, brafile, msfx>>
    BY <1>2, ArgsOfUnbra DEF ParseModeOption, ParseOutput, IgnoreArgument, NextArg, disk, uown
  <2>2. SfxNoted' /\ PolicyNoted'
    BY <2>1 DEF NamedInv, SfxNoted, SfxName, PolicyNoted, args
  <2>3. ASSUME vanished = 0, Arg.kind = "path" PROVE adjustFilename(Arg.path) \notin files
    <3>1. adjustFilename(Arg.path) \in dirs
      BY <1>2, <2>3 DEF ParseModeOption, ParseOutput, IgnoreArgument
    <3>2. entries = <<>>
      BY <2>1 DEF UnbraInv, Stage, OfUnbra, Parsing
    <3>3. files = launch.files /\ dirs = launch.dirs
      BY <2>3, <3>2 DEF NamedInv, UnbraInv, NothingForNothing, OfUnbra
    <3> QED
      BY <3>1, <3>3, ArgsOfUnbra
  <2> QED
    BY <2>1, <2>2, <2>3, NamedArgument
<1>3. CASE ParseArchive
  <2>1. /\ Parsing /\ Arg.kind = "path" /\ argi' = argi + 1 /\ argi \in Nat
        /\ brafile' = adjustFilename(Arg.path) /\ msfx' = (msfx \/ SfxName(brafile'))
        /\ UNCHANGED <<launch, files, dirs, vanished, pc, policy, entries>>
    BY <1>3, ArgsOfUnbra DEF ParseArchive, NextArg, disk
  <2>2. PolicyNoted'
    BY <2>1 DEF NamedInv, PolicyNoted, args
  <2>3. SfxNoted'
    BY <2>1 DEF SfxNoted, SfxName
  <2> QED
    BY <2>1, <2>2, <2>3, NamedArgument
<1>4. CASE ParseMissing
  <2>1. pc' = "refused" /\ UNCHANGED <<launch, files, dirs, vanished, entries, msfx, brafile>>
    BY <1>4 DEF ParseMissing, URefuse, Refused, Goto, disk, uown
  <2> QED
    BY <1>4, <2>1, NoneIsMissing, NamedRefused
<1>5. CASE UValidate
  <2>1. pc = "args" /\ argi = Len(args)
    BY <1>5 DEF UValidate, Parsed
  <2>2. UNCHANGED <<launch, argi, policy, files, dirs, vanished, entries, msfx, brafile>>
    BY <1>5 DEF UValidate, URefuse, Refused, Goto, disk, uown
  <2>3. CASE brafile = <<>>
    <3>1. pc' = "refused"
      BY <1>5, <2>3 DEF UValidate, URefuse, Refused, Goto
    <3>2. ~ToBeRead
      BY <2>1, <2>3, NamedIsFile
    <3> QED
      BY <2>2, <3>1, <3>2, NamedRefused
  <2>4. CASE brafile # <<>>
    <3>1. pc' = "open"
      BY <1>5, <2>4 DEF UValidate, Goto
    <3>2. LastRead'
      BY <2>1, <2>2, <3>1, AdjustedSame DEF NamedInv, LastRead, args
    <3>3. SfxNoted' /\ PolicyNoted'
      BY <2>1, <2>2, <3>1 DEF NamedInv, SfxNoted, PolicyNoted, SfxName
    <3> QED
      BY <2>2, <3>1, <3>2, <3>3 DEF NamedInv
  <2> QED
    BY <2>3, <2>4
<1>6. CASE UOpen
  <2>1. pc = "open" /\ entries = <<>> /\ UNCHANGED <<launch, files, dirs, vanished, msfx, brafile>>
    BY <1>6 DEF UOpen, URefuse, Refused, Goto, disk, uown, UnbraInv, Stage, OfUnbra
  <2>2. CASE Readable(brafile)
    <3>1. pc' \in {"enter", "entry"}
      BY <1>6, <2>2 DEF UOpen, Goto
    <3>2. vanished' = 0 => vanished = 0
      BY <2>1
    <3> QED
      BY <2>1, <3>1, <3>2, NamedLeaves
  <2>3. CASE ~Readable(brafile)
    <3>1. pc' = "refused" /\ entries' = entries
      BY <1>6, <2>3 DEF UOpen, URefuse, Refused, Goto, uown
    <3>2. ~ToBeRead
      BY <2>1, <2>3, NamedIsReadable
    <3> QED
      BY <2>1, <3>1, <3>2, NamedRefused
  <2> QED
    BY <2>2, <2>3
<1>7. CASE EnterOutput \/ ListEntry \/ ExtractDir \/ KeepThere \/ ExtractFile \/ BadEntry
  <2>1. entries # <<>>
    <3>1. CASE EnterOutput
      BY <3>1 DEF EnterOutput, UnbraInv, Stage, OfUnbra
    <3>2. CASE More
      <4> SUFFICES ASSUME entries = <<>> PROVE FALSE
        OBVIOUS
      <4>1. Len(entries) = 0 /\ pos \in 0 .. Len(entries)
        BY DEF UnbraInv, Types
      <4> QED
        BY <3>2, <4>1 DEF More
    <3> QED
      BY <1>7, <3>1, <3>2 DEF ListEntry, ExtractDir, KeepThere, ExtractFile, BadEntry
  <2>2. entries' = entries /\ pc' \in {"entry", "refused"}
    BY <1>7 DEF EnterOutput, ListEntry, ExtractDir, KeepThere, ExtractFile, BadEntry, EntryDone, More,
                URefuse, Refused, Goto, uown
  <2> QED
    BY <2>1, <2>2, NamedLeaves DEF ToBeRead
<1>8. CASE UEnd
  <2>1. pc' = "ended" /\ UNCHANGED <<launch, files, vanished, entries>>
    BY <1>8 DEF UEnd, Goto, disk
  <2> QED
    BY <2>1, NamedLeaves
<1> QED
  BY <1>1, <1>2, <1>3, <1>4, <1>5, <1>6, <1>7, <1>8 DEF UNext

NamedAlways == UnbraInv /\ (prog = "unbra" => NamedInv)

LEMMA NamedStepOK == NamedAlways /\ [Next]_vars => NamedAlways'
<1> SUFFICES ASSUME NamedAlways, [Next]_vars PROVE NamedAlways'
  OBVIOUS
<1>1. UnbraInv'
  BY StepOK DEF NamedAlways
<1>2. launch' = launch /\ prog' = prog
  <2>1. CASE Common
    BY <2>1 DEF Common, ParseHelp, ParsePolicy, ParseUnknownOption, Vanish, Refused, Goto, NextArg, prog
  <2>2. CASE Bra
    BY <2>2 DEF Bra, INext, ParseOption, ParseFile, ParseDir, ParseGlob, ParseUnknown, Add, AddDirs,
                FindModule, AskTemporary, AskOutput, MakeTree, Refuse, Refused, Goto, NextArg, prog
  <2>3. CASE Unbra
    BY <2>3, LaunchKept DEF prog
  <2>4. CASE Done \/ UNCHANGED vars
    BY <2>4 DEF Done, vars, pvars, prog
  <2> QED
    BY <2>1, <2>2, <2>3, <2>4 DEF Next
<1>3. ASSUME prog = "unbra" PROVE NamedInv'
  <2>1. NamedInv /\ UnbraInv
    BY <1>3 DEF NamedAlways
  <2>2. CASE Done \/ UNCHANGED vars
    <3>1. UNCHANGED <<launch, argi, policy, files, dirs, vanished, pc, entries, msfx, brafile>>
      BY <2>2 DEF Done, vars, pvars, disk, uown
    <3>2. LastRead' /\ SfxNoted' /\ PolicyNoted'
      BY <2>1, <3>1, AdjustedSame DEF NamedInv, LastRead, SfxNoted, PolicyNoted, SfxName, args
    <3> QED
      BY <2>1, <3>1, <3>2, ToBeReadSame DEF NamedInv
  <2>3. ~Bra
    BY <1>3 DEF Bra
  <2> QED
    BY <1>3, <2>1, <2>2, <2>3, NamedCommonOK, NamedUnbraOK DEF Next
<1> QED
  BY <1>1, <1>2, <1>3 DEF NamedAlways

(* Whatever the launch, an archive that is named, by all of its name or by *)
(* the beginning of it, is read: neither another argument nor the order of *)
(* the candidates keeps unbra from it (prog/unbra.cpp).                    *)
THEOREM NamedArchivesAreRead == Spec => []NamedIsRead
<1>1. Init => NamedAlways
  <2> SUFFICES ASSUME Init PROVE NamedAlways
    OBVIOUS
  <2>1. UnbraInv
    BY InitOK
  <2>2. argi = 0 /\ policy = "ask" /\ pc = "args" /\ files = launch.files
    BY DEF Init, PInit
  <2>3. prog = "unbra" => brafile = <<>>
    BY DEF Init, UInit
  <2> QED
    BY <2>1, <2>2, <2>3 DEF NamedAlways, NamedInv, LastRead, SfxNoted, PolicyNoted
<1>2. NamedAlways => NamedIsRead
  BY NamedGives DEF NamedAlways, NamedIsRead
<1> QED
  BY <1>1, <1>2, NamedStepOK, PTL DEF Spec

----------------------------------------------------------------------------
(* What += and replacing the extension do to a name and its directory.     *)
Names == Seq(STRING) \ {<<>>}

LEMMA NameIs ==
  ASSUME NEW p \in Path \ {<<>>}
  PROVE  p \in Seq(Names) \ {<<>>} /\ NameOf(p) \in Names /\ Len(p) \in Nat \ {0}
<1>1. p \in Seq(Names) \ {<<>>}
  BY DEF Path, Names
<1> QED
  BY <1>1, EmptySeq, ElementOfSeq DEF NameOf

(* Another last name leaves the directory.                                 *)
LEMMA Renamed ==
  ASSUME NEW p \in Path \ {<<>>}, NEW n \in Names
  PROVE  LET q == [p EXCEPT ![Len(p)] = n]
         IN  /\ q \in Path \ {<<>>} /\ NameOf(q) = n /\ Len(q) = Len(p) /\ Parent(q) = Parent(p)
             /\ \A m \in Names : [q EXCEPT ![Len(q)] = m] = [p EXCEPT ![Len(p)] = m]
             /\ (n = NameOf(p) => q = p)
<1> DEFINE q == [p EXCEPT ![Len(p)] = n]
<1>1. p \in Seq(Names) \ {<<>>} /\ Len(p) \in Nat \ {0} /\ NameOf(p) = p[Len(p)]
  BY NameIs DEF NameOf
<1>2. q \in Seq(Names) \ {<<>>} /\ Len(q) = Len(p) /\ NameOf(q) = n
  BY <1>1, OtherLast DEF NameOf
<1>3. \A i \in 1 .. Len(p) : i # Len(p) => q[i] = p[i]
  BY <1>1
<1>4. Parent(q) = Parent(p)
  <2>1. Len(p) - 1 \in Nat /\ 1 .. Len(p) - 1 \subseteq 1 .. Len(p) /\ Len(p) \notin 1 .. Len(p) - 1
    BY <1>1
  <2>2. \A i \in 1 .. Len(p) - 1 : q[i] = p[i] /\ p[i] \in Names
    BY <1>1, <1>3, <2>1, ElementOfSeq
  <2> HIDE DEF q
  <2>3. Parent(p) = [i \in 1 .. Len(p) - 1 |-> p[i]] /\ Parent(q) = [i \in 1 .. Len(p) - 1 |-> q[i]]
    BY <1>1, <1>2, <2>1 DEF Parent
  <2> QED
    BY <2>2, <2>3
<1>5. \A m \in Names : [q EXCEPT ![Len(q)] = m] = [p EXCEPT ![Len(p)] = m]
  BY <1>1, <1>2
<1>6. n = NameOf(p) => q = p
  BY <1>1
<1> QED
  BY <1>2, <1>4, <1>5, <1>6 DEF Path, Names

LEMMA LastAdded ==
  ASSUME NEW S, NEW s \in Seq(S), NEW x \in S
  PROVE  LET t == Append(s, x)
         IN  /\ Len(t) = Len(s) + 1 /\ t[Len(t)] = x /\ SubSeq(t, 1, Len(t) - 1) = s
             /\ Len(s) \in Nat
<1> DEFINE t == Append(s, x)
<1>1. t \in Seq(S) /\ Len(t) = Len(s) + 1 /\ t[Len(t)] = x /\ Len(s) \in Nat
      /\ \A i \in 1 .. Len(s) : t[i] = s[i]
  OBVIOUS
<1> HIDE DEF t
<1>2. Len(t) - 1 = Len(s)
  BY <1>1
<1>3. SubSeq(t, 1, Len(s)) = s
  <2>1. 1 .. Len(s) \subseteq 1 .. Len(t)
    BY <1>1
  <2>2. SubSeq(t, 1, Len(s)) = [i \in 1 .. Len(s) |-> t[i]]
    BY <1>1, <2>1
  <2>3. s = [i \in 1 .. Len(s) |-> s[i]]
    OBVIOUS
  <2> QED
    BY <1>1, <2>2, <2>3
<1> QED
  BY <1>1, <1>2, <1>3 DEF t

LEMMA LastTaken ==
  ASSUME NEW S, NEW s \in Seq(S), Len(s) > 1
  PROVE  s = Append(SubSeq(s, 1, Len(s) - 1), s[Len(s)])
OBVIOUS

LEMMA PlusIs ==
  ASSUME NEW p \in Path \ {<<>>}, NEW ext \in STRING
  PROVE  LET q == Plus(p, ext)
         IN  /\ q \in Path \ {<<>>} /\ NameOf(q) = Append(NameOf(p), ext)
             /\ Parent(q) = Parent(p) /\ Bare(q) = p
             /\ Extension(q) = ext
<1> DEFINE q == Plus(p, ext)
           n == Append(NameOf(p), ext)
<1>1. NameOf(p) \in Seq(STRING) \ {<<>>} /\ n \in Names
  BY NameIs, Longer DEF Names
<1>2. Len(n) = Len(NameOf(p)) + 1 /\ n[Len(n)] = ext /\ SubSeq(n, 1, Len(n) - 1) = NameOf(p)
      /\ Len(NameOf(p)) \in Nat \ {0}
  <2>1. \A name \in Seq(STRING) \ {<<>>} : Len(name) \in Nat \ {0}
    BY EmptySeq
  <2> QED
    BY <1>1, <2>1, LastAdded
<1>3. q = [p EXCEPT ![Len(p)] = n]
  BY DEF Plus, NameOf
<1> HIDE DEF q
<1>4. /\ q \in Path \ {<<>>} /\ NameOf(q) = n /\ Parent(q) = Parent(p)
      /\ \A m \in Names : [q EXCEPT ![Len(q)] = m] = [p EXCEPT ![Len(p)] = m]
  <2> HIDE DEF n
  <2>1. LET r == [p EXCEPT ![Len(p)] = n]
        IN  /\ r \in Path \ {<<>>} /\ NameOf(r) = n /\ Len(r) = Len(p) /\ Parent(r) = Parent(p)
            /\ \A m \in Names : [r EXCEPT ![Len(r)] = m] = [p EXCEPT ![Len(p)] = m]
    BY <1>1, Renamed, Zenon
  <2> QED
    BY <1>3, <2>1, Zenon
<1>5. Bare(q) = p
  <2>1. Bare(q) = [q EXCEPT ![Len(q)] = NameOf(p)]
    BY <1>2, <1>4 DEF Bare, NameOf
  <2>2. [p EXCEPT ![Len(p)] = NameOf(p)] = p
    BY NameIs, Renamed
  <2> QED
    BY <1>1, <1>4, <2>1, <2>2 DEF Names
<1>6. Extension(q) = ext
  <2>1. Len(n) # 1
    BY <1>2
  <2> QED
    BY <1>2, <1>4, <2>1 DEF Extension
<1> QED
  BY <1>4, <1>5, <1>6 DEF q

(* An extension is what a name may go without.                             *)
LEMMA ExtensionIs ==
  ASSUME NEW p \in Path \ {<<>>}
  PROVE  /\ Extension(p) = "BRa" <=> Len(NameOf(p)) # 1 /\ NameOf(p)[Len(NameOf(p))] = "BRa"
         /\ Extension(p) = "brx" <=> Len(NameOf(p)) # 1 /\ NameOf(p)[Len(NameOf(p))] = "brx"
BY DEF Extension

LEMMA WithoutIs ==
  ASSUME NEW p \in Path \ {<<>>}, NEW ext,
         Extension(p) = ext <=> Len(NameOf(p)) # 1 /\ NameOf(p)[Len(NameOf(p))] = ext
  PROVE  /\ Extension(p) # ext => Without(NameOf(p), ext) = NameOf(p)
         /\ Extension(p) = ext => /\ Without(NameOf(p), ext) \in Names
                                  /\ NameOf(p) = Append(Without(NameOf(p), ext), ext)
                                  /\ Without(NameOf(p), ext) = SubSeq(NameOf(p), 1, Len(NameOf(p)) - 1)
<1>1. PICK name : name = NameOf(p)
  OBVIOUS
<1>2. name \in Seq(STRING) \ {<<>>} /\ Len(name) \in Nat \ {0}
  BY <1>1, NameIs, EmptySeq DEF Names
<1>3. Len(name) # 1 <=> Len(name) > 1
  <2>1. \A l \in Nat \ {0} : l # 1 <=> l > 1
    BY ONLY TRUE
  <2> QED
    BY <1>2, <2>1, Zenon
<1>4. ASSUME Extension(p) = ext
      PROVE  /\ SubSeq(name, 1, Len(name) - 1) \in Names
             /\ name = Append(SubSeq(name, 1, Len(name) - 1), ext)
  <2>1. Len(name) # 1 /\ Len(name) > 1 /\ name[Len(name)] = ext
    BY <1>1, <1>3, <1>4
  <2>2. SubSeq(name, 1, Len(name) - 1) \in Names
    BY <1>2, <2>1, Shorter DEF Names
  <2>3. name = Append(SubSeq(name, 1, Len(name) - 1), name[Len(name)])
    BY <1>2, <2>1, LastTaken
  <2> QED
    BY <2>1, <2>2, <2>3
<1>5. Extension(p) = ext => Without(name, ext) = SubSeq(name, 1, Len(name) - 1)
  BY <1>1, <1>3 DEF Without
<1>6. Extension(p) # ext => Without(name, ext) = name
  BY <1>1, <1>3 DEF Without
<1> QED
  BY <1>1, <1>4, <1>5, <1>6

(* The name an archive gets: filename_archive_adjust, and                  *)
(* filename_sfx_adjust with the extension .tmp behind it.                  *)
LEMMA ArchiveName ==
  ASSUME NEW p \in Path \ {<<>>}
  PROVE  LET a == filename_archive_adjust(p)
         IN  /\ a \in Path \ {<<>>} /\ Parent(a) = Parent(p) /\ Extension(a) = "BRa"
             /\ NameOf(a) = Append(Without(NameOf(p), "BRa"), "BRa")
<1>1. "BRa" \in STRING
  BY ExtensionAssumption
<1>2. CASE Extension(p) = "BRa"
  <2>1. NameOf(p) = Append(Without(NameOf(p), "BRa"), "BRa")
    BY <1>2, ExtensionIs, WithoutIs
  <2> QED
    BY <1>2, <2>1 DEF filename_archive_adjust
<1>3. CASE Extension(p) # "BRa"
  <2>1. Without(NameOf(p), "BRa") = NameOf(p)
    BY <1>3, ExtensionIs, WithoutIs
  <2>2. /\ Plus(p, "BRa") \in Path \ {<<>>} /\ Parent(Plus(p, "BRa")) = Parent(p)
        /\ Extension(Plus(p, "BRa")) = "BRa" /\ NameOf(Plus(p, "BRa")) = Append(NameOf(p), "BRa")
    BY <1>1, PlusIs
  <2> QED
    BY <1>3, <2>1, <2>2 DEF filename_archive_adjust
<1> QED
  BY <1>2, <1>3

(* What of the path an SFX keeps: path::stem drops the directory.          *)
LEMMA StemIs ==
  ASSUME NEW p \in Path \ {<<>>}, Extension(p) = "brx"
  PROVE  Stem(p) \in Path \ {<<>>} /\ NameOf(Stem(p)) = Without(NameOf(p), "brx")
<1> DEFINE n == Without(NameOf(p), "brx")
<1>1. n \in Names /\ n = SubSeq(NameOf(p), 1, Len(NameOf(p)) - 1)
  BY ExtensionIs, WithoutIs
<1> HIDE DEF n
<1>2. Bare(p) = [p EXCEPT ![Len(p)] = n]
  BY <1>1 DEF Bare, NameOf
<1>3. NameOf(Bare(p)) = n
  <2>1. LET r == [p EXCEPT ![Len(p)] = n] IN NameOf(r) = n
    BY <1>1, Renamed, Zenon
  <2> QED
    BY <1>2, <2>1, Zenon
<1>4. NameOf(<<n>>) = n
  BY DEF NameOf
<1> QED
  BY <1>3, <1>4, StemOK DEF Stem, n

LEMMA NameOfSfx ==
  ASSUME NEW p \in Path \ {<<>>}
  PROVE  LET t == filename_sfx_adjust(p)
             f == ReplaceExtension(t, "brx")
         IN  /\ t \in Path \ {<<>>} /\ f \in Path \ {<<>>} /\ f # t /\ Parent(f) = Parent(t)
             /\ (Extension(p) # "brx" => Parent(f) = Parent(p))
             /\ NameOf(f) = Without(Without(NameOf(p), "brx"), "BRa") \o <<"BRa", "brx">>
<1>1. PICK q : q = IF Extension(p) = "brx" THEN Stem(p) ELSE p
  OBVIOUS
<1>2. /\ q \in Path \ {<<>>} /\ NameOf(q) = Without(NameOf(p), "brx")
      /\ (Extension(p) # "brx" => q = p)
  BY <1>1, StemIs, ExtensionIs, WithoutIs
<1>3. PICK a : a = filename_archive_adjust(q)
  OBVIOUS
<1>4. /\ a \in Path \ {<<>>} /\ Parent(a) = Parent(q)
      /\ NameOf(a) = Append(Without(NameOf(q), "BRa"), "BRa")
  BY <1>2, <1>3, ArchiveName
<1>5. PICK t, f : t = Plus(a, "tmp") /\ f = Plus(a, "brx")
  OBVIOUS
<1>6. filename_sfx_adjust(p) = t
  BY <1>1, <1>3, <1>5 DEF filename_sfx_adjust, filename_archive_adjust
<1>7. /\ t \in Path \ {<<>>} /\ f \in Path \ {<<>>} /\ Parent(f) = Parent(a) /\ Parent(t) = Parent(a)
      /\ Bare(t) = a /\ Extension(t) = "tmp" /\ Extension(f) = "brx" /\ NameOf(f) = Append(NameOf(a), "brx")
  BY <1>4, <1>5, ExtensionAssumption, PlusIs
<1>8. ReplaceExtension(t, "brx") = f
  BY <1>5, <1>7 DEF ReplaceExtension
<1>9. f # t
  BY <1>7
<1>10. NameOf(f) = Without(NameOf(q), "BRa") \o <<"BRa", "brx">>
  <2>1. Without(NameOf(q), "BRa") \in Names
    BY <1>2, NameIs, ExtensionIs, WithoutIs
  <2>2. \A n \in Seq(STRING) : Append(Append(n, "BRa"), "brx") = n \o <<"BRa", "brx">>
    BY ExtensionAssumption
  <2> QED
    BY <1>4, <1>7, <2>1, <2>2 DEF Names
<1> QED
  BY <1>2, <1>4, <1>6, <1>7, <1>8, <1>9, <1>10

----------------------------------------------------------------------------
(* Where the output is: the last -o is noted as it was given, then as it   *)
(* was adjusted, and its directory is there before anything is written.    *)
IsOut(k) == args[k].kind \in {"out", "out./"}

OutNoted ==
  pc = "args" =>
    \/ out = NoOut /\ \A k \in 1 .. argi : ~IsOut(k)
    \/ \E k \in 1 .. argi :
         /\ IsOut(k) /\ out.path = args[k].path
         /\ \A j \in k + 1 .. argi : ~IsOut(j)

OutAdjusted ==
  pc \in {"module", "tmp", "output", "tree", "ready"} =>
    /\ Asked \in Path \ {<<>>}
    /\ out.path = IF sfx THEN filename_sfx_adjust(Asked) ELSE filename_archive_adjust(Asked)

OutThere == pc \in {"tree", "ready"} => Parent(Final) \in dirs

OutputInv == InputTypesInv /\ (prog = "bra" => OutNoted /\ OutAdjusted /\ OutThere)

LEMMA AskedIs ==
  ASSUME Len(args) \in Nat, NEW k \in 1 .. Len(args), IsOut(k),
         \A j \in k + 1 .. Len(args) : ~IsOut(j)
  PROVE  Asked = args[k].path
<1> DEFINE outs == {i \in 1 .. Len(args) : args[i].kind \in {"out", "out./"}}
<1>1. \A i \in outs : i <= k
  <2> SUFFICES ASSUME NEW i \in outs, ~(i <= k) PROVE FALSE
    OBVIOUS
  <2>1. i \in k + 1 .. Len(args)
    OBVIOUS
  <2> QED
    BY <2>1 DEF IsOut
<1>2. k \in outs /\ outs \subseteq Nat
  BY DEF IsOut
<1>3. Asked = args[CHOOSE i \in outs : \A j \in outs : j <= i].path
  BY DEF Asked
<1> HIDE DEF outs
<1>4. PICK m : m = CHOOSE i \in outs : \A j \in outs : j <= i
  OBVIOUS
<1>5. m \in outs /\ \A j \in outs : j <= m
  BY <1>1, <1>2, <1>4
<1>6. m = k
  BY <1>1, <1>2, <1>5
<1> QED
  BY <1>3, <1>4, <1>6

(* What the invariant is for.                                              *)
LEMMA OutputGives == OutputInv => OutputWhereNamed
<1> SUFFICES ASSUME OutputInv, OfBra PROVE OutputWhereNamed
  BY DEF OutputWhereNamed
<1>1. /\ Asked \in Path \ {<<>>} /\ sfx \in BOOLEAN /\ Parent(Final) \in dirs
      /\ out.path = IF sfx THEN filename_sfx_adjust(Asked) ELSE filename_archive_adjust(Asked)
  BY DEF OutputInv, OutAdjusted, OutThere, OfBra, InputTypesInv, OwnTypes
<1>2. PICK a : a = Asked
  OBVIOUS
<1>3. CASE sfx
  <2>1. out.path = filename_sfx_adjust(a) /\ Final = ReplaceExtension(out.path, "brx")
    BY <1>1, <1>2, <1>3 DEF Final
  <2>2. /\ Final # out.path /\ Parent(Final) = Parent(out.path)
        /\ (Extension(a) # "brx" => Parent(Final) = Parent(a))
        /\ NameOf(Final) = Without(Without(NameOf(a), "brx"), "BRa") \o <<"BRa", "brx">>
    BY <1>1, <1>2, <2>1, NameOfSfx
  <2> QED
    BY <1>1, <1>2, <1>3, <2>2, Zenon DEF OutputWhereNamed, LosesDirectory
<1>4. CASE ~sfx
  <2>1. out.path = filename_archive_adjust(a) /\ Final = out.path
    BY <1>1, <1>2, <1>4 DEF Final
  <2>2. Extension(Final) = "BRa" /\ Parent(Final) = Parent(a)
    BY <1>1, <1>2, <2>1, ArchiveName
  <2> QED
    BY <1>1, <1>2, <1>4, <2>1, <2>2, Zenon DEF OutputWhereNamed, LosesDirectory
<1> QED
  BY <1>3, <1>4

(* A step that leaves the output, the arguments and the phase alone, or    *)
(* ends.                                                                   *)
LEMMA OutputLeft ==
  ASSUME OutputInv, InputTypesInv', UNCHANGED <<launch, out, sfx>>, dirs \subseteq dirs',
         \/ pc' \in Ends
         \/ pc' = pc /\ argi' = argi
         \/ pc = "args" /\ pc' = pc /\ argi' = argi + 1 /\ argi \in Nat /\ ~IsOut(argi + 1)
         \/ pc \in {"module", "tmp"} /\ pc' \in {"tmp", "output"}
         \/ pc = "tree" /\ pc' = "ready"
  PROVE  OutputInv'
<1> SUFFICES ASSUME prog = "bra" PROVE OutNoted' /\ OutAdjusted' /\ OutThere'
  BY DEF OutputInv, prog
<1>1. args' = args /\ Asked' = Asked /\ Final' = Final
  BY DEF args, Asked, Final
<1>2. OutNoted /\ OutAdjusted /\ OutThere
  BY DEF OutputInv
<1>3. \A k : IsOut(k)' = IsOut(k)
  BY <1>1 DEF IsOut
<1>4. OutAdjusted'
  BY <1>1, <1>2 DEF OutAdjusted, Ends
<1>5. OutThere'
  BY <1>1, <1>2 DEF OutThere, Ends
<1>6. OutNoted'
  <2>1. CASE pc' # "args"
    BY <2>1 DEF OutNoted
  <2>2. CASE pc' = "args" /\ argi' = argi
    <3>1. pc = "args"
      BY <2>2 DEF Ends
    <3> QED
      BY <1>1, <1>2, <1>3, <2>2, <3>1 DEF OutNoted
  <2>3. CASE pc = "args" /\ pc' = pc /\ argi' = argi + 1 /\ argi \in Nat /\ ~IsOut(argi + 1)
    <3>1. \A k \in Nat : k \in 1 .. argi + 1 => k \in 1 .. argi \/ k = argi + 1
      BY <2>3
    <3>2. CASE out = NoOut /\ \A k \in 1 .. argi : ~IsOut(k)
      BY <1>3, <2>3, <3>1, <3>2 DEF OutNoted
    <3>3. ASSUME NEW k \in 1 .. argi, IsOut(k), out.path = args[k].path,
                 \A j \in k + 1 .. argi : ~IsOut(j)
          PROVE  OutNoted'
      <4>1. k \in 1 .. argi + 1 /\ \A j \in k + 1 .. argi + 1 : j \in k + 1 .. argi \/ j = argi + 1
        BY <2>3
      <4>2. \A j \in k + 1 .. argi + 1 : ~IsOut(j)
        BY <2>3, <3>3, <4>1
      <4> QED
        BY <1>1, <1>3, <2>3, <3>3, <4>1, <4>2 DEF OutNoted
    <3> QED
      BY <1>2, <2>3, <3>2, <3>3 DEF OutNoted
  <2> QED
    BY <2>1, <2>2, <2>3 DEF Ends
<1> QED
  BY <1>4, <1>5, <1>6

(* An argument of bra: a -o counts from here on.                           *)
LEMMA OutputOption == OutputInv /\ InputTypesInv' /\ prog = "bra" /\ ParseOption => OutputInv'
<1> SUFFICES ASSUME OutputInv, InputTypesInv', prog = "bra", ParseOption PROVE OutputInv'
  OBVIOUS
<1>1. /\ pc = "args" /\ pc' = pc /\ argi' = argi + 1 /\ argi \in Nat /\ UNCHANGED <<launch, dirs>>
      /\ out' = IF Arg.kind \in {"out", "out./"}
                  THEN [path |-> Arg.path, dotted |-> Arg.kind = "out./"]
                  ELSE out
  BY DEF ParseOption, Parsing, NextArg, disk, OutputInv, InputTypesInv, UnbraInv
<1>2. args' = args /\ Arg = args[argi + 1] /\ prog' = prog
  BY <1>1 DEF args, Arg, prog
<1>3. OutNoted'
  <2>1. CASE Arg.kind \in {"out", "out./"}
    <3>1. out'.path = args[argi + 1].path /\ IsOut(argi + 1) /\ \A k : IsOut(k)' = IsOut(k)
      BY <1>1, <1>2, <2>1 DEF IsOut
    <3>2. argi + 1 \in 1 .. argi + 1 /\ argi + 1 + 1 .. argi + 1 = {}
      BY <1>1
    <3> QED
      BY <1>1, <1>2, <3>1, <3>2 DEF OutNoted
  <2>2. CASE Arg.kind \notin {"out", "out./"}
    <3>1. out' = out /\ ~IsOut(argi + 1) /\ \A k : IsOut(k)' = IsOut(k)
      BY <1>1, <1>2, <2>2 DEF IsOut
    <3>2. \A k \in Nat : k \in 1 .. argi + 1 => k \in 1 .. argi \/ k = argi + 1
      BY <1>1
    <3>3. OutNoted
      BY DEF OutputInv
    <3>4. CASE out = NoOut /\ \A k \in 1 .. argi : ~IsOut(k)
      BY <1>1, <3>1, <3>2, <3>4 DEF OutNoted
    <3>5. ASSUME NEW k \in 1 .. argi, IsOut(k), out.path = args[k].path,
                 \A j \in k + 1 .. argi : ~IsOut(j)
          PROVE  OutNoted'
      <4>1. k \in 1 .. argi + 1 /\ \A j \in k + 1 .. argi + 1 : j \in k + 1 .. argi \/ j = argi + 1
        BY <1>1
      <4>2. \A j \in k + 1 .. argi + 1 : ~IsOut(j)
        BY <3>1, <3>5, <4>1
      <4> QED
        BY <1>1, <1>2, <3>1, <3>5, <4>1, <4>2 DEF OutNoted
    <3> QED
      BY <1>1, <3>3, <3>4, <3>5 DEF OutNoted
  <2> QED
    BY <2>1, <2>2
<1> QED
  BY <1>1, <1>3 DEF OutputInv, OutAdjusted, OutThere

LEMMA OutputParseOK ==
  OutputInv /\ InputTypesInv' /\ prog = "bra" /\ (ParseFile \/ ParseDir \/ ParseGlob \/ ParseUnknown)
    => OutputInv'
<1> SUFFICES ASSUME OutputInv, InputTypesInv', prog = "bra",
                    ParseFile \/ ParseDir \/ ParseGlob \/ ParseUnknown
             PROVE  OutputInv'
  OBVIOUS
<1>1. CASE ParseUnknown
  BY <1>1, OutputLeft DEF ParseUnknown, Refuse, Refused, Goto, disk, iown, given, Ends
<1>2. CASE ParseFile \/ ParseDir \/ ParseGlob
  <2>1. /\ pc = "args" /\ pc' = pc /\ argi' = argi + 1 /\ argi \in Nat
        /\ UNCHANGED <<launch, dirs, out, sfx>> /\ Arg.kind \in {"path", "glob"}
    BY <1>2 DEF ParseFile, ParseDir, ParseGlob, Add, Parsing, NextArg, disk, given, OutputInv, InputTypesInv, UnbraInv
  <2>2. ~IsOut(argi + 1)
    BY <2>1 DEF IsOut, Arg
  <2> QED
    BY <2>1, <2>2, OutputLeft
<1> QED
  BY <1>1, <1>2

(* The last -o becomes the name of the archive.                            *)
LEMMA OutputDirsOK == OutputInv /\ InputTypesInv' /\ prog = "bra" /\ AddDirs => OutputInv'
<1> SUFFICES ASSUME OutputInv, InputTypesInv', prog = "bra", AddDirs PROVE OutputInv'
  OBVIOUS
<1>1. CASE Refuse
  BY <1>1, OutputLeft DEF Refuse, Refused, Goto, disk, iown, given, Ends
<1>2. CASE ~Refuse
  <2>1. /\ pc = "args" /\ argi = Len(args) /\ out # NoOut /\ out'.path = Adjusted
        /\ pc' \in {"module", "output"} /\ UNCHANGED <<launch, sfx, dirs>>
    BY <1>2 DEF AddDirs, Parsed, Goto, disk
  <2>2. Len(args) \in Nat /\ OwnTypes /\ OutNoted
    BY <2>1 DEF OutputInv, InputTypesInv, UnbraInv
  <2>3. PICK k \in 1 .. argi :
          IsOut(k) /\ out.path = args[k].path /\ \A j \in k + 1 .. argi : ~IsOut(j)
    BY <2>1, <2>2 DEF OutNoted
  <2>4. Asked = out.path
    BY <2>1, <2>2, <2>3, AskedIs
  <2>5. Asked \in Path \ {<<>>}
    BY <2>1, <2>2, <2>4 DEF OwnTypes
  <2>6. Asked' = Asked
    BY <2>1 DEF Asked, args
  <2>7. OutAdjusted'
    BY <2>1, <2>4, <2>5, <2>6 DEF OutAdjusted, Adjusted
  <2> QED
    BY <2>1, <2>7 DEF OutputInv, OutNoted, OutThere
<1> QED
  BY <1>1, <1>2

LEMMA ParentShorter ==
  ASSUME NEW p \in Path \ {<<>>}
  PROVE  Len(Parent(p)) = Len(p) - 1 /\ Len(p) \in Nat
<1>1. Len(p) \in Nat /\ Len(p) # 0
  BY PathParts
<1>2. Len(p) - 1 \in 0 .. Len(p)
  BY <1>1
<1> QED
  BY <1>1, <1>2, PathParts DEF Parent

LEMMA OnItsWay == ASSUME NEW p \in Path PROVE p = <<>> \/ p \in Ways(p)
<1>1. Len(p) \in Nat /\ SubSeq(p, 1, Len(p)) = p /\ (p = <<>> <=> Len(p) = 0)
  BY PathParts
<1>2. p # <<>> => Len(p) \in 1 .. Len(p)
  BY <1>1
<1> QED
  BY <1>1, <1>2, Zenon DEF Ways

(* The directory of the output is there, or is made.                       *)
LEMMA OutputOutputOK == OutputInv /\ InputTypesInv' /\ prog = "bra" /\ AskOutput => OutputInv'
<1> SUFFICES ASSUME OutputInv, InputTypesInv', prog = "bra", AskOutput PROVE OutputInv'
  OBVIOUS
<1>1. CASE Refuse
  BY <1>1, OutputLeft DEF Refuse, Refused, Goto, disk, iown, given, Ends
<1>2. CASE ~Refuse
  <2>1. PICK answer \in Answers(Final) :
          CASE answer = "no" -> Refuse
            [] answer = "yes" ->
                 /\ mfiles' = mfiles \ Erased
                 /\ Goto("tree")
                 /\ UNCHANGED <<given, tree, total>>
            [] OTHER ->
                 IF Ways(Parent(out.path)) \cap files # {}
                   THEN Refuse
                   ELSE /\ dirs' = dirs \union Ways(Parent(out.path))
                        /\ pc' = "tree"
                        /\ UNCHANGED <<launch, argi, policy, files, vanished, iown>>
    BY DEF AskOutput
  <2>2. /\ pc = "output" /\ OutAdjusted /\ Seen /\ sfx \in BOOLEAN
        /\ launch \in Launches
    BY DEF AskOutput, OutputInv, InputTypesInv, SelectInv, OwnTypes
  <2>3. /\ Final \in Path \ {<<>>} /\ out.path \in Path \ {<<>>} /\ Parent(Final) = Parent(out.path)
    <3>1. PICK a : a = Asked
      OBVIOUS
    <3>2. a \in Path \ {<<>>} /\ out.path = IF sfx THEN filename_sfx_adjust(a) ELSE filename_archive_adjust(a)
      BY <2>2, <3>1 DEF OutAdjusted
    <3>3. CASE sfx
      <4>1. out.path = filename_sfx_adjust(a) /\ Final = ReplaceExtension(out.path, "brx")
        BY <3>2, <3>3 DEF Final
      <4> QED
        BY <3>2, <4>1, NameOfSfx
    <3>4. CASE ~sfx
      <4>1. out.path = filename_archive_adjust(a) /\ Final = out.path
        BY <3>2, <3>4 DEF Final
      <4> QED
        BY <3>2, <4>1, ArchiveName
    <3> QED
      BY <3>3, <3>4
  <2>4. /\ pc' = "tree" /\ UNCHANGED <<launch, out, sfx>> /\ dirs \subseteq dirs'
        /\ Parent(Final) \in dirs'
    <3>1. <<>> \in dirs
      BY <2>2, ProgramAssumption DEF Seen
    <3>2. CASE answer = "yes"
      <4>1. /\ pc' = "tree" /\ UNCHANGED <<launch, out, sfx, dirs>>
        BY <2>1, <3>2 DEF Goto, disk, given
      <4>2. Final \in launch.files
        BY <2>2, <3>2 DEF Answers, Seen
      <4>3. Parent(Final) = <<>> \/ (Parent(Final) \in Ways(Final) /\ Parent(Final) # Final)
        <5>1. Parent(Final) = <<>> \/ Parent(Final) \in Ways(Final)
          BY <2>2, <2>3, <4>2, WaysThere
        <5>2. Len(Parent(Final)) = Len(Final) - 1 /\ Len(Final) \in Nat
          BY <2>3, ParentShorter
        <5>3. Parent(Final) # Final
          BY <5>2
        <5> QED
          BY <5>1, <5>3
      <4>4. Parent(Final) \in dirs
        BY <2>2, <3>1, <4>2, <4>3, WaysThere DEF Seen
      <4> QED
        BY <4>1, <4>4
    <3>3. CASE answer # "yes"
      <4>1. /\ pc' = "tree" /\ UNCHANGED <<launch, out, sfx>>
            /\ dirs' = dirs \union Ways(Parent(out.path))
        BY <1>2, <2>1, <3>3 DEF iown, given
      <4>2. Parent(out.path) = <<>> \/ Parent(out.path) \in Ways(Parent(out.path))
        BY <2>3, OnItsWay, ParentIsPath
      <4> QED
        BY <2>3, <3>1, <4>1, <4>2
    <3> QED
      BY <3>2, <3>3
  <2>5. Asked' = Asked /\ Final' = Final
    BY <2>4 DEF Asked, args, Final
  <2>6. OutAdjusted'
    BY <2>2, <2>4, <2>5 DEF OutAdjusted
  <2> QED
    BY <2>4, <2>5, <2>6 DEF OutputInv, OutNoted, OutThere
<1> QED
  BY <1>1, <1>2

LEMMA OutputStepOK == OutputInv /\ [Next]_vars => OutputInv'
<1> SUFFICES ASSUME OutputInv, [Next]_vars PROVE OutputInv'
  OBVIOUS
<1>1. InputTypesInv'
  BY InputTypesStepOK DEF OutputInv
<1>2. CASE Common
  <2>1. /\ UNCHANGED <<launch, out, sfx, dirs>>
        /\ \/ pc' \in Ends \/ (pc' = pc /\ argi' = argi)
           \/ /\ pc = "args" /\ pc' = pc /\ argi' = argi + 1 /\ argi \in Nat
              /\ Arg.kind \in {"yes", "no"}
    BY <1>2 DEF Common, ParseHelp, ParsePolicy, ParseUnknownOption, Vanish, Refused, Goto, NextArg,
                Parsing, disk, iown, given, Ends, OutputInv, InputTypesInv, UnbraInv
  <2>2. Arg.kind \in {"yes", "no"} => ~IsOut(argi + 1)
    BY DEF IsOut, Arg
  <2> QED
    BY <1>1, <2>1, <2>2, OutputLeft
<1>3. CASE Bra
  <2>1. prog = "bra" /\ INext
    BY <1>3 DEF Bra
  <2>2. CASE FindModule \/ AskTemporary
    BY <1>1, <2>2, OutputLeft
       DEF FindModule, AskTemporary, Refuse, Refused, Goto, disk, iown, given, Ends
  <2>3. CASE MakeTree
    BY <1>1, <2>3, OutputLeft DEF MakeTree, Refuse, Refused, Goto, disk, iown, given, Ends
  <2> QED
    BY <1>1, <2>1, <2>2, <2>3, OutputOption, OutputParseOK, OutputDirsOK, OutputOutputOK DEF INext
<1>4. CASE Unbra
  <2>1. prog' # "bra"
    BY <1>4, LaunchKept DEF Unbra, prog
  <2> QED
    BY <1>1, <2>1 DEF OutputInv
<1>5. CASE Done \/ UNCHANGED vars
  <2>1. UNCHANGED <<launch, out, sfx, dirs, pc, argi>>
    BY <1>5 DEF Done, vars, pvars, disk, iown, given
  <2> QED
    BY <1>1, <2>1, OutputLeft
<1> QED
  BY <1>2, <1>3, <1>4, <1>5 DEF Next

(* Whatever the launch and the disk, the archive is made where the user    *)
(* said and under the name that was asked for, in a directory that is      *)
(* there, and what is written first is next to it.                         *)
THEOREM OutputNamed == Spec => []OutputWhereNamed
<1>1. Init => OutputInv
  <2> SUFFICES ASSUME Init PROVE OutputInv
    OBVIOUS
  <2>1. out = NoOut /\ argi = 0 /\ pc = "args"
    BY DEF Init, PInit, IInit
  <2>2. 1 .. argi = {}
    BY <2>1
  <2> QED
    BY <2>1, <2>2, InputTypesInitOK DEF OutputInv, OutNoted, OutAdjusted, OutThere
<1>2. OutputInv /\ [Next]_vars => OutputInv'
  BY OutputStepOK
<1> QED
  BY <1>1, <1>2, OutputGives, PTL DEF Spec
=============================================================================
