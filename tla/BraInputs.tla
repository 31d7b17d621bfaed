----------------------------- MODULE BraInputs -----------------------------
(***************************************************************************)
(* bra: from the command line to the list of entries to archive            *)
(* (prog/bra.cpp parseArgs_* and validateArgs, fs/bra_fs.cpp search,       *)
(* file_set_add_dirs and make_tree).  Options count from where they stand: *)
(* a directory before -r is not searched.                                  *)
(***************************************************************************)
EXTENDS BraProgram

VARIABLES
  recursive,  \* m_recursive
  sfx,        \* m_sfx
  out,        \* m_out_filename: [path, dotted], dotted if spelled "./"
  mfiles,     \* m_files
  tree,       \* m_tree: directory -> names of the files in it
  total       \* m_tot_files

given == <<recursive, sfx, out>>
iown == <<given, mfiles, tree, total>>
ivars == <<pvars, iown>>

Phases == {"args", "module", "tmp", "output", "tree", "ready"} \union Ends

(* No -o yet *)
NoOut == [path |-> <<>>, dotted |-> FALSE]

ITypeOK ==
  /\ argi \in 0 .. Len(args)
  /\ policy \in {"ask", "yes", "no"}
  /\ files \subseteq Path /\ dirs \subseteq Path /\ files \cap dirs = {}
  /\ prog = "bra" => pc \in Phases
  /\ vanished \in 0 .. MaxVanished
  /\ recursive \in BOOLEAN /\ sfx \in BOOLEAN
  /\ out.path \in Path /\ out.dotted \in BOOLEAN
  /\ mfiles \subseteq Path
  /\ DOMAIN tree \subseteq Path
  /\ \A d \in DOMAIN tree : tree[d] \subseteq DOMAIN Rank
  /\ total \in Nat

IInit ==
  /\ recursive = FALSE /\ sfx = FALSE /\ out = NoOut
  /\ mfiles = {} /\ tree = <<>> /\ total = 0

(* return false: exit status 1, nothing was written. *)
Refuse == Refused /\ UNCHANGED iown

(* parseArgs goes on with the paths P in m_files. *)
Add(P) ==
  /\ mfiles' = mfiles \union P
  /\ NextArg
  /\ UNCHANGED <<policy, given, tree, total>>

(* Bra::parseArgs_option *)
ParseOption ==
  /\ Parsing /\ Arg.kind \in Options
  /\ recursive' = (recursive \/ Arg.kind = "recursive")
  /\ sfx' = (sfx \/ Arg.kind = "sfx")
  /\ out' = IF Arg.kind \in {"out", "out./"}
              THEN [path |-> Arg.path, dotted |-> Arg.kind = "out./"]
              ELSE out
  /\ NextArg
  /\ UNCHANGED <<policy, mfiles, tree, total>>

----------------------------------------------------------------------------
(* bra::fs::search: the entries of a directory that match, those that are  *)
(* directories only with recursion, and what the search of each of them    *)
(* finds.  (And a search that enters only what matches, and one that adds  *)
(* what it enters.)                                                        *)
In(d) == {p \in files \union dirs : p # <<>> /\ Parent(p) = d}

MatchesIn(d, names) == {p \in In(d) : p[Len(p)] \in names /\ (p \in dirs => recursive)}

SearchMatching(dir, names) ==
  LET found[d \in dirs] ==
        MatchesIn(d, names) \union
        (IF recursive THEN UNION {found[s] : s \in MatchesIn(d, names) \cap dirs} ELSE {})
  IN  found[dir]

SearchAdding(dir, names) ==
  LET found[d \in dirs] ==
        MatchesIn(d, names) \union
        (IF recursive THEN UNION {{s} \union found[s] : s \in In(d) \cap dirs} ELSE {})
  IN  found[dir]

Search(dir, names) ==
  LET found[d \in dirs] ==
        MatchesIn(d, names) \union
        (IF recursive THEN UNION {found[s] : s \in In(d) \cap dirs} ELSE {})
  IN  found[dir]

(* Bra::parseArgs_file *)
ParseFile ==
  /\ Parsing /\ Arg.kind = "path" /\ Arg.path \in files
  /\ Add({Arg.path})

(* Bra::parseArgs_dir: without -r it is ignored; a directory that is in    *)
(* m_files already is only warned about.                                   *)
ParseDir ==
  /\ Parsing /\ Arg.kind = "path" /\ Arg.path \in dirs
  /\ Add(IF recursive /\ Arg.path \notin mfiles
           THEN {Arg.path} \union Search(Arg.path, DOMAIN Rank) ELSE {})

(* Bra::parseArgs_wildcards: search_wildcard *)
ParseGlob ==
  /\ Parsing /\ Arg.kind = "glob" /\ Arg.path \in dirs
  /\ Add(Search(Arg.path, Arg.names))

(* There is no such path, or no such directory to search. *)
ParseUnknown ==
  /\ Parsing
  /\ \/ Arg.kind = "path" /\ ~Exists(Arg.path)
     \/ Arg.kind = "glob" /\ Arg.path \notin dirs
  /\ Refuse

----------------------------------------------------------------------------
(* bra::fs::file_set_add_dirs: every directory on the way to a path.  (And *)
(* one that takes the paths as they are.)                                  *)
WithoutDirs(P) == P \ {<<>>}
WithDirs(P) == UNION {Ways(p) : p \in P}

(* The name the archive is written under: the temporary one of an SFX. *)
Adjusted == IF sfx THEN filename_sfx_adjust(out.path) ELSE filename_archive_adjust(out.path)

(* A "./" goes with the directory that path::stem drops. *)
StillDotted == out.dotted /\ ~(sfx /\ Extension(out.path) = "brx")

(* The head of Bra::validateArgs, up to the adjusted m_out_filename *)
AddDirs ==
  /\ Parsed
  /\ IF mfiles = {} \/ (\E p \in mfiles \ {<<>>} : ~Exists(p)) \/ out = NoOut
       THEN Refuse
       ELSE /\ mfiles' = WithDirs(mfiles)
            /\ out' = [path |-> Adjusted, dotted |-> StillDotted]
            /\ Goto(IF sfx THEN "module" ELSE "output")
            /\ UNCHANGED <<recursive, sfx, tree, total>>

(* The SFX module bra.sfx has to be in the current directory. *)
FindModule ==
  /\ pc = "module"
  /\ \/ Goto("tmp") /\ UNCHANGED iown
     \/ Refuse

(* file_exists_ask_overwrite, single_overwrite *)
AskTemporary ==
  /\ pc = "tmp"
  /\ \E answer \in Answers(out.path) :
       IF answer = "no" THEN Refuse ELSE Goto("output") /\ UNCHANGED iown

(* The output, which for an SFX is not what is written first. *)
Final == IF sfx THEN ReplaceExtension(out.path, "brx") ELSE out.path

(* m_files.erase(p) and erase(m_out_filename): a path of m_files is never  *)
(* spelled with "./", so an output that is erases nothing.  (And one that  *)
(* forgets the first.)                                                     *)
ErasedOutName == IF out.dotted THEN {} ELSE {out.path}
Erased == IF out.dotted THEN {} ELSE {Final, out.path}

(* The output is there and may be overwritten, or its directory is made. *)
AskOutput ==
  /\ pc = "output"
  /\ \E answer \in Answers(Final) :
       CASE answer = "no" -> Refuse
         [] answer = "yes" ->
              /\ mfiles' = mfiles \ Erased
              /\ Goto("tree")
              /\ UNCHANGED <<given, tree, total>>
         [] OTHER ->
              IF Ways(Parent(out.path)) \cap files # {}
                THEN Refuse
                ELSE /\ dirs' = dirs \union Ways(Parent(out.path))
                     /\ pc' = "tree"
                     /\ UNCHANGED <<launch, argi, policy, files, vanished, iown>>

(* bra::fs::make_tree, and the count of its entries.  (And one that keeps  *)
(* the paths of the files for their names.)                                *)
PathsUnder(d) == {p \in mfiles \cap files : Parent(p) = d}
FilesUnder(d) == {NameOf(p) : p \in {q \in mfiles \cap files : Parent(q) = d}}
Tree == [d \in (mfiles \cap dirs) \union {Parent(p) : p \in mfiles \cap files} |-> FilesUnder(d)]

MakeTree ==
  /\ pc = "tree"
  /\ IF mfiles = {} \/ \E p \in mfiles : ~Exists(p)
       THEN Refuse
       ELSE /\ tree' = Tree
            /\ total' = Cardinality(mfiles)
            /\ mfiles' = {}
            /\ Goto("ready")
            /\ UNCHANGED given

INext ==
  \/ ParseOption \/ ParseFile \/ ParseDir \/ ParseGlob \/ ParseUnknown
  \/ AddDirs \/ FindModule \/ AskTemporary \/ AskOutput \/ MakeTree

----------------------------------------------------------------------------
(* The order of std::map and std::set: names by rank, paths name by name. *)
PathLess(p, q) ==
  \/ Below(p, q)
  \/ \E k \in 1 .. Len(p) :
       /\ k <= Len(q) /\ SubSeq(p, 1, k - 1) = SubSeq(q, 1, k - 1)
       /\ Rank[p[k]] < Rank[q[k]]

(* What there is in m_tree, and the order in which run_prog visits it:     *)
(* directory by directory, the directory (that is an entry unless it is    *)
(* the current one) before the files in it.                                *)
Entries ==
  {[kind |-> "dir", path |-> d] : d \in DOMAIN tree \ {<<>>}} \union
  UNION {{[kind |-> "file", path |-> Append(d, n)] : n \in tree[d]} : d \in DOMAIN tree}

DirOf(e) == IF e.kind = "dir" THEN e.path ELSE Parent(e.path)

VisitedBefore(e, g) ==
  \/ PathLess(DirOf(e), DirOf(g))
  \/ /\ DirOf(e) = DirOf(g) /\ g.kind = "file"
     /\ e.kind = "dir" \/ Rank[NameOf(e.path)] < Rank[NameOf(g.path)]

(* S in the order R, a set of pairs.                                       *)
Sorted(S, R) ==
  [k \in 1 .. Cardinality(S) |->
     CHOOSE x \in S : Cardinality({y \in S : <<y, x>> \in R}) = k - 1]

Visited == Sorted(Entries, {r \in Entries \X Entries : VisitedBefore(r[1], r[2])})

----------------------------------------------------------------------------
(* A directory has the name of the temporary file of an SFX.  Erasing it   *)
(* from m_files leaves what is below it without its way; run_prog can then *)
(* not copy the SFX module to it and writes nothing.                       *)
TemporaryIsDirectory == sfx /\ out.path \in dirs

(* What the writer assumes of its input: whatever was given on the command *)
(* line, vanished or was erased, run_prog visits every directory before    *)
(* what is in it and each file right after its directory, and it visits as *)
(* many entries as the header says.                                        *)
VisitIsPlan ==
  prog = "bra" /\ pc = "ready" /\ ~TemporaryIsDirectory =>
    IsPlan(Visited) /\ Len(Visited) = total

Selected == {e.path : e \in Entries}

(* Option -r was given before argument k, and somewhere. *)
RecursiveAt(k) == \E j \in 1 .. k - 1 : args[j].kind = "recursive"
RecursiveEver == RecursiveAt(Len(args) + 1)

(* What argument k stands for, however it got into m_files, if r says that *)
(* directories are entered.                                                *)
Matching(dir, names, r) ==
  {p \in files \union launch.dirs :
     /\ Below(dir, p) /\ NameOf(p) \in names
     /\ r \/ (Parent(p) = dir /\ p \in files)}

Meant(k, r) ==
  CASE args[k].kind = "glob" -> Matching(args[k].path, args[k].names, r)
    [] args[k].kind = "path" ->
         IF args[k].path \in files THEN {args[k].path}
         ELSE IF r THEN {args[k].path} \union Matching(args[k].path, DOMAIN Rank, r)
         ELSE {}
    [] OTHER -> {}

(* And the directories on the way. *)
MeantByAll == UNION {UNION {Ways(p) : p \in Meant(k, RecursiveAt(k))} : k \in 1 .. Len(args)}

OfBra == prog = "bra" /\ pc = "ready"

(* Nothing is archived that was not meant: no file by a glob it does not   *)
(* match, no directory but on the way to something meant, nothing below a  *)
(* directory that was given before -r.                                     *)
NothingElse ==
  OfBra /\ vanished = 0 => Selected \subseteq MeantByAll

OutputNames == {Final, out.path}

(* A glob found a directory that is given by name later.                   *)
GlobbedBefore ==
  \E j \in 1 .. Len(args) : \E i \in 1 .. j - 1 :
    /\ args[i].kind = "glob" /\ args[j].kind = "path"
    /\ args[j].path \in Matching(args[i].path, args[i].names, RecursiveAt(i))

(* Everything that was meant is archived but the output itself, unless a   *)
(* glob found a directory that is also given by name, later.               *)
NothingMissing ==
  OfBra /\ vanished = 0 /\ ~GlobbedBefore => MeantByAll \subseteq Selected \union OutputNames

(* "recursively scan files and directories" (the help text of -r): also of *)
(* a directory that a glob found first.                                    *)
RecursiveScansAll ==
  OfBra /\ vanished = 0 /\ RecursiveEver =>
    MeantByAll \subseteq Selected \union OutputNames

(* An archive of the output's name that is to be overwritten is not one of *)
(* the entries, given by name, by a glob or by the directory it is in.     *)
OutputLeftOut ==
  OfBra /\ ~out.dotted => [kind |-> "file", path |-> Final] \notin Entries

(* "check it is not present in the input files" (prog/bra.cpp), of the     *)
(* output however it is spelled, and of the temporary file of an SFX.      *)
OutputNeverInput ==
  OfBra => Selected \cap OutputNames = {}

(* The last -o of the command line. *)
Asked == LET outs == {k \in 1 .. Len(args) : args[k].kind \in {"out", "out./"}}
         IN  args[CHOOSE k \in outs : \A j \in outs : j <= k].path

(* Only a name that ends in .brx, of an SFX, may lose its directory.       *)
LosesDirectory == sfx /\ Extension(Asked) = "brx"

(* A name without the extension, if it has it. *)
Without(name, ext) ==
  IF Len(name) > 1 /\ name[Len(name)] = ext THEN SubSeq(name, 1, Len(name) - 1) ELSE name

(* The archive is made in the directory the user named, which exists by    *)
(* then; an SFX is <stem>.BRa.brx whether the user wrote all of this name, *)
(* its beginning or the stem, and is written next to where it will be.     *)
OutputWhereNamed ==
  OfBra =>
    /\ ~LosesDirectory => Parent(Final) = Parent(Asked)
    /\ sfx => /\ NameOf(Final) =
                   Without(Without(NameOf(Asked), "brx"), "BRa") \o <<"BRa", "brx">>
              /\ Final # out.path /\ Parent(Final) = Parent(out.path)
    /\ ~sfx => Final = out.path /\ Extension(Final) = "BRa"
    /\ Parent(Final) \in dirs
============================================================================
