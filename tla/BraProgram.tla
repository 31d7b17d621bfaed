---------------------------- MODULE BraProgram ----------------------------
(***************************************************************************)
(* What bra, unbra and the self-extractor have in common: the command line *)
(* (prog/BraProgram.cpp), the disk they look at, and the rules by which    *)
(* names of archives are made from names of the user (fs/bra_fs.cpp).      *)
(*                                                                         *)
(* A path is a sequence of names, the current directory <<>>; fs::path     *)
(* spells the latter "." or "".  A name is a stem and its extensions: the  *)
(* name x.BRa.brx is <<"x", "BRa", "brx">>.  Files may vanish while a      *)
(* program looks.                                                          *)
(***************************************************************************)
EXTENDS BraPlan, FiniteSets

CONSTANTS
  Rank,        \* [names -> Nat]: the names on the disk, in their order
  Launches,    \* how a program may be started, and on what disk
  MaxVanished  \* bound on the files that vanish

Path == Seq(Seq(STRING) \ {<<>>})

(* An entry of an archive, for those who look for where it ends up. *)
Listed == [kind : {"file", "dir"}, path : Path \ {<<>>}]

Programs == {"bra", "unbra", "bra_sfx"}

(* A path, a glob (a directory and the names that match in it), or an      *)
(* option, of which -o has a path too, with a leading "./" ("out./") or    *)
(* without ("out").                                                        *)
Argument == [kind : STRING, path : Path, names : SUBSET Seq(STRING)]

(* The directories on the way to a path, and it; create_directories makes  *)
(* these.                                                                  *)
Ways(p) == {SubSeq(p, 1, k) : k \in 1 .. Len(p)}

(* A launch has the path of the program itself (argv[0]), and says which   *)
(* files are archives; bra makes none without entries.  The name of an     *)
(* output that begins with "./" goes on.                                   *)
ASSUME ProgramAssumption ==
  /\ \A n \in DOMAIN Rank : Rank[n] \in Nat
  /\ \A n, m \in DOMAIN Rank : Rank[n] = Rank[m] => n = m
  /\ \A l \in Launches :
       /\ l.prog \in Programs /\ l.argv0 \in Path /\ l.args \in Seq(Argument)
       /\ \A k \in 1 .. Len(l.args) : l.args[k].kind = "out./" => l.args[k].path # <<>>
       /\ l.files \subseteq Path /\ l.dirs \subseteq Path
       /\ l.files \cap l.dirs = {} /\ <<>> \in l.dirs /\ IsFiniteSet(l.files \union l.dirs)
       /\ \A p \in l.files \union l.dirs :
            Ways(p) \ {p} \subseteq l.dirs /\ \A i \in 1 .. Len(p) : p[i] \in DOMAIN Rank
       /\ DOMAIN l.archives \subseteq l.files
       /\ \A p \in DOMAIN l.archives : l.archives[p].entries \in Seq(Listed) \ {<<>>}
  /\ MaxVanished \in Nat

(* The extensions that are added to a name are strings (no prover can tell *)
(* this of a string).                                                      *)
ASSUME ExtensionAssumption == {"BRa", "brx", "tmp"} \subseteq STRING

VARIABLES
  launch,   \* the launch; it stays as it is
  argi,     \* how many arguments were parsed (the loop's i)
  policy,   \* m_overwrite_policy
  files,    \* the regular files on the disk
  dirs,     \* the directories on it
  pc,       \* where the program is
  vanished  \* how many files vanished

disk == <<files, dirs, vanished>>
pvars == <<launch, argi, policy, disk, pc>>

prog == launch.prog
args == launch.args

(* The ends of a run: exit status 0 or not. *)
Ends == {"ended", "refused"}

PInit ==
  /\ launch \in Launches
  /\ files = launch.files /\ dirs = launch.dirs
  /\ pc = "args" /\ argi = 0 /\ policy = "ask" /\ vanished = 0

Exists(p) == p \in files \union dirs

Below(dir, p) == Len(dir) < Len(p) /\ SubSeq(p, 1, Len(dir)) = dir

----------------------------------------------------------------------------
(* fs::path::extension, +=, stem (which has no directory), and             *)
(* replace_extension.                                                      *)
NameOf(p) == p[Len(p)]
Extension(p) == IF Len(NameOf(p)) = 1 THEN "" ELSE NameOf(p)[Len(NameOf(p))]
Plus(p, ext) == [p EXCEPT ![Len(p)] = Append(@, ext)]
Bare(p) == [p EXCEPT ![Len(p)] = SubSeq(@, 1, Len(@) - 1)]
Stem(p) == <<NameOf(Bare(p))>>
ReplaceExtension(p, ext) == Plus(Bare(p), ext)

filename_archive_adjust(p) == IF Extension(p) = "BRa" THEN p ELSE Plus(p, "BRa")

(* (And one that puts the extension behind what is there.) *)
sfx_adjust_appending(p) ==
  Plus(IF Extension(p) = "BRa" THEN p ELSE Plus(p, "BRa"), "tmp")

(* With tmp = true, the only way it is called. *)
filename_sfx_adjust(p) ==
  LET q == IF Extension(p) = "brx" THEN Stem(p) ELSE p
  IN  Plus(IF Extension(q) = "BRa" THEN q ELSE Plus(q, "BRa"), "tmp")

----------------------------------------------------------------------------
Arg == args[argi + 1]

Parsing == pc = "args" /\ argi < Len(args)

Parsed == pc = "args" /\ argi = Len(args)

(* The loop goes on. *)
NextArg == argi' = argi + 1 /\ UNCHANGED <<launch, disk, pc>>

(* A step that only goes elsewhere, and return false or an exit status. *)
Goto(phase) == pc' = phase /\ UNCHANGED <<launch, argi, policy, disk>>
Refused == Goto("refused")

(* The options a program has, of those that are modelled. *)
Options == CASE prog = "bra"     -> {"out", "out./", "sfx", "recursive"}
             [] prog = "unbra"   -> {"out", "list", "test"}
             [] prog = "bra_sfx" -> {"out"}

(* --help *)
ParseHelp ==
  /\ Parsing /\ Arg.kind = "help"
  /\ Goto("ended")

(* --yes and --no, by set_overwrite_policy: only one of them, once. *)
ParsePolicy ==
  /\ Parsing /\ Arg.kind \in {"yes", "no"}
  /\ IF policy # "ask"
       THEN Refused
       ELSE policy' = Arg.kind /\ NextArg

(* An unknown option, or -o at the end. *)
ParseUnknownOption ==
  /\ Parsing /\ Arg.kind \notin {"help", "yes", "no", "path", "glob"} \union Options
  /\ Refused

(* What the user may answer about p (file_exists_ask_overwrite): nothing   *)
(* is asked of what is no file.                                            *)
Answers(p) == IF p \notin files THEN {"absent"}
              ELSE CASE policy = "yes" -> {"yes"}
                     [] policy = "no"  -> {"no"}
                     [] OTHER          -> {"yes", "no"}

(* Somebody removes a file. *)
Vanish ==
  /\ pc \notin Ends \union {"ready"} /\ vanished < MaxVanished
  /\ \E p \in files : files' = files \ {p}
  /\ vanished' = vanished + 1
  /\ UNCHANGED <<launch, argi, policy, dirs, pc>>

PNext == ParseHelp \/ ParsePolicy \/ ParseUnknownOption \/ Vanish
============================================================================
