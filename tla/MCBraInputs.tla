---------------------------- MODULE MCBraInputs ----------------------------
(***************************************************************************)
(* Instances of BraPrograms for TLC.                                       *)
(***************************************************************************)
EXTENDS BraPrograms, TLC

CONSTANT MaxPaths   \* bound on the paths and globs among the arguments

(* x is the output, in all its forms; s archives that are there already.   *)
a == <<"a">>
b == <<"b">>
f == <<"f">>
s == <<"s">>
sB == <<"s", "BRa">>
sBx == <<"s", "BRa", "brx">>
x == <<"x">>
xB == <<"x", "BRa">>
xBt == <<"x", "BRa", "tmp">>
xBx == <<"x", "BRa", "brx">>

InOrderOfNames == <<a, b, f, s, sB, sBx, x, xB, xBx, xBt>>

MCRank == [n \in {InOrderOfNames[k] : k \in 1 .. 10} |->
             CHOOSE k \in 1 .. 10 : InOrderOfNames[k] = n]

Opt(o) == [kind |-> o, path |-> <<>>, names |-> {}]
Out(p) == [kind |-> "out", path |-> p, names |-> {}]
OutDotted(p) == [kind |-> "out./", path |-> p, names |-> {}]
Plain(p) == [kind |-> "path", path |-> p, names |-> {}]
Glob(p, N) == [kind |-> "glob", path |-> p, names |-> N]

(* Nothing but a file, two levels of directories with and without an old   *)
(* output and a stale temporary in them, a directory with the name of the  *)
(* temporary, and a file in the way.                                       *)
BraWorlds ==
  { [files |-> {<<f>>}, dirs |-> {<<>>}],
    [files |-> {<<f>>, <<a, b>>, <<a, a, f>>, <<xB>>, <<xBx>>, <<xBt>>},
     dirs  |-> {<<>>, <<a>>, <<a, a>>, <<b>>}],
    [files |-> {<<a, f>>, <<a, xB>>, <<a, xBx>>, <<b, b, f>>, <<xBx>>},
     dirs  |-> {<<>>, <<a>>, <<b>>, <<b, b>>, <<b, a>>, <<xBt>>, <<xBt, a>>}],
    [files |-> {<<b>>, <<a, a, xB>>, <<a, f>>}, dirs |-> {<<>>, <<a>>, <<a, a>>}] }

MCArguments ==
  { Plain(<<>>), Plain(<<f>>), Plain(<<a>>), Plain(<<b>>), Plain(<<a, a>>),
    Glob(<<>>, {a}), Glob(<<>>, {f, xB, xBt}), Glob(<<a>>, {a, b, f, xB, xBt}) }

MCPaths == UNION {[1 .. n -> MCArguments] : n \in 0 .. MaxPaths}

(* No -r, or one anywhere between the paths. *)
WithRecursive(line) ==
  {line} \union
  {SubSeq(line, 1, k) \o <<Opt("recursive")>> \o SubSeq(line, k + 1, Len(line)) :
     k \in 0 .. Len(line)}

(* The options whose place does not matter. *)
MCOptions ==
  { <<Out(<<x>>)>>, <<Out(<<x>>), Opt("no")>>, <<OutDotted(<<x>>)>>, <<Out(<<a, xB>>)>>,
    <<Out(<<b, a, x>>)>>, <<Opt("sfx"), Out(<<x>>)>>, <<Opt("sfx"), Opt("yes"), OutDotted(<<xBx>>)>>,
    <<Opt("sfx"), Out(<<a, x>>)>>, <<Opt("sfx"), Out(<<a, xBx>>)>>, <<Opt("sfx"), Out(<<b, a, xB>>)>> }

BraLines ==
  {l \o o : l \in UNION {WithRecursive(p) : p \in MCPaths}, o \in MCOptions}
  \union
  {<<Plain(<<f>>)>> \o o :
     o \in {<<>>, <<Opt("help")>>, <<Opt("bad")>>, <<Opt("list")>>, <<Out(<<x>>), Out(<<a, x>>)>>,
            <<Opt("sfx"), Out(<<a, <<"x", "f">>>>)>>, <<Opt("sfx"), Out(<<<<"x", "f", "brx">>>>)>>,
            <<Opt("yes"), Opt("no"), Out(<<x>>)>>, <<Opt("yes"), Opt("yes"), Out(<<x>>)>>}}

(* What an archive holds: a directory and a file in it, and a file that    *)
(* has the name of an archive.                                             *)
File(p) == [kind |-> "file", path |-> p]
Dir(p) == [kind |-> "dir", path |-> p]
PlainArchive == [sfx |-> FALSE, entries |-> <<File(<<sB>>), Dir(<<a>>), File(<<a, f>>)>>]
SfxArchive == [sfx |-> TRUE, entries |-> <<File(<<f>>), Dir(<<a>>), File(<<a, sBx>>)>>]

(* Both archives, one of them, one in a directory, one next to a directory *)
(* with the name of an archive, one under the name of the other, a file in *)
(* the way of a directory.                                                 *)
UnbraWorlds ==
  { [files |-> {<<sB>>, <<sBx>>, <<s>>}, dirs |-> {<<>>, <<a>>},
     archives |-> (<<sB>> :> PlainArchive) @@ (<<sBx>> :> SfxArchive)],
    [files |-> {<<sB>>, <<b>>}, dirs |-> {<<>>, <<a>>}, archives |-> <<sB>> :> PlainArchive],
    [files |-> {<<sBx>>, <<a, f>>}, dirs |-> {<<>>, <<a>>}, archives |-> <<sBx>> :> SfxArchive],
    [files |-> {<<a, sBx>>, <<b, sB>>, <<b, f>>}, dirs |-> {<<>>, <<a>>, <<b>>},
     archives |-> (<<a, sBx>> :> SfxArchive) @@ (<<b, sB>> :> PlainArchive)],
    [files |-> {<<sB>>}, dirs |-> {<<>>, <<xB>>}, archives |-> <<sB>> :> PlainArchive],
    [files |-> {<<sB>>, <<b, a>>}, dirs |-> {<<>>, <<b>>}, archives |-> <<sB>> :> SfxArchive] }

UnbraPaths ==
  { <<>>, <<Plain(<<s>>)>>, <<Plain(<<sB>>)>>, <<Plain(<<sBx>>)>>, <<Plain(<<a>>), Plain(<<s>>)>>,
    <<Plain(<<a, s>>)>>, <<Plain(<<x>>), Plain(<<s>>)>>, <<Plain(<<b, s>>), Glob(<<>>, {s})>>, <<Plain(<<sBx>>), Plain(<<sB>>)>>,
    <<Plain(<<b, sB>>), Plain(<<a, sBx>>)>> }

UnbraOptions ==
  { <<>>, <<Opt("yes")>>, <<Opt("no")>>, <<Opt("list")>>, <<Opt("test"), Opt("list"), Out(<<x>>)>>,
    <<Out(<<x>>)>>, <<Out(<<b>>)>>, <<Out(<<a, x>>), Opt("yes")>>, <<Out(<<b, x>>)>>,
    <<Opt("help")>>, <<Opt("sfx")>>, <<Opt("no"), Opt("yes")>> }

UnbraLines == {p \o o : p \in UnbraPaths, o \in UnbraOptions}

SfxLines == UnbraOptions \union {<<Plain(<<a>>)>>, <<Plain(<<sBx>>)>>, <<Plain(<<b>>), Out(<<b>>)>>}

SelfIn(w) == CHOOSE p \in w.files : Extension(p) = "brx" \/ \A q \in w.files : Extension(q) # "brx"

MCLaunches ==
  {[prog |-> "bra", argv0 |-> <<>>, args |-> l, files |-> w.files, dirs |-> w.dirs,
    archives |-> <<>>] : l \in BraLines, w \in BraWorlds}
  \union
  {[prog |-> "unbra", argv0 |-> <<>>, args |-> l, files |-> w.files, dirs |-> w.dirs,
    archives |-> w.archives] : l \in UnbraLines, w \in UnbraWorlds}
  \union
  {[prog |-> "bra_sfx", argv0 |-> SelfIn(w), args |-> l, files |-> w.files, dirs |-> w.dirs,
    archives |-> w.archives] : l \in SfxLines, w \in UnbraWorlds}
============================================================================
