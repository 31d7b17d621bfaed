--------------------------- MODULE MCBraArchive ---------------------------
(***************************************************************************)
(* Instances of BraArchive for TLC.                                        *)
(***************************************************************************)
EXTENDS BraArchive

CONSTANTS
  MaxEntries,   \* bound on the entries of an input
  FirstFiles,   \* what the first file of an input may contain
  OtherFiles    \* what the others may contain

MCName == {"a", "b", "f"}

(* short encodes well, long does not, big has an RLE form that is larger   *)
(* than a chunk may be and yet compresses; old is what is there before.    *)
MCChunk == {"short", "long", "big", "old"}
MCRawSize == [c \in MCChunk |-> IF c = "long" THEN 2 ELSE 4]
MCEncSize == [c \in MCChunk |-> CASE c = "short" -> 2 [] OTHER -> 3]
MCOversized == {"big"}

Dir(p) == [kind |-> "dir", path |-> p, chunks |-> <<>>]
File(p, c) == [kind |-> "file", path |-> p, chunks |-> c]

(* Directories and files of two levels, in the order m_tree is visited. *)
Slots(c, d) == << File(<<"f">>, c), Dir(<<"a">>), File(<<"a", "f">>, d),
                  Dir(<<"a", "b">>), File(<<"a", "b", "f">>, d), Dir(<<"b">>),
                  Dir(<<"b", "b">>) >>

Select(s, K) ==
  LET sel[k \in 0 .. Len(s)] ==
        IF k = 0 THEN <<>>
        ELSE IF k \in K THEN Append(sel[k - 1], s[k]) ELSE sel[k - 1]
  IN  sel[Len(s)]

MCInputs ==
  {s \in {Select(Slots(c, d), K) : c \in FirstFiles, d \in OtherFiles,
             K \in {J \in SUBSET (1 .. 7) : Cardinality(J) <= MaxEntries}} : IsPlan(s)}

Old == <<Raw("old")>>
Files(P) == [p \in P |-> Old]

MCDisks ==
  { [files |-> Files({}), dirs |-> {}],
    [files |-> Files({<<"f">>, <<"a", "f">>}), dirs |-> {<<"a">>}],
    [files |-> Files({<<"a">>}), dirs |-> {<<"f">>}] }

EmptyDisk == {[files |-> Files({}), dirs |-> {}]}

AllContents == {<<>>, <<"short">>, <<"long">>, <<"short", "long">>, <<"big">>}
SoundContents == {<<"long">>, <<"short", "long">>}
OneContent == {<<"short">>}

Extracting == {"extract"}
Looking == {"test", "list"}
============================================================================
