------------------------------ MODULE BraPlan ------------------------------
(***************************************************************************)
(* What the input selection of bra (BraInputs) hands to the session that   *)
(* writes the archive (BraWriter): the entries in the order run_prog       *)
(* visits m_tree, each directory, then its files, then the next directory. *)
(***************************************************************************)
EXTENDS Integers, Sequences

Parent(path) == SubSeq(path, 1, Len(path) - 1)

(* The list is not empty, has no path twice, and the parent directory of   *)
(* every entry before it, with no directory in between when the entry is a *)
(* file: the writer finds files by the last directory it wrote.            *)
IsPlan(s) ==
  /\ s # <<>>
  /\ \A i, j \in 1 .. Len(s) : s[i].path = s[j].path => i = j
  /\ \A i \in 1 .. Len(s) : s[i].kind = "dir" =>
       \/ Parent(s[i].path) = <<>>
       \/ \E j \in 1 .. i - 1 : s[j].kind = "dir" /\ s[j].path = Parent(s[i].path)
  /\ \A i \in 1 .. Len(s) : s[i].kind = "file" =>
       \E j \in 0 .. i - 1 :
         /\ Parent(s[i].path) =
              IF j = 0 THEN <<>> ELSE s[j].path
         /\ j > 0 => s[j].kind = "dir"
         /\ \A k \in j + 1 .. i - 1 : s[k].kind = "file"
============================================================================
