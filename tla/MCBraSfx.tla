----------------------------- MODULE MCBraSfx -----------------------------
(***************************************************************************)
(* Instances of BraSfx for TLC: the output may be missing, another file,   *)
(* an archive made before (run 0) or a directory.                          *)
(***************************************************************************)
EXTENDS BraSfx

MCInner == {Entries}

MCBefore == {Nothing, EmptyDir, FullDir, File(<<Unit("other", 0, 0)>>), File(Whole(0))}
============================================================================
