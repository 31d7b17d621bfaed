---------------------------- MODULE BraPrograms ----------------------------
(***************************************************************************)
(* The three programs on one disk, one of them at a time: BraProgram is    *)
(* the base class of all three, BraInputs is bra up to the first byte of   *)
(* the archive, BraUnbra the other two.                                    *)
(***************************************************************************)
EXTENDS BraInputs, BraUnbra

vars == <<pvars, iown, uown>>

Init == PInit /\ IInit /\ UInit

Common ==
  \/ (ParseHelp \/ ParsePolicy \/ ParseUnknownOption) /\ UNCHANGED <<iown, uown>>
  \/ Vanish /\ Forgotten /\ UNCHANGED iown

Bra == prog = "bra" /\ INext /\ UNCHANGED uown

Unbra == prog # "bra" /\ UNext /\ UNCHANGED iown

Done == pc \in Ends \union {"ready"} /\ UNCHANGED vars

Next == Common \/ Bra \/ Unbra \/ Done

Spec == Init /\ [][Next]_vars
============================================================================
