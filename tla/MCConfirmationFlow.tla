------------------------- MODULE MCConfirmationFlow -------------------------
(***************************************************************************)
(* Small instances of ConfirmationFlow for TLC.  The users and presses are *)
(* interchangeable in the safety run.                                      *)
(***************************************************************************)
EXTENDS ConfirmationFlow, TLC

Symmetry == Permutations(Actions) \cup Permutations(Users) \cup Permutations(Presses)
=============================================================================
