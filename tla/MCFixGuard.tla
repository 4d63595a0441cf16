----------------------------- MODULE MCFixGuard -----------------------------
(***************************************************************************)
(* Interchangeable turns.                                                  *)
(***************************************************************************)
EXTENDS FixGuard, TLC

TurnSymmetry == Permutations(Turns)
=============================================================================
