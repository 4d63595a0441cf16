------------------------------ MODULE MCMemory ------------------------------
(***************************************************************************)
(* Interchangeable turns and chats.                                        *)
(***************************************************************************)
EXTENDS Memory, TLC

TurnSymmetry == Permutations(Turns)
Interchangeable == Permutations(Turns) \union Permutations(Chats)
=============================================================================
