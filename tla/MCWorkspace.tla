---------------------------- MODULE MCWorkspace ----------------------------
EXTENDS Workspace, TLC

TurnSymmetry == Permutations(Turns)
=============================================================================
