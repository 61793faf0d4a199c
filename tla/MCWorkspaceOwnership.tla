------------------------ MODULE MCWorkspaceOwnership ------------------------
(***************************************************************************)
(* WorkspaceOwnership for TLC.  Runners take turns and race for one        *)
(* ticket; they are interchangeable.                                       *)
(***************************************************************************)
EXTENDS WorkspaceOwnership, TLC

ASSUME TwoGenerations == MaxGen >= 2

Symmetry == Permutations(Runners)
=============================================================================
