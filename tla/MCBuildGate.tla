----------------------------- MODULE MCBuildGate -----------------------------
(***************************************************************************)
(* BuildGate for TLC: builds that want the one slot.                       *)
(***************************************************************************)
EXTENDS BuildGate, TLC

ASSUME TwoBuilds == Cardinality(Builds) >= 2

Symmetry == Permutations(Builds)
=============================================================================
