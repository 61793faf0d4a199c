-------------------------- MODULE MCStoreConnection --------------------------
(***************************************************************************)
(* StoreConnection for TLC.  Four pools are enough for one in use, two     *)
(* left behind and one whose EXIT is still in the mailbox.                 *)
(***************************************************************************)
EXTENDS StoreConnection

ASSUME EnoughPools == Cardinality(Conns) >= MaxDropped + 2
=============================================================================
