--------------------------- MODULE MCMessageQueue ---------------------------
(***************************************************************************)
(* MessageQueue for TLC: every message may be queued, and one answer once  *)
(* more as an item of its own.                                             *)
(***************************************************************************)
EXTENDS MessageQueue

ASSUME EnoughItems == MaxItems >= Cardinality(Messages) + 2 * Cardinality(Answers)
=============================================================================
