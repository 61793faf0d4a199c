------------------------- MODULE MCRepositoryLeader -------------------------
(***************************************************************************)
(* RepositoryLeader for TLC.  One unit of time is 5 seconds, so the        *)
(* constants of the code are Ttl 6 and Interval 2; an election's call may  *)
(* take up to 3 (5 s for the instance id and 10 s for the request).        *)
(***************************************************************************)
EXTENDS RepositoryLeader

ASSUME IntervalFits == Interval < Ttl
=============================================================================
