---------------------------- MODULE MCTicketLease ----------------------------
(***************************************************************************)
(* TicketLease for TLC.  One unit of time is 5 seconds, so the constants   *)
(* of the code are Ttl 6, Margin 1, Interval 2, Grace 4 and CallMax 2.     *)
(***************************************************************************)
EXTENDS TicketLease

(* The cfg files give StartMax the two values that matter: the longest     *)
(* start that the grace absorbs, and the deadline of the GitHub read that  *)
(* the worker's task makes before its watch.                               *)
ASSUME GraceAbsorbsCalls == CallsArePrompt
=============================================================================
