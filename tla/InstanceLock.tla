---------------------------- MODULE InstanceLock ----------------------------
(***************************************************************************)
(* What the leases promise: at any time at most one instance runs (a       *)
(* worker for the ticket, the services of the repository, a generation in  *)
(* the workspace), and a second one starts only after the first has        *)
(* stopped.  Nothing is said here of rows, clocks, receipts or renewals;   *)
(* TicketLease, RepositoryLeader and WorkspaceOwnership show how the code  *)
(* keeps it.                                                               *)
(***************************************************************************)
CONSTANTS Instances, NoInstance

VARIABLE runner          \* the instance that runs

Init == runner = NoInstance

Start(i) == runner = NoInstance /\ runner' = i

Stop == runner # NoInstance /\ runner' = NoInstance

Next == (\E i \in Instances : Start(i)) \/ Stop

Spec == Init /\ [][Next]_runner
=============================================================================
