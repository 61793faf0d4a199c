---------------------------- MODULE MCGithubBudget ----------------------------
(***************************************************************************)
(* GithubBudget for TLC: the daemon, with the wide policy and a main-watch *)
(* request of priority, and an agent, with the narrow one and a ceiling.   *)
(***************************************************************************)
EXTENDS GithubBudget

Asked(who, res) ==
    [who |-> who, res |-> res, family |-> "pulls", priority |-> 0, ignoreCooldown |-> FALSE,
     key |-> NoKey, ignoreClaim |-> FALSE, billable |-> TRUE]
MCRequests ==
    { [Asked("daemon", "core") EXCEPT !.priority = 1, !.ignoreCooldown = TRUE, !.key = "pr"],
      [Asked("agent", "core") EXCEPT !.key = "pr"],
      [Asked("agent", Unknown) EXCEPT !.key = "pr", !.ignoreClaim = TRUE] }

OfConsumers(daemon, agent) == [c \in Consumers |-> IF c = "daemon" THEN daemon ELSE agent]
MCInflight == OfConsumers(2, 1)
MCRpm == OfConsumers(3, 1)
MCStagger == OfConsumers(0, 1)
MCCeiling == OfConsumers([r \in Resources |-> 0], [r \in Resources |-> 1])
=============================================================================
