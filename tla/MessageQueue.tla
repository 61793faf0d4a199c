---------------------------- MODULE MessageQueue ----------------------------
(* The operator messages queued for one ticket: the queue in the           *)
(* orchestrator's memory, the file of the messages that must survive a     *)
(* restart, the lifecycle fence of the ticket's running entry, and the     *)
(* runner that claims messages, hands them to the provider and settles     *)
(* them at the end of a turn.                                              *)
(*                                                                         *)
(* A key is the message id of a plain message or the action id of a        *)
(* Decision's answer; its sender may retry a send at any time.  Which      *)
(* pending message a claim takes (priority, order, pinned input, kind of   *)
(* checkpoint) is left open.  Event digests, which the same queue carries  *)
(* and which supersede and coalesce one another, are left out.             *)
EXTENDS Naturals, FiniteSets, FiniteSetsExt

CONSTANTS
    Messages,    \* message ids of plain sends
    Answers,     \* action ids of correlated sends
    NoKey,       \* an item that does not exist
    MaxItems,    \* bound: queue items per run of the daemon
    Capacity,    \* messages the file may hold (256)
    MaxFaults,   \* bound: saves that fail
    MaxStops     \* bound: kills of the runner and restarts of the daemon

ASSUME KeysAssumption ==
    Messages \cap Answers = {} /\ NoKey \notin Messages \cup Answers
ASSUME BoundsAssumption ==
    MaxItems \in Nat /\ Capacity \in Nat /\ MaxFaults \in Nat /\ MaxStops \in Nat

Ids == 1..MaxItems
Keys == Messages \cup Answers
Statuses == {"none", "pending", "delivered", "consumed", "failed"}

VARIABLES
    status,    \* what became of each item; "none" before it exists
    key,       \* message_id or action_id of each item
    durable,   \* items with persist_across_restart?
    acked,     \* items with provider_delivered_at
    pending,   \* pending_ids_by_target
    byKey,     \* item_id_by_message_id and item_id_by_action; 0: none
    next,      \* next_id
    file,      \* the items of pending-operator-messages.json
    entry,     \* the ticket's running entry: none, running or parked
    fence,     \* lifecycle_fence.pending_item_ids
    expired,   \* expired_lifecycle_item_ids
    runner,    \* what the runner does; "none" before its start and after its end
    holding,   \* the item it has claimed and not yet handed over; 0: none
    seen,      \* items that a provider has received
    faults, stops

store == <<status, key, durable, acked, pending, byKey, next, file>>
ticket == <<entry, fence, expired>>
worker == <<runner, holding, seen>>
vars == <<store, ticket, worker, faults, stops>>

Init ==
    /\ status = [i \in Ids |-> "none"]
    /\ key = [i \in Ids |-> NoKey]
    /\ durable = {} /\ acked = {} /\ pending = {} /\ file = {}
    /\ byKey = [k \in Keys |-> 0]
    /\ next = 1
    /\ entry = "none" /\ fence = {} /\ expired = {}
    /\ runner = "none" /\ holding = 0 /\ seen = {}
    /\ faults = 0 /\ stops = 0

Fault == faults < MaxFaults /\ faults' = faults + 1
Stop == stops < MaxStops /\ stops' = stops + 1

-----------------------------------------------------------------------------
(* Plausible slips in the code below, each of which TLC must catch.        *)

LiveIfPending(st, ak, du) == {i \in du : st[i] = "pending"} \* a claim leaves the file
OnlyFailed(ids) == {i \in ids \ acked : status[i] = "failed"}  \* claims are forgotten
Forgotten(k) == 0                                 \* the index is not rebuilt

-----------------------------------------------------------------------------
(* The queue and its file.                                                 *)

\* What the file holds after a save: durable messages no provider has yet.
Live(st, ak, du) ==
    {i \in du : st[i] = "pending" \/ (st[i] = "delivered" /\ i \notin ak)}

Delivered == {i \in Ids : status[i] = "delivered"}

With(ids, s) == [i \in Ids |-> IF i \in ids THEN s ELSE status[i]]

\* The items change their status; the file follows if one of them is durable.
Saved(ids, s, ak) ==
    /\ status' = With(ids, s)
    /\ acked' = ak
    /\ file' = IF ids \cap durable = {} THEN file ELSE Live(status', acked', durable)
    /\ UNCHANGED <<key, durable, byKey, next>>

\* A durable item could not be saved: the queue stays as it was.
SaveFails(ids) == ids \cap durable # {} /\ Fault /\ UNCHANGED store

Consumed(ids) == Saved(ids, "consumed", acked) /\ UNCHANGED pending
Failed(ids) == Saved(ids, "failed", acked) /\ UNCHANGED pending

\* A slip: the restored items do not return to the index.
Unindexed(ids) == Saved(ids, "pending", acked \ ids) /\ UNCHANGED pending

Restored(ids) ==
    Saved(ids, "pending", acked \ ids) /\ pending' = pending \cup ids

\* The caller ignores an error: the runner goes on with the queue unchanged.  A
\* call that times out is executed all the same, before the runner's next one.
BestEffort(ids, done) ==
    \/ done /\ UNCHANGED faults
    \/ SaveFails(ids)

\* The claims of a stopped provider that it never acknowledged, queued again
\* without a save.
Unconfirmed(ids) == {i \in ids \ acked : status[i] \in {"delivered", "failed"}}

Recover(ids) ==
    /\ status' = With(Unconfirmed(ids), "pending")
    /\ pending' = pending \cup Unconfirmed(ids)
    /\ UNCHANGED <<key, durable, acked, byKey, next, file>>

-----------------------------------------------------------------------------
(* Sending.                                                                *)

Phase(p, i) == runner' = p /\ holding' = i

NewRunner == entry' = "running" /\ Phase("turn", 0) /\ UNCHANGED seen

\* Item i joins the fence of the entry.  A ticket parked for review is first
\* given a new runner, and with it a new entry.
Fenced(i) ==
    \/ /\ entry # "none"
       /\ fence' = fence \cup {i}
       /\ UNCHANGED <<entry, expired, worker>>
    \/ /\ entry = "parked"
       /\ NewRunner /\ fence' = {i} /\ expired' = {}

\* A new item with key k; du says whether it must survive a restart and ix
\* whether a retry will find it.
Append(k, du, ix) ==
    /\ next \in Ids
    /\ status' = [status EXCEPT ![next] = "pending"]
    /\ key' = [key EXCEPT ![next] = k]
    /\ durable' = IF du THEN durable \cup {next} ELSE durable \ {next}
    /\ acked' = acked \ {next}
    /\ pending' = pending \cup {next}
    /\ byKey' = IF ix THEN [byKey EXCEPT ![k] = next] ELSE byKey
    /\ next' = next + 1

IsNew(k) == byKey[k] = 0

\* To an idle ticket: the message is on disk before its sender hears of it.
SendToIdle(k) ==
    /\ entry = "none"
    /\ Cardinality(Live(status, acked, durable)) < Capacity
    /\ \/ /\ Append(k, TRUE, k \in Messages)
          /\ file' = Live(status', acked', durable')
          /\ UNCHANGED faults
       \/ Fault /\ UNCHANGED store
    /\ UNCHANGED <<ticket, worker, stops>>

\* To a ticket with an entry: the message is fenced until a provider has it.
SendToEntry(k) ==
    /\ Append(k, FALSE, TRUE)
    /\ Fenced(next)
    /\ UNCHANGED <<file, faults, stops>>

\* An answer that failed is sent once more, as the same item, without a save.
RetryFailed(k) ==
    LET i == byKey[k] IN
    /\ status[i] = "failed"
    /\ status' = With({i}, "pending")
    /\ acked' = acked \ {i}
    /\ pending' = pending \cup {i}
    /\ Fenced(i)
    /\ UNCHANGED <<key, durable, byKey, next, file, faults, stops>>

\* A key already queued is answered with its item; only a failed answer is
\* sent again, to an idle ticket as an item of its own.
Send(k) ==
    \/ IsNew(k) /\ (SendToIdle(k) \/ SendToEntry(k))
    \/ /\ ~IsNew(k) /\ k \in Answers
       /\ \/ RetryFailed(k)
          \/ status[byKey[k]] = "failed" /\ SendToIdle(k)

-----------------------------------------------------------------------------
(* The runner's deliveries.                                                *)

\* The claim's reply is awaited without limit, and an error is taken for an
\* empty queue.
Claim(i, next_phase) ==
    /\ i \in pending /\ status[i] = "pending"
    /\ Saved({i}, "delivered", acked) /\ pending' = pending \ {i}
    /\ Phase(next_phase, i)
    /\ UNCHANGED <<ticket, seen, faults, stops>>

\* Between two turns, and when a paused runner is woken.
ClaimNext(i) == runner \in {"draining", "waiting"} /\ Claim(i, "starting")

\* At a checkpoint of the turn that runs.
ClaimMidTurn(i) == runner = "turn" /\ holding = 0 /\ Claim(i, "turn")

\* Nothing to claim but messages held back for a later pull, a claim whose
\* save failed, or a pause that ends by itself.
DrainEnds ==
    /\ runner \in {"draining", "waiting"}
    /\ Phase("closing", 0)
    /\ UNCHANGED <<store, ticket, seen, faults, stops>>

\* The provider has the text: as the prompt of a turn, or during one.
ProviderTakes ==
    /\ holding # 0
    /\ seen' = seen \cup {holding}
    /\ UNCHANGED <<store, ticket, runner, holding, faults, stops>>

\* The first acknowledgement of a message opens the fence for it.
Unfence == IF acked' = acked THEN fence ELSE fence \ {holding}

\* The runner acknowledges what the provider took.
Acknowledge ==
    /\ holding # 0 /\ holding \in seen
    /\ \/ /\ Saved({holding}, status[holding],
                   IF status[holding] = "delivered" THEN acked \cup {holding} ELSE acked)
          /\ fence' = Unfence
          /\ UNCHANGED <<pending, faults>>
       \/ SaveFails({holding}) /\ UNCHANGED fence
    /\ Phase("turn", 0)
    /\ UNCHANGED <<entry, expired, seen, stops>>

\* The claim is given back or fails: its Decision does not accept it, or the
\* provider refused it.
Settle ==
    /\ holding # 0
    /\ BestEffort({holding}, Restored({holding})) \/ BestEffort({holding}, Failed({holding}))
    /\ Phase(IF runner = "starting" THEN "closing" ELSE "turn", 0)
    /\ UNCHANGED <<ticket, seen, stops>>

\* The turn of a queued message could not start: everything delivered is
\* queued again, and a runner that cannot do so crashes.
StartFails ==
    /\ runner = "starting"
    /\ \/ Restored(Delivered) /\ Phase("closing", 0) /\ UNCHANGED faults
       \/ SaveFails(Delivered) /\ Phase("none", 0)
    /\ UNCHANGED <<ticket, seen, stops>>

-----------------------------------------------------------------------------
(* The runner's turns.                                                     *)

StartTurn ==
    /\ runner = "closing"
    /\ Phase("turn", 0)
    /\ UNCHANGED <<store, ticket, seen, faults, stops>>

TurnCompletes ==
    /\ runner = "turn" /\ holding = 0
    /\ BestEffort(Delivered, Consumed(Delivered))
    /\ Phase("draining", 0)
    /\ UNCHANGED <<ticket, seen, stops>>

\* A pause gives everything back, unless the provider had finished its turn.
TurnPauses ==
    /\ \/ runner \in {"starting", "turn"} /\ BestEffort(Delivered, Restored(Delivered))
       \/ runner = "turn" /\ holding = 0 /\ BestEffort(Delivered, Consumed(Delivered))
    /\ Phase("waiting", 0)
    /\ UNCHANGED <<ticket, seen, stops>>

\* A lost session, a refused start or a stopped loop: the runner ends after
\* it gave everything back, or gave up trying.
TurnAborts ==
    /\ runner \in {"starting", "turn"}
    /\ BestEffort(Delivered, Restored(Delivered))
    /\ Phase("none", 0)
    /\ UNCHANGED <<ticket, seen, stops>>

TurnFails ==
    /\ runner \in {"starting", "turn"}
    /\ BestEffort(Delivered, Failed(Delivered))
    /\ Phase("none", 0)
    /\ UNCHANGED <<ticket, seen, stops>>

RunnerEnds ==
    /\ runner = "closing"
    /\ Phase("none", 0)
    /\ UNCHANGED <<store, ticket, seen, faults, stops>>

RunnerKilled ==
    /\ runner # "none" /\ Stop
    /\ Phase("none", 0)
    /\ UNCHANGED <<store, ticket, seen, faults>>

-----------------------------------------------------------------------------
(* The orchestrator's side of the runner.                                  *)

Dispatch ==
    /\ entry = "none"
    /\ NewRunner /\ fence' = {} /\ expired' = {}
    /\ UNCHANGED <<store, faults, stops>>

\* The entry's runner, if any, is killed and a new one gets an entry of its
\* own; only a staged fallback inherits the fence.
Replace ==
    /\ entry # "none"
    /\ Recover(fence \cup expired)
    /\ NewRunner /\ fence' \in {{}, fence} /\ expired' = {}
    /\ UNCHANGED <<faults, stops>>

\* The runner's exit: its fenced claims are queued again.
AgentDown ==
    /\ entry = "running" /\ runner = "none"
    /\ Recover(fence \cup expired)
    /\ \/ entry' = "none" /\ fence' = {} /\ expired' = {}
       \/ entry' = "parked" /\ UNCHANGED <<fence, expired>>
    /\ UNCHANGED <<worker, faults, stops>>

\* A terminal state removes the entry, human review parks it.  The runner is
\* killed first.
Teardown ==
    /\ entry # "none"
    /\ Recover(fence \cup expired)
    /\ \/ entry' = "none" /\ fence' = {}
       \/ entry' = "parked" /\ UNCHANGED fence
    /\ expired' = {}
    /\ Phase("none", 0)
    /\ UNCHANGED <<seen, faults, stops>>

\* Two minutes without a provider open the fence.
FenceExpires ==
    /\ fence # {} /\ runner = "none"
    /\ Recover(fence)
    /\ fence' = {} /\ expired' = expired \cup fence
    /\ UNCHANGED <<entry, worker, faults, stops>>

NextId == Max({0} \cup file) + 1

\* The index of the keys, rebuilt from the file; a later item hides the others.
Reindexed(k) == Max({0} \cup {i \in file : key[i] = k})

\* The daemon restarts: the queue is what the file says, all of it pending.
DaemonRestart ==
    /\ Stop
    /\ status' = [i \in Ids |-> IF i \in file THEN "pending" ELSE "none"]
    /\ key' = [i \in Ids |-> IF i \in file THEN key[i] ELSE NoKey]
    /\ durable' = file /\ pending' = file /\ acked' = {}
    /\ byKey' = [k \in Keys |-> Reindexed(k)]
    /\ next' = NextId
    /\ entry' = "none" /\ fence' = {} /\ expired' = {}
    /\ Phase("none", 0) /\ seen' = seen \cap file
    /\ UNCHANGED <<file, faults>>

-----------------------------------------------------------------------------
Runner ==
    \/ \E i \in Ids : ClaimNext(i) \/ ClaimMidTurn(i)
    \/ DrainEnds \/ ProviderTakes \/ Acknowledge \/ Settle \/ StartFails
    \/ StartTurn \/ TurnCompletes \/ TurnPauses \/ TurnAborts \/ TurnFails
    \/ RunnerEnds

Orchestrator ==
    Dispatch \/ Replace \/ AgentDown \/ Teardown \/ FenceExpires

Next ==
    \/ \E k \in Keys : Send(k)
    \/ Runner \/ RunnerKilled
    \/ Orchestrator \/ DaemonRestart

Spec == Init /\ [][Next]_vars

-----------------------------------------------------------------------------
(* Properties.                                                             *)

\* The queue, its file and the runner keep the shapes the code gives them.
TypeOK ==
    /\ status \in [Ids -> Statuses]
    /\ key \in [Ids -> Keys \cup {NoKey}]
    /\ byKey \in [Keys -> 0..MaxItems]
    /\ next \in 1..(MaxItems + 1)
    /\ durable \subseteq Ids /\ acked \subseteq Ids /\ pending \subseteq Ids
    /\ file \subseteq Ids /\ fence \subseteq Ids /\ expired \subseteq Ids
    /\ seen \subseteq Ids
    /\ entry \in {"none", "running", "parked"}
    /\ runner \in {"none", "turn", "starting", "draining", "waiting", "closing"}
    /\ holding \in 0..MaxItems
    /\ faults \in 0..MaxFaults /\ stops \in 0..MaxStops

\* Whatever requeued it, a pending message is in the index that claims read
\* (agent_queue_store.ex:137, agent_queue_store/target_index.ex:34).
PendingIndexed == \A i \in Ids : status[i] = "pending" => i \in pending

\* A restart neither loses a durable message a runner has claimed nor brings
\* back one that was settled (pending_store.ex:145, calls.ex:348, calls.ex:357).
RestartSafe ==
    /\ \A i \in durable : status[i] = "delivered" /\ i \notin acked => i \in file
    /\ file \subseteq Live(status, acked, durable)

\* A plain message that is sent again, before or after a restart, never
\* becomes a second item (agent_queue_store.ex:97, enqueue.ex:184).
OneItemPerMessage ==
    \A i, j \in Ids :
        status[i] # "none" /\ status[j] # "none" /\ key[i] = key[j] /\ key[i] \in Messages
            => i = j

\* The fence names only messages that still owe an acknowledgement, and so
\* can open (lifecycle_fence.ex:43).
FenceCanOpen == (entry = "none" => fence = {}) /\ fence \cap acked = {}

\* As long as saves succeed, a fenced message is not settled as consumed
\* before a provider has received it (lifecycle_fence.ex:3).
FencedIsSeen ==
    [][\A i \in fence :
        faults = 0 /\ status[i] # "consumed" /\ status'[i] = "consumed" => i \in seen]_vars

\* A consumed message stays so until the daemon restarts.
ConsumedStays ==
    [][\A i \in Ids : status[i] = "consumed" => status'[i] \in {"consumed", "none"}]_vars

=============================================================================
