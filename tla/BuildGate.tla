------------------------------- MODULE BuildGate -------------------------------
(***************************************************************************)
(* One build slot (priv/build_gate_holder.py and build_gate/*.bash).  The  *)
(* wrapper of a build takes the slot's flock, publishes the owner record   *)
(* and starts a holder that inherits the descriptor; they talk through     *)
(* small files.  The holder starts the command, and keeps the slot until   *)
(* the command, and the descendants that still do its work, are gone, or   *)
(* until a deadline says that the slot must go back anyway.                *)
(*                                                                         *)
(* The flock belongs to the open file that wrapper and holder share: it is *)
(* free when both have closed it, and at once when the holder unlocks it.  *)
(* A build's processes are its root (the command), a worker that does the  *)
(* build's work, and a session daemon that some credential lookup started  *)
(* and that was adopted by the holder.  A deadline is a wait that may end  *)
(* at any moment: how long it is does not matter here, only that it ends.  *)
(***************************************************************************)
EXTENDS Integers, FiniteSets

CONSTANTS
    Builds,         \* attempts to run a build
    Nobody,
    MaxFaults       \* bound: kills and refusals to die

ASSUME GateAssumption == Nobody \notin Builds /\ MaxFaults \in Nat

VARIABLES
    lock,       \* the build whose open file holds the flock
    open,       \* open[b]: who has the descriptor open
    record,     \* whose token is in slot-N.owner
    wrapper,    \* wrapper[b]: what it waits for
    holder,     \* holder[b]: where the holder is
    files,      \* files[b]: the handshake files that were filled
    tree,       \* tree[b]: the live processes
    cancelled,  \* builds whose holder got a TERM
    timedOut,   \* builds whose slot went back on a deadline
    escaped,    \* builds that lost their holder, or could not be killed
    markers,    \* builds that left a hold-timeout marker
    faults

vars == <<lock, open, record, wrapper, holder, files, tree, cancelled, timedOut,
          escaped, markers, faults>>

Wrappers == {"queued", "publish", "spawn", "started", "pid", "status", "stop", "done"}
Holders ==
    {"none", "start", "ready", "commandReady", "running", "check", "unlink", "terminate", "ack",
     "retain", "finish", "error", "release", "checkLast", "unlinkLast", "gone"}

TypeOK ==
    /\ lock \in Builds \cup {Nobody} /\ record \in Builds \cup {Nobody}
    /\ open \in [Builds -> SUBSET {"wrapper", "holder"}]
    /\ wrapper \in [Builds -> Wrappers] /\ holder \in [Builds -> Holders]
    /\ files \in [Builds -> SUBSET {"started", "ready", "pid", "commandReady", "status", "ack"}]
    /\ tree \in [Builds -> SUBSET {"root", "worker", "daemon"}]
    /\ cancelled \subseteq Builds /\ timedOut \subseteq Builds /\ escaped \subseteq Builds
    /\ markers \subseteq Builds /\ faults \in 0..MaxFaults

Init ==
    /\ lock = Nobody /\ record = Nobody
    /\ open = [b \in Builds |-> {}]
    /\ wrapper = [b \in Builds |-> "queued"] /\ holder = [b \in Builds |-> "none"]
    /\ files = [b \in Builds |-> {}] /\ tree = [b \in Builds |-> {}]
    /\ cancelled = {} /\ timedOut = {} /\ escaped = {} /\ markers = {} /\ faults = 0

-----------------------------------------------------------------------------
(* Plausible slips in the code below, each of which TLC must catch.        *)

\* the slot is unlocked first, whatever comes after
UnlocksFirst(b) ==
    /\ lock' = IF lock = b THEN Nobody ELSE lock
    /\ open' = [open EXCEPT ![b] = @ \ {"holder"}]
    /\ UNCHANGED <<tree, escaped, faults>>
\* every child of the subreaper is signalled
AllChildren(b) == tree[b]
\* the courtesy lasts as long as there is anyone to be courteous to
WhileTheyLive(b) == tree[b] = {}

-----------------------------------------------------------------------------
(* The wrapper (build_gate/run_linux.bash).                                *)

Fault == faults < MaxFaults /\ faults' = faults + 1
Moves(b, from, to) == wrapper[b] = from /\ wrapper' = [wrapper EXCEPT ![b] = to]
Fills(b, file) == files' = [files EXCEPT ![b] = @ \cup {file}]
Closes(b, who) ==
    /\ open' = [open EXCEPT ![b] = @ \ {who}]
    /\ lock' = IF lock = b /\ open'[b] = {} THEN Nobody ELSE lock

\* flock -n on the slot
Take(b) ==
    /\ Moves(b, "queued", "publish")
    /\ lock = Nobody
    /\ lock' = b /\ open' = [open EXCEPT ![b] = {"wrapper"}]
    /\ UNCHANGED <<record, holder, files, tree, cancelled, timedOut, escaped, markers, faults>>

\* the first owner record
Publish(b) ==
    /\ Moves(b, "publish", "spawn")
    /\ record' = b
    /\ UNCHANGED <<lock, open, holder, files, tree, cancelled, timedOut, escaped, markers, faults>>

\* pacing may time out instead
StartHolder(b) ==
    /\ \/ /\ Moves(b, "spawn", "started")
          /\ holder' = [holder EXCEPT ![b] = "start"]
          /\ open' = [open EXCEPT ![b] = @ \cup {"holder"}]
          /\ UNCHANGED <<lock, record>>
       \/ /\ Moves(b, "spawn", "done")
          /\ record' = Nobody /\ Closes(b, "wrapper")
          /\ UNCHANGED holder
    /\ UNCHANGED <<files, tree, cancelled, timedOut, escaped, markers, faults>>

\* started: the record with the holder's pid, and ready
SeeStarted(b) ==
    /\ Moves(b, "started", "pid") /\ "started" \in files[b]
    /\ record' = b /\ Fills(b, "ready")
    /\ UNCHANGED <<lock, open, holder, tree, cancelled, timedOut, escaped, markers, faults>>

\* the command's pid: its record, the go-ahead, and the slot is the holder's
SeePid(b) ==
    /\ Moves(b, "pid", "status") /\ "pid" \in files[b]
    /\ record' = b /\ Fills(b, "commandReady")
    /\ Closes(b, "wrapper")
    /\ UNCHANGED <<holder, tree, cancelled, timedOut, escaped, markers, faults>>

SeeStatus(b) ==
    /\ Moves(b, "status", "done") /\ "status" \in files[b]
    /\ Fills(b, "ack")
    /\ UNCHANGED <<lock, open, record, holder, tree, cancelled, timedOut, escaped, markers, faults>>

\* The holder is dead, or the handshake takes too long: TERM
GiveUp(b) ==
    /\ \/ Moves(b, "started", "stop") \/ Moves(b, "pid", "stop") \/ Moves(b, "status", "stop")
    /\ wrapper[b] = "status" => holder[b] = "gone"
    /\ cancelled' = IF holder[b] = "gone" THEN cancelled ELSE cancelled \cup {b}
    /\ UNCHANGED <<lock, open, record, holder, files, tree, timedOut, escaped, markers, faults>>

\* ... and once it is gone the owner record and the slot are given up.  A
\* holder that does not end in time is killed.
Stopped(b) ==
    /\ Moves(b, "stop", "done")
    /\ holder[b] = "gone"
    /\ record' = Nobody /\ Closes(b, "wrapper")
    /\ UNCHANGED <<holder, files, tree, cancelled, timedOut, escaped, markers, faults>>

WrapperAlive(b) == wrapper[b] # "done"

\* The agent's process group is killed, and the wrapper with it.
WrapperDies(b) ==
    /\ Fault
    /\ wrapper[b] \notin {"queued", "done"} /\ wrapper' = [wrapper EXCEPT ![b] = "done"]
    /\ Closes(b, "wrapper")
    /\ UNCHANGED <<record, holder, files, tree, cancelled, timedOut, escaped, markers>>

-----------------------------------------------------------------------------
(* The holder.                                                             *)

Goes(b, from, to) == holder[b] = from /\ holder' = [holder EXCEPT ![b] = to]
Unlock(b) ==
    /\ lock' = IF lock = b THEN Nobody ELSE lock
    /\ open' = [open EXCEPT ![b] = @ \ {"holder"}]

Start(b) ==
    /\ Goes(b, "start", "ready") /\ b \notin cancelled
    /\ Fills(b, "started")
    /\ UNCHANGED <<lock, open, record, wrapper, tree, cancelled, timedOut, escaped, markers, faults>>

\* Popen, which may fail
Launch(b) ==
    /\ b \notin cancelled /\ WrapperAlive(b) /\ "ready" \in files[b]
    /\ \/ /\ Goes(b, "ready", "commandReady")
          /\ tree' = [tree EXCEPT ![b] = {"root"}]
          /\ Fills(b, "pid")
       \/ Goes(b, "ready", "error") /\ UNCHANGED <<tree, files>>
    /\ UNCHANGED <<lock, open, record, wrapper, cancelled, timedOut, escaped, markers, faults>>

Go(b) ==
    /\ Goes(b, "commandReady", "running")
    /\ b \notin cancelled /\ WrapperAlive(b) /\ "commandReady" \in files[b]
    /\ UNCHANGED <<lock, open, record, wrapper, files, tree, cancelled, timedOut, escaped, markers, faults>>

\* wait_until_ready, wait_for_status_ack, raise_if_cancelled: a TERM, the
\* wrapper's death or a deadline ends the wait.
\* An acknowledgement is read before the wrapper's death is noticed.
Abandoned(b) ==
    /\ \/ holder[b] \in {"start", "retain"} /\ b \in cancelled
       \/ holder[b] \in {"ready", "commandReady"}
       \/ holder[b] = "ack" /\ (b \in cancelled \/ "ack" \notin files[b])
    /\ holder' = [holder EXCEPT ![b] = "error"]
    /\ UNCHANGED <<lock, open, record, wrapper, files, tree, cancelled, timedOut, escaped, markers, faults>>

\* wait_for_command: it ended, and the wrapper is told; or nobody wants it any
\* more; or its time is up and the slot goes back before anything else
Watch(b) ==
    /\ \/ /\ Goes(b, "running", "ack") /\ "root" \notin tree[b]
          /\ Fills(b, "status")
          /\ UNCHANGED <<lock, open, timedOut>>
       \/ /\ Goes(b, "running", "terminate") /\ "root" \in tree[b]
          /\ b \in cancelled \/ ~WrapperAlive(b)
          /\ UNCHANGED <<lock, open, files, timedOut>>
       \/ /\ Goes(b, "running", "check") /\ "root" \in tree[b]
          /\ b \notin cancelled /\ WrapperAlive(b)
          /\ Unlock(b)
          /\ timedOut' = timedOut \cup {b} /\ UNCHANGED files
    /\ UNCHANGED <<record, wrapper, tree, cancelled, escaped, markers, faults>>

\* remove_owned_metadata reads the token of the record that it finds, and then
\* unlinks the path
After(b) == IF "status" \in files[b] THEN "finish" ELSE "terminate"
Check(b) ==
    /\ \/ Goes(b, "check", IF record = b THEN "unlink" ELSE After(b))
       \/ Goes(b, "checkLast", "unlinkLast") /\ record = b
    /\ UNCHANGED <<lock, open, record, wrapper, files, tree, cancelled, timedOut, escaped, markers, faults>>

Unlink(b) ==
    /\ Goes(b, "unlink", After(b))
    /\ record' = Nobody
    /\ UNCHANGED <<lock, open, wrapper, files, tree, cancelled, timedOut, escaped, markers, faults>>

\* owned_process_ids: the spawned root and its descendants; what was adopted
\* is neither, and a worker whose root has ended was adopted too
Owned(b) == IF "root" \in tree[b] THEN tree[b] \ {"daemon"} ELSE {}

\* terminate_process_tree: TERM, then KILL, and a bounded wait for those that
\* will not die
Terminated(b) ==
    /\ UNCHANGED <<lock, open>>
    /\ \/ tree' = [tree EXCEPT ![b] = @ \ Owned(b)] /\ UNCHANGED <<escaped, faults>>
       \/ Fault /\ Owned(b) # {} /\ escaped' = escaped \cup {b} /\ UNCHANGED tree

Terminate(b) ==
    /\ \/ Goes(b, "terminate", "ack") /\ Fills(b, "status")
       \/ Goes(b, "error", "release") /\ UNCHANGED files
    /\ Terminated(b)
    /\ UNCHANGED <<record, wrapper, cancelled, timedOut, markers>>

ReleaseLease(b) ==
    /\ Goes(b, "release", "checkLast")
    /\ Unlock(b)
    /\ UNCHANGED <<record, wrapper, files, tree, cancelled, timedOut, escaped, markers, faults>>

Acknowledged(b) ==
    /\ Goes(b, "ack", IF b \in timedOut THEN "finish" ELSE "retain")
    /\ b \notin cancelled /\ "ack" \in files[b]
    /\ UNCHANGED <<lock, open, record, wrapper, files, tree, cancelled, timedOut, escaped, markers, faults>>

\* reap_remaining_children: nobody is left, or only an idle daemon, or the
\* courtesy has lasted long enough
Reaped(b) == tree[b] = {}
Idle(b) == "worker" \notin tree[b]
CourtesyEnds(b) == tree[b] # {}
Retain(b) ==
    /\ b \notin cancelled
    /\ \/ /\ Goes(b, "retain", "finish") /\ Reaped(b)
          /\ UNCHANGED <<lock, open, timedOut>>
       \/ /\ Goes(b, "retain", "check") /\ ~Reaped(b) /\ Idle(b)
          /\ Unlock(b) /\ UNCHANGED timedOut
       \/ /\ Goes(b, "retain", "check") /\ CourtesyEnds(b)
          /\ Unlock(b) /\ timedOut' = timedOut \cup {b}
    /\ UNCHANGED <<record, wrapper, files, tree, cancelled, escaped, markers, faults>>

\* The agent that asked for the build is gone while its descendants go on.
AgentGroupEnds(b) ==
    /\ Goes(b, "retain", "error") /\ b \notin cancelled
    /\ UNCHANGED <<lock, open, record, wrapper, files, tree, cancelled, timedOut, escaped, markers, faults>>

Finish(b) ==
    /\ Goes(b, "finish", "checkLast")
    /\ markers' = IF b \in timedOut THEN markers \cup {b} ELSE markers
    /\ UNCHANGED <<lock, open, record, wrapper, files, tree, cancelled, timedOut, escaped, faults>>

\* The rest is removed, and the process ends.
CleanUp(b) ==
    /\ \/ Goes(b, "unlinkLast", "gone") /\ record' = Nobody
       \/ Goes(b, "checkLast", "gone") /\ record # b /\ UNCHANGED record
    /\ files' = [files EXCEPT ![b] = {}]
    /\ Closes(b, "holder")
    /\ UNCHANGED <<wrapper, tree, cancelled, timedOut, escaped, markers, faults>>

HolderAlive(b) == holder[b] \notin {"none", "gone"}

\* SIGKILL, from the kernel or from a wrapper that lost patience
HolderDies(b) ==
    /\ Fault
    /\ HolderAlive(b) /\ holder' = [holder EXCEPT ![b] = "gone"]
    /\ escaped' = escaped \cup {b}
    /\ Closes(b, "holder")
    /\ UNCHANGED <<record, wrapper, files, tree, cancelled, timedOut, markers>>

-----------------------------------------------------------------------------
(* The build's processes, time, and the scan of the slots.                 *)

\* The command works through a worker, and wakes a daemon.
Fork(b) ==
    /\ "root" \in tree[b]
    /\ \E p \in {"worker", "daemon"} \ tree[b] : tree' = [tree EXCEPT ![b] = @ \cup {p}]
    /\ UNCHANGED <<lock, open, record, wrapper, holder, files, cancelled, timedOut, escaped, markers, faults>>

Exit(b) ==
    /\ \E p \in {"root", "worker"} \cap tree[b] : tree' = [tree EXCEPT ![b] = @ \ {p}]
    /\ UNCHANGED <<lock, open, record, wrapper, holder, files, cancelled, timedOut, escaped, markers, faults>>

\* probe_lock: a scan that gets the flock removes what the last owner left
Scan ==
    /\ lock = Nobody /\ record # Nobody
    /\ record' = Nobody
    /\ UNCHANGED <<lock, open, wrapper, holder, files, tree, cancelled, timedOut, escaped, markers, faults>>

-----------------------------------------------------------------------------
WrapperStep(b) ==
    \/ Take(b) \/ Publish(b) \/ StartHolder(b) \/ SeeStarted(b) \/ SeePid(b) \/ SeeStatus(b)
    \/ GiveUp(b) \/ Stopped(b)
HolderStep(b) ==
    \/ Start(b) \/ Launch(b) \/ Go(b) \/ Abandoned(b) \/ Watch(b) \/ Check(b)
    \/ Unlink(b) \/ Terminate(b) \/ ReleaseLease(b) \/ Acknowledged(b)
    \/ Retain(b) \/ Finish(b) \/ CleanUp(b)

Next ==
    \/ \E b \in Builds :
         \/ WrapperStep(b) \/ HolderStep(b) \/ WrapperDies(b) \/ HolderDies(b)
         \/ AgentGroupEnds(b) \/ Fork(b) \/ Exit(b)
    \/ Scan

Fairness ==
    \A b \in Builds : WF_vars(WrapperStep(b)) /\ WF_vars(HolderStep(b))

Spec == Init /\ [][Next]_vars /\ Fairness

-----------------------------------------------------------------------------
(* Properties.                                                             *)

\* Two builds work at once only if the slot of one of them was handed back on
\* its deadline, or its holder was killed or could not kill it.
Working(b) == "root" \in tree[b]
OneBuildAtATime ==
    \A b, c \in Builds : (b # c /\ Working(b) /\ Working(c)) =>
      {b, c} \cap (timedOut \cup escaped) # {}

\* A slot that is taken becomes free again, whatever the command, its
\* descendants, its wrapper or its holder do or fail to do.
SlotReturned == (lock # Nobody) ~> (lock = Nobody)

\* An adopted session daemon is never signalled: it keeps the credentials of
\* the whole fleet.
DaemonSpared == [][\A b \in Builds : "daemon" \in tree[b] => "daemon" \in tree'[b]]_vars

=============================================================================
