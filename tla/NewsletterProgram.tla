-------------------------- MODULE NewsletterProgram --------------------------
(* The program figures of the newsletter (packages/newsletter/metric_program.py):*)
(* how many tickets there are and what became of them since yesterday, computed   *)
(* from the two snapshots alone while tickets are opened, closed, reopened, put    *)
(* off, taken in and taken out.                                                  *)
EXTENDS Integers, FiniteSets

CONSTANTS
  Tickets,
  Lane,      \* the lane of each ticket, or None
  Mobile,    \* the tickets with a mobile or watch label
  None       \* no snapshot; the ticket is not in the program

(* What the constants have to satisfy. *)
ProgramAssumption == IsFiniteSet(Tickets) /\ Mobile \subseteq Tickets /\ None \notin BOOLEAN

VARIABLES
  ticket,      \* what the tracker and the daemons say of each ticket
  yesterday    \* the tickets of yesterday's snapshot, or None

vars == <<ticket, yesterday>>

States == {"open", "completed", "not_planned", "closed"}
Row == [state : States, paused : BOOLEAN, active : BOOLEAN]

Init == ticket = [t \in Tickets |-> None] /\ yesterday = None

Opened == [state |-> "open", paused |-> FALSE, active |-> FALSE]

Set(t, row) == ticket' = [ticket EXCEPT ![t] = row] /\ UNCHANGED yesterday

(* A ticket gets a phase label, whatever it is by then; or loses it. *)
TakeIn(t) == ticket[t] = None /\ \E state \in States : Set(t, [Opened EXCEPT !.state = state])
TakeOut(t) == ticket[t] # None /\ Set(t, None)

(* It is closed for some reason, or opened again. *)
Close(t) ==
  /\ ticket[t] # None /\ ticket[t].state = "open"
  /\ \E state \in States \ {"open"} : Set(t, [ticket[t] EXCEPT !.state = state])
Reopen(t) ==
  /\ ticket[t] # None /\ ticket[t].state # "open"
  /\ Set(t, [ticket[t] EXCEPT !.state = "open"])

(* Its pause label, and whether it is worked on. *)
Pause(t) == ticket[t] # None /\ Set(t, [ticket[t] EXCEPT !.paused = ~ @])
Work(t) == ticket[t] # None /\ Set(t, [ticket[t] EXCEPT !.active = ~ @])

(* The day's snapshot becomes yesterday's; it may not have been taken, or not have *)
(* the tickets.                                                                 *)
Midnight == yesterday' \in {ticket, None} /\ UNCHANGED ticket

Next ==
  \/ Midnight
  \/ \E t \in Tickets : TakeIn(t) \/ TakeOut(t) \/ Close(t) \/ Reopen(t) \/ Pause(t) \/ Work(t)

Spec == Init /\ [][Next]_vars

-----------------------------------------------------------------------------
(* ---- The figures of a snapshot ---- *)

Known(rows) == {t \in Tickets : rows[t] # None}
Completed(row) == row.state = "completed"
NotPlanned(row) == row.state = "not_planned"
Shelved(t, row) == ~Completed(row) /\ ~NotPlanned(row) /\ t \in Mobile /\ row.paused

Total(rows, in) == Cardinality({t \in Known(rows) \cap in : ~NotPlanned(rows[t])})
Done(rows, in) == Cardinality({t \in Known(rows) \cap in : Completed(rows[t])})

(* ---- The state bar, and the changes since yesterday ---- *)

State(t, row) ==
  IF NotPlanned(row) THEN "removed"
  ELSE IF Completed(row) THEN "done"
  ELSE IF row.paused THEN (IF t \in Mobile THEN "shelved" ELSE "paused")
  ELSE IF row.active THEN "active" ELSE "todo"

Bar == {"done", "active", "todo", "paused", "shelved", "removed"}
StateCounts(rows) == [state \in Bar |-> Cardinality({t \in Known(rows) : State(t, rows[t]) = state})]

Removed(now, before) ==
  Cardinality(Known(before) \ Known(now))
  + Cardinality({t \in Known(now) : NotPlanned(now[t]) /\ (t \notin Known(before) \/ ~NotPlanned(before[t]))})

Transitions(now, before) ==
  LET shared == Known(now) \cap Known(before) IN
  [completions |-> Cardinality({t \in shared : before[t].state = "open" /\ Completed(now[t])}),
   added |-> Cardinality(Known(now) \ Known(before)),
   removed |-> Removed(now, before),
   reopened |-> Cardinality({t \in shared : before[t].state # "open" /\ now[t].state = "open"}),
   paused |-> Cardinality({t \in shared : ~before[t].paused /\ now[t].paused}),
   shelved |-> Cardinality({t \in Known(now) : Shelved(t, now[t])
                              /\ (t \notin Known(before) \/ ~Shelved(t, before[t]))})]

(* A lane is reported finished when all it holds is done and that was not so       *)
(* yesterday; without yesterday's tickets nothing is said.                       *)
Finished(lane, now, before) ==
  LET in == {t \in Tickets : Lane[t] = lane} IN
  IF before = None THEN None
  ELSE Done(now, in) = Total(now, in) /\ Done(before, in) < Total(before, in)

Lanes(rows) == {Lane[t] : t \in Known(rows)} \ {None}

-----------------------------------------------------------------------------
(* The state bar shows each ticket once, agrees with the totals computed apart     *)
(* from it, and counts as shelved today what the changes would.                  *)
StatesAddUp ==
  LET bar == StateCounts(ticket) IN
  /\ bar["done"] = Done(ticket, Tickets)
  /\ bar["done"] + bar["active"] + bar["todo"] + bar["paused"] + bar["shelved"] = Total(ticket, Tickets)
  /\ bar["shelved"] = Transitions(ticket, [t \in Tickets |-> None]).shelved

(* The scope accounts for the totals of two days: what was added less what was     *)
(* removed, but for tickets that were not planned yesterday, which count as         *)
(* removed once more when they go and as nothing when they come back.            *)
ScopeAccounts ==
  yesterday # None =>
    LET changes == Transitions(ticket, yesterday)
        shelf == {t \in Known(yesterday) : NotPlanned(yesterday[t])} IN
    Total(ticket, Tickets) - Total(yesterday, Tickets) =
      changes.added - changes.removed
      + Cardinality({t \in shelf : t \notin Known(ticket) \/ ~NotPlanned(ticket[t])})

(* A lane that is reported finished had an end to come to: one of its tickets was   *)
(* completed since yesterday, given up, or taken out.                            *)
FinishedIsNew ==
  \A lane \in Lanes(ticket) : Finished(lane, ticket, yesterday) = TRUE =>
    \E t \in Known(yesterday) : Lane[t] = lane /\ yesterday[t].state \in {"open", "closed"} /\
      (t \notin Known(ticket) \/ Completed(ticket[t]) \/ NotPlanned(ticket[t]))
=============================================================================
