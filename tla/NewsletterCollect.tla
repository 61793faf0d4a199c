-------------------------- MODULE NewsletterCollect --------------------------
(* One snapshot of the daily newsletter (packages/newsletter/collect.py): the    *)
(* reads follow each other, and a failed one never stops the rest: what it was    *)
(* for is left out of the snapshot and its source said to be unavailable.        *)
(* GitHub is asked through github.py, which pages, batches and stops before its  *)
(* request and point limits; every configured daemon is asked for its units.     *)
EXTENDS Naturals, Sequences, FiniteSets

CONSTANTS
  Daemons,       \* how many daemons are configured: the local one is 1
  Labels,        \* the phase labels there may be
  Tickets,       \* ticket numbers
  Class,         \* the class of each ticket
  Prs,           \* merged pull requests there may be
  Issue,         \* the ticket each closes, or None
  Cursors,       \* page cursors
  Lives,         \* lifecycles the daemons report
  RequestCeiling, PointBudget,   \* 40 and 50 in the code
  Batch,         \* issues per request: 100 in the code
  MaxAge,        \* how old an observation may be: five minutes
  None

(* What the constants have to satisfy. *)
CollectAssumption ==
  /\ Daemons \in Nat \ {0} /\ Tickets \subseteq Nat /\ Batch \in Nat \ {0}
  /\ RequestCeiling \in Nat /\ PointBudget \in Nat \ {0} /\ MaxAge \in Nat
  /\ None \notin Lives \cup {"available"}

VARIABLES
  stage,      \* the read that is under way
  todo,       \* what it has still to ask for
  seen,       \* the cursors of the listing it is in
  daemons,    \* the source of each daemon's units
  units,      \* the lifecycle of each ticket
  counts,     \* the allocation counts, or None
  calls, used, cost, whole,   \* of the GitHub client: calls, budget_used, cost, cost_complete
  spent,      \* the points the requests really took
  listed      \* what each daemon said

asked == <<calls, used, cost, whole, spent>>
daemon == <<daemons, listed>>
vars == <<stage, todo, seen, daemon, units, counts, asked>>

(* A reservation for each request: the queries report one point. *)
Reserve == 2

Paged == {"phases", "program", "merges"}
Batched == {"closing", "evidence", "counts"}

Init ==
  /\ stage = "phases" /\ todo = {"phases"} /\ seen = {}
  /\ daemons = [d \in 1 .. Daemons |-> None]
  /\ units = [t \in Tickets |-> None]
  /\ counts = None
  /\ calls = 0 /\ used = 0 /\ cost = 0 /\ whole = TRUE /\ spent = 0
  /\ listed = [d \in 1 .. Daemons |-> {}]

(* ---- Plausible slips in the code below, each of which TLC must catch. ---- *)

(* A request whose points are unknown gives its reservation back. *)
Released(told, points) == IF told THEN points ELSE 0

(* ---- GitHub ---- *)

MayAsk == calls < RequestCeiling /\ used + Reserve < PointBudget

(* The points a request is held to: its reservation, until its cost is seen. *)
Held(told, points) == IF told THEN points ELSE Reserve

(* One request.  It takes points whether or not its answer arrives or tells. *)
Ask(told, points) ==
  /\ MayAsk
  /\ calls' = calls + 1
  /\ used' = used + Held(told, points)
  /\ cost' = cost + (IF told THEN points ELSE 0)
  /\ whole' = (whole /\ told)
  /\ spent' = spent + points

(* ---- The reads, one after another ---- *)

(* A read ends and the next one has its own things to ask for. *)
Ends(next, work) == stage' = next /\ todo' = work /\ seen' = {}

Asking == stage \in Paged \cup Batched /\ todo # {}

(* What follows a read that failed. *)
AfterFailure ==
  CASE stage \in {"phases", "program"} -> "merges"
    [] stage \in {"merges", "closing"} -> "units"
    [] stage = "evidence" -> "fresh"
    [] OTHER -> "files"

Failed ==
  /\ Ends(AfterFailure, IF AfterFailure = "merges" THEN {"merges"} ELSE {})
  /\ UNCHANGED <<units, counts, daemon>>

(* The client refuses, or the request is lost, or answers with errors, or names  *)
(* a page that was read already, or lacks an issue or some of its labels.        *)
Refused == Asking /\ ~MayAsk /\ Failed /\ UNCHANGED asked

Lost == Asking /\ (\E told \in BOOLEAN, points \in 0 .. Reserve : Ask(told, points)) /\ Failed

(* A page with more to come, whose cursor is new. *)
More ==
  /\ stage \in Paged /\ todo # {}
  /\ \E told \in BOOLEAN, points \in 0 .. Reserve : Ask(told, points)
  /\ \E cursor \in Cursors \ seen : seen' = seen \cup {cursor}
  /\ UNCHANGED <<stage, todo, units, counts, daemon>>

(* The last page.  Every phase label has its own search; tickets and merges are  *)
(* known by number.                                                            *)
LastPage ==
  /\ Asking
  /\ \E told \in BOOLEAN, points \in 0 .. Reserve : Ask(told, points)
  /\ \/ /\ stage = "phases"
        /\ \E labels \in SUBSET Labels : Ends("program", labels)
     \/ /\ stage = "program"
        /\ \E label \in todo : todo' = todo \ {label}
        /\ seen' = {}
        /\ UNCHANGED stage
     \/ /\ stage = "merges"
        /\ \E found \in SUBSET Prs :
             Ends("closing", {Issue[p] : p \in found} \ {None})
  /\ UNCHANGED <<units, counts, daemon>>

(* Every label was searched. *)
Searched ==
  /\ stage = "program" /\ todo = {} /\ Ends("merges", {"merges"})
  /\ UNCHANGED <<units, counts, asked, daemon>>

(* The next issues, lowest numbers first. *)
NextBatch == {n \in todo : Cardinality({k \in todo : k < n}) < Batch}

Fetch ==
  /\ stage \in Batched /\ todo # {}
  /\ \E told \in BOOLEAN, points \in 0 .. Reserve : Ask(told, points)
  /\ todo' = todo \ NextBatch
  /\ UNCHANGED <<stage, seen, units, counts, daemon>>

(* The merges are classed by the tickets they close, as far as those were read. *)
Closed ==
  /\ stage = "closing" /\ todo = {} /\ Ends("units", {})
  /\ UNCHANGED <<units, counts, asked, daemon>>

(* ---- Daemons ---- *)

(* What an envelope says of itself. *)
Envelope(raw) ==
  IF raw.partial \/ raw.state \in {"partial", "stale"} THEN "stale"
  ELSE IF raw.state \notin {"available", "empty"} THEN "unavailable"
  ELSE IF raw.age > MaxAge THEN "stale" ELSE "available"

Raw == [state : {"available", "empty", "partial", "stale", "unavailable", "new"},
        partial : BOOLEAN, age : {0, MaxAge + 1}]

(* Rows a daemon may answer with; a lifecycle nobody knows among them. *)
Row == Tickets \X (Lives \cup {"new"})

(* Nothing in the rows is unknown, or said differently elsewhere. *)
Agreed(rows) ==
  \A i \in 1 .. Len(rows) :
    /\ rows[i][2] \in Lives
    /\ units[rows[i][1]] \in {None, rows[i][2]}
    /\ \A k \in 1 .. i : rows[k][1] = rows[i][1] => rows[k][2] = rows[i][2]

(* The units after a daemon's rows: all of them or none. *)
Applied(rows, good) ==
  [t \in Tickets |-> LET mine == {i \in 1 .. Len(rows) : rows[i][1] = t} IN
     IF ~good \/ mine = {} THEN units[t] ELSE rows[CHOOSE i \in mine : TRUE][2]]

Unread == {d \in 1 .. Daemons : daemons[d] = None}

(* The next daemon: the command may fail, its answer may not be fresh, its rows  *)
(* may not do.                                                                 *)
Daemon ==
  LET d == CHOOSE k \in Unread : \A j \in Unread : k <= j IN
  /\ stage = "units" /\ Unread # {}
  /\ \/ daemons' = [daemons EXCEPT ![d] = "unavailable"] /\ UNCHANGED <<units, listed>>
     \/ \E raw \in Raw :
          /\ Envelope(raw) # "available"
          /\ daemons' = [daemons EXCEPT ![d] = Envelope(raw)]
          /\ UNCHANGED <<units, listed>>
     \/ \E raw \in Raw, rows \in {<<>>} \cup [1 .. 1 -> Row] \cup [1 .. 2 -> Row] :
          /\ Envelope(raw) = "available"
          /\ daemons' = [daemons EXCEPT ![d] = IF Agreed(rows) THEN "available" ELSE "unavailable"]
          /\ units' = Applied(rows, Agreed(rows))
          /\ listed' = [listed EXCEPT ![d] = {rows[i] : i \in 1 .. Len(rows)}]
  /\ UNCHANGED <<stage, todo, seen, counts, asked>>

(* Then the turns of the last days, whose tickets may have to be read: they are   *)
(* NewsletterTurns' subject.                                                    *)
DaemonsRead ==
  /\ stage = "units" /\ Unread = {}
  /\ \E numbers \in SUBSET Tickets : todo' = numbers
  /\ stage' = "evidence" /\ seen' = {}
  /\ UNCHANGED <<units, counts, asked, daemon>>

Evidence ==
  /\ stage = "evidence" /\ todo = {}
  /\ Ends("fresh", {})
  /\ UNCHANGED <<units, counts, asked, daemon>>

(* ---- Allocation ---- *)

Fresh == \A d \in 1 .. Daemons : daemons[d] = "available"

(* With every daemon fresh, the tickets are read for their classes. *)
Allocate ==
  /\ stage = "fresh"
  /\ stage' = IF Fresh THEN "counts" ELSE "files"
  /\ todo' = IF Fresh THEN {t \in Tickets : units[t] # None} ELSE {}
  /\ UNCHANGED <<seen, units, counts, asked, daemon>>

Shown(life) ==
  CASE life = "allocated" -> "running" [] life \in {"queued", "retrying"} -> "waiting" [] OTHER -> life

Shows == {"running", "waiting", "paused"}
Classes == {Class[t] : t \in Tickets}

Count ==
  /\ stage = "counts" /\ todo = {}
  /\ counts' = [show \in Shows |-> [class \in Classes |->
       Cardinality({t \in Tickets : units[t] # None /\ Class[t] = class /\ Shown(units[t]) = show})]]
  /\ Ends("files", {})
  /\ UNCHANGED <<units, asked, daemon>>

(* The meta log and the Executor's histories are read from files; nothing else     *)
(* of the snapshot rests on them, whether they can be read or not.                *)
ReadFiles ==
  /\ stage = "files" /\ Ends("write", {})
  /\ UNCHANGED <<units, counts, asked, daemon>>

(* The snapshot takes its place by one rename. *)
Finish ==
  /\ stage = "write" /\ Ends("done", {})
  /\ UNCHANGED <<units, counts, asked, daemon>>

Next ==
  \/ Refused \/ Lost \/ More \/ LastPage \/ Searched \/ Fetch \/ Closed
  \/ Daemon \/ DaemonsRead \/ Evidence \/ Allocate \/ Count
  \/ ReadFiles \/ Finish

Spec == Init /\ [][Next]_vars

-----------------------------------------------------------------------------
(* However requests fail or hide their cost, the snapshot takes fewer points      *)
(* than its budget, and a total it reports is what was really spent.             *)
PointsHeld ==
  /\ spent <= used /\ used < PointBudget /\ calls <= RequestCeiling
  /\ whole => cost = spent

(* A ticket's lifecycle comes from a daemon whose whole answer was good. *)
LifecyclesAreWhole ==
  \A t \in Tickets : units[t] # None =>
    \E d \in 1 .. Daemons : daemons[d] = "available" /\ <<t, units[t]>> \in listed[d]

(* The allocation counts stand for all daemons or are not given: each ticket any  *)
(* of them lists is counted once, under the one lifecycle they all say.          *)
AllOrNoCounts ==
  counts # None =>
    /\ \A d \in 1 .. Daemons : daemons[d] = "available"
    /\ \A show \in Shows, class \in Classes :
         counts[show][class] = Cardinality({t \in Tickets : Class[t] = class /\
           \E d \in 1 .. Daemons : \E row \in listed[d] : row[1] = t /\ Shown(row[2]) = show})
=============================================================================
