--------------------------- MODULE NewsletterTurns ---------------------------
(* The hours the newsletter says agents worked (packages/newsletter:             *)
(* telemetry_sources.py, allocation_sources.py, metric_work.py), read from the    *)
(* rows the daemon writes when a turn starts and ends, when it starts itself or   *)
(* rolls its file, and when its configuration changes.  A daemon that crashes     *)
(* writes nothing, so the reader closes the turns it left at the next start.      *)
(*                                                                              *)
(* The rows are modelled from the writer (run_telemetry/writer.ex); `worked` and  *)
(* `idle` are what really happened and nobody reads.  Times are in ticks; tick k  *)
(* lasts from k to k + 1.                                                        *)
EXTENDS Naturals, Sequences, FiniteSets, SequencesExt, FiniteSetsExt

CONSTANTS
  Turns,               \* implement turns
  Class,               \* the class of each turn's ticket
  Day, Week, Lookback, \* one, seven and eight days, in ticks
  MaxTurn,             \* the longest a turn lasts between two of its rows
  MaxAge,              \* how old the last row may be: five minutes
  MaxBoots, MaxRolls, MaxChanges, MaxTime,   \* bounds
  None

(* What the constants have to satisfy. *)
TurnsAssumption ==
  /\ {Day, Week, Lookback, MaxTurn, MaxAge, MaxBoots, MaxRolls, MaxChanges, MaxTime} \subseteq Nat
  /\ Day <= Week /\ Week + MaxTurn <= Lookback

VARIABLES
  clock,
  up,        \* the daemon runs
  boot,      \* its boot, counted
  heard,     \* the time of its last row of any kind
  log,       \* rows of boots, rolls, configurations and turns, as written
  turn,      \* "new", "running", "orphan" (its daemon crashed) or "over"
  by,        \* the boot a turn belongs to
  told,      \* the turns whose start was written
  rolls,     \* rolls so far
  worked,    \* the ticks each turn really lasted
  idle       \* the ticks its daemon was down after it

vars == <<clock, up, boot, heard, log, turn, by, told, rolls, worked, idle>>

Init ==
  /\ clock = 0 /\ up = FALSE /\ boot = 0 /\ heard = 0 /\ log = <<>> /\ rolls = 0
  /\ turn = [t \in Turns |-> "new"] /\ by = [t \in Turns |-> 0] /\ told = {}
  /\ worked = [t \in Turns |-> {}] /\ idle = [t \in Turns |-> {}]

Row(kind, t) == [kind |-> kind, turn |-> t, boot |-> boot, at |-> clock]
Running == {t \in Turns : turn[t] = "running"}
Orphans == {t \in Turns : turn[t] = "orphan"}

(* ---- The daemon ---- *)

LastStart(t) == Max({0} \cup {log[i].at : i \in {k \in 1 .. Len(log) : log[k].turn = t /\ log[k].kind = "start"}})

(* Time passes; while the daemon is up it writes other rows too. *)
Tick ==
  /\ clock < MaxTime
  /\ \A t \in Running \cap told : clock - LastStart(t) < MaxTurn
  /\ clock' = clock + 1
  /\ heard' = IF up THEN clock + 1 ELSE heard
  /\ worked' = [t \in Turns |-> IF t \in Running THEN worked[t] \cup {clock} ELSE worked[t]]
  /\ idle' = [t \in Turns |-> IF t \in Orphans THEN idle[t] \cup {clock} ELSE idle[t]]
  /\ UNCHANGED <<up, boot, log, turn, by, told, rolls>>

Write(rows) == log' = log \o rows /\ heard' = clock

(* A start of the daemon, some time after its last crash. *)
Boot ==
  /\ ~up /\ boot < MaxBoots
  /\ \A t \in Orphans : clock \in {k + 1 : k \in idle[t]}
  /\ up' = TRUE /\ boot' = boot + 1
  /\ log' = log \o <<[Row("restart", None) EXCEPT !.boot = boot + 1],
                     [Row("run_context", None) EXCEPT !.boot = boot + 1]>>
  /\ heard' = clock
  /\ turn' = [t \in Turns |-> IF t \in Orphans THEN "over" ELSE turn[t]]
  /\ UNCHANGED <<clock, by, told, rolls, worked, idle>>

Crash ==
  /\ up /\ up' = FALSE
  /\ turn' = [t \in Turns |-> IF t \in Running THEN "orphan" ELSE turn[t]]
  /\ UNCHANGED <<clock, boot, heard, log, by, told, rolls, worked, idle>>

(* The row of a start may fail to be written. *)
StartTurn(t) ==
  /\ up /\ turn[t] = "new"
  /\ turn' = [turn EXCEPT ![t] = "running"]
  /\ by' = [by EXCEPT ![t] = boot]
  /\ \/ Write(<<Row("start", t)>>) /\ told' = told \cup {t}
     \/ UNCHANGED <<heard, log, told>>
  /\ UNCHANGED <<clock, up, boot, rolls, worked, idle>>

EndTurn(t) ==
  /\ turn[t] = "running"
  /\ turn' = [turn EXCEPT ![t] = "over"]
  /\ Write(<<Row("end", t)>>)
  /\ UNCHANGED <<clock, up, boot, by, told, rolls, worked, idle>>

(* The turns that are open in the file are closed before the roll and opened      *)
(* again after it.  No turn was started in the same instant.                     *)
Roll ==
  LET open == SetToSeq(Running \cap told) IN
  /\ up /\ rolls < MaxRolls /\ rolls' = rolls + 1
  /\ \A t \in Running \cap told : LastStart(t) < clock
  /\ Write([i \in 1 .. Len(open) |-> Row("end", open[i])]
           \o <<Row("restart", None), Row("run_context", None)>>
           \o [i \in 1 .. Len(open) |-> Row("start", open[i])])
  /\ UNCHANGED <<clock, up, boot, turn, by, told, worked, idle>>

ConfigurationChanges ==
  /\ up /\ Len(SelectSeq(log, LAMBDA row : row.kind = "run_context")) < boot + rolls + MaxChanges
  /\ Write(<<Row("run_context", None)>>)
  /\ UNCHANGED <<clock, up, boot, turn, by, told, rolls, worked, idle>>

Next ==
  \/ Tick \/ Boot \/ Crash \/ Roll \/ ConfigurationChanges
  \/ \E t \in Turns : StartTurn(t) \/ EndTurn(t)

Spec == Init /\ [][Next]_vars

-----------------------------------------------------------------------------
(* ---- The reader ---- *)

Before(now, ticks) == IF now > ticks THEN now - ticks ELSE 0

(* read_records: the rows of the last eight days, from the live files and the     *)
(* summaries of earlier boots.                                                  *)
Rows == SelectSeq(log, LAMBDA row : row.at >= Before(clock, Lookback))

Boundary(row) == row.kind \in {"restart", "run_context"}

CoverageStart ==
  LET rows == Rows
      times == {rows[i].at : i \in {k \in 1 .. Len(rows) : Boundary(rows[k])}} IN
  IF times = {} THEN None ELSE Min(times)

(* The rows in the order they are looked at: of one time, boundaries first. *)
Timeline ==
  LET rows == Rows
      At(time, wanted) == SelectSeq(rows, LAMBDA row : row.at = time /\ Boundary(row) = wanted)
      Upto[time \in 0 .. clock] ==
        (IF time = 0 THEN <<>> ELSE Upto[time - 1]) \o At(time, TRUE) \o At(time, FALSE)
  IN Upto[clock]

(* The part of a turn that lies in the window. *)
Interval(t, start, end, from) ==
  IF end <= start \/ end <= from THEN {} ELSE {[turn |-> t, start |-> Max({start, from}), end |-> end]}

(* A roll or a restart closes every open turn, another boot's configuration the    *)
(* turns of earlier boots.                                                      *)
Closes(row, opened) == row.kind = "restart" \/ row.boot # opened

(* One row: `open` maps the open turns to their start rows. *)
See(seen, row, from) ==
  IF Boundary(row)
  THEN LET shut == {t \in DOMAIN seen.open : row.at > seen.open[t].at /\ Closes(row, seen.open[t].boot)} IN
       [seen EXCEPT
         !.open = [t \in DOMAIN seen.open \ shut |-> seen.open[t]],
         !.closed = @ \cup shut,
         !.records = @ \cup UNION {Interval(t, seen.open[t].at, row.at, from) : t \in shut}]
  ELSE IF row.kind = "start"
  THEN [seen EXCEPT !.open = [t \in DOMAIN seen.open \cup {row.turn} |->
                                IF t = row.turn THEN row ELSE seen.open[t]]]
  ELSE IF row.turn \in DOMAIN seen.open
  THEN [seen EXCEPT
         !.open = [t \in DOMAIN seen.open \ {row.turn} |-> seen.open[t]],
         !.records = @ \cup Interval(row.turn, seen.open[row.turn].at, row.at, from)]
  ELSE [seen EXCEPT !.complete = @ /\ (row.at < from \/ row.turn \in seen.closed)]

(* The records of a window, and whether every end in it has its start: an open     *)
(* turn lasts until now.                                                        *)
TurnRecords(timeline, from) ==
  LET seen == FoldLeft(LAMBDA acc, row : See(acc, row, from),
                [open |-> <<>>, closed |-> {}, records |-> {}, complete |-> TRUE], timeline) IN
  [records |-> seen.records \cup UNION {Interval(t, seen.open[t].at, clock, from) : t \in DOMAIN seen.open},
   complete |-> seen.complete]

(* The evidence: the week if it is complete, or else the day. *)
Evidence ==
  LET timeline == Timeline
      start == CoverageStart
      week == TurnRecords(timeline, Before(clock, Week))
      day == TurnRecords(timeline, Before(clock, Day)) IN
  IF start = None \/ heard < Before(clock, MaxAge) THEN None
  ELSE IF week.complete THEN [records |-> week.records, start |-> start]
  ELSE IF day.complete THEN [records |-> day.records, start |-> Max({start, Before(clock, Day)})]
  ELSE None

(* A window has a number only if the evidence reaches back to its start. *)
Covered(evidence, days) == clock >= days /\ evidence # None /\ evidence.start <= clock - days

Overlap(record, from) == IF record.end <= from THEN 0 ELSE record.end - Max({record.start, from})

Hours(evidence, days, class) ==
  MapThenSumSet(LAMBDA record : Overlap(record, clock - days),
                {record \in evidence.records : Class[record.turn] = class})

-----------------------------------------------------------------------------
Classes == {Class[t] : t \in Turns}
InWindow(ticks, days) == Cardinality({k \in ticks : k >= clock - days})

(* Turns of which there is no row at all: nobody can know of them. *)
Unheard == {t \in Turns \ told : turn[t] # "over" \/ idle[t] # {}}

(* A number of hours leaves out none that agents worked in its window, over       *)
(* rolls, changes of configuration, crashes and starts that were not written.     *)
NoWorkMissed ==
  LET evidence == Evidence IN
  \A days \in {Day, Week}, class \in Classes : Covered(evidence, days) =>
    Hours(evidence, days, class) >=
      MapThenSumSet(LAMBDA t : InWindow(worked[t], days), {t \in Turns \ Unheard : Class[t] = class})

(* Nor does it hold more than those and the time a daemon that crashed was down:   *)
(* no turn is counted twice, and none goes on after the daemon's next start.      *)
NoWorkInvented ==
  LET evidence == Evidence IN
  \A days \in {Day, Week}, class \in Classes : Covered(evidence, days) =>
    Hours(evidence, days, class) <=
      MapThenSumSet(LAMBDA t : InWindow(worked[t] \cup idle[t], days), {t \in Turns : Class[t] = class})
=============================================================================
