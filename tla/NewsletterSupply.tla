-------------------------- MODULE NewsletterSupply --------------------------
(* The feature-supply evidence of the newsletter (packages/newsletter:           *)
(* allocation_sources.py, metric_supply.py).  Daemons report intervals in which    *)
(* they watched the supply of feature work; the day's figures are given only if   *)
(* the intervals reach from its start to now without a long gap.  Times are in    *)
(* ticks; tick k lasts from k to k + 1.                                          *)
EXTENDS Integers, Sequences, FiniteSets, SequencesExt, FiniteSetsExt

CONSTANTS
  Day,        \* ticks of a day
  MaxGap,     \* MAX_SUPPLY_GAP: ten minutes
  MaxAge,     \* how old the last interval may be: five minutes
  MaxValue,   \* starved minutes a tick may be reported with
  MaxRows, MaxTime,   \* bounds
  None

(* What the constants have to satisfy. *)
SupplyAssumption == {Day, MaxGap, MaxAge, MaxValue, MaxRows, MaxTime} \subseteq Nat /\ Day > 0

VARIABLES
  clock,
  log    \* intervals [start, end, watched, starved] as read: watched and starved per tick

vars == <<clock, log>>

Init == clock = Day /\ log = {}

Tick == clock < MaxTime /\ clock' = clock + 1 /\ UNCHANGED log

(* A daemon reports; its clock may be a little ahead.  A figure may be missing.  *)
Report ==
  /\ Cardinality(log) < MaxRows
  /\ \E start \in 0 .. clock, end \in 0 .. clock + 1, watched \in {0, 1}, starved \in (0 .. MaxValue) \cup {None} :
       /\ start <= end
       /\ log' = log \cup {[start |-> start, end |-> end, watched |-> watched, starved |-> starved]}
  /\ UNCHANGED clock

Next == Tick \/ Report

Spec == Init /\ [][Next]_vars

-----------------------------------------------------------------------------
(* _supply_records: intervals that have begun, cut off at now. *)
Records ==
  {[row EXCEPT !.end = Min({row.end, clock})] : row \in {r \in log : r.start < clock /\ r.start < r.end}}

Lower == clock - Day
InDay(row) == row.end > Lower

-----------------------------------------------------------------------------
(* Gaps are measured from the start of the day. *)
SweepFrom(spans) == Lower

(* _supply_max_gap: the intervals in order of their starts, cut to the day. *)
LongestGap ==
  LET spans == {<<Max({Lower, row.start}), row.end>> : row \in {r \in Records : InDay(r)}}
      sorted == SetToSortSeq(spans, LAMBDA a, b : a[1] < b[1] \/ (a[1] = b[1] /\ a[2] < b[2]))
      swept == FoldLeft(LAMBDA acc, span :
                   [reached |-> Max({acc.reached, span[2]}), longest |-> Max({acc.longest, span[1] - acc.reached})],
                 [reached |-> SweepFrom(sorted), longest |-> 0], sorted)
  IN Max({swept.longest, clock - swept.reached})

InDayTicks(row) == row.end - Max({row.start, Lower})

Watched == MapThenSumSet(LAMBDA row : row.watched * InDayTicks(row), {r \in Records : InDay(r)})

(* The conditions under which the evidence is called complete. *)
Complete ==
  /\ \E row \in Records : row.start <= Lower
  /\ \E row \in Records : row.end >= clock - MaxAge
  /\ Watched > 0
  /\ LongestGap <= MaxGap

(* The figure: the share of each interval that lies in the day; unavailable as soon *)
(* as one interval lacks it.                                                    *)
Starved ==
  LET rows == {r \in Records : InDay(r)} IN
  IF ~Complete \/ (\E row \in rows : row.starved = None) THEN None
  ELSE MapThenSumSet(LAMBDA row : row.starved * InDayTicks(row), rows)

-----------------------------------------------------------------------------
(* A figure is given only for a day that was watched to its end: any stretch of    *)
(* it longer than the gap allowed holds a moment some interval covers.  Intervals  *)
(* of several daemons may lie within each other or come in any order.             *)
GapsAreSeen ==
  Starved # None =>
    \A from \in Lower .. clock - MaxGap - 1 : \E row \in Records, k \in from .. from + MaxGap :
      row.start <= k /\ k < row.end
=============================================================================
