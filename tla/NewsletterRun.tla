---------------------------- MODULE NewsletterRun ----------------------------
(* The daily newsletter (src/packages/newsletter): daily.py takes a snapshot,  *)
(* computes and renders the day's report, replaces the outputs and wakes the   *)
(* Executor with their paths.  It runs under run.lock, at most one wake a day; *)
(* a dry run does the same without the wake.  A build by hand (newsletter.py)  *)
(* writes into the directory of its UTC date and takes no lock.                *)
(*                                                                             *)
(* A file holds the name of the run whose content is in it.  What the content   *)
(* is worth is in the other Newsletter modules.                                *)
EXTENDS Naturals, FiniteSets

CONSTANTS
  Runs,        \* runs of daily.py
  Hand,        \* builds by hand
  None,        \* no file, no run
  West,        \* ticks by which the operator's clock is behind UTC
  DayTicks,    \* ticks of a day
  MaxTime      \* bound on the clock

(* What the constants have to satisfy. *)
RunAssumption ==
  /\ Runs \cap Hand = {} /\ None \notin Runs \cup Hand
  /\ DayTicks \in Nat \ {0} /\ West \in Nat /\ MaxTime \in Nat

All == Runs \cup Hand

VARIABLES
  clock,
  out,         \* newsletter/<date>: report, html and pdf
  latest,      \* newsletter/latest: the same
  marked,      \* the dates with a wake-sent.json
  lock,        \* run.lock
  pc,          \* where each run is
  now,         \* the time a run started
  dry,         \* the dry runs
  report,      \* whose report a run goes on with
  wakes,       \* ready wakes of each date
  cut,         \* runs that ended between the wake and the marker, for each date
  alone        \* runs whose directory nobody else wrote to since they took the lock

files == <<out, latest, marked>>
vars == <<clock, out, latest, marked, lock, pc, now, dry, report, wakes, cut, alone>>

(* A UTC date, and the operator's date of the same moment, both counted so that *)
(* the day after the first instant is 1.                                       *)
UtcDate(t) == 1 + ((t + West) \div DayTicks)
DayKey(t) == 1 + (t \div DayTicks)
Dates == 0 .. UtcDate(MaxTime)

Parts == {"html", "pdf", "report"}
NoOutputs == [part \in Parts |-> None]

Init ==
  /\ clock = 0 /\ lock = None /\ marked = {} /\ alone = {}
  /\ out = [d \in Dates |-> NoOutputs]
  /\ latest = NoOutputs
  /\ pc = [r \in All |-> "new"]
  /\ now = [r \in All |-> 0]
  /\ dry \in SUBSET Runs
  /\ report = [r \in All |-> None]
  /\ wakes = [d \in Dates |-> 0]
  /\ cut = [d \in Dates |-> 0]

(* The directory a run writes to: the operator's date for the daily run, the    *)
(* UTC date for a build by hand.                                               *)
Directory(r) == IF r \in Runs THEN DayKey(now[r]) ELSE UtcDate(now[r])

(* ---- Plausible slips in the code below, each of which TLC must catch. ---- *)

(* The wake goes out with the day's page; the latest one is replaced afterwards. *)
WakeEarly(stage) ==
  CASE stage = "report" -> "wake" [] stage = "wake" -> "mark" [] stage = "mark" -> "latest html"
    [] stage = "html" -> "pdf" [] stage = "pdf" -> "report"
    [] stage = "latest html" -> "latest pdf" [] stage = "latest pdf" -> "latest report"
    [] OTHER -> "over"

(* ---- The order of a run ---- *)

(* The page's files first, their report last; the latest outputs after the       *)
(* day's; the wake after all of them and the marker after the wake.            *)
NextStage(stage) ==
  CASE stage = "html" -> "pdf"
    [] stage = "pdf" -> "report"
    [] stage = "report" -> "latest report"
    [] stage = "latest report" -> "latest html"
    [] stage = "latest html" -> "latest pdf"
    [] stage = "latest pdf" -> "wake"
    [] stage = "wake" -> "mark"
    [] OTHER -> "over"

(* A dry run ends where the wake would be, a build by hand after its report. *)
After(r, stage) ==
  IF \/ r \in Hand /\ stage = "report"
     \/ r \in dry /\ NextStage(stage) = "wake"
  THEN "over" ELSE NextStage(stage)

(* A run that leaves lets go of the lock. *)
Goto(r, stage) ==
  /\ pc' = [pc EXCEPT ![r] = stage]
  /\ lock' = IF stage = "over" /\ lock = r THEN None ELSE lock

(* Others lose the directory r writes to. *)
Disturb(r) == alone' = {q \in alone : q = r \/ Directory(q) # Directory(r)}

Tick ==
  /\ clock < MaxTime /\ clock' = clock + 1
  /\ UNCHANGED <<files, lock, pc, now, dry, report, wakes, cut, alone>>

(* A build by hand takes its snapshot and computes its report straight away. *)
Start(r) ==
  /\ pc[r] = "new"
  /\ now' = [now EXCEPT ![r] = clock]
  /\ Goto(r, IF r \in Hand THEN "html" ELSE "lock")
  /\ report' = [report EXCEPT ![r] = r]
  /\ UNCHANGED <<clock, files, dry, wakes, cut, alone>>

LockFree == lock = None

(* flock LOCK_EX | LOCK_NB: a second run fails at once, and says so. *)
Lock(r) ==
  /\ pc[r] = "lock" /\ LockFree
  /\ pc' = [pc EXCEPT ![r] = "marker"]
  /\ lock' = r
  /\ alone' = alone \cup {r}
  /\ UNCHANGED <<clock, files, now, dry, report, wakes, cut>>

Locked(r) ==
  /\ pc[r] = "lock" /\ ~LockFree
  /\ Goto(r, "over")
  /\ UNCHANGED <<clock, files, now, dry, report, wakes, cut, alone>>

(* A date whose wake was sent is complete, except for a dry run. *)
Marker(r) ==
  /\ pc[r] = "marker"
  /\ Goto(r, IF DayKey(now[r]) \in marked /\ r \notin dry THEN "over" ELSE "preprocess")
  /\ UNCHANGED <<clock, files, now, dry, report, wakes, cut, alone>>

(* A snapshot is taken, put in place as a whole and computed.  The daily run     *)
(* writes its report where it will stay and reads it back: a build by hand in     *)
(* the same directory may have come in between.                                *)
Preprocess(r) ==
  /\ pc[r] = "preprocess"
  /\ out' = [out EXCEPT ![Directory(r)].report = r]
  /\ Disturb(r)
  /\ Goto(r, "read back")
  /\ UNCHANGED <<clock, latest, marked, now, dry, report, wakes, cut>>

ReadBack(r) ==
  /\ pc[r] = "read back"
  /\ report' = [report EXCEPT ![r] = out[Directory(r)].report]
  /\ Goto(r, "html")
  /\ UNCHANGED <<clock, files, now, dry, wakes, cut, alone>>

(* The page is made and checked in a directory of its own; then each of the     *)
(* day's three files is replaced by itself.                                    *)
Replace(r) ==
  /\ pc[r] \in Parts
  /\ out' = [out EXCEPT ![Directory(r)][pc[r]] = report[r]]
  /\ Disturb(r)
  /\ Goto(r, After(r, pc[r]))
  /\ UNCHANGED <<clock, latest, marked, now, dry, report, wakes, cut>>

LatestPart == [stage \in {"latest report", "latest html", "latest pdf"} |->
                 CASE stage = "latest report" -> "report" [] stage = "latest html" -> "html"
                   [] OTHER -> "pdf"]

(* latest_outputs copies what is in the directory by then. *)
Latest(r) ==
  /\ pc[r] \in DOMAIN LatestPart
  /\ LET part == LatestPart[pc[r]] IN latest' = [latest EXCEPT ![part] = out[Directory(r)][part]]
  /\ Goto(r, After(r, pc[r]))
  /\ UNCHANGED <<clock, out, marked, now, dry, report, wakes, cut, alone>>

(* system.newsletter.ready, with the paths of the day's files. *)
Wake(r) ==
  /\ pc[r] = "wake"
  /\ wakes' = [wakes EXCEPT ![DayKey(now[r])] = @ + 1]
  /\ Goto(r, After(r, "wake"))
  /\ UNCHANGED <<clock, files, now, dry, report, cut, alone>>

Mark(r) ==
  /\ pc[r] = "mark"
  /\ marked' = marked \cup {DayKey(now[r])}
  /\ Goto(r, After(r, "mark"))
  /\ UNCHANGED <<clock, out, latest, now, dry, report, wakes, cut, alone>>

(* A stage fails or the run is killed: it ends where it is.  A failed daily run  *)
(* announces that, unless it is dry.  Publishing leaves no part of the failed    *)
(* page behind.                                                                *)
Stop(r) ==
  /\ pc[r] \notin {"new", "lock", "over"}
  /\ Goto(r, "over")
  /\ cut' = IF pc[r] = "mark" THEN [cut EXCEPT ![DayKey(now[r])] = @ + 1] ELSE cut
  /\ UNCHANGED <<clock, files, now, dry, report, wakes, alone>>

Next ==
  \/ Tick
  \/ \E r \in All :
       \/ Start(r) \/ Lock(r) \/ Locked(r) \/ Marker(r) \/ Preprocess(r)
       \/ ReadBack(r) \/ Replace(r) \/ Latest(r) \/ Wake(r) \/ Mark(r)
       \/ Stop(r)

Spec == Init /\ [][Next]_vars

-----------------------------------------------------------------------------
(* The Executor is woken once for a date, whatever runs meet, start again or    *)
(* cross midnight; only a run that ends between the wake and its marker can     *)
(* have it woken once more.                                                    *)
WokenOnce == \A d \in Dates : wakes[d] <= 1 + cut[d]

(* A wake names a page, a report and latest outputs of one and the same run,    *)
(* also when an earlier run was killed half way through replacing them, unless  *)
(* somebody builds by hand in the same directory meanwhile.                    *)
NamesOneBuild ==
  \A r \in Runs : pc[r] = "wake" /\ wakes' # wakes /\ pc'[r] # "wake" /\ r \in alone =>
    \A part \in Parts : out[Directory(r)][part] = r /\ latest[part] = r

(* Both together: one wake for a date, with the files of one build. *)
OneWakePerDate == []WokenOnce /\ [][NamesOneBuild]_vars
=============================================================================
