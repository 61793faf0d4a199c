--------------------------- MODULE WalCheckpoint ---------------------------
(* How the resident broker keeps the write-ahead log of its SQLite file short    *)
(* (priv/github_budget_metrics.py).  A thread of its own copies the log into the  *)
(* file after each batch, without waiting for anyone (PASSIVE); the thread that   *)
(* serves requests only leaves it a note in a queue of one place.  If that thread  *)
(* has died, or the log stays long, the serving thread makes a checkpoint itself   *)
(* (RESTART), at most once a minute, and starts a new thread.                     *)
(*                                                                              *)
(* A tick is a minute: no checkpoint takes that long.  `others` says that another  *)
(* process reads or writes the file, so that a checkpoint may fail or stop short.  *)
EXTENDS Integers

CONSTANTS
  FrameLimit,           \* WAL_FRAME_LIMIT
  Stale, Retry,         \* ten minutes and one minute, in ticks
  MaxBatches, MaxDeaths, MaxTime,   \* bounds
  None

(* What the constants have to satisfy. *)
CheckpointAssumption ==
  /\ {FrameLimit, Stale, Retry, MaxBatches, MaxDeaths, MaxTime} \subseteq Nat
  /\ 1 <= Retry /\ Retry <= Stale
  /\ None \notin Nat

VARIABLES
  frames, copied,    \* the log's frames, and how many of them are in the file
  others,
  queue, active,     \* CHECKPOINT_REQUESTS holds a note; CHECKPOINT_ACTIVE is set
  worker,            \* where the thread is, or "dead"
  told,              \* what its checkpoint returned, or None if it failed
  observed,          \* LAST_OBSERVED_WAL_FRAMES
  success, attempt,  \* ticks since LAST_SUCCESSFUL_CHECKPOINT and LAST_FALLBACK_ATTEMPT
  main,              \* where the serving thread is
  batches, moved,    \* batches; whether one came in this tick, since others came or went
  quiet,             \* ticks with batches and without others since the log was last copied
  deaths, clock

log == <<frames, copied>>
shared == <<observed, success, attempt>>
ghost == <<batches, moved, quiet, deaths, clock>>
vars == <<log, others, queue, active, worker, told, shared, main, ghost>>

Init ==
  /\ frames = 0 /\ copied = 0 /\ others = FALSE
  /\ queue = FALSE /\ active = FALSE /\ worker = "get" /\ told = None
  /\ observed = 0 /\ success = 0 /\ attempt = None
  /\ main = "serve" /\ batches = 0 /\ moved = FALSE /\ quiet = 0 /\ deaths = 0 /\ clock = 0

Restarting == main \in {"restart", "replace"}
Result(busy, total, done) == [busy |-> busy, frames |-> total, copied |-> done]
Dead == worker = "dead"

(* ---- Plausible slips in the code below, each of which TLC must catch. ---- *)

(* The flag of a thread that died at work is taken for work under way. *)
FlagCounts == queue \/ active

(* ---- Other processes, and time ---- *)

Others ==
  /\ others' = ~others /\ moved' = FALSE /\ quiet' = 0
  /\ UNCHANGED <<log, queue, active, worker, told, shared, main, batches, deaths, clock>>

Older(age) == IF age = None \/ age > Stale THEN age ELSE age + 1

Tick ==
  /\ clock < MaxTime /\ clock' = clock + 1
  /\ main = "serve" /\ (Dead \/ (worker = "get" /\ ~queue))
  /\ success' = Older(success) /\ attempt' = Older(attempt)
  /\ quiet' = IF moved /\ ~others /\ copied < frames THEN quiet + 1 ELSE quiet
  /\ moved' = FALSE
  /\ UNCHANGED <<log, others, queue, active, worker, told, observed, main, batches, deaths>>

(* ---- The thread ---- *)

At(here, there) == worker = here /\ worker' = there

(* The flag is set only after the note was taken. *)
TakeNote ==
  /\ At("get", "taken") /\ queue /\ queue' = FALSE
  /\ UNCHANGED <<log, others, active, told, shared, main, ghost>>

SetActive ==
  /\ At("taken", "checkpoint") /\ active' = TRUE
  /\ UNCHANGED <<log, others, queue, told, shared, main, ghost>>

(* All is copied, or as much as others let it; or it fails; or the serving thread's *)
(* own checkpoint has the lock.                                                  *)
Checkpoint ==
  /\ At("checkpoint", "note")
  /\ \/ ~others /\ copied' = frames /\ told' = Result(0, frames, frames) /\ quiet' = 0
     \/ others /\ copied' \in copied .. frames /\ told' = Result(0, frames, copied') /\ UNCHANGED quiet
     \/ others /\ told' = None /\ UNCHANGED <<copied, quiet>>
     \/ Restarting /\ told' = Result(1, -1, -1) /\ UNCHANGED <<copied, quiet>>
  /\ UNCHANGED <<frames, others, queue, active, shared, main, batches, moved, deaths, clock>>

Note ==
  /\ At("note", "clear")
  /\ observed' = IF told = None THEN observed ELSE told.frames
  /\ success' = IF told # None /\ told.busy = 0 /\ told.copied >= told.frames THEN 0 ELSE success
  /\ told' = None
  /\ UNCHANGED <<log, others, queue, active, attempt, main, ghost>>

ClearActive ==
  /\ At("clear", "get") /\ active' = FALSE
  /\ UNCHANGED <<log, others, queue, told, shared, main, ghost>>

(* An exception that is not SQLite's ends the thread wherever it is. *)
Die ==
  /\ ~Dead /\ worker' = "dead" /\ deaths < MaxDeaths /\ deaths' = deaths + 1
  /\ told' = None
  /\ UNCHANGED <<log, others, queue, active, shared, main, batches, moved, quiet, clock>>

(* ---- The serving thread ---- *)

(* A batch commits its frames; a log that is all in the file begins anew. *)
Commit ==
  /\ main = "serve" /\ main' = "recover"
  /\ batches < MaxBatches /\ batches' = batches + 1 /\ moved' = TRUE
  /\ IF copied = frames /\ ~others
     THEN frames' = 1 /\ copied' = 0
     ELSE frames' = frames + 1 /\ UNCHANGED copied
  /\ UNCHANGED <<others, queue, active, worker, told, shared, quiet, deaths, clock>>

Needed == Dead \/ observed > FrameLimit \/ success > Stale
Tried == attempt # None /\ attempt < Retry

(* A note nobody took yet, or a checkpoint under way, of a thread that lives. *)
WorkerBusy == ~Dead /\ (queue \/ active)

(* recover_checkpoint_if_needed up to its checkpoint.  A dead thread's note is      *)
(* thrown away.                                                                  *)
Recover ==
  /\ main = "recover"
  /\ IF Needed /\ ~Tried /\ ~WorkerBusy
     THEN main' = (IF Dead THEN "replace" ELSE "restart") /\ attempt' = 0 /\ queue' = (queue /\ ~Dead)
     ELSE main' = "schedule" /\ UNCHANGED <<attempt, queue>>
  /\ UNCHANGED <<log, others, active, worker, told, observed, success, ghost>>

(* A thread that was found dead is replaced, with a new queue and a new flag, once   *)
(* all is copied.                                                                *)
Restart ==
  /\ Restarting /\ main' = "schedule"
  /\ \/ /\ ~others /\ copied' = frames /\ quiet' = 0
        /\ observed' = 0 /\ success' = 0 /\ attempt' = None
        /\ IF main = "replace"
           THEN worker' = "get" /\ queue' = FALSE /\ active' = FALSE
           ELSE UNCHANGED <<worker, queue, active>>
     \/ /\ others \/ worker = "checkpoint"
        /\ copied' \in copied .. frames
        /\ UNCHANGED <<quiet, shared, worker, queue, active>>
  /\ UNCHANGED <<frames, others, told, batches, moved, deaths, clock>>

(* schedule_checkpoint: the place may be taken. *)
Schedule ==
  /\ main = "schedule" /\ main' = "serve" /\ queue' = TRUE
  /\ UNCHANGED <<log, others, active, worker, told, shared, ghost>>

Next ==
  \/ Others \/ Tick
  \/ TakeNote \/ SetActive \/ Checkpoint \/ Note \/ ClearActive \/ Die
  \/ Commit \/ Recover \/ Restart \/ Schedule

Spec == Init /\ [][Next]_vars

-----------------------------------------------------------------------------
(* The log is copied as long as requests come and nobody else is in the file:      *)
(* whenever the thread dies, whatever it left set or queued, the log waits no       *)
(* longer than the minute between two attempts.                                   *)
LogIsCopied == quiet <= Retry
=============================================================================
