----------------------------- MODULE BrokerLedger -----------------------------
(* The shared ledger file of the GitHub budget broker                          *)
(* (src/src/priv/github_budget/00_schema.py): how a broker process opens it,   *)
(* migrates its tables in place, checks the version stamp and prepares it for  *)
(* writing.  A fleet of brokers of several versions does this on one file.     *)
(*                                                                             *)
(* A one-shot command runs every statement in a transaction of its own until   *)
(* its BEGIN IMMEDIATE; a resident broker (`serve`) checks and prepares inside *)
(* the transaction of its batch, and keeps its connection, with a note that it *)
(* is prepared, for the next one.  What the transactions then do to the        *)
(* tables is in GithubBudget and BudgetSession; here a write is a row count.   *)
EXTENDS Naturals, FiniteSets

CONSTANTS
  Brokers,     \* the broker processes that use the file
  Resident,    \* those that serve a daemon: the others run one command at a time
  Version,     \* the broker version each was built with
  Columns,     \* the columns this schema needs beyond the oldest one
  Created,     \* those the CREATE TABLE script itself makes
  Absent,      \* a file without tables
  MaxRows      \* bound: rows ever written

(* What the constants have to satisfy. *)
LedgerAssumption ==
  /\ Resident \subseteq Brokers
  /\ Version \in [Brokers -> Nat \ {0}]
  /\ Created \subseteq Columns
  /\ \A some \in SUBSET Columns : Absent # some
  /\ MaxRows \in Nat

VARIABLES
  columns,     \* the columns of the tables, or Absent
  stamp,       \* broker_meta's broker_version, 0 when there is none
  trigger,     \* the trigger that refuses an admission without a lease
  rows,        \* rows committed by the write commands
  writer,      \* the transaction that holds the write lock: a set of at most one
  pc,          \* where each process is
  seen,        \* the columns its PRAGMA table_info showed it
  read,        \* the stamp it read before it writes one
  prepared,    \* a resident's connection is noted as prepared
  draft        \* what the open transaction has changed: stamp and trigger

vars == <<columns, stamp, trigger, rows, writer, pc, seen, read, prepared, draft>>

Clean == [stamp |-> 0, trigger |-> FALSE]

Init ==
  /\ columns \in {Absent, {}, Created}
  /\ stamp = 0 /\ trigger = FALSE /\ rows = 0 /\ writer = {}
  /\ pc = [b \in Brokers |-> "closed"]
  /\ seen = [b \in Brokers |-> {}]
  /\ read = [b \in Brokers |-> 0]
  /\ prepared = [b \in Brokers |-> FALSE]
  /\ draft = Clean

TypeOK ==
  /\ columns \in {Absent} \cup SUBSET Columns
  /\ stamp \in Nat /\ trigger \in BOOLEAN /\ rows \in 0 .. MaxRows
  /\ writer \subseteq Brokers /\ Cardinality(writer) <= 1
  /\ pc \in [Brokers -> {"closed", "look", "migrate", "check", "trigger", "version", "stamp",
                         "write", "ready", "batch", "commit", "aborted"}]
  /\ seen \in [Brokers -> SUBSET Columns]
  /\ read \in [Brokers -> Nat]
  /\ prepared \in [Brokers -> BOOLEAN]
  /\ draft \in [stamp : Nat, trigger : BOOLEAN]

(* Another process may write only while no transaction holds the lock: SQLite   *)
(* makes it wait, and every waiter here has time.                              *)
Writable == writer = {}

(* ---- Plausible slips in the code below, each of which TLC must catch. ---- *)

(* A duplicate column is an error like any other. *)
DuplicateRaises(b, c) == IF c \in columns THEN "aborted" ELSE "migrate"

(* ---- Opening and migrating ---- *)

Goto(b, where) == pc' = [pc EXCEPT ![b] = where]

(* Connect and run the script of CREATE TABLE IF NOT EXISTS. *)
Open(b) ==
  /\ pc[b] = "closed" /\ rows < MaxRows
  /\ Writable \/ columns # Absent
  /\ columns' = IF columns = Absent THEN Created ELSE columns
  /\ Goto(b, "look")
  /\ UNCHANGED <<stamp, trigger, rows, writer, seen, read, prepared, draft>>

(* PRAGMA table_info: what to add is decided from this one read. *)
Look(b) ==
  /\ pc[b] = "look"
  /\ seen' = [seen EXCEPT ![b] = columns]
  /\ Goto(b, "migrate")
  /\ UNCHANGED <<columns, stamp, trigger, rows, writer, read, prepared, draft>>

(* Losing the race for a column is success: the column is there. *)
AfterAdd(b, c) == "migrate"

AddColumn(b, c) ==
  /\ pc[b] = "migrate" /\ c \notin seen[b] /\ Writable
  /\ columns' = columns \cup {c}
  /\ seen' = [seen EXCEPT ![b] = @ \cup {c}]
  /\ Goto(b, AfterAdd(b, c))
  /\ UNCHANGED <<stamp, trigger, rows, writer, read, prepared, draft>>

Migrated(b) ==
  /\ pc[b] = "migrate" /\ seen[b] = Columns
  /\ Goto(b, IF b \in Resident THEN "ready" ELSE "check")
  /\ UNCHANGED <<columns, stamp, trigger, rows, writer, seen, read, prepared, draft>>

(* ---- A one-shot command: every statement commits by itself ---- *)

(* _ensure_writable: a broker never writes under a newer stamp. *)
MayWrite(b, v) == v <= Version[b]

CheckVersion(b) ==
  /\ pc[b] = "check"
  /\ Goto(b, IF MayWrite(b, stamp) THEN "trigger" ELSE "closed")
  /\ UNCHANGED <<columns, stamp, trigger, rows, writer, seen, read, prepared, draft>>

InstallTrigger(b) ==
  /\ pc[b] = "trigger" /\ Writable
  /\ trigger' = TRUE
  /\ Goto(b, "version")
  /\ UNCHANGED <<columns, stamp, rows, writer, seen, read, prepared, draft>>

(* _stamp_ledger reads the version ... *)
ReadStamp(b) ==
  /\ pc[b] = "version"
  /\ read' = [read EXCEPT ![b] = stamp]
  /\ Goto(b, IF stamp <= Version[b] THEN "stamp" ELSE "write")
  /\ UNCHANGED <<columns, stamp, trigger, rows, writer, seen, prepared, draft>>

(* ... and puts its own in place of whatever is there by then. *)
WriteStamp(b) ==
  /\ pc[b] = "stamp" /\ Writable
  /\ stamp' = Version[b]
  /\ Goto(b, "write")
  /\ UNCHANGED <<columns, trigger, rows, writer, seen, read, prepared, draft>>

(* BEGIN IMMEDIATE to COMMIT; the process then ends. *)
Write(b) ==
  /\ pc[b] = "write" /\ Writable /\ rows < MaxRows
  /\ rows' = rows + 1
  /\ Goto(b, "closed")
  /\ UNCHANGED <<columns, stamp, trigger, writer, seen, read, prepared, draft>>

(* ---- A resident broker: check and preparation are part of the batch ---- *)

Begin(b) ==
  /\ pc[b] = "ready" /\ Writable /\ rows < MaxRows
  /\ writer' = {b}
  /\ draft' = [stamp |-> stamp, trigger |-> trigger]
  /\ Goto(b, "batch")
  /\ UNCHANGED <<columns, stamp, trigger, rows, seen, read, prepared>>

(* The note on the connection after its transaction was rolled back. *)
AfterRollback(b) == [prepared EXCEPT ![b] = FALSE]

Rollback(b) ==
  /\ writer' = {} /\ draft' = Clean
  /\ prepared' = AfterRollback(b)
  /\ Goto(b, "ready")

(* A ledger too new for this broker: every request of the batch is refused. *)
RefuseBatch(b) ==
  /\ pc[b] = "batch" /\ ~MayWrite(b, draft.stamp)
  /\ Rollback(b)
  /\ UNCHANGED <<columns, stamp, trigger, rows, seen, read>>

(* Trigger and stamp, unless the connection has done it before. *)
PrepareBatch(b) ==
  /\ pc[b] = "batch" /\ MayWrite(b, draft.stamp)
  /\ draft' = IF prepared[b] THEN draft ELSE [stamp |-> Version[b], trigger |-> TRUE]
  /\ prepared' = [prepared EXCEPT ![b] = TRUE]
  /\ Goto(b, "commit")
  /\ UNCHANGED <<columns, stamp, trigger, rows, writer, seen, read>>

CommitBatch(b) ==
  /\ pc[b] = "commit"
  /\ stamp' = draft.stamp /\ trigger' = draft.trigger /\ rows' = rows + 1
  /\ writer' = {} /\ draft' = Clean
  /\ Goto(b, "ready")
  /\ UNCHANGED <<columns, seen, read, prepared>>

(* A request of the batch expired before the commit: all of it is rolled back. *)
ExpireBatch(b) ==
  /\ pc[b] = "commit"
  /\ Rollback(b)
  /\ UNCHANGED <<columns, stamp, trigger, rows, seen, read>>

(* A process dies anywhere; SQLite drops its transaction. *)
Die(b) ==
  /\ pc[b] \notin {"closed", "aborted"}
  /\ Goto(b, "closed")
  /\ writer' = writer \ {b}
  /\ draft' = IF b \in writer THEN Clean ELSE draft
  /\ prepared' = [prepared EXCEPT ![b] = FALSE]
  /\ UNCHANGED <<columns, stamp, trigger, rows, seen, read>>

Next ==
  \E b \in Brokers :
    \/ Open(b) \/ Look(b) \/ (\E c \in Columns : AddColumn(b, c)) \/ Migrated(b)
    \/ CheckVersion(b) \/ InstallTrigger(b) \/ ReadStamp(b) \/ WriteStamp(b) \/ Write(b)
    \/ Begin(b) \/ RefuseBatch(b) \/ PrepareBatch(b) \/ CommitBatch(b) \/ ExpireBatch(b)
    \/ Die(b)

Spec == Init /\ [][Next]_vars

-----------------------------------------------------------------------------
(* However many brokers meet a cold ledger, none is turned away by a column    *)
(* another one added first, and none goes on before every column is there.     *)
ColdStartOpens ==
  \A b \in Brokers :
    /\ pc[b] # "aborted"
    /\ pc[b] \notin {"closed", "look", "migrate"} => columns = Columns

(* A row of a write command is only ever in a ledger that refuses a broker      *)
(* from before the leases and that carries a stamp: a batch that was rolled     *)
(* back takes the preparation with it, and the next one must repeat it.        *)
WritersPrepare == rows > 0 => trigger /\ stamp > 0

(* A resident broker's rows are committed under a stamp no newer than itself,   *)
(* whatever the other processes stamped since it was prepared.                 *)
ResidentsDefer ==
  \A b \in Resident : rows' > rows /\ pc[b] = "commit" /\ pc'[b] = "ready" => stamp <= Version[b]

(* The three together: a broker that knows the ledger can open it, and none       *)
(* writes to it without having made it ready, or after a newer one did.          *)
LedgerStaysUsable == [](ColdStartOpens /\ WritersPrepare) /\ [][ResidentsDefer]_vars

(* "it never downgrades the stamp, so a freshly-written ledger cannot be        *)
(* silently regressed by an older writer" (00_schema.py): what the comment on   *)
(* _stamp_ledger says.                                                         *)
NeverDowngraded == [][stamp' >= stamp]_vars
=============================================================================
