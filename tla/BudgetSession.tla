----------------------------- MODULE BudgetSession -----------------------------
(***************************************************************************)
(* How commands reach the ledger of GithubBudget (priv/github_budget and   *)
(* github_budget_metrics.py).  The daemon's resident broker reads requests *)
(* from a pipe, runs up to MaxBatch of them in one SQLite transaction, a   *)
(* savepoint each, and answers after the commit.  A request whose deadline *)
(* passes before the commit is taken out by rolling the whole transaction  *)
(* back and running the others again.  Agents' one-shot brokers write to   *)
(* the same file in between.  Inside its transaction a command looks up    *)
(* which ledger its credential writes to (resolve_credential_identity),    *)
(* and remembers the answer in its own arguments.                          *)
(***************************************************************************)
EXTENDS Integers, Sequences, Functions

CONSTANTS
    Requests,
    Ids, Tokens,        \* stable identities of credentials, hashes of tokens
    Ident, Token,       \* Ident[r], Token[r]: what a request presents
    NoLedger,
    MaxBatch,
    MaxCrashes, MaxFailures     \* bounds

Ledgers == Ids \cup Tokens

\* what the constants have to satisfy
SessionAssumption ==
    /\ Ids \cap Tokens = {} /\ NoLedger \notin Ledgers
    /\ Ident \in [Requests -> Ids] /\ Token \in [Requests -> Tokens]
    /\ MaxBatch \in Nat \ {0}

VARIABLES
    bind,       \* credential_bindings: the ledger of each identity
    rows,       \* what committed commands wrote, [req, ledger]
    work,       \* the transaction's view, [bind, rows]
    key,        \* args.token_key of each request
    asked,      \* requests sent so far
    inbox,      \* the pipe and the queue of the resident broker
    batch,      \* the requests of the transaction, at their places in it
    pos,        \* the place of the last one that has run
    phase,      \* idle, begin, run, commit, answer
    late,       \* requests whose deadline has passed
    replies,    \* set of [req, status], not yet published
    told,       \* what each caller has heard
    crashes, failures

vars == <<bind, rows, work, key, asked, inbox, batch, pos, phase, late, replies, told,
          crashes, failures>>
table == <<bind, rows>>
session == <<inbox, batch, pos, phase, replies, work>>

Statuses == {"done", "failed", "expired"}
Batches == UNION {[places -> Requests] : places \in SUBSET (1..MaxBatch)}
NoBatch == <<>>

TypeOK ==
    /\ bind \in [Ids -> Ledgers \cup {NoLedger}]
    /\ rows \subseteq [req: Requests, ledger: Ledgers]
    /\ key \in [Requests -> Ledgers]
    /\ inbox \in Seq(Requests) /\ batch \in Batches /\ pos \in Nat
    /\ phase \in {"idle", "begin", "run", "commit", "answer"}
    /\ replies \subseteq [req: Requests, status: Statuses]
    /\ told \in [Requests -> Statuses \cup {"nothing"}]
    /\ asked \subseteq Requests /\ late \subseteq Requests

Init ==
    /\ bind = [i \in Ids |-> NoLedger] /\ rows = {}
    /\ work = [bind |-> bind, rows |-> rows]
    /\ key = Token
    /\ asked = {} /\ inbox = <<>> /\ batch = NoBatch /\ pos = 0 /\ phase = "idle"
    /\ late = {} /\ replies = {} /\ told = [r \in Requests |-> "nothing"]
    /\ crashes = 0 /\ failures = 0

-----------------------------------------------------------------------------
(* Plausible slips in the code below, each of which TLC must catch.        *)

Reply(r, status) == [req |-> r, status |-> status]
InBatch == Range(batch)
Others(s) == Restrict(batch, {i \in DOMAIN batch : batch[i] \notin s})

\* only those that had not run yet are told of the failure
FailsTheRest ==
    replies \cup {Reply(r, "failed") : r \in {q \in InBatch : \A p \in replies : p.req # q}}

-----------------------------------------------------------------------------
(* One command inside a transaction.                                       *)

\* resolve_credential_identity: the ledger of the identity, or the ledger of
\* the token in the arguments if nobody adopted it, or one of its own
Resolved(b, r) ==
    LET adopted == \E i \in Ids : b[i] = key[r]
    IN IF b[Ident[r]] # NoLedger THEN b
       ELSE [b EXCEPT ![Ident[r]] = IF adopted THEN Ident[r] ELSE key[r]]

Run(t, r) ==
    LET b == Resolved(t.bind, r)
    IN [bind |-> b, rows |-> t.rows \cup {[req |-> r, ledger |-> b[Ident[r]]]}]

\* the arguments keep the ledger, whether the transaction commits or not
Learn(t, r) == key' = [key EXCEPT ![r] = Resolved(t.bind, r)[Ident[r]]]

-----------------------------------------------------------------------------
(* Callers, clock and one-shot brokers.                                    *)

Ask(r) ==
    /\ r \notin asked
    /\ asked' = asked \cup {r} /\ inbox' = Append(inbox, r)
    /\ UNCHANGED <<table, work, key, batch, pos, phase, late, replies, told, crashes, failures>>

Deadline(r) ==
    /\ r \in asked \ late /\ told[r] = "nothing"
    /\ late' = late \cup {r}
    /\ UNCHANGED <<table, session, key, asked, told, crashes, failures>>

Unlocked == phase \notin {"run", "commit"}

OneShot(r) ==
    /\ r \notin asked /\ Unlocked
    /\ asked' = asked \cup {r}
    /\ LET t == Run([bind |-> bind, rows |-> rows], r) IN bind' = t.bind /\ rows' = t.rows
    /\ Learn([bind |-> bind, rows |-> rows], r)
    /\ told' = [told EXCEPT ![r] = "done"]
    /\ UNCHANGED <<session, late, crashes, failures>>

-----------------------------------------------------------------------------
(* The resident broker.                                                    *)

\* serve, run_batch: what waits in the queue, without what is too late
Take ==
    /\ phase = "idle" /\ inbox # <<>>
    /\ \E n \in 1..Len(inbox) :
         /\ n <= MaxBatch
         /\ batch' = Restrict(inbox, {i \in 1..n : inbox[i] \notin late})
         /\ told' = [r \in Requests |->
                       IF r \in late /\ \E i \in 1..n : inbox[i] = r THEN "expired" ELSE told[r]]
         /\ inbox' = SubSeq(inbox, n + 1, Len(inbox))
    /\ phase' = IF DOMAIN batch' = {} THEN "idle" ELSE "begin"
    /\ pos' = 0
    /\ UNCHANGED <<table, work, key, asked, late, replies, crashes, failures>>

\* begin_batch: the write lock, for those still in time when it is had
Begin ==
    /\ phase = "begin"
    /\ LET gone == InBatch \cap late IN
         /\ batch' = Others(gone)
         /\ replies' = replies \cup {Reply(r, "expired") : r \in gone}
    /\ phase' = IF DOMAIN batch' = {} THEN "answer" ELSE "run"
    /\ work' = [bind |-> bind, rows |-> rows] /\ pos' = 0
    /\ UNCHANGED <<table, key, asked, inbox, late, told, crashes, failures>>

\* ROLLBACK TO request
Undone(t, r) == t

\* the places yet to come
Left(place) == {i \in DOMAIN batch : i > place}

\* run_transaction: the next savepoint, which may be rolled back alone
Step ==
    /\ phase = "run"
    /\ pos' \in Left(pos) /\ \A i \in Left(pos) : pos' <= i
    /\ phase' = IF Left(pos') = {} THEN "commit" ELSE "run"
    /\ LET r == batch[pos'] IN
         \/ /\ r \notin late
            /\ work' = Run(work, r) /\ Learn(work, r)
            /\ replies' = replies \cup {Reply(r, "done")}
            /\ UNCHANGED failures
         \/ /\ r \notin late /\ failures < MaxFailures
            /\ failures' = failures + 1
            /\ Learn(work, r)
            /\ work' = Undone(work, r)
            /\ replies' = replies \cup {Reply(r, "failed")}
         \/ /\ r \in late
            /\ replies' = replies \cup {Reply(r, "expired")}
            /\ UNCHANGED <<work, key, failures>>
    /\ UNCHANGED <<table, asked, inbox, batch, late, told, crashes>>

\* the answers that are kept when the transaction runs again
Carried(gone) ==
    {p \in replies : p.req \notin InBatch} \cup {Reply(r, "expired") : r \in gone}

Again ==
    /\ phase = "commit" /\ InBatch \cap late # {}
    /\ LET gone == InBatch \cap late IN
         /\ replies' = Carried(gone)
         /\ batch' = Others(gone)
    /\ phase' = IF DOMAIN batch' = {} THEN "answer" ELSE "begin"
    /\ pos' = 0
    /\ UNCHANGED <<table, work, key, asked, inbox, late, told, crashes, failures>>

Commit ==
    /\ phase = "commit" /\ InBatch \cap late = {}
    /\ bind' = work.bind /\ rows' = work.rows
    /\ phase' = "answer"
    /\ UNCHANGED <<work, key, asked, inbox, batch, pos, late, replies, told, crashes, failures>>

Failed == {p \in replies : p.req \notin InBatch} \cup {Reply(r, "failed") : r \in InBatch}

\* An error outside the savepoints fails what is left of the batch.
Fail ==
    /\ phase \in {"begin", "run", "commit"} /\ failures < MaxFailures
    /\ failures' = failures + 1
    /\ replies' = Failed
    /\ phase' = "answer"
    /\ UNCHANGED <<table, work, key, asked, inbox, batch, pos, late, told, crashes>>

Answer ==
    /\ phase = "answer"
    /\ told' = [r \in Requests |->
                  IF \E p \in replies : p.req = r
                  THEN (CHOOSE p \in replies : p.req = r).status ELSE told[r]]
    /\ replies' = {} /\ batch' = NoBatch /\ pos' = 0 /\ phase' = "idle"
    /\ UNCHANGED <<table, work, key, asked, inbox, late, crashes, failures>>

\* The broker dies; what it had not committed is gone, and so are the
\* requests it had read.
Crash ==
    /\ crashes < MaxCrashes /\ crashes' = crashes + 1
    /\ inbox' = <<>> /\ batch' = NoBatch /\ pos' = 0 /\ phase' = "idle" /\ replies' = {}
    /\ UNCHANGED <<table, work, key, asked, late, told, failures>>

Broker == Take \/ Begin \/ Step \/ Again \/ Commit \/ Answer

Next ==
    \/ \E r \in Requests : Ask(r) \/ Deadline(r) \/ OneShot(r)
    \/ Broker \/ Fail \/ Crash

Spec == Init /\ [][Next]_vars /\ WF_vars(Broker)

-----------------------------------------------------------------------------
(* Properties.                                                             *)

\* Whoever is told that its command was done finds it in the database: the
\* answer waits for the commit, however often the batch was run again.
DoneIsDurable == \A r \in Requests : told[r] = "done" => \E w \in rows : w.req = r

\* A command that was refused for its deadline, or failed, left nothing,
\* though commands that ran after it in the same transaction did.
RefusedLeavesNothing ==
    \A r \in Requests : told[r] \in {"expired", "failed"} => \A w \in rows : w.req # r

\* What a credential did is in the ledger it is bound to, and in nobody
\* else's, through rotations, replays and brokers that bind in between.
OwnLedger ==
    /\ \A w \in rows : w.ledger = bind[Ident[w.req]]
    /\ \A i, j \in Ids : (i # j /\ bind[i] = bind[j]) => bind[i] = NoLedger

\* The three together: an answer says what the database holds.
AnswersAreTrue == DoneIsDurable /\ RefusedLeavesNothing /\ OwnLedger

=============================================================================
