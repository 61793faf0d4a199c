---------------------------- MODULE ProgramsProofs ----------------------------
(***************************************************************************)
(* What the fourteen programs promise, for all values of the constants:     *)
(* for each an inductive invariant, that its steps keep it, and what       *)
(* follows.                                                                *)
(***************************************************************************)
EXTENDS Programs, Sequences, FiniteSetTheorems, WellFoundedInduction, TLAPS

-----------------------------------------------------------------------------
(*****************************************************************************)
(* The ledger that the brokers open (BrokerLedger): a cold file, who may write.*)
(*****************************************************************************)

LEMMA BrokerAssumed == Broker!LedgerAssumption
BY ProgramsAssumption

BrokerPlaces == {"closed", "look", "migrate", "check", "trigger", "version", "stamp",
           "write", "ready", "batch", "commit", "aborted"}
BrokerTyped ==
  /\ columns \in {Absent} \cup SUBSET Columns
  /\ stamp \in Nat /\ trigger \in BOOLEAN /\ broker_rows \in Nat
  /\ broker_pc \in [Brokers -> BrokerPlaces]
  /\ broker_seen \in [Brokers -> SUBSET Columns]
  /\ prepared \in [Brokers -> BOOLEAN]
  /\ draft \in [stamp : Nat, trigger : BOOLEAN]

(* What a broker has read of the columns is there still, and all of them    *)
(* are once it goes on.                                                    *)
BrokerOpened(b) ==
  /\ broker_pc[b] # "aborted"
  /\ broker_pc[b] # "closed" => columns # Absent
  /\ broker_pc[b] \notin {"closed", "look"} => broker_seen[b] \subseteq columns
  /\ broker_pc[b] \notin {"closed", "look", "migrate"} => columns = Columns

(* A one-shot broker prepares the ledger before it writes.                  *)
OneShotReady(b) ==
  /\ broker_pc[b] \in {"version", "stamp", "write"} => trigger
  /\ broker_pc[b] = "write" => stamp > 0

Usable == trigger /\ stamp > 0

(* A transaction is alone, so what it read of the stamp holds while it is   *)
(* open; and a connection that is noted as prepared has prepared the ledger. *)
BrokerAlone(b) ==
  /\ broker_pc[b] \in {"batch", "commit"} <=> writer = {b}
  /\ b \in writer => writer = {b}
  /\ broker_pc[b] = "batch" => draft = [stamp |-> stamp, trigger |-> trigger]
  /\ broker_pc[b] = "commit" => draft.trigger /\ draft.stamp > 0 /\ stamp <= Version[b]
  /\ prepared[b] /\ broker_pc[b] # "commit" => Usable

BrokerInv ==
  /\ BrokerTyped /\ (broker_rows > 0 => Usable)
  /\ \A b \in Brokers : BrokerOpened(b) /\ OneShotReady(b) /\ BrokerAlone(b)

LEMMA BrokerInit == Broker!Init => BrokerInv
<1> SUFFICES ASSUME Broker!Init PROVE BrokerInv
  OBVIOUS
<1> USE BrokerAssumed DEF Broker!LedgerAssumption, Broker!Init
<1>1. BrokerTyped
  BY DEF BrokerTyped, BrokerPlaces, Broker!Clean
<1>2. ASSUME NEW b \in Brokers PROVE BrokerOpened(b) /\ OneShotReady(b) /\ BrokerAlone(b)
  BY DEF BrokerOpened, OneShotReady, BrokerAlone, Usable
<1> QED
  BY <1>1, <1>2 DEF BrokerInv

LEMMA BrokerStep == BrokerInv /\ (Broker!Next \/ UNCHANGED broker_vars) => BrokerInv'
<1> SUFFICES ASSUME BrokerInv, (Broker!Next \/ UNCHANGED broker_vars) PROVE BrokerInv'
  OBVIOUS
<1> USE BrokerAssumed DEF Broker!LedgerAssumption, BrokerInv, BrokerTyped, BrokerPlaces, Broker!Goto,
        BrokerOpened, OneShotReady, BrokerAlone, Usable
<1>1. ASSUME NEW b \in Brokers, Broker!Open(b) PROVE BrokerInv'
  BY <1>1 DEF Broker!Open, Broker!Writable
<1>2. ASSUME NEW b \in Brokers, Broker!Look(b) PROVE BrokerInv'
  BY <1>2 DEF Broker!Look
<1>3. ASSUME NEW b \in Brokers, Broker!Migrated(b) PROVE BrokerInv'
  BY <1>3 DEF Broker!Migrated
<1>4. ASSUME NEW b \in Brokers, Broker!CheckVersion(b) PROVE BrokerInv'
  BY <1>4 DEF Broker!CheckVersion, Broker!MayWrite
<1>5. ASSUME NEW b \in Brokers, Broker!InstallTrigger(b) PROVE BrokerInv'
  BY <1>5 DEF Broker!InstallTrigger, Broker!Writable
<1>6. ASSUME NEW b \in Brokers, Broker!ReadStamp(b) PROVE BrokerInv'
  BY <1>6 DEF Broker!ReadStamp
<1>7. ASSUME NEW b \in Brokers, Broker!WriteStamp(b) PROVE BrokerInv'
  BY <1>7 DEF Broker!WriteStamp, Broker!Writable
<1>8. ASSUME NEW b \in Brokers, Broker!Write(b) PROVE BrokerInv'
  BY <1>8 DEF Broker!Write, Broker!Writable
<1>9. ASSUME NEW b \in Brokers, Broker!Begin(b) PROVE BrokerInv'
  BY <1>9 DEF Broker!Begin, Broker!Writable
<1>10. ASSUME NEW b \in Brokers, Broker!RefuseBatch(b) PROVE BrokerInv'
  BY <1>10 DEF Broker!RefuseBatch, Broker!MayWrite, Broker!Rollback, Broker!Clean, Broker!AfterRollback
<1>11. ASSUME NEW b \in Brokers, Broker!PrepareBatch(b) PROVE BrokerInv'
  BY <1>11 DEF Broker!PrepareBatch, Broker!MayWrite
<1>12. ASSUME NEW b \in Brokers, Broker!CommitBatch(b) PROVE BrokerInv'
  BY <1>12 DEF Broker!CommitBatch, Broker!Clean
<1>13. ASSUME NEW b \in Brokers, Broker!ExpireBatch(b) PROVE BrokerInv'
  BY <1>13 DEF Broker!ExpireBatch, Broker!Rollback, Broker!Clean, Broker!AfterRollback
<1>14. ASSUME NEW b \in Brokers, Broker!Die(b) PROVE BrokerInv'
  BY <1>14 DEF Broker!Die, Broker!Clean
<1>15. ASSUME NEW b \in Brokers, NEW k \in Columns, Broker!AddColumn(b, k) PROVE BrokerInv'
  BY <1>15 DEF Broker!AddColumn, Broker!AfterAdd, Broker!Writable
<1>16. CASE UNCHANGED broker_vars
  BY <1>16 DEF broker_vars
<1> HIDE DEF BrokerInv
<1> QED
  BY <1>1, <1>2, <1>3, <1>4, <1>5, <1>6, <1>7, <1>8, <1>9, <1>10, <1>11, <1>12, <1>13, <1>14, <1>15,
     <1>16 DEF Broker!Next

LEMMA BrokerKeeps == BrokerInv => Broker!ColdStartOpens /\ Broker!WritersPrepare /\ Broker!ResidentsDefer
<1> SUFFICES ASSUME BrokerInv PROVE Broker!ColdStartOpens /\ Broker!WritersPrepare /\ Broker!ResidentsDefer
  OBVIOUS
<1>1. Broker!ColdStartOpens /\ Broker!WritersPrepare
  BY DEF BrokerInv, BrokerOpened, Broker!ColdStartOpens, Broker!WritersPrepare, Usable
<1>2. Broker!ResidentsDefer
  BY BrokerAssumed DEF Broker!LedgerAssumption, BrokerInv, BrokerAlone, Broker!ResidentsDefer
<1> QED
  BY <1>1, <1>2

-----------------------------------------------------------------------------
(*****************************************************************************)
(* The batches of a resident broker (BudgetSession).                         *)
(*****************************************************************************)

LEMMA SessionAssumed == Session!SessionAssumption
BY ProgramsAssumption

SessionWritten == [req : Commands, ledger : Session!Ledgers]
Bindings == [Identities -> Session!Ledgers \cup {NoLedger}]

SessionTyped ==
  /\ asked \subseteq Commands /\ session_told \in [Commands -> Session!Statuses \cup {"nothing"}]
  /\ inbox \in Seq(Commands)
  /\ DOMAIN batch \subseteq Nat \ {0} /\ \A i \in DOMAIN batch : batch[i] \in Commands
  /\ pos \in Nat
  /\ session_phase \in {"idle", "begin", "run", "commit", "answer"}
  /\ replies \subseteq [req : Commands, status : Session!Statuses]

(* A ledger has one identity, and what was written is in the ledger of its   *)
(* credential's; in the database and in the transaction's view of it.       *)
Sound(b, written) ==
  /\ b \in Bindings /\ written \subseteq SessionWritten
  /\ \A w \in written : w.ledger = b[Ident[w.req]]
  /\ \A i \in Identities : b[i] \in Tokens \cup {i, NoLedger}
  /\ \A i, j \in Identities : i # j /\ b[i] = b[j] => b[i] = NoLedger
SessionBound ==
  /\ Sound(bind, session_rows) /\ Sound(session_work.bind, session_work.rows)
  /\ key \in [Commands -> Session!Ledgers] /\ \A r \in Commands : key[r] \in Tokens \cup {Ident[r]}

(* A request that has no answer yet is in one place.                       *)
Answered(r) == \E p \in replies : p.req = r
Has(written, r) == \E w \in written : w.req = r
SessionPlaced ==
  /\ \A i, j \in DOMAIN inbox : inbox[i] = inbox[j] => i = j
  /\ \A i, j \in DOMAIN batch : batch[i] = batch[j] => i = j
  /\ \A i \in DOMAIN inbox : ~Answered(inbox[i]) /\ ~Has(session_rows, inbox[i]) /\ inbox[i] \notin Session!InBatch
  /\ \A r \in Commands : r \in Session!Range(inbox) \/ r \in Session!InBatch \/ Answered(r)
       => r \in asked /\ session_told[r] = "nothing"
  /\ \A r \in Commands : Has(session_rows, r) \/ session_told[r] # "nothing" => r \in asked
  /\ session_phase = "idle" => replies = {} /\ DOMAIN batch = {}
  /\ session_phase \in {"begin", "run", "commit"} => \A r \in Session!InBatch : ~Has(session_rows, r)

(* What a caller has heard, and what it will hear, is in the database, or in *)
(* what the transaction is to commit.                                      *)
Ran == {r \in Commands : \E i \in DOMAIN batch : i <= pos /\ batch[i] = r}
SessionHeard ==
  /\ \A p, q \in replies : p.req = q.req => p = q
  /\ \A r \in Commands : (session_told[r] = "done" => Has(session_rows, r))
       /\ (session_told[r] \in {"expired", "failed"} => ~Has(session_rows, r))
  /\ session_phase \in {"begin", "run", "commit"} =>
       \A p \in replies : p.req \notin Session!InBatch => p.status # "done" /\ ~Has(session_rows, p.req)
  /\ session_phase = "begin" => \A p \in replies : p.req \notin Session!InBatch
  /\ session_phase \in {"run", "commit"} =>
       /\ session_rows \subseteq session_work.rows
       /\ \A w \in session_work.rows : w \in session_rows \/ w.req \in Ran
       /\ \A p \in replies : p.req \in Session!InBatch
            => p.req \in Ran /\ (p.status = "done" <=> Has(session_work.rows, p.req))
  /\ session_phase = "answer" => \A p \in replies : p.status = "done" <=> Has(session_rows, p.req)

SessionInv == SessionTyped /\ SessionBound /\ SessionPlaced /\ SessionHeard

LEMMA SessionConstants == Identities \cap Tokens = {} /\ NoLedger \notin Identities /\ NoLedger \notin Tokens
                   /\ Ident \in [Commands -> Identities] /\ Token \in [Commands -> Tokens]
BY SessionAssumed DEF Session!SessionAssumption, Session!Ledgers

LEMMA SessionInit == Session!Init => SessionInv
<1> SUFFICES ASSUME Session!Init PROVE SessionInv
  OBVIOUS
<1> USE SessionConstants DEF Session!Init
<1>0. DOMAIN batch = {} /\ DOMAIN inbox = {}
  BY DEF Session!NoBatch
<1>1. SessionTyped
  BY <1>0 DEF SessionTyped, Session!NoBatch
<1>2. SessionBound
  BY DEF SessionBound, Sound, Bindings, SessionWritten, Session!Ledgers
<1>3. SessionPlaced /\ SessionHeard
  BY <1>0 DEF SessionPlaced, SessionHeard, Session!InBatch, Session!Range, Answered, Has
<1> QED
  BY <1>1, <1>2, <1>3 DEF SessionInv

(* A command of one credential writes to its own ledger.                   *)
LEMMA RunIsSound ==
  ASSUME NEW b, NEW written, Sound(b, written), SessionBound, NEW r \in Commands
  PROVE  LET t == [bind |-> b, rows |-> written]
             line == [req |-> r, ledger |-> Session!Resolved(b, r)[Ident[r]]] IN
         /\ Session!Run(t, r).bind = Session!Resolved(b, r) /\ Session!Run(t, r).rows = written \cup {line}
         /\ Sound(Session!Resolved(b, r), written \cup {line})
         /\ Session!Resolved(b, r)[Ident[r]] \in Tokens \cup {Ident[r]}
<1> USE SessionConstants DEF Session!Ledgers
<1> DEFINE i == Ident[r]
           n == Session!Resolved(b, r)
           line == [req |-> r, ledger |-> n[i]]
<1>1. i \in Identities /\ b \in Bindings /\ key[r] \in Tokens \cup {i}
  BY DEF SessionBound, Sound
<1>2. CASE b[i] # NoLedger
  <2>1. n = b
    BY <1>2 DEF Session!Resolved
  <2> QED
    BY <1>1, <1>2, <2>1 DEF Session!Run, Sound, SessionWritten, Bindings
<1>3. CASE b[i] = NoLedger
  <2> DEFINE l == IF \E j \in Identities : b[j] = key[r] THEN i ELSE key[r]
  <2>1. n = [b EXCEPT ![i] = l] /\ l \in Tokens \cup {i}
    BY <1>1, <1>3 DEF Session!Resolved
  <2>2. \A j \in Identities : b[j] # l
    BY <1>1, <1>3 DEF Sound
  <2> HIDE DEF l
  <2>3. n \in Bindings /\ n[i] = l /\ \A j \in Identities : j # i => n[j] = b[j]
    BY <1>1, <2>1 DEF Bindings
  <2>4. \A w \in written : Ident[w.req] # i /\ Ident[w.req] \in Identities
    BY <1>3 DEF Sound, SessionWritten
  <2>5. Sound(n, written \cup {line})
    BY <1>1, <2>1, <2>2, <2>3, <2>4 DEF Sound, SessionWritten
  <2> HIDE DEF n
  <2> QED
    BY <2>1, <2>3, <2>5 DEF Session!Run, n
<1> QED
  BY <1>2, <1>3

LEMMA AskStep == ASSUME SessionInv, NEW r \in Commands, Session!Ask(r) PROVE SessionInv'
<1> USE DEF SessionInv, Session!table
<1>1. /\ inbox' \in Seq(Commands) /\ DOMAIN inbox = 1 .. Len(inbox) /\ Len(inbox) \in Nat
      /\ DOMAIN inbox' = 1 .. Len(inbox) + 1 /\ inbox'[Len(inbox) + 1] = r
      /\ \A i \in DOMAIN inbox : inbox'[i] = inbox[i]
  BY DEF Session!Ask, SessionTyped
<1>2. \A i \in DOMAIN inbox' : i \in DOMAIN inbox \/ i = Len(inbox) + 1
  BY <1>1
<1>3. ~Has(session_rows, r) /\ session_told[r] = "nothing" /\ ~Answered(r)
        /\ r \notin Session!Range(inbox) /\ r \notin Session!InBatch
  BY DEF Session!Ask, SessionPlaced
<1>4. SessionTyped' /\ SessionBound'
  BY <1>1 DEF Session!Ask, SessionTyped, SessionBound
<1>5. Session!Range(inbox') = Session!Range(inbox) \cup {r}
  BY <1>1, <1>2 DEF Session!Range
<1>6. \A i, j \in DOMAIN inbox' : inbox'[i] = inbox'[j] => i = j
  BY <1>1, <1>2, <1>3 DEF SessionPlaced, Session!Range
<1>7. SessionPlaced'
  BY <1>1, <1>2, <1>3, <1>5, <1>6 DEF Session!Ask, SessionPlaced, Answered, Session!InBatch
<1>8. SessionHeard'
  BY DEF Session!Ask, SessionHeard, Session!InBatch, Ran
<1> QED
  BY <1>4, <1>7, <1>8

LEMMA OneShotStep == ASSUME SessionInv, NEW r \in Commands, Session!OneShot(r) PROVE SessionInv'
<1> USE DEF SessionInv, Session!session
<1> DEFINE n == Session!Resolved(bind, r)
           line == [req |-> r, ledger |-> n[Ident[r]]]
<1>1. /\ bind' = n /\ session_rows' = session_rows \cup {line}
      /\ Sound(n, session_rows \cup {line}) /\ n[Ident[r]] \in Tokens \cup {Ident[r]}
      /\ key' = [key EXCEPT ![r] = n[Ident[r]]]
  <2> DEFINE t == [bind |-> bind, rows |-> session_rows]
  <2>1. bind' = Session!Run(t, r).bind /\ session_rows' = Session!Run(t, r).rows
          /\ key' = [key EXCEPT ![r] = Session!Resolved(t.bind, r)[Ident[r]]]
    BY Zenon DEF Session!OneShot, Session!Learn
  <2>2. t.bind = bind
    OBVIOUS
  <2>3. Sound(bind, session_rows) /\ SessionBound
    BY DEF SessionBound
  <2>4. /\ Session!Run(t, r).bind = n /\ Session!Run(t, r).rows = session_rows \cup {line}
        /\ Sound(n, session_rows \cup {line}) /\ n[Ident[r]] \in Tokens \cup {Ident[r]}
    BY <2>3, RunIsSound, Zenon
  <2> HIDE DEF t, n
  <2> QED
    BY <2>1, <2>2, <2>4, Zenon DEF n
<1> HIDE DEF n
<1>2. ~Has(session_rows, r) /\ session_told[r] = "nothing" /\ ~Answered(r)
        /\ r \notin Session!Range(inbox) /\ r \notin Session!InBatch
  BY DEF Session!OneShot, SessionPlaced
<1>3. session_phase \notin {"run", "commit"} /\ asked' = asked \cup {r}
        /\ session_told' = [session_told EXCEPT ![r] = "done"]
      /\ UNCHANGED <<Session!session, late>>
  BY DEF Session!OneShot, Session!Unlocked
<1>4. SessionTyped'
  BY <1>3 DEF SessionTyped, Session!Statuses
<1>5. SessionBound'
  BY <1>1, <1>3, SessionConstants DEF SessionBound, Session!Ledgers
<1>6. \A q \in Commands : Has(session_rows', q) <=> Has(session_rows, q) \/ q = r
  <2>1. session_rows' = session_rows \cup {line} /\ line.req = r
    BY <1>1
  <2> HIDE DEF line
  <2> QED
    BY <2>1 DEF Has
<1>7. \A q \in Commands : (q \in Session!Range(inbox) \/ q \in Session!InBatch \/ Answered(q)) => q # r
  BY <1>2
<1>8. SessionPlaced'
  <2>1. \A q \in Commands : session_told'[q] = IF q = r THEN "done" ELSE session_told[q]
    BY <1>3 DEF SessionTyped
  <2>2. /\ \A i \in DOMAIN inbox : inbox[i] \in Commands /\ inbox[i] \in Session!Range(inbox)
        /\ Session!InBatch \subseteq Commands
    BY DEF SessionTyped, Session!Range, Session!InBatch
  <2> QED
    BY <1>3, <1>6, <1>7, <2>1, <2>2 DEF SessionPlaced, Answered, Session!InBatch
<1>9. SessionHeard'
  <2>1. \A q \in Commands : session_told'[q] = IF q = r THEN "done" ELSE session_told[q]
    BY <1>3 DEF SessionTyped
  <2>2. \A p \in replies : p.req \in Commands /\ p.req # r
    BY <1>7 DEF SessionTyped, Answered
  <2> QED
    BY <1>3, <1>6, <2>1, <2>2 DEF SessionHeard, Session!InBatch, Ran
<1> QED
  BY <1>4, <1>5, <1>8, <1>9

LEMMA DeadlineStep == ASSUME SessionInv, NEW r \in Commands, Session!Deadline(r) PROVE SessionInv'
BY DEF Session!Deadline, Session!table, Session!session, SessionInv, SessionTyped, SessionBound, SessionPlaced,
   SessionHeard, Session!InBatch, Answered, Has, Ran

(* What the batch and the pipe hold.                                       *)
LEMMA SessionHeld ==
  ASSUME SessionTyped
  PROVE  /\ \A r \in Session!InBatch : r \in Commands /\ \E i \in DOMAIN batch : batch[i] = r
         /\ \A i \in DOMAIN batch : batch[i] \in Session!InBatch
         /\ \A i \in DOMAIN inbox : inbox[i] \in Commands /\ inbox[i] \in Session!Range(inbox)
         /\ \A p \in replies : p.req \in Commands /\ p.status \in Session!Statuses /\ Answered(p.req)
BY DEF SessionTyped, Session!InBatch, Session!Range, Answered

LEMMA TakeStep == SessionInv /\ Session!Take => SessionInv'
<1> SUFFICES ASSUME SessionInv, Session!Take PROVE SessionInv'
  OBVIOUS
<1> USE DEF SessionInv, Session!table
<1>0. PICK n \in 1 .. Len(inbox) :
        /\ batch' = Session!Restrict(inbox, {i \in 1 .. n : inbox[i] \notin late})
        /\ session_told' = [r \in Commands |->
             IF r \in late /\ \E i \in 1 .. n : inbox[i] = r THEN "expired" ELSE session_told[r]]
        /\ inbox' = SubSeq(inbox, n + 1, Len(inbox))
  BY DEF Session!Take
<1>1. /\ session_phase = "idle" /\ replies = {} /\ DOMAIN batch = {} /\ session_phase' \in {"idle", "begin"}
      /\ session_phase' = "idle" => DOMAIN batch' = {}
      /\ UNCHANGED <<Session!table, session_work, key, asked, late, replies>> /\ pos' = 0
  BY DEF Session!Take, SessionPlaced
<1>2. inbox \in Seq(Commands) /\ Len(inbox) \in Nat /\ DOMAIN inbox = 1 .. Len(inbox) /\ n \in Nat
        /\ 1 <= n /\ n <= Len(inbox)
  BY DEF SessionTyped
<1>3. /\ DOMAIN batch' = {i \in 1 .. n : inbox[i] \notin late}
      /\ \A i \in DOMAIN batch' : batch'[i] = inbox[i] /\ i \in DOMAIN inbox /\ i <= n
  BY <1>0, <1>2 DEF Session!Restrict
<1>4. /\ inbox' \in Seq(Commands) /\ DOMAIN inbox' = 1 .. Len(inbox) - n
      /\ \A i \in DOMAIN inbox' : inbox'[i] = inbox[i + n] /\ i + n \in DOMAIN inbox /\ i + n > n
  BY <1>0, <1>2
<1>5. \A r \in Commands : \/ session_told'[r] = session_told[r]
                          \/ session_told'[r] = "expired" /\ r \in late /\ \E i \in DOMAIN inbox :
                               i <= n /\ inbox[i] = r
  BY <1>0, <1>2
<1>6. SessionTyped'
  <2>1. session_told' \in [Commands -> Session!Statuses \cup {"nothing"}]
    BY <1>0 DEF SessionTyped, Session!Statuses
  <2>2. DOMAIN batch' \subseteq Nat \ {0} /\ \A i \in DOMAIN batch' : batch'[i] \in Commands
    <3>1. \A i \in DOMAIN batch' : i \in Nat \ {0} /\ inbox[i] \in Commands
      BY <1>2, <1>3
    <3> QED BY <1>3, <3>1
  <2>3. pos' \in Nat /\ session_phase' \in {"idle", "begin", "run", "commit", "answer"}
    BY <1>1
  <2>4. asked' \subseteq Commands /\ replies' \subseteq [req : Commands, status : Session!Statuses]
    BY <1>1 DEF SessionTyped, Session!Take, Session!table
  <2> QED BY <1>4, <2>1, <2>2, <2>3, <2>4 DEF SessionTyped
<1>7. SessionBound'
  BY <1>1 DEF SessionBound
<1>8. \A r \in Session!InBatch' : \E i \in DOMAIN inbox : i <= n /\ inbox[i] = r /\ r \notin late
  BY <1>3 DEF Session!InBatch, Session!Range
<1>9. \A r \in Session!Range(inbox') : \E i \in DOMAIN inbox : i > n /\ inbox[i] = r
  BY <1>4 DEF Session!Range
<1>10. \A i \in DOMAIN inbox : inbox[i] \in Commands /\ inbox[i] \in asked
         /\ session_told[inbox[i]] = "nothing" /\ ~Has(session_rows, inbox[i])
  BY SessionHeld DEF SessionPlaced
<1>11. \A i, j \in DOMAIN inbox : inbox[i] = inbox[j] => i = j
  BY DEF SessionPlaced
<1>12. SessionPlaced'
  <2>1. \A i, j \in DOMAIN inbox' : inbox'[i] = inbox'[j] => i = j
    BY <1>2, <1>4, <1>11
  <2>2. \A i, j \in DOMAIN batch' : batch'[i] = batch'[j] => i = j
    BY <1>3, <1>11
  <2>3. \A i \in DOMAIN inbox' : inbox'[i] \in Session!Range(inbox')
    BY DEF Session!Range
  <2>4. \A i \in DOMAIN inbox' : (~Answered(inbox[i]) /\ ~Has(session_rows, inbox[i])
          /\ inbox[i] \notin Session!InBatch)'
    <3> SUFFICES ASSUME NEW i \in DOMAIN inbox'
                 PROVE (~Answered(inbox[i]) /\ ~Has(session_rows, inbox[i]) /\ inbox[i] \notin Session!InBatch)'
      OBVIOUS
    <3>1. (~Answered(inbox[i]) /\ ~Has(session_rows, inbox[i]))'
      BY <1>1, <1>4, <1>10 DEF Answered
    <3>2. inbox'[i] \notin Session!InBatch'
      BY <1>2, <1>4, <1>8, <1>11
    <3> QED
      BY <3>1, <3>2
  <2>5. ASSUME NEW r \in Commands, r \in Session!Range(inbox') \/ r \in Session!InBatch' \/ Answered(r)'
        PROVE  r \in asked /\ session_told'[r] = "nothing"
    <3>1. ~Answered(r)'
      BY <1>1 DEF Answered
    <3>2. PICK i \in DOMAIN inbox : inbox[i] = r /\ (i > n \/ r \notin late)
      BY <1>8, <1>9, <2>5, <3>1
    <3> QED
      BY <1>2, <1>5, <1>10, <1>11, <3>2
  <2>6. \A r \in Commands : Has(session_rows, r) \/ session_told'[r] # "nothing" => r \in asked
    BY <1>5, <1>10 DEF SessionPlaced
  <2>7. \A r \in Session!InBatch' : ~Has(session_rows, r)
    BY <1>8, <1>10
  <2> QED
    BY <1>1, <2>1, <2>2, <2>4, <2>5, <2>6, <2>7 DEF SessionPlaced
<1>13. SessionHeard'
  <2>1. \A r \in Commands : (session_told'[r] = "done" => Has(session_rows, r))
          /\ (session_told'[r] \in {"expired", "failed"} => ~Has(session_rows, r))
    BY <1>5, <1>10 DEF SessionHeard
  <2> QED
    BY <1>1, <2>1 DEF SessionHeard
<1> QED
  BY <1>6, <1>7, <1>12, <1>13

(* Commands are taken out of the batch.                                    *)
LEMMA OthersAre ==
  ASSUME SessionTyped, NEW gone, batch' = Session!Others(gone)
  PROVE  /\ Session!InBatch' = Session!InBatch \ gone
         /\ DOMAIN batch' \subseteq DOMAIN batch /\ \A i \in DOMAIN batch' : batch'[i] = batch[i]
<1>1. /\ DOMAIN batch' = {i \in DOMAIN batch : batch[i] \notin gone}
      /\ \A i \in DOMAIN batch' : batch'[i] = batch[i]
  BY DEF Session!Others, Session!Restrict
<1> QED
  BY <1>1 DEF Session!InBatch, Session!Range

(* The batch is to begin, or has nothing left to do but answer.             *)
LEMMA BeginOrAnswer ==
  ASSUME SessionInv, session_phase \in {"begin", "commit"}, NEW gone \in SUBSET Session!InBatch,
         batch' = Session!Others(gone),
         replies' = {p \in replies : p.req \notin Session!InBatch} \cup {Session!Reply(r, "expired") : r \in gone},
         UNCHANGED <<Session!table, key, asked, inbox, session_told>>, pos' = 0,
         \/ session_phase' = "answer" /\ UNCHANGED session_work
         \/ session_phase' = "begin" /\ UNCHANGED session_work
         \/ session_phase' \in {"answer", "run"} /\ session_work' = [bind |-> bind, rows |-> session_rows]
  PROVE  SessionInv'
<1> USE DEF SessionInv, Session!table
<1>1. /\ Session!InBatch' = Session!InBatch \ gone /\ DOMAIN batch' \subseteq DOMAIN batch
      /\ \A i \in DOMAIN batch' : batch'[i] = batch[i]
  BY OthersAre
<1>2. \A p \in replies' : \/ p \in replies /\ p.req \notin Session!InBatch
                          \/ p = Session!Reply(p.req, "expired") /\ p.status = "expired" /\ p.req \in gone
  BY DEF Session!Reply
<1>3. \A r \in gone : r \in Commands /\ r \in Session!InBatch /\ ~Has(session_rows, r)
  BY SessionHeld DEF SessionPlaced
<1>4. \A p \in replies' : p.req \notin Session!InBatch' /\ p.status # "done" /\ ~Has(session_rows, p.req)
        /\ p.req \in Commands
  BY <1>1, <1>2, <1>3, SessionHeld DEF SessionHeard
<1>5. SessionTyped'
  <2>1. replies' \subseteq [req : Commands, status : Session!Statuses]
    BY <1>3 DEF SessionTyped, Session!Reply, Session!Statuses
  <2> QED
    BY <1>1, <2>1 DEF SessionTyped
<1>6. SessionBound'
  <2>1. session_work' = session_work \/ (session_work'.bind = bind /\ session_work'.rows = session_rows)
    OBVIOUS
  <2> QED
    BY <2>1 DEF SessionBound
<1>7. \A r \in Commands : Answered(r)' => Answered(r) \/ r \in Session!InBatch
  BY <1>2, <1>3 DEF Answered
<1>8. SessionPlaced'
  <2>1. \A i \in DOMAIN inbox : inbox[i] \in Commands
    BY SessionHeld
  <2>2. session_phase' # "idle" /\ Session!InBatch' \subseteq Session!InBatch
    BY <1>1
  <2> QED
    BY <1>1, <1>7, <2>1, <2>2 DEF SessionPlaced
<1>9. SessionHeard'
  <2>1. \A p, q \in replies' : p.req = q.req => p = q
    BY <1>2, <1>3 DEF SessionHeard
  <2>2. session_phase' \in {"run", "commit"} => session_work'.rows = session_rows
    OBVIOUS
  <2> QED
    BY <1>4, <2>1, <2>2 DEF SessionHeard
<1> QED
  BY <1>5, <1>6, <1>8, <1>9

LEMMA BeginStep == SessionInv /\ (Session!Begin \/ Session!Again) => SessionInv'
<1> SUFFICES ASSUME SessionInv, Session!Begin \/ Session!Again PROVE SessionInv'
  OBVIOUS
<1>1. CASE Session!Begin
  <2>1. \A p \in replies : p.req \notin Session!InBatch
    BY <1>1 DEF Session!Begin, SessionInv, SessionHeard
  <2>2. replies = {p \in replies : p.req \notin Session!InBatch}
    BY <2>1
  <2>3. Session!InBatch \cap late \in SUBSET Session!InBatch
    OBVIOUS
  <2> QED
    BY <1>1, <2>2, <2>3, BeginOrAnswer DEF Session!Begin
<1>2. CASE Session!Again
  BY <1>2, BeginOrAnswer DEF Session!Again, Session!Carried
<1> QED
  BY <1>1, <1>2

(* One command runs, or fails, or is too late; those before it have run.     *)
LEMMA StepKeeps ==
  ASSUME SessionInv, session_phase = "run", session_phase' \in {"commit", "run"},
         NEW place \in DOMAIN batch, place > pos, pos' = place,
         NEW status \in Session!Statuses, replies' = replies \cup {Session!Reply(batch[place], status)},
         Sound(session_work'.bind, session_work'.rows),
         \/ session_work' = session_work /\ status # "done"
         \/ /\ status = "done"
            /\ \E line \in SessionWritten : line.req = batch[place]
                 /\ session_work'.rows = session_work.rows \cup {line},
         key' = key \/ \E l \in Tokens \cup {Ident[batch[place]]} : key' = [key EXCEPT ![batch[place]] = l],
         UNCHANGED <<Session!table, asked, inbox, batch, late, session_told>>
  PROVE  SessionInv'
<1> USE DEF SessionInv, Session!table
<1> DEFINE r == batch[place]
<1>1. r \in Commands /\ r \in Session!InBatch /\ place \in Nat /\ pos \in Nat /\ Session!InBatch' = Session!InBatch
  BY DEF SessionTyped, Session!InBatch, Session!Range
<1>2. r \notin Ran /\ ~Has(session_rows, r)
  BY <1>1 DEF Ran, SessionPlaced, SessionTyped
<1>3. ~Answered(r) /\ ~Has(session_work.rows, r)
  BY <1>1, <1>2 DEF SessionHeard, Answered, Has
<1>4. Session!Reply(r, status).req = r /\ Session!Reply(r, status).status = status
  BY DEF Session!Reply
<1>5. \A p \in replies' : p \in replies \/ (p.req = r /\ p.status = status)
  BY <1>4
<1>6. SessionTyped'
  BY <1>1 DEF SessionTyped, Session!Reply
<1>7. SessionBound'
  BY <1>1, SessionConstants DEF SessionBound, Session!Ledgers
<1>8. SessionPlaced'
  <2>1. \A q \in Commands : Answered(q)' => Answered(q) \/ q = r
    BY <1>5 DEF Answered
  <2>2. \A i \in DOMAIN inbox : inbox[i] \in Commands /\ inbox[i] \in Session!Range(inbox) /\ inbox[i] # r
    BY <1>1, SessionHeld DEF SessionPlaced
  <2> QED
    BY <1>1, <2>1, <2>2 DEF SessionPlaced
<1>9. SessionHeard'
  <2>1. Ran \subseteq Ran' /\ r \in Ran'
    BY <1>1 DEF Ran, SessionTyped
  <2>2. \A p, q \in replies' : p.req = q.req => p = q
    BY <1>3, <1>4, <1>5 DEF SessionHeard, Answered
  <2>3. \A q \in Commands : q # r => (Has(session_work'.rows, q) <=> Has(session_work.rows, q))
    BY DEF Has
  <2>4. Has(session_work'.rows, r) <=> status = "done"
    BY <1>3 DEF Has
  <2>5. \A p \in replies' : p.req \in Session!InBatch
          => p.req \in Ran' /\ (p.status = "done" <=> Has(session_work'.rows, p.req))
    <3> SUFFICES ASSUME NEW p \in replies', p.req \in Session!InBatch
                 PROVE  p.req \in Ran' /\ (p.status = "done" <=> Has(session_work'.rows, p.req))
      OBVIOUS
    <3>1. CASE p \in replies
      <4>1. p.req # r /\ p.req \in Commands
        BY <1>3, <3>1, SessionHeld DEF Answered
      <4> QED
        BY <2>1, <2>3, <3>1, <4>1 DEF SessionHeard
    <3>2. CASE p.req = r /\ p.status = status
      BY <2>1, <2>4, <3>2
    <3> QED
      BY <1>5, <3>1, <3>2
  <2>6. \A p \in replies' : p.req \notin Session!InBatch => p.status # "done" /\ ~Has(session_rows, p.req)
    BY <1>1, <1>5 DEF SessionHeard
  <2>7. session_rows \subseteq session_work'.rows /\ \A w \in session_work'.rows :
          w \in session_rows \/ w.req \in Ran'
    BY <2>1 DEF SessionHeard
  <2> QED
    BY <1>1, <2>2, <2>5, <2>6, <2>7 DEF SessionHeard
<1> QED
  BY <1>6, <1>7, <1>8, <1>9

LEMMA StepStep == SessionInv /\ Session!Step => SessionInv'
<1> SUFFICES ASSUME SessionInv, Session!Step PROVE SessionInv'
  OBVIOUS
<1> DEFINE r == batch[pos']
           n == Session!Resolved(session_work.bind, r)
           line == [req |-> r, ledger |-> n[Ident[r]]]
           t == [bind |-> session_work.bind, rows |-> session_work.rows]
<1>1. /\ pos' \in DOMAIN batch /\ pos' > pos /\ session_phase = "run" /\ session_phase' \in {"commit", "run"}
      /\ UNCHANGED <<Session!table, asked, inbox, batch, late, session_told>>
  BY DEF Session!Step, Session!Left
<1>2. r \in Commands /\ SessionBound /\ Sound(session_work.bind, session_work.rows)
  BY <1>1 DEF SessionInv, SessionTyped, SessionBound
<1>3. /\ Session!Run(t, r).bind = n /\ Session!Run(t, r).rows = session_work.rows \cup {line}
      /\ Sound(n, session_work.rows \cup {line}) /\ n[Ident[r]] \in Tokens \cup {Ident[r]}
  BY <1>2, RunIsSound, Zenon
<1>4. Session!Run(session_work, r) = Session!Run(t, r)
  BY DEF Session!Run
<1>5. line \in SessionWritten /\ line.req = r
  BY <1>2, <1>3, SessionConstants DEF SessionWritten, Session!Ledgers
<1>6. CASE session_work' = Session!Run(session_work, r) /\ Session!Learn(session_work, r)
             /\ replies' = replies \cup {Session!Reply(r, "done")}
  <2>1. key' = [key EXCEPT ![r] = n[Ident[r]]]
    BY <1>6 DEF Session!Learn
  <2>2. session_work'.rows = session_work.rows \cup {line} /\ Sound(session_work'.bind, session_work'.rows)
    BY <1>3, <1>4, <1>6
  <2>3. "done" \in Session!Statuses
    BY DEF Session!Statuses
  <2> HIDE DEF n, line, t, r
  <2> QED
    BY <1>1, <1>3, <1>5, <1>6, <2>1, <2>2, <2>3, StepKeeps DEF r
<1>7. CASE session_work' = session_work /\ Session!Learn(session_work, r)
             /\ replies' = replies \cup {Session!Reply(r, "failed")}
  <2>1. key' = [key EXCEPT ![r] = n[Ident[r]]]
    BY <1>7 DEF Session!Learn
  <2>2. "failed" \in Session!Statuses
    BY DEF Session!Statuses
  <2> HIDE DEF n, line, t, r
  <2> QED
    BY <1>1, <1>2, <1>3, <1>7, <2>1, <2>2, StepKeeps DEF r
<1>8. CASE session_work' = session_work /\ key' = key /\ replies' = replies \cup {Session!Reply(r, "expired")}
  <2>1. "expired" \in Session!Statuses
    BY DEF Session!Statuses
  <2> HIDE DEF n, line, t, r
  <2> QED
    BY <1>1, <1>2, <1>8, <2>1, StepKeeps DEF r
<1> QED
  BY <1>6, <1>7, <1>8 DEF Session!Step, Session!Undone

LEMMA CommitStep == SessionInv /\ Session!Commit => SessionInv'
<1> SUFFICES ASSUME SessionInv, Session!Commit PROVE SessionInv'
  OBVIOUS
<1> USE DEF SessionInv
<1>1. /\ session_phase = "commit" /\ session_phase' = "answer" /\ bind' = session_work.bind
           /\ session_rows' = session_work.rows
      /\ UNCHANGED <<session_work, key, asked, inbox, batch, pos, late, replies, session_told>>
  BY DEF Session!Commit
<1>2. SessionTyped' /\ SessionBound'
  BY <1>1 DEF SessionTyped, SessionBound
<1>3. \A q \in Commands : Has(session_rows', q) => Has(session_rows, q) \/ q \in Session!InBatch
  BY <1>1 DEF Has, SessionHeard, Ran, Session!InBatch, Session!Range
<1>4. \A q \in Commands : Has(session_rows, q) => Has(session_rows', q)
  BY <1>1 DEF Has, SessionHeard
<1>5. \A q \in Session!InBatch : q \in Commands /\ q \in asked /\ session_told[q] = "nothing"
  BY SessionHeld DEF SessionPlaced
<1>6. \A i \in DOMAIN inbox : inbox[i] \in Commands /\ inbox[i] \notin Session!InBatch
  BY SessionHeld DEF SessionPlaced
<1>7. SessionPlaced'
  BY <1>1, <1>3, <1>5, <1>6 DEF SessionPlaced, Session!InBatch, Answered
<1>8. \A p \in replies : p.status = "done" <=> Has(session_rows', p.req)
  <2> SUFFICES ASSUME NEW p \in replies PROVE p.status = "done" <=> Has(session_rows', p.req)
    OBVIOUS
  <2>1. CASE p.req \in Session!InBatch
    BY <1>1, <2>1 DEF SessionHeard
  <2>2. CASE p.req \notin Session!InBatch
    BY <1>1, <1>3, <2>2, SessionHeld DEF SessionHeard
  <2> QED
    BY <2>1, <2>2
<1>9. SessionHeard'
  BY <1>1, <1>3, <1>4, <1>5, <1>8 DEF SessionHeard
<1> QED
  BY <1>2, <1>7, <1>9

LEMMA FailStep == SessionInv /\ Session!Fail => SessionInv'
<1> SUFFICES ASSUME SessionInv, Session!Fail PROVE SessionInv'
  OBVIOUS
<1> USE DEF SessionInv, Session!table
<1>1. /\ session_phase \in {"begin", "run", "commit"} /\ session_phase' = "answer" /\ replies' = Session!Failed
      /\ UNCHANGED <<bind, session_rows, session_work, key, asked, inbox, batch, pos, late, session_told>>
  BY DEF Session!Fail
<1>2. \A p \in replies' : \/ p \in replies /\ p.req \notin Session!InBatch
                          \/ p = Session!Reply(p.req, "failed") /\ p.status = "failed" /\ p.req \in Session!InBatch
  BY <1>1 DEF Session!Failed, Session!Reply
<1>3. \A q \in Session!InBatch : q \in Commands /\ ~Has(session_rows, q)
  BY <1>1, SessionHeld DEF SessionPlaced
<1>4. replies' \subseteq [req : Commands, status : Session!Statuses]
  BY <1>1, <1>3 DEF Session!Failed, Session!Reply, SessionTyped, Session!Statuses
<1>5. SessionTyped' /\ SessionBound'
  BY <1>1, <1>4 DEF SessionTyped, SessionBound
<1>6. \A q \in Commands : Answered(q)' => Answered(q) \/ q \in Session!InBatch
  BY <1>2 DEF Answered
<1>7. \A i \in DOMAIN inbox : inbox[i] \in Commands
  BY SessionHeld
<1>8. SessionPlaced'
  BY <1>1, <1>6, <1>7 DEF SessionPlaced, Session!InBatch
<1>9. \A p \in replies' : p.status # "done" /\ ~Has(session_rows, p.req)
  BY <1>1, <1>2, <1>3 DEF SessionHeard
<1>10. \A p, q \in replies' : p.req = q.req => p = q
  BY <1>2 DEF SessionHeard
<1>11. SessionHeard'
  BY <1>1, <1>9, <1>10 DEF SessionHeard
<1> QED
  BY <1>5, <1>8, <1>11

LEMMA AnswerStep == SessionInv /\ Session!Answer => SessionInv'
<1> SUFFICES ASSUME SessionInv, Session!Answer PROVE SessionInv'
  OBVIOUS
<1> USE DEF SessionInv, Session!table
<1>1. /\ session_phase = "answer" /\ session_phase' = "idle" /\ replies' = {} /\ DOMAIN batch' = {} /\ pos' = 0
      /\ UNCHANGED <<bind, session_rows, session_work, key, asked, inbox, late>>
  BY DEF Session!Answer, Session!NoBatch
<1>2. ASSUME NEW q \in Commands, Answered(q)
      PROVE  session_told'[q] \in Session!Statuses /\ (session_told'[q] = "done" <=> Has(session_rows, q))
               /\ q \in asked /\ q \notin Session!Range(inbox)
  <2>1. PICK p \in replies : p.req = q
    BY <1>2 DEF Answered
  <2>2. (CHOOSE x \in replies : x.req = q) = p
    BY <2>1 DEF SessionHeard
  <2>3. session_told'[q] = p.status
    BY <2>1, <2>2 DEF Session!Answer
  <2> QED
    BY <1>1, <1>2, <2>1, <2>3, SessionHeld DEF SessionHeard, SessionPlaced, Session!Range
<1>3. \A q \in Commands : ~Answered(q) => session_told'[q] = session_told[q]
  BY DEF Session!Answer, Answered
<1>4. session_told' \in [Commands -> Session!Statuses \cup {"nothing"}]
  BY <1>2, <1>3 DEF Session!Answer, SessionTyped
<1>5. SessionTyped' /\ SessionBound'
  BY <1>1, <1>4 DEF SessionTyped, SessionBound
<1>6. SessionPlaced'
  <2>1. Session!InBatch' = {} /\ \A q \in Commands : ~Answered(q)'
    BY <1>1 DEF Session!InBatch, Session!Range, Answered
  <2>2. \A i \in DOMAIN inbox : inbox[i] \in Commands
    BY SessionHeld
  <2> QED
    BY <1>1, <1>2, <1>3, <2>1, <2>2 DEF SessionPlaced, Answered
<1>7. SessionHeard'
  BY <1>1, <1>2, <1>3 DEF SessionHeard, Session!Statuses
<1> QED
  BY <1>5, <1>6, <1>7

LEMMA CrashStep == SessionInv /\ Session!Crash => SessionInv'
<1> SUFFICES ASSUME SessionInv, Session!Crash PROVE SessionInv'
  OBVIOUS
<1> USE DEF SessionInv, Session!table
<1>1. /\ session_phase' = "idle" /\ replies' = {} /\ DOMAIN batch' = {} /\ pos' = 0
      /\ inbox' = <<>> /\ DOMAIN inbox' = {}
      /\ UNCHANGED <<bind, session_rows, session_work, key, asked, late, session_told>>
  BY DEF Session!Crash, Session!NoBatch
<1>2. SessionTyped' /\ SessionBound'
  BY <1>1 DEF SessionTyped, SessionBound
<1>3. Session!InBatch' = {} /\ Session!Range(inbox') = {} /\ \A q \in Commands : ~Answered(q)'
  BY <1>1 DEF Session!InBatch, Session!Range, Answered
<1>4. SessionPlaced' /\ SessionHeard'
  BY <1>1, <1>3 DEF SessionPlaced, SessionHeard
<1> QED
  BY <1>2, <1>4

LEMMA SessionStep == SessionInv /\ (Session!Next \/ UNCHANGED session_vars) => SessionInv'
<1>1. SessionInv /\ UNCHANGED session_vars => SessionInv'
  BY DEF session_vars, Session!table, Session!session, SessionInv, SessionTyped, SessionBound, SessionPlaced,
     SessionHeard, Session!InBatch, Answered, Has, Ran
<1> QED
  BY <1>1, AskStep, DeadlineStep, OneShotStep, TakeStep, BeginStep, StepStep, CommitStep, FailStep, AnswerStep,
     CrashStep DEF Session!Next, Session!Broker

LEMMA SessionAnswers == SessionInv => Session!AnswersAreTrue
<1> SUFFICES ASSUME SessionInv PROVE Session!AnswersAreTrue
  OBVIOUS
<1>1. Session!DoneIsDurable /\ Session!RefusedLeavesNothing
  BY DEF SessionInv, SessionHeard, Has, Session!DoneIsDurable, Session!RefusedLeavesNothing
<1>2. Session!OwnLedger
  BY DEF SessionInv, SessionBound, Sound, Session!OwnLedger
<1> QED
  BY <1>1, <1>2 DEF Session!AnswersAreTrue

-----------------------------------------------------------------------------
(*****************************************************************************)
(* The copying back of the write-ahead log (WalCheckpoint).                  *)
(*****************************************************************************)

LEMMA WalAssumed == Wal!CheckpointAssumption
BY ProgramsAssumption

WalTyped ==
  /\ frames \in Nat /\ copied \in Nat /\ copied <= frames
  /\ quiet \in Nat /\ wal_attempt \in Nat \cup {None}
  /\ main \in {"serve", "recover", "restart", "replace", "schedule"}
  /\ worker \in {"get", "taken", "checkpoint", "note", "clear", "dead"}
  /\ main = "replace" => worker = "dead"

Waiting == wal_moved /\ ~others /\ copied < frames

(* A thread that lives copies what it finds, and its note says that there is *)
(* something.                                                              *)
AliveCopies ==
  ~Wal!Dead => quiet = 0 /\ (Waiting /\ main = "serve" => wal_queue \/ worker \in {"taken", "checkpoint"})

(* The log waits no longer than since the last attempt to copy it, and not   *)
(* at all while there is none to wait for.                                 *)
WaitIsBounded ==
  /\ others => quiet = 0
  /\ quiet <= Retry
  /\ wal_attempt = None => quiet <= 1
  /\ wal_attempt # None /\ ~Wal!Restarting => quiet <= wal_attempt
  /\ Waiting /\ quiet # 0 /\ main \in {"schedule", "serve"} => Wal!Tried

WalInv == WalTyped /\ AliveCopies /\ WaitIsBounded

LEMMA WalLimits == Stale \in Nat /\ Retry \in Nat /\ 1 <= Retry /\ Retry <= Stale /\ None \notin Nat
BY WalAssumed DEF Wal!CheckpointAssumption

LEMMA WalInit == Wal!Init => WalInv
BY WalLimits DEF Wal!Init, WalInv, WalTyped, AliveCopies, WaitIsBounded, Wal!Restarting, Wal!Dead, Waiting

LEMMA WalStep == WalInv /\ (Wal!Next \/ UNCHANGED wal_vars) => WalInv'
<1> SUFFICES ASSUME WalInv, (Wal!Next \/ UNCHANGED wal_vars) PROVE WalInv'
  OBVIOUS
<1> USE WalLimits DEF WalInv, WalTyped, AliveCopies, WaitIsBounded, Wal!Restarting, Wal!Dead, Waiting,
        Wal!Tried, Wal!log, Wal!shared, Wal!ghost
<1>1. CASE Wal!Others
  BY <1>1 DEF Wal!Others
<1>2. CASE Wal!Tick
  <2>1. /\ wal_attempt = None => wal_attempt' = None
        /\ wal_attempt # None => wal_attempt' \in Nat /\ wal_attempt' # None /\ wal_attempt <= wal_attempt'
        /\ wal_attempt # None /\ wal_attempt <= Stale => wal_attempt' = wal_attempt + 1
    BY <1>2 DEF Wal!Tick, Wal!Older
  <2>2. CASE quiet' = quiet
    BY <1>2, <2>1, <2>2 DEF Wal!Tick
  <2>3. CASE quiet' = quiet + 1 /\ Waiting
    <3>1. Wal!Dead /\ main = "serve" /\ UNCHANGED <<Wal!log, others, wal_queue, worker, main>> /\ wal_moved' = FALSE
      BY <1>2, <2>3 DEF Wal!Tick
    <3>2. CASE quiet = 0
      BY <2>1, <2>3, <3>1, <3>2
    <3>3. CASE quiet # 0
      BY <2>1, <2>3, <3>1, <3>3
    <3> QED
      BY <3>2, <3>3
  <2>4. quiet' = quiet \/ (quiet' = quiet + 1 /\ Waiting)
    BY <1>2 DEF Wal!Tick
  <2> QED
    BY <2>2, <2>3, <2>4
<1>3. CASE Wal!TakeNote \/ Wal!SetActive
  BY <1>3 DEF Wal!TakeNote, Wal!SetActive, Wal!At
<1>4. CASE Wal!Checkpoint
  BY <1>4 DEF Wal!Checkpoint, Wal!At
<1>5. CASE Wal!Note \/ Wal!ClearActive
  BY <1>5 DEF Wal!Note, Wal!ClearActive, Wal!At
<1>6. CASE Wal!Die
  BY <1>6 DEF Wal!Die
<1>7. CASE Wal!Commit
  BY <1>7 DEF Wal!Commit
<1>8. CASE Wal!Recover
  BY <1>8 DEF Wal!Recover, Wal!Needed, Wal!WorkerBusy
<1>9. CASE Wal!Restart
  BY <1>9 DEF Wal!Restart
<1>10. CASE Wal!Schedule
  BY <1>10 DEF Wal!Schedule
<1>11. CASE UNCHANGED wal_vars
  BY <1>11 DEF wal_vars
<1> QED
  BY <1>1, <1>2, <1>3, <1>4, <1>5, <1>6, <1>7, <1>8, <1>9, <1>10, <1>11 DEF Wal!Next

LEMMA WalCopies == WalInv => Wal!LogIsCopied
BY DEF WalInv, WaitIsBounded, Wal!LogIsCopied

-----------------------------------------------------------------------------
(*****************************************************************************)
(* The reaper that signals by pidfd (PidfdReap).                             *)
(*****************************************************************************)

LEMMA ReapAssumed == Reap!ReapAssumption
BY ProgramsAssumption

ReapTyped ==
  /\ mode \in {"group", "tree", "process"}
  /\ live \in [Pids -> Reap!Registrations \cup {None}]
  /\ births \in Nat /\ 2 <= births /\ kin \subseteq Nat /\ Reap!Provider \in kin
  /\ reap_pc \in {"open root", "check root", "list", "open", "check", "last check", "signal", "term", "wait", "done",
             "refused"}

(* A birth is of one process at most, which has its number for life.        *)
OfOne ==
  /\ \A p \in Pids : Reap!Used(p) => live[p].born <= births
  /\ \A p, q \in Pids : Reap!Used(p) /\ Reap!Used(q) /\ live[p].born = live[q].born => p = q

(* A pidfd that was just opened is of the birth it was opened on.           *)
Attached ==
  /\ reap_pc \in {"check root", "check"} =>
       /\ fd.pid \in Pids /\ fd.born \in Nat /\ fd.born <= births
       /\ \A p \in Pids : Reap!Used(p) /\ live[p].born = fd.born => p = fd.pid
  /\ reap_pc = "check root" => fd.pid = Root

(* While the provider lives, its group is its own.                         *)
Leads == Reap!Used(Root) /\ live[Root].born = Reap!Provider
GroupIsKin == Leads => \A p \in Pids : Reap!Used(p) /\ live[p].group = Root => live[p].born \in kin

ReapSignals ==
  /\ reap_pc \in {"open root", "check root"} => fds = {} /\ signalled = {}
  /\ mode = "group" =>
       /\ Leads \/ reap_pc \in {"signal", "term", "wait", "done"} => fds \subseteq kin
       /\ signalled \subseteq kin
  /\ mode = "process" =>
       /\ reap_pc \notin {"list", "open", "check"}
       /\ fds \subseteq {Reap!Provider} /\ signalled \subseteq {Reap!Provider}

ReapInv == ReapTyped /\ OfOne /\ Attached /\ GroupIsKin /\ ReapSignals

LEMMA ReapInit == Reap!Init => ReapInv
<1> USE ReapAssumed DEF Reap!ReapAssumption
<1> SUFFICES ASSUME Reap!Init PROVE ReapInv
  OBVIOUS
<1>0. /\ mode \in {"group", "tree", "process"} /\ births = 2 /\ kin = {Reap!Provider, 2}
      /\ reap_pc = "open root" /\ fds = {} /\ signalled = {} /\ live = [p \in Pids |-> live[p]]
  BY DEF Reap!Init
<1>1. \A p \in Pids : live[p] = IF p = Root THEN Reap!Process(Reap!Provider, Root, 0)
                                ELSE IF p = Child THEN Reap!Process(2, Root, Root) ELSE None
  BY DEF Reap!Init
<1>2. Reap!Process(Reap!Provider, Root, 0) \in Reap!Registrations
        /\ Reap!Process(2, Root, Root) \in Reap!Registrations
  BY DEF Reap!Process, Reap!Registrations, Reap!Provider
<1>3. live \in [Pids -> Reap!Registrations \cup {None}]
  BY <1>0, <1>1, <1>2
<1>4. \A p \in Pids : Reap!Used(p) => (p = Root /\ live[p].born = 1) \/ (p = Child /\ live[p].born = 2)
  BY <1>1 DEF Reap!Used, Reap!Process, Reap!Provider
<1>a. births = 2
  BY <1>0
<1>b. 1 \in Nat /\ 2 \in Nat /\ births \in Nat /\ 2 <= births /\ 1 <= births
  BY <1>a
<1>5. ReapTyped
  BY <1>0, <1>3, <1>b DEF ReapTyped, Reap!Provider
<1>6. OfOne
  BY <1>4, <1>b, <1>a DEF OfOne
<1>7. GroupIsKin
  BY <1>0, <1>4 DEF GroupIsKin, Reap!Provider
<1> QED
  BY <1>0, <1>5, <1>6, <1>7 DEF ReapInv, Attached, ReapSignals

(* AgentProcesses end, or are adopted.                                          *)
LEMMA ReapEndsKeep ==
  ASSUME ReapInv, live' \in [Pids -> Reap!Registrations \cup {None}], UNCHANGED <<births, kin, Reap!helper>>,
         \A q \in Pids : live'[q] # None =>
           live[q] # None /\ live'[q].born = live[q].born /\ live'[q].group = live[q].group
  PROVE  ReapInv'
<1> USE ReapAssumed DEF Reap!ReapAssumption, ReapInv
<1>1. ReapTyped' /\ OfOne' /\ Attached'
  BY DEF ReapTyped, OfOne, Attached, Reap!Used, Reap!helper
<1>2. Leads' => Leads
  BY DEF Leads, Reap!Used
<1>3. GroupIsKin' /\ ReapSignals'
  BY <1>2 DEF GroupIsKin, ReapSignals, Reap!Used, Reap!helper, ReapTyped
<1> QED
  BY <1>1, <1>3

(* A process is born.                                                      *)
LEMMA BirthsGrow ==
  ASSUME NEW n \in Nat, 2 <= n
  PROVE  n + 1 \in Nat /\ n < n + 1 /\ n <= n + 1 /\ 2 <= n + 1 /\ n + 1 # 1
         /\ \A m \in Nat : m <= n => m <= n + 1 /\ m # n + 1
OBVIOUS

LEMMA ReapBirthKeeps ==
  ASSUME ReapInv, NEW q \in Pids, ~Reap!Used(q), births' = births + 1, NEW g \in Pids, NEW mother \in Pids \cup {0},
         live' = [live EXCEPT ![q] = Reap!Process(births', g, mother)], UNCHANGED Reap!helper,
         kin' = kin \/ kin' = kin \cup {births'},
         Leads /\ g = Root => births' \in kin'
  PROVE  ReapInv'
<1> USE ReapAssumed DEF Reap!ReapAssumption, ReapInv
<1>00. births \in Nat /\ 2 <= births
  BY DEF ReapTyped
<1>0. /\ births' \in Nat /\ births' <= births' /\ 2 <= births' /\ births' # 1
      /\ \A m \in Nat : m <= births => m <= births' /\ m # births'
  BY <1>00, BirthsGrow
<1>1. /\ live'[q] = Reap!Process(births', g, mother) /\ \A p \in Pids \ {q} : live'[p] = live[p]
      /\ Reap!Process(births', g, mother) \in Reap!Registrations
      /\ kin \subseteq kin'
  BY <1>0 DEF ReapTyped, Reap!Process, Reap!Registrations
<1>2. Reap!Used(q)' /\ live'[q].born = births' /\ live'[q].group = g
  BY <1>0, <1>1 DEF Reap!Used, Reap!Process
<1>3. \A p \in Pids \ {q} : Reap!Used(p)' => Reap!Used(p) /\ live'[p] = live[p]
  BY <1>0, <1>1 DEF Reap!Used
<1>4. \A p \in Pids : Reap!Used(p) => live[p].born \in Nat /\ live[p].born <= births
  BY DEF ReapTyped, OfOne, Reap!Used, Reap!Registrations
<1>5. ReapTyped'
  BY <1>0, <1>1 DEF ReapTyped, Reap!helper
<1>6. OfOne'
  BY <1>0, <1>1, <1>2, <1>3, <1>4 DEF OfOne, ReapTyped
<1>7. Attached'
  BY <1>0, <1>1, <1>2, <1>3, <1>4 DEF Attached, ReapTyped, Reap!helper
<1>8. Leads' => Leads
  BY <1>0, <1>1, <1>2, <1>3 DEF Leads, Reap!Provider
<1>9. GroupIsKin'
  BY <1>0, <1>1, <1>2, <1>3, <1>8 DEF GroupIsKin
<1>10. ReapSignals'
  BY <1>0, <1>1, <1>8 DEF ReapSignals, Reap!helper
<1> QED
  BY <1>5, <1>6, <1>7, <1>9, <1>10

LEMMA ReapStep == ReapInv /\ (Reap!Next \/ UNCHANGED reap_vars) => ReapInv'
<1> SUFFICES ASSUME ReapInv, (Reap!Next \/ UNCHANGED reap_vars) PROVE ReapInv'
  OBVIOUS
<1> USE ReapAssumed DEF Reap!ReapAssumption
<1>1. ASSUME NEW p \in Pids, NEW q \in Pids, Reap!Fork(p, q) PROVE ReapInv'
  <2>1. ~Reap!Used(q) /\ Reap!Used(p) /\ live[p].group \in Pids
    BY <1>1 DEF Reap!Fork, Reap!Free, ReapInv, ReapTyped, Reap!Used, Reap!Registrations
  <2>2. Leads /\ live[p].group = Root => live[p].born \in kin
    BY <2>1 DEF ReapInv, GroupIsKin
  <2> QED
    BY <1>1, <2>1, <2>2, ReapBirthKeeps DEF Reap!Fork
<1>2. ASSUME NEW q \in Pids, Reap!Spawn(q) PROVE ReapInv'
  <2>1. ~Reap!Used(q) /\ (Leads => q # Root)
    BY <1>2 DEF Reap!Spawn, Reap!Free, Leads
  <2> QED
    BY <1>2, <2>1, ReapBirthKeeps DEF Reap!Spawn
<1>3. ASSUME NEW p \in Pids, Reap!Exit(p) PROVE ReapInv'
  <2>1. \A q \in Pids : live'[q] = None \/ live'[q] = live[q]
          \/ (Reap!Used(q) /\ live'[q] = [live[q] EXCEPT !.parent = 0])
    BY <1>3 DEF Reap!Exit
  <2>2. ASSUME NEW q \in Pids, live'[q] # None
        PROVE  /\ live[q] # None /\ live'[q].born = live[q].born /\ live'[q].group = live[q].group
               /\ live'[q] \in Reap!Registrations
    <3>1. live[q] # None => live[q] \in Reap!Registrations
      BY DEF ReapInv, ReapTyped
    <3>2. CASE live'[q] = live[q]
      BY <2>2, <3>1, <3>2
    <3>3. CASE Reap!Used(q) /\ live'[q] = [live[q] EXCEPT !.parent = 0]
      BY <3>1, <3>3 DEF Reap!Used, Reap!Registrations
    <3> QED
      BY <2>1, <2>2, <3>2, <3>3
  <2>3. live' \in [Pids -> Reap!Registrations \cup {None}]
    BY <1>3, <2>2 DEF Reap!Exit
  <2> QED
    BY <1>3, <2>2, <2>3, ReapEndsKeep DEF Reap!Exit
<1>4. CASE Reap!Kill
  <2>1. /\ live' \in [Pids -> Reap!Registrations \cup {None}]
        /\ \A q \in Pids : live'[q] # None => live[q] # None /\ live'[q] = live[q]
    BY <1>4 DEF Reap!Kill, ReapInv, ReapTyped
  <2>2. Leads' => Leads
    BY <2>1 DEF Leads, Reap!Used
  <2> QED
    BY <1>4, <2>1, <2>2 DEF Reap!Kill, ReapInv, ReapTyped, OfOne, Attached, GroupIsKin, ReapSignals, Reap!Used
<1> USE DEF ReapInv, Reap!kernel
<1>5. ASSUME NEW p \in Pids, Reap!ReadProcess(p) \/ Reap!OpenMember(p) PROVE ReapInv'
  <2>1. CASE Reap!ReadProcess(p)
    BY <2>1 DEF Reap!ReadProcess, ReapTyped, OfOne, Attached, GroupIsKin, ReapSignals, Reap!Used, Leads
  <2>2. CASE Reap!OpenMember(p)
    <3>1. ReapTyped' /\ OfOne' /\ GroupIsKin' /\ ReapSignals'
      BY <2>2 DEF Reap!OpenMember, ReapTyped, OfOne, GroupIsKin, ReapSignals, Reap!Used, Leads
    <3>2. CASE Reap!Used(p)
      <4>1. live[p].born \in Nat /\ live[p].born <= births
        BY <3>2 DEF ReapTyped, OfOne, Reap!Used, Reap!Registrations
      <4>2. reap_pc' = "check" /\ fd' = [pid |-> p, born |-> live[p].born] /\ UNCHANGED <<live, births>>
        BY <2>2, <3>2 DEF Reap!OpenMember
      <4> QED
        BY <3>1, <3>2, <4>1, <4>2 DEF Attached, OfOne, Reap!Used
    <3>3. CASE ~Reap!Used(p)
      BY <2>2, <3>1, <3>3 DEF Reap!OpenMember, Attached
    <3> QED
      BY <3>2, <3>3
  <2> QED
    BY <1>5, <2>1, <2>2
<1>6. CASE Reap!OpenRoot
  <2>1. ReapTyped' /\ OfOne' /\ GroupIsKin' /\ ReapSignals'
    BY <1>6 DEF Reap!OpenRoot, ReapTyped, OfOne, GroupIsKin, ReapSignals, Reap!Used, Leads
  <2>2. CASE Reap!Used(Root)
    <3>1. live[Root].born \in Nat /\ live[Root].born <= births
      BY <2>2 DEF ReapTyped, OfOne, Reap!Used, Reap!Registrations
    <3>2. reap_pc' = "check root" /\ fd' = [pid |-> Root, born |-> live[Root].born] /\ UNCHANGED <<live, births>>
      BY <1>6, <2>2 DEF Reap!OpenRoot
    <3> QED
      BY <2>1, <2>2, <3>1, <3>2 DEF Attached, OfOne, Reap!Used
  <2>3. CASE ~Reap!Used(Root)
    BY <1>6, <2>1, <2>3 DEF Reap!OpenRoot, Attached
  <2> QED
    BY <2>2, <2>3
<1>7. CASE Reap!CheckRoot
  <2>1. Reap!Identified(Root) /\ Reap!Alive(fd.born) => fd.born = Reap!Provider
    BY <1>7 DEF Reap!CheckRoot, Reap!Identified, Reap!Alive, Attached
  <2> QED
    BY <1>7, <2>1 DEF Reap!CheckRoot, ReapTyped, OfOne, Attached, GroupIsKin, ReapSignals, Reap!Used, Leads,
       Reap!Identified
<1>8. CASE Reap!CheckMember
  <2>1. Reap!Belongs(fd.pid) /\ Reap!Alive(fd.born) => Reap!Used(fd.pid) /\ live[fd.pid].born = fd.born
    BY <1>8 DEF Reap!CheckMember, Reap!Alive, Attached
  <2>2. Leads /\ mode = "group" => fds' \subseteq kin
    BY <1>8, <2>1 DEF Reap!CheckMember, Reap!Belongs, GroupIsKin, ReapSignals, Attached
  <2> QED
    BY <1>8, <2>2 DEF Reap!CheckMember, ReapTyped, OfOne, Attached, GroupIsKin, ReapSignals, Reap!Used, Leads
<1>9. CASE Reap!ChooseMembers \/ Reap!Opened \/ Reap!LastCheck
  <2>1. CASE Reap!ChooseMembers
    <3>1. reap_pc = "list" /\ reap_pc' = "open" /\ UNCHANGED <<mode, table, fd, fds, signalled, Reap!kernel>>
      BY <2>1 DEF Reap!ChooseMembers
    <3> QED
      BY <3>1 DEF ReapTyped, OfOne, Attached, GroupIsKin, ReapSignals, Reap!Used, Leads
  <2>2. CASE Reap!Opened
    BY <2>2 DEF Reap!Opened, ReapTyped, OfOne, Attached, GroupIsKin, ReapSignals, Reap!Used, Leads
  <2>3. CASE Reap!LastCheck
    BY <2>3 DEF Reap!LastCheck, Reap!Identified, ReapTyped, OfOne, Attached, GroupIsKin, ReapSignals,
       Reap!Used, Leads
  <2> QED
    BY <1>9, <2>1, <2>2, <2>3
<1>10. CASE Reap!SignalRoot \/ Reap!SignalAll
  BY <1>10 DEF Reap!SignalRoot, Reap!SignalAll, ReapTyped, OfOne, Attached, GroupIsKin, ReapSignals, Reap!Used,
     Leads
<1>11. CASE UNCHANGED reap_vars
  BY <1>11 DEF reap_vars, ReapTyped, OfOne, Attached, GroupIsKin, ReapSignals, Reap!Used, Leads
<1> HIDE DEF ReapInv
<1> QED
  BY <1>1, <1>2, <1>3, <1>4, <1>5, <1>6, <1>7, <1>8, <1>9, <1>10, <1>11 DEF Reap!Next

LEMMA ReapStays == ReapInv => Reap!SignalsStayInside
BY DEF ReapInv, ReapSignals, Reap!SignalsStayInside

-----------------------------------------------------------------------------
(*****************************************************************************)
(* The end of a relay's tree of processes (RelayTree).                       *)
(*****************************************************************************)

LEMMA TreeAssumed == Tree!TreeAssumption
BY ProgramsAssumption

TreeTyped ==
  /\ alive \subseteq AgentProcesses /\ unborn \subseteq AgentProcesses \ (alive \cup {AgentProvider}) /\ Relay \in alive
  /\ parent \in [AgentProcesses -> alive]
  /\ session \in [AgentProcesses -> AgentProcesses] /\ session[AgentProvider] = AgentProvider
  /\ spare \in BOOLEAN
  /\ tree_pc \in {"start", "list", "keep", "choose", "kill", "returned", "gave up"}
  /\ (tree_pc = "keep" => spare) /\ (tree_pc \in {"start", "list"} => kept = {}) /\ (tree_pc = "start" => found = {})
  /\ tree_todo \subseteq AgentProcesses /\ tree_moved \subseteq AgentProcesses
  /\ found \subseteq AgentProcesses \ ({Relay} \cup unborn) /\ kept \subseteq AgentProcesses \ {Relay}

(* Nobody is below itself: among any processes but the relay, one has its   *)
(* parent elsewhere.                                                       *)
TreeRooted == \A some \in SUBSET (AgentProcesses \ {Relay}) : some # {} => \E p \in some : parent[p] \notin some

(* The listing: whose children were read, and what that found.             *)
TreeVisited == ({Relay} \cup found) \ (IF tree_pc = "list" THEN tree_todo ELSE {})
TreeListed ==
  /\ \A p \in found : parent[p] \in found \cup {Relay}
  /\ tree_pc = "list" => tree_todo \subseteq {Relay} \cup found
  /\ tree_pc \in {"list", "keep", "choose", "returned"} =>
       \A p \in alive \ {Relay} : parent[p] \in TreeVisited => p \in found \cup tree_moved

(* What is below the provider, of those that were found before.            *)
ReadBelow == ({AgentProvider} \cup kept) \ (IF tree_pc = "keep" THEN tree_todo ELSE {})
KeptBelow ==
  spare /\ tree_pc \in {"keep", "choose", "kill"} =>
    \A p \in found \cap alive : parent[p] \in ReadBelow => p \in kept

TreeChosen ==
  /\ tree_pc = "kill" => tree_todo \subseteq found
  /\ tree_pc = "kill" /\ spare =>
       \A p \in tree_todo : p # AgentProvider /\ (session[p] = AgentProvider => p \notin kept)
  /\ tree_pc = "returned" => \A p \in found \cap alive : spare /\ session[p] = AgentProvider

TreeInv == TreeTyped /\ TreeRooted /\ TreeListed /\ KeptBelow /\ TreeChosen

LEMMA TreeInit == Tree!Init => TreeInv
<1> SUFFICES ASSUME Tree!Init PROVE TreeInv
  OBVIOUS
<1> USE TreeAssumed DEF Tree!TreeAssumption, Tree!Init
<1>1. TreeTyped
  BY DEF TreeTyped
<1>2. TreeRooted
  <2> SUFFICES ASSUME NEW some \in SUBSET (AgentProcesses \ {Relay}), some # {}
               PROVE  \E p \in some : parent[p] \notin some
    BY DEF TreeRooted
  <2>1. CASE Tool \in some
    BY <2>1
  <2>2. CASE Tool \notin some
    BY <2>2
  <2> QED
    BY <2>1, <2>2
<1>3. TreeListed /\ KeptBelow /\ TreeChosen
  BY DEF TreeListed, KeptBelow, TreeChosen
<1> QED
  BY <1>1, <1>2, <1>3 DEF TreeInv

(* A process that ends.                                                    *)
LEMMA TreeEndsKeeps ==
  ASSUME TreeInv, NEW p \in alive \ {Relay}, Tree!Ends(p), UNCHANGED <<spare, tree_pc, found, kept>>,
         tree_todo' = tree_todo \/ (tree_pc = "kill" /\ tree_todo' = tree_todo \ {p})
  PROVE  TreeInv'
<1> USE TreeAssumed DEF Tree!TreeAssumption, TreeInv
<1>1. TreeTyped'
  BY DEF TreeTyped, Tree!Ends, Tree!Children
<1>2. \A c \in AgentProcesses : parent'[c] = parent[c] \/ parent'[c] = Relay
  BY DEF TreeTyped, Tree!Ends
<1>3. TreeRooted'
  BY <1>2 DEF TreeRooted, TreeTyped, Tree!Ends
<1>4. TreeListed'
  <2>1. \A c \in AgentProcesses : parent'[c] = parent[c] \/ c \in tree_moved' \/ c \notin alive' \ {Relay}
    BY DEF Tree!Ends, Tree!Children, TreeTyped
  <2> QED
    BY <1>2, <2>1 DEF TreeListed, TreeVisited, TreeTyped, Tree!Ends
<1>5. KeptBelow'
  BY <1>2 DEF KeptBelow, ReadBelow, TreeTyped, Tree!Ends
<1>6. TreeChosen'
  BY DEF TreeChosen, TreeTyped, Tree!Ends
<1> QED
  BY <1>1, <1>3, <1>4, <1>5, <1>6

LEMMA TreeStep == TreeInv /\ (Tree!Next \/ UNCHANGED tree_vars) => TreeInv'
<1> SUFFICES ASSUME TreeInv, (Tree!Next \/ UNCHANGED tree_vars) PROVE TreeInv'
  OBVIOUS
<1> USE TreeAssumed DEF Tree!TreeAssumption, TreeInv
<1>1. ASSUME NEW p \in AgentProcesses, Tree!Setsid(p) PROVE TreeInv'
  <2>1. TreeTyped'
    BY <1>1 DEF TreeTyped, Tree!Setsid, Tree!relay
  <2>2. TreeRooted' /\ TreeListed' /\ KeptBelow'
    BY <1>1 DEF TreeRooted, TreeListed, TreeVisited, KeptBelow, ReadBelow, Tree!Setsid, Tree!relay
  <2>3. TreeChosen'
    BY <1>1 DEF TreeChosen, Tree!Setsid, Tree!relay, Tree!Running, TreeTyped
  <2> QED
    BY <2>1, <2>2, <2>3
<1>2. ASSUME NEW p \in AgentProcesses, NEW c \in AgentProcesses, Tree!Fork(p, c) PROVE TreeInv'
  <2>1. TreeTyped'
    <3>1. p \in alive /\ p # Relay /\ c \in unborn /\ c \notin alive /\ c # AgentProvider => c # Relay
      BY <1>2 DEF TreeTyped, Tree!Fork
    <3>2. parent' \in [AgentProcesses -> alive']
      BY <1>2 DEF TreeTyped, Tree!Fork
    <3>3. session' \in [AgentProcesses -> AgentProcesses]
      BY <1>2 DEF TreeTyped, Tree!Fork
    <3>4. session'[AgentProvider] = AgentProvider
      BY <1>2, <3>1 DEF TreeTyped, Tree!Fork
    <3> QED
      BY <1>2, <3>1, <3>2, <3>3, <3>4 DEF TreeTyped, Tree!Fork, Tree!relay
  <2>2. TreeRooted'
    <3> SUFFICES ASSUME NEW some \in SUBSET (AgentProcesses \ {Relay}), some # {}
                 PROVE  \E q \in some : parent'[q] \notin some
      BY DEF TreeRooted
    <3>1. parent'[c] = p /\ p # c /\ \A q \in AgentProcesses \ {c} : parent'[q] = parent[q] /\ parent[q] # c
      BY <1>2 DEF Tree!Fork, TreeTyped
    <3>2. CASE some = {c}
      BY <3>1, <3>2
    <3>3. CASE some # {c}
      <4>1. PICK q \in some \ {c} : parent[q] \notin some \ {c}
        BY <3>3 DEF TreeRooted
      <4> QED
        BY <3>1, <4>1
    <3> QED
      BY <3>2, <3>3
  <2>3. TreeListed'
    BY <1>2 DEF TreeListed, TreeVisited, Tree!Fork, Tree!relay, TreeTyped
  <2>4. KeptBelow'
    BY <1>2 DEF KeptBelow, ReadBelow, Tree!Fork, Tree!relay, TreeTyped
  <2>5. TreeChosen'
    BY <1>2 DEF TreeChosen, Tree!Fork, Tree!relay, TreeTyped, Tree!Running
  <2> QED
    BY <2>1, <2>2, <2>3, <2>4, <2>5
<1>3. ASSUME NEW p \in AgentProcesses, Tree!Exit(p) PROVE TreeInv'
  BY <1>3, TreeEndsKeeps DEF Tree!Exit, Tree!relay
<1>4. ASSUME NEW p \in AgentProcesses, Tree!Kill(p) PROVE TreeInv'
  <2>1. p # Relay
    BY <1>4 DEF Tree!Kill, TreeChosen, TreeTyped
  <2>2. CASE p \in alive
    BY <1>4, <2>1, <2>2, TreeEndsKeeps DEF Tree!Kill
  <2>3. CASE p \notin alive
    BY <1>4, <2>1, <2>3 DEF Tree!Kill, Tree!kernel, TreeTyped, TreeRooted, TreeListed, TreeVisited, KeptBelow,
       ReadBelow, TreeChosen
  <2> QED
    BY <2>2, <2>3
<1>5. ASSUME NEW p \in AgentProcesses, Tree!List(p) PROVE TreeInv'
  BY <1>5 DEF Tree!List, Tree!Deeper, Tree!Children, Tree!kernel, TreeTyped, TreeRooted, TreeListed,
     TreeVisited, KeptBelow, TreeChosen
<1>6. ASSUME NEW p \in AgentProcesses, Tree!Keep(p) PROVE TreeInv'
  BY <1>6 DEF Tree!Keep, Tree!Children, Tree!kernel, TreeTyped, TreeRooted, TreeListed, TreeVisited, KeptBelow,
     ReadBelow, TreeChosen
<1>7. CASE Tree!Start
  BY <1>7 DEF Tree!Start, Tree!Begin, Tree!Stages, Tree!kernel, TreeTyped, TreeRooted, TreeListed, TreeVisited,
     KeptBelow, ReadBelow, TreeChosen
<1>8. CASE Tree!Read
  <2>1. tree_pc' = (IF spare /\ tree_pc = "list" THEN "keep" ELSE "choose")
    <3>1. CASE spare
      BY <1>8, <3>1 DEF Tree!Read, Tree!Stages, Tree!Begin
    <3>2. CASE ~spare
      <4>1. tree_pc = "list" /\ Tree!Stages = <<"list", "choose">>
        BY <1>8, <3>2 DEF Tree!Read, Tree!Stages, TreeTyped
      <4>2. PICK i \in DOMAIN Tree!Stages : Tree!Stages[i] = tree_pc /\ Tree!Begin(Tree!Stages[i + 1])
        BY <1>8 DEF Tree!Read
      <4>3. i = 1
        BY <4>1, <4>2
      <4> QED
        BY <3>2, <4>1, <4>2, <4>3 DEF Tree!Begin
    <3> QED
      BY <3>1, <3>2
  <2>2. tree_todo' = IF tree_pc' = "keep" THEN {AgentProvider} ELSE {}
    BY <1>8, <2>1 DEF Tree!Read, Tree!Begin
  <2> QED
    BY <1>8, <2>1, <2>2 DEF Tree!Read, Tree!kernel, TreeTyped, TreeRooted, TreeListed, TreeVisited, KeptBelow,
       ReadBelow, TreeChosen
<1>9. CASE Tree!Choose
  <2>1. CASE tree_pc' = "returned" /\ (found \ Tree!Spared) \cap alive = {} /\ UNCHANGED tree_todo
    BY <1>9, <2>1 DEF Tree!Choose, Tree!Spared, Tree!kernel, TreeTyped, TreeRooted, TreeListed, TreeVisited,
       KeptBelow, ReadBelow, TreeChosen
  <2>2. CASE tree_pc' = "kill" /\ tree_todo' = (found \ Tree!Spared) \cap alive
    BY <1>9, <2>2 DEF Tree!Choose, Tree!Spared, Tree!kernel, TreeTyped, TreeRooted, TreeListed, TreeVisited,
       KeptBelow, ReadBelow, TreeChosen
  <2> QED
    BY <1>9, <2>1, <2>2 DEF Tree!Choose
<1>10. CASE Tree!Again
  <2>1. found' = {} /\ kept' = {} /\ UNCHANGED <<Tree!kernel, spare>>
    BY <1>10 DEF Tree!Again
  <2>2. (tree_pc' = "list" /\ tree_todo' = {Relay} /\ tree_moved' = {})
          \/ (tree_pc' = "gave up" /\ UNCHANGED <<tree_todo, tree_moved>>)
    <3>1. Tree!Stages[1] = "list"
      BY DEF Tree!Stages
    <3>2. CASE round < Rounds
      <4>1. Tree!Begin("list") /\ tree_moved' = {}
        BY <1>10, <3>1, <3>2, Zenon DEF Tree!Again
      <4> QED
        BY <4>1 DEF Tree!Begin
    <3>3. CASE ~(round < Rounds)
      BY <1>10, <3>3 DEF Tree!Again
    <3> QED
      BY <3>2, <3>3
  <2> QED
    BY <2>1, <2>2 DEF Tree!kernel, TreeTyped, TreeRooted, TreeListed, TreeVisited, KeptBelow, ReadBelow,
       TreeChosen
<1>11. CASE UNCHANGED tree_vars
  BY <1>11 DEF tree_vars, Tree!kernel, Tree!relay, TreeTyped, TreeRooted, TreeListed, TreeVisited, KeptBelow,
     ReadBelow, TreeChosen
<1> HIDE DEF TreeInv
<1> QED
  BY <1>1, <1>2, <1>3, <1>4, <1>5, <1>6, <1>7, <1>8, <1>9, <1>10, <1>11 DEF Tree!Next

(* The recursive functions are the least that their equations admit.       *)
TreeClosed(base, some) == \A p \in AgentProcesses : p \in base \/ (parent[p] # Relay /\ parent[p] \in some) => p \in some
TreeReach(base) == {p \in AgentProcesses : \A some \in SUBSET AgentProcesses : TreeClosed(base, some) => p \in some}

LEMMA ReachIs ==
  ASSUME TreeTyped, NEW base \in SUBSET AgentProcesses, NEW p \in AgentProcesses
  PROVE  p \in TreeReach(base) <=> p \in base \/ (parent[p] # Relay /\ parent[p] \in TreeReach(base))
<1>1. parent \in [AgentProcesses -> AgentProcesses]
  BY DEF TreeTyped
<1>2. ASSUME p \in base \/ (parent[p] # Relay /\ parent[p] \in TreeReach(base)) PROVE p \in TreeReach(base)
  BY <1>1, <1>2 DEF TreeReach, TreeClosed
<1>3. ASSUME p \in TreeReach(base), p \notin base, parent[p] = Relay \/ parent[p] \notin TreeReach(base) PROVE FALSE
  <2> DEFINE some == TreeReach(base) \ {p}
  <2>1. TreeClosed(base, some)
    <3> SUFFICES ASSUME NEW q \in AgentProcesses, q \in base \/ (parent[q] # Relay /\ parent[q] \in some)
                 PROVE  q \in some
      BY DEF TreeClosed
    <3>1. q \in TreeReach(base)
      BY <1>1 DEF TreeReach, TreeClosed
    <3> QED
      BY <1>3, <3>1
  <2>2. some \in SUBSET AgentProcesses
    BY DEF TreeReach
  <2> HIDE DEF some
  <2>3. p \in some
    BY <1>3, <2>1, <2>2 DEF TreeReach
  <2> QED
    BY <2>3 DEF some
<1> QED
  BY <1>2, <1>3

LEMMA BelowIs ==
  ASSUME TreeTyped, NEW p \in AgentProcesses
  PROVE  Tree!Below[p] <=> p = AgentProvider \/ (parent[p] # Relay /\ Tree!Below[parent[p]])
<1> DEFINE F(f) == [q \in AgentProcesses |-> q = AgentProvider \/ (parent[q] # Relay /\ f[parent[q]])]
           some == TreeReach({AgentProvider})
           g == [q \in AgentProcesses |-> q \in some]
<1>1. parent \in [AgentProcesses -> AgentProcesses] /\ AgentProvider \in AgentProcesses
  BY TreeAssumed DEF TreeTyped, Tree!TreeAssumption
<1>2. \A q \in AgentProcesses : (q \in some) = (q = AgentProvider \/ (parent[q] # Relay /\ parent[q] \in some))
  BY <1>1, ReachIs
<1> HIDE DEF some
<1>3. \A q \in AgentProcesses : parent[q] \in AgentProcesses
  BY <1>1
<1>4. g = F(g)
  BY <1>2, <1>3, Zenon
<1> HIDE DEF g
<1>5. Tree!Below = CHOOSE f : f = F(f)
  BY DEF Tree!Below
<1>6. Tree!Below = F(Tree!Below)
  BY <1>4, <1>5, Zenon
<1> QED
  BY <1>6, Zenon

LEMMA LateIs ==
  ASSUME TreeTyped, tree_moved \subseteq AgentProcesses, NEW p \in AgentProcesses
  PROVE  Tree!Late[p] <=> p \in tree_moved \/ (parent[p] # Relay /\ Tree!Late[parent[p]])
<1> DEFINE F(f) == [q \in AgentProcesses |-> q \in tree_moved \/ (parent[q] # Relay /\ f[parent[q]])]
           some == TreeReach(tree_moved)
           g == [q \in AgentProcesses |-> q \in some]
<1>1. parent \in [AgentProcesses -> AgentProcesses]
  BY TreeAssumed DEF TreeTyped, Tree!TreeAssumption
<1>2. \A q \in AgentProcesses : (q \in some) = (q \in tree_moved \/ (parent[q] # Relay /\ parent[q] \in some))
  BY <1>1, ReachIs
<1> HIDE DEF some
<1>3. \A q \in AgentProcesses : parent[q] \in AgentProcesses
  BY <1>1
<1>4. g = F(g)
  BY <1>2, <1>3, Zenon
<1> HIDE DEF g
<1>5. Tree!Late = CHOOSE f : f = F(f)
  BY DEF Tree!Late
<1>6. Tree!Late = F(Tree!Late)
  BY <1>4, <1>5, Zenon
<1> QED
  BY <1>6, Zenon

LEMMA TreeLeavesNothing == TreeInv => Tree!NothingSeenIsLeft
<1> SUFFICES ASSUME TreeInv, tree_pc = "returned",
                    NEW p \in alive \ {Relay}, ~(spare /\ session[p] = AgentProvider), ~Tree!Late[p]
             PROVE  FALSE
  BY DEF Tree!NothingSeenIsLeft
<1> DEFINE some == {q \in alive \ {Relay} : q \notin found /\ ~Tree!Late[q]}
<1>1. p \in some /\ some \in SUBSET (AgentProcesses \ {Relay})
  BY DEF TreeInv, TreeChosen, TreeTyped
<1>2. PICK q \in some : parent[q] \notin some
  BY <1>1 DEF TreeInv, TreeRooted
<1>3. q \notin tree_moved /\ (parent[q] = Relay \/ ~Tree!Late[parent[q]])
  BY <1>1, <1>2, LateIs DEF TreeInv, TreeTyped
<1>4. parent[q] \in TreeVisited
  BY <1>1, <1>2, <1>3 DEF TreeInv, TreeTyped, TreeVisited
<1> QED
  BY <1>2, <1>3, <1>4 DEF TreeInv, TreeListed

LEMMA TreeSpares == TreeInv /\ (Tree!Next \/ UNCHANGED tree_vars) => Tree!SparesTheProvider
<1> SUFFICES ASSUME TreeInv, (Tree!Next \/ UNCHANGED tree_vars), spare, NEW p \in Tree!OfProvider,
                    tree_pc = "kill", p \in tree_todo, p \notin tree_todo'
             PROVE  FALSE
  BY DEF Tree!SparesTheProvider
<1> DEFINE some == {q \in found \cap alive : q # AgentProvider /\ q \notin kept /\ Tree!Below[q]}
<1>1. p \in some /\ some \in SUBSET (AgentProcesses \ {Relay})
  BY DEF TreeInv, TreeChosen, TreeTyped, Tree!OfProvider
<1>2. PICK q \in some : parent[q] \notin some
  BY <1>1 DEF TreeInv, TreeRooted
<1>3. parent[q] # Relay /\ Tree!Below[parent[q]]
  BY <1>1, <1>2, BelowIs DEF TreeInv, TreeTyped
<1>4. parent[q] \in ReadBelow
  BY <1>1, <1>2, <1>3 DEF TreeInv, TreeTyped, TreeListed, ReadBelow
<1> QED
  BY <1>2, <1>4 DEF TreeInv, KeptBelow

-----------------------------------------------------------------------------
(*****************************************************************************)
(* The start of a relay and its sweep (RelayStart).                          *)
(*****************************************************************************)

LEMMA StartAssumed == Start!StartAssumption
BY ProgramsAssumption

StartTyped ==
  /\ start_clock \in Nat
  /\ start_stage \in [Relays -> {"new", "made", "sweep", "forked", "serving", "dead"}]
  /\ number \in [Relays -> Numbers \cup {None}]
  /\ dir \in [Relays -> Start!Directories \cup {None}]
  /\ start_todo \in [Relays -> SUBSET Relays]
  /\ doomed \in [Relays -> Relays \cup {None}]

(* A relay that is being started has a directory of this moment, and one    *)
(* that serves has its number in the manifest; so a sweep takes neither.    *)
StartKept(r) ==
  /\ start_stage[r] = "new" => dir[r] = None
  /\ start_stage[r] \in {"made", "sweep", "forked"} => dir[r] = [time |-> start_clock, manifest |-> None]
  /\ start_stage[r] \in {"forked", "serving"} => number[r] \in Numbers
  /\ start_stage[r] = "serving" =>
       dir[r] # None /\ dir[r].manifest # None /\ dir[r].manifest.number = number[r]
  /\ doomed[r] # None => start_stage[doomed[r]] = "dead"

StartInv == StartTyped /\ \A r \in Relays : StartKept(r)

LEMMA StartInit == Start!Init => StartInv
BY StartAssumed DEF Start!StartAssumption, Start!Init, StartInv, StartTyped, StartKept

(* The sweep spares whoever runs or is about to.                            *)
LEMMA DeadIsDead ==
  ASSUME StartInv, NEW d \in Relays, Start!Dead(d)
  PROVE  start_stage[d] = "dead"
<1> USE StartAssumed DEF Start!StartAssumption, StartInv, StartTyped
<1>1. ASSUME start_stage[d] \in {"made", "sweep", "forked"} PROVE FALSE
  BY <1>1 DEF Start!Dead, StartKept, Start!Old
<1>2. ASSUME start_stage[d] = "serving" PROVE FALSE
  BY <1>2 DEF Start!Dead, StartKept, Start!InUse, Start!Running
<1>3. start_stage[d] # "new"
  BY DEF Start!Dead, StartKept
<1> QED
  BY <1>1, <1>2, <1>3

LEMMA StartStep == StartInv /\ (Start!Next \/ UNCHANGED start_vars) => StartInv'
<1> SUFFICES ASSUME StartInv, (Start!Next \/ UNCHANGED start_vars) PROVE StartInv'
  OBVIOUS
<1> USE StartAssumed DEF Start!StartAssumption, StartInv, StartTyped, StartKept
<1>1. CASE Start!Tick
  BY <1>1 DEF Start!Tick
<1>2. ASSUME NEW r \in Relays, Start!Launch(r) PROVE StartInv'
  BY <1>2 DEF Start!Launch, Start!Directories
<1>3. ASSUME NEW r \in Relays, Start!End(r) PROVE StartInv'
  BY <1>3 DEF Start!End
<1>4. ASSUME NEW r \in Relays, Start!Sweep(r) PROVE StartInv'
  BY <1>4 DEF Start!Sweep
<1>5. ASSUME NEW r \in Relays, Start!Remove(r) PROVE StartInv'
  BY <1>5 DEF Start!Remove, Start!Directories
<1>6. ASSUME NEW r \in Relays, Start!ForkRelay(r) PROVE StartInv'
  BY <1>6 DEF Start!ForkRelay, Start!Directories
<1>7. ASSUME NEW r \in Relays, Start!ServeRelay(r) PROVE StartInv'
  <2>1. [time |-> start_clock, number |-> number[r]] \in Start!Manifests
    BY <1>7 DEF Start!ServeRelay, Start!Manifests
  <2>2. dir'[r] = [dir[r] EXCEPT !.manifest = [time |-> start_clock, number |-> number[r]]]
    BY <1>7 DEF Start!ServeRelay
  <2>3. dir'[r] = [time |-> start_clock, manifest |-> [time |-> start_clock, number |-> number[r]]]
    BY <1>7, <2>2 DEF Start!ServeRelay
  <2>4. dir' = [dir EXCEPT ![r] = dir'[r]] /\ dir'[r] \in Start!Directories
    BY <1>7, <2>1, <2>3 DEF Start!ServeRelay, Start!Directories
  <2> QED
    BY <1>7, <2>1, <2>3, <2>4 DEF Start!ServeRelay
<1>8. ASSUME NEW r \in Relays, NEW d \in Relays, Start!Look(r, d) PROVE StartInv'
  BY <1>8, DeadIsDead DEF Start!Look
<1>9. CASE UNCHANGED start_vars
  BY <1>9 DEF start_vars
<1> HIDE DEF StartInv
<1> QED
  BY <1>1, <1>2, <1>3, <1>4, <1>5, <1>6, <1>7, <1>8, <1>9 DEF Start!Next

(* What is not swept away is there.                                        *)
LEMMA StartSpares == StartInv => Start!RunningKeepsFiles
<1> SUFFICES ASSUME StartInv, NEW r \in Start!Running
             PROVE  dir[r] # None /\ (start_stage[r] = "serving" => dir[r].manifest # None)
  BY DEF Start!RunningKeepsFiles
<1>1. [time |-> start_clock, manifest |-> None] \in Start!Directories
  BY DEF StartInv, StartTyped, Start!Directories
<1> QED
  BY <1>1, StartAssumed DEF Start!StartAssumption, StartInv, StartKept, Start!Running

-----------------------------------------------------------------------------
(*****************************************************************************)
(* The handshakes of the build gate, its reaper and its scan (GateReaper).   *)
(*****************************************************************************)

LEMMA GateAssumed == Gate!ReaperAssumption
BY ProgramsAssumption

GateFiles == [build : GateBuilds, kind : {"owner", "handshake"}, at : Nat]
GateReapers == [pc : {"processes", "locks", "judge"}, sees : SUBSET GateBuilds, now : Nat, listed : SUBSET GateFiles,
            slots : SUBSET Slots, open : SUBSET GateFiles, alive : SUBSET GateBuilds, starts : SUBSET Nat]
GateShares == [build : GateBuilds, process : {"wrapper", "holder"}]

GateStarting == {"new", "queued", "locked", "drafted", "owned"}
GatePhases == GateStarting \cup {"created", "held", "redrafted", "running", "orphan", "over"}

GateTyped ==
  /\ gate_clock \in Nat /\ files \subseteq GateFiles
  /\ owner \in [Slots -> Gate!Owners \cup {None}]
  /\ \A s \in Slots : owner[s] # None => owner[s].acquired <= gate_clock
  /\ gate_lock \in [Slots -> SUBSET GateShares]
  /\ gate_phase \in [GateBuilds -> GatePhases] /\ holder \subseteq GateBuilds /\ slot \in [GateBuilds -> Slots \cup {None}]
  /\ \A b \in GateBuilds : gate_phase[b] \in {"new", "queued"} => slot[b] = None
  /\ reaper = Gate!Idle \/ reaper \in GateReapers
  /\ gate_queue \subseteq GateBuilds /\ IsFiniteSet(gate_queue)

(* Whoever is past the queue has the lock of its slot, alone.              *)
WithLock == GatePhases \ {"new", "queued", "over"}
GateLocked ==
  /\ \A b \in GateBuilds : b \in holder <=> gate_phase[b] \in {"held", "redrafted", "running", "orphan"}
  /\ \A b \in GateBuilds : gate_phase[b] \in WithLock =>
       /\ slot[b] \in Slots
       /\ \A share \in gate_lock[slot[b]] : share.build = b
       /\ b \in holder <=> Gate!Share(b, "holder") \in gate_lock[slot[b]]
       /\ gate_phase[b] \notin {"running", "orphan"} => Gate!Share(b, "wrapper") \in gate_lock[slot[b]]
  /\ \A b \in GateBuilds, s \in Slots : (gate_phase[b] \notin WithLock \/ s # slot[b]) =>
       \A share \in gate_lock[s] : share.build # b

(* The owner's record of a build that is past its publication is its own,   *)
(* and not younger than its handshake.                                     *)
GateInUse(b) == b \in holder \/ gate_phase[b] = "created"
GateOwned ==
  \A b \in GateBuilds : gate_phase[b] = "owned" \/ GateInUse(b) =>
    owner[slot[b]] # None /\ owner[slot[b]].build = b

GateSeen == files \cup (IF reaper = Gate!Idle THEN {} ELSE reaper.listed)
GateDated ==
  \A f \in GateSeen : f.kind = "handshake" =>
    /\ gate_phase[f.build] \notin GateStarting
    /\ GateInUse(f.build) => owner[slot[f.build]].acquired <= f.at

(* The reaper knows the acquisition of each that it might unlink.           *)
GateKnown ==
  reaper # Gate!Idle =>
    \A f \in reaper.listed : Gate!Needed(f) =>
      \/ owner[slot[f.build]].acquired \in reaper.starts
      \/ reaper.pc # "judge" /\ slot[f.build] \in reaper.slots

GateInv == GateTyped /\ GateLocked /\ GateOwned /\ GateDated /\ GateKnown

(* The same operators, as they are named here and in GateReaper.            *)
LEMMA SameFinite == \A S : Gate!IsFiniteSet(S) <=> IsFiniteSet(S)
BY DEF Gate!IsFiniteSet, IsFiniteSet

LEMMA SameCardinality == \A S : Gate!Cardinality(S) = Cardinality(S)
BY DEF Gate!Cardinality, Cardinality

LEMMA GateLimits == None \notin Gate!Owners /\ None \notin Slots /\ IsFiniteSet(Slots) /\ Grace \in Nat
BY GateAssumed, SameFinite DEF Gate!ReaperAssumption

LEMMA IdleOrNot == Gate!Idle \notin GateReapers
BY DEF Gate!Idle, GateReapers

LEMMA GateInit == Gate!Init => GateInv
<1> SUFFICES ASSUME Gate!Init PROVE GateInv
  OBVIOUS
<1>1. GateTyped
  BY GateLimits, FS_EmptySet DEF Gate!Init, GateTyped, GatePhases, GateStarting
<1>2. GateLocked /\ GateOwned /\ GateDated /\ GateKnown
  BY DEF Gate!Init, GateLocked, GateOwned, GateDated, GateKnown, GateSeen, GateInUse, WithLock, GatePhases,
     GateStarting
<1> QED
  BY <1>1, <1>2 DEF GateInv

(* A build's own step: no handshake comes into use but a new one, and none    *)
(* in use changes owner.                                                   *)
LEMMA GateBuildKeeps ==
  ASSUME GateInv, GateTyped', GateLocked', UNCHANGED <<gate_clock, reaper>>, NEW b \in GateBuilds,
         \A c \in GateBuilds : c # b => gate_phase'[c] = gate_phase[c],
         gate_phase'[b] \in GateStarting => gate_phase[b] \in GateStarting,
         \A c \in GateBuilds : (gate_phase[c] = "owned" \/ GateInUse(c))' =>
           \/ /\ gate_phase[c] = "owned" \/ GateInUse(c)
              /\ slot'[c] = slot[c] /\ owner'[slot[c]] = owner[slot[c]]
           \/ /\ ~GateInUse(c) /\ gate_phase'[c] = "owned"
              /\ owner'[slot'[c]] # None /\ owner'[slot'[c]].build = c,
         \A f \in files' : f \in files \/ f.kind = "owner" \/
           (gate_phase'[f.build] = "created" /\ gate_phase[f.build] = "owned" /\ f.at = gate_clock)
  PROVE  GateInv'
<1> USE DEF GateInv
<1>1. GateOwned'
  BY DEF GateOwned, GateInUse
<1>2. GateDated'
  <2> SUFFICES ASSUME NEW f \in GateSeen', f.kind = "handshake"
               PROVE  /\ gate_phase'[f.build] \notin GateStarting
                      /\ GateInUse(f.build)' => owner'[slot'[f.build]].acquired <= f.at
    BY DEF GateDated
  <2>0. f.build \in GateBuilds
    BY DEF GateSeen, GateTyped, GateFiles, GateReapers
  <2>1. CASE f \in GateSeen
    <3>1. gate_phase[f.build] \notin GateStarting /\ (GateInUse(f.build) => owner[slot[f.build]].acquired <= f.at)
      BY <2>1 DEF GateDated
    <3> QED
      BY <2>0, <3>1 DEF GateStarting, GateInUse
  <2>2. CASE f \notin GateSeen
    <3>1. gate_phase'[f.build] = "created" /\ gate_phase[f.build] = "owned" /\ f.at = gate_clock
      BY <2>2 DEF GateSeen
    <3> QED
      BY <2>0, <3>1 DEF GateStarting, GateInUse, GateOwned, GateTyped, GateLocked, WithLock, GatePhases
  <2> QED
    BY <2>1, <2>2
<1>3. GateKnown'
  <2> SUFFICES ASSUME reaper # Gate!Idle, NEW f \in reaper.listed, Gate!Needed(f)'
               PROVE  \/ owner'[slot'[f.build]].acquired \in reaper.starts
                      \/ reaper.pc # "judge" /\ slot'[f.build] \in reaper.slots
    BY DEF GateKnown
  <2>1. f.build \in GateBuilds /\ f \in GateSeen /\ f.kind = "handshake"
    BY DEF GateSeen, GateTyped, GateFiles, GateReapers, Gate!Needed
  <2>2. gate_phase[f.build] # "owned" /\ gate_phase'[f.build] # "owned"
    BY <2>1 DEF GateDated, GateStarting, Gate!Needed
  <2>3. Gate!Needed(f) /\ slot'[f.build] = slot[f.build] /\ owner'[slot[f.build]] = owner[slot[f.build]]
    BY <2>1, <2>2 DEF Gate!Needed, GateInUse
  <2> QED
    BY <2>3 DEF GateKnown
<1> QED
  BY <1>1, <1>2, <1>3

(* A build's own step changes its own shares of the locks.                 *)
LEMMA GateLockKeeps ==
  ASSUME GateTyped, GateLocked, NEW b \in GateBuilds, GateTyped',
         \A c \in GateBuilds \ {b} : gate_phase'[c] = gate_phase[c] /\ slot'[c] = slot[c]
           /\ (c \in holder' <=> c \in holder),
         \A s \in Slots, x \in GateShares : x.build # b => (x \in gate_lock'[s] <=> x \in gate_lock[s]),
         b \in holder' <=> gate_phase'[b] \in {"held", "redrafted", "running", "orphan"},
         gate_phase'[b] \in WithLock =>
           /\ slot'[b] \in Slots
           /\ \A x \in gate_lock'[slot'[b]] : x.build = b
           /\ b \in holder' <=> Gate!Share(b, "holder") \in gate_lock'[slot'[b]]
           /\ gate_phase'[b] \notin {"running", "orphan"} => Gate!Share(b, "wrapper") \in gate_lock'[slot'[b]],
         \A s \in Slots : (gate_phase'[b] \notin WithLock \/ s # slot'[b]) => \A x \in gate_lock'[s] : x.build # b
  PROVE  GateLocked'
<1>1. \A c \in GateBuilds : c \in holder' <=> gate_phase'[c] \in {"held", "redrafted", "running", "orphan"}
  BY DEF GateLocked
<1>2. ASSUME NEW c \in GateBuilds, gate_phase'[c] \in WithLock
      PROVE  /\ slot'[c] \in Slots
             /\ \A x \in gate_lock'[slot'[c]] : x.build = c
             /\ c \in holder' <=> Gate!Share(c, "holder") \in gate_lock'[slot'[c]]
             /\ gate_phase'[c] \notin {"running", "orphan"} => Gate!Share(c, "wrapper") \in gate_lock'[slot'[c]]
  <2>1. CASE c = b
    BY <1>2, <2>1
  <2>2. CASE c # b
    <3>1. gate_phase[c] \in WithLock /\ slot'[c] = slot[c] /\ slot[c] \in Slots /\ gate_phase'[c] = gate_phase[c]
      BY <1>2, <2>2 DEF GateLocked
    <3>2. Gate!Share(c, "holder") \in GateShares /\ Gate!Share(c, "wrapper") \in GateShares
          /\ Gate!Share(c, "holder").build = c /\ Gate!Share(c, "wrapper").build = c
      BY DEF Gate!Share, GateShares
    <3>3. \A x \in gate_lock[slot[c]] : x.build = c
      BY <3>1 DEF GateLocked
    <3>4. slot[c] = slot'[b] => gate_phase'[b] \notin WithLock
      <4> SUFFICES ASSUME slot[c] = slot'[b], gate_phase'[b] \in WithLock PROVE FALSE
        OBVIOUS
      <4>1. Gate!Share(c, "holder") \in gate_lock[slot[c]] \/ Gate!Share(c, "wrapper") \in gate_lock[slot[c]]
        BY <3>1 DEF GateLocked
      <4>2. Gate!Share(c, "holder") \in gate_lock'[slot[c]] \/ Gate!Share(c, "wrapper") \in gate_lock'[slot[c]]
        BY <2>2, <3>1, <3>2, <4>1
      <4> QED
        BY <2>2, <3>2, <4>2
    <3>5. \A x \in gate_lock'[slot[c]] : x \in GateShares /\ x.build # b
      BY <3>1, <3>4 DEF GateTyped
    <3>6. \A x \in gate_lock'[slot'[c]] : x.build = c
      BY <3>1, <3>3, <3>5
    <3> QED
      BY <2>2, <3>1, <3>2, <3>6 DEF GateLocked
  <2> QED
    BY <2>1, <2>2
<1>3. ASSUME NEW c \in GateBuilds, NEW s \in Slots, gate_phase'[c] \notin WithLock \/ s # slot'[c],
             NEW x \in gate_lock'[s]
      PROVE  x.build # c
  <2>1. x \in GateShares
    BY DEF GateTyped
  <2>2. CASE c = b
    BY <1>3, <2>2
  <2>3. CASE c # b
    BY <1>3, <2>1, <2>3 DEF GateLocked
  <2> QED
    BY <2>2, <2>3
<1> QED
  BY <1>1, <1>2, <1>3 DEF GateLocked

LEMMA GateBuildStep ==
  ASSUME GateInv, NEW b \in GateBuilds,
         \/ Gate!Enqueue(b) \/ (\E s \in Slots : Gate!Acquire(b, s)) \/ Gate!Draft(b) \/ Gate!Publish(b)
              \/ Gate!Create(b)
         \/ Gate!StartHolder(b) \/ Gate!Finish(b) \/ Gate!KillWrapper(b) \/ Gate!HolderEnds(b)
  PROVE  GateInv'
<1> USE GateLimits
<1>0. GateTyped /\ GateLocked /\ GateOwned
  BY DEF GateInv
<1> DEFINE w == Gate!Share(b, "wrapper")
           h == Gate!Share(b, "holder")
<1>a. w \in GateShares /\ h \in GateShares /\ w # h /\ w.build = b /\ h.build = b
      /\ \A x \in GateShares : x.build = b => x = w \/ x = h
  BY DEF Gate!Share, GateShares
<1>b. /\ gate_phase[b] \in GatePhases /\ gate_clock \in Nat
      /\ \A s \in Slots : gate_lock[s] \subseteq GateShares
      /\ b \in holder <=> gate_phase[b] \in {"held", "redrafted", "running", "orphan"}
      /\ gate_phase[b] \in WithLock =>
           /\ slot[b] \in Slots
           /\ \A x \in gate_lock[slot[b]] : x.build = b
           /\ b \in holder <=> h \in gate_lock[slot[b]]
           /\ gate_phase[b] \notin {"running", "orphan"} => w \in gate_lock[slot[b]]
      /\ \A s \in Slots : (gate_phase[b] \notin WithLock \/ s # slot[b]) => \A x \in gate_lock[s] : x.build # b
  BY <1>0 DEF GateTyped, GateLocked
<1>c. ASSUME gate_phase[b] \in WithLock, NEW c \in GateBuilds \ {b}, gate_phase[c] \in WithLock PROVE slot[c] # slot[b]
  <2>1. Gate!Share(c, "wrapper") \in gate_lock[slot[c]] \/ Gate!Share(c, "holder") \in gate_lock[slot[c]]
    BY <1>0, <1>c DEF GateLocked
  <2> QED
    BY <1>b, <1>c, <2>1 DEF Gate!Share
<1>d. \A c \in GateBuilds : gate_phase[c] = "owned" \/ GateInUse(c) => gate_phase[c] \in WithLock
  BY <1>0 DEF GateLocked, GateInUse, WithLock, GatePhases, GateStarting
<1>1. CASE Gate!Enqueue(b)
  <2>0. IsFiniteSet(gate_queue')
    BY <1>0, <1>1, FS_AddElement DEF Gate!Enqueue, GateTyped
  <2>1. GateTyped'
    BY <1>0, <1>a, <1>b, <1>1, <2>0 DEF Gate!Enqueue, Gate!Move, GateTyped, GatePhases, GateStarting, WithLock,
       GateFiles, Gate!Owners
  <2>2. /\ \A c \in GateBuilds \ {b} : gate_phase'[c] = gate_phase[c] /\ slot'[c] = slot[c]
             /\ (c \in holder' <=> c \in holder)
        /\ b \in holder' <=> gate_phase'[b] \in {"held", "redrafted", "running", "orphan"}
    BY <1>0, <1>b, <1>1 DEF Gate!Enqueue, Gate!Move, GateTyped, GatePhases, GateStarting, WithLock
  <2>3. \A s \in Slots, x \in GateShares : x.build # b => (x \in gate_lock'[s] <=> x \in gate_lock[s])
    BY <1>0, <1>a, <1>b, <1>1 DEF Gate!Enqueue, Gate!Move, GateTyped, WithLock, GatePhases, GateStarting
  <2>4. /\ gate_phase'[b] \in WithLock =>
             /\ slot'[b] \in Slots
             /\ \A x \in gate_lock'[slot'[b]] : x.build = b
             /\ b \in holder' <=> h \in gate_lock'[slot'[b]]
             /\ gate_phase'[b] \notin {"running", "orphan"} => w \in gate_lock'[slot'[b]]
        /\ \A s \in Slots : (gate_phase'[b] \notin WithLock \/ s # slot'[b]) => \A x \in gate_lock'[s] : x.build # b
    BY <1>0, <1>a, <1>b, <1>1 DEF Gate!Enqueue, Gate!Move, GateTyped, WithLock, GatePhases, GateStarting
  <2>5. GateLocked'
    BY <1>0, <2>1, <2>2, <2>3, <2>4, GateLockKeeps
  <2> QED
    BY <1>0, <1>b, <1>1, <2>1, <2>5, GateBuildKeeps DEF Gate!Enqueue, Gate!Move, GateTyped, GateStarting,
       GateInUse, WithLock, GatePhases
<1>2. ASSUME NEW s \in Slots, Gate!Acquire(b, s) PROVE GateInv'
  <2>1. GateTyped'
    BY <1>0, <1>a, <1>b, <1>2 DEF Gate!Acquire, Gate!Move, GateTyped, GatePhases, GateStarting, WithLock,
       GateFiles, Gate!Owners
  <2>2. /\ \A c \in GateBuilds \ {b} : gate_phase'[c] = gate_phase[c] /\ slot'[c] = slot[c]
             /\ (c \in holder' <=> c \in holder)
        /\ b \in holder' <=> gate_phase'[b] \in {"held", "redrafted", "running", "orphan"}
    BY <1>0, <1>b, <1>2 DEF Gate!Acquire, Gate!Move, GateTyped, GatePhases, GateStarting, WithLock
  <2>3. \A z \in Slots, x \in GateShares : x.build # b => (x \in gate_lock'[z] <=> x \in gate_lock[z])
    BY <1>0, <1>a, <1>b, <1>2 DEF Gate!Acquire, Gate!Move, GateTyped, WithLock, GatePhases, GateStarting
  <2>4. /\ gate_phase'[b] \in WithLock =>
             /\ slot'[b] \in Slots
             /\ \A x \in gate_lock'[slot'[b]] : x.build = b
             /\ b \in holder' <=> h \in gate_lock'[slot'[b]]
             /\ gate_phase'[b] \notin {"running", "orphan"} => w \in gate_lock'[slot'[b]]
        /\ \A z \in Slots : (gate_phase'[b] \notin WithLock \/ z # slot'[b]) => \A x \in gate_lock'[z] : x.build # b
    BY <1>0, <1>a, <1>b, <1>2 DEF Gate!Acquire, Gate!Move, GateTyped, WithLock, GatePhases, GateStarting
  <2>5. GateLocked'
    BY <1>0, <2>1, <2>2, <2>3, <2>4, GateLockKeeps
  <2> QED
    BY <1>0, <1>b, <1>2, <2>1, <2>5, GateBuildKeeps DEF Gate!Acquire, Gate!Move, GateTyped, GateStarting,
       GateInUse, WithLock, GatePhases
<1>3. CASE Gate!Draft(b)
  <2>1. GateTyped'
    BY <1>0, <1>a, <1>b, <1>3 DEF Gate!Draft, Gate!Candidate, Gate!Move, GateTyped, GatePhases, GateStarting,
       WithLock, GateFiles, Gate!Owners
  <2>2. /\ \A c \in GateBuilds \ {b} : gate_phase'[c] = gate_phase[c] /\ slot'[c] = slot[c]
             /\ (c \in holder' <=> c \in holder)
        /\ b \in holder' <=> gate_phase'[b] \in {"held", "redrafted", "running", "orphan"}
    BY <1>0, <1>b, <1>3 DEF Gate!Draft, Gate!Candidate, Gate!Move, GateTyped, GatePhases, GateStarting, WithLock
  <2>3. \A s \in Slots, x \in GateShares : x.build # b => (x \in gate_lock'[s] <=> x \in gate_lock[s])
    BY <1>0, <1>a, <1>b, <1>3 DEF Gate!Draft, Gate!Candidate, Gate!Move, GateTyped, WithLock, GatePhases,
       GateStarting
  <2>4. /\ gate_phase'[b] \in WithLock =>
             /\ slot'[b] \in Slots
             /\ \A x \in gate_lock'[slot'[b]] : x.build = b
             /\ b \in holder' <=> h \in gate_lock'[slot'[b]]
             /\ gate_phase'[b] \notin {"running", "orphan"} => w \in gate_lock'[slot'[b]]
        /\ \A s \in Slots : (gate_phase'[b] \notin WithLock \/ s # slot'[b]) => \A x \in gate_lock'[s] : x.build # b
    BY <1>0, <1>a, <1>b, <1>3 DEF Gate!Draft, Gate!Candidate, Gate!Move, GateTyped, WithLock, GatePhases,
       GateStarting
  <2>5. GateLocked'
    BY <1>0, <2>1, <2>2, <2>3, <2>4, GateLockKeeps
  <2> QED
    BY <1>0, <1>b, <1>3, <2>1, <2>5, GateBuildKeeps DEF Gate!Draft, Gate!Candidate, Gate!Move, GateTyped,
       GateStarting, GateInUse, WithLock, GatePhases
<1>4. CASE Gate!Publish(b)
  <2>0. slot[b] \in Slots /\ (owner[slot[b]] = None \/ owner[slot[b]] \in Gate!Owners)
          /\ gate_phase[b] \in {"drafted", "redrafted"}
    BY <1>0, <1>b, <1>4 DEF Gate!Publish, GateTyped, WithLock, GatePhases, GateStarting
  <2>a. Gate!Acquired(b, owner[slot[b]]) \in Nat
    BY <1>b, <2>0 DEF Gate!Acquired, Gate!Owners
  <2>b. Gate!Acquired(b, owner[slot[b]]) <= gate_clock
    BY <1>0, <1>b, <2>0 DEF Gate!Acquired, GateTyped
  <2>1. GateTyped'
    BY <1>0, <1>a, <1>b, <1>4, <2>a, <2>b, FS_Subset DEF Gate!Publish, Gate!Move, GateTyped, GatePhases,
       GateStarting, WithLock, GateFiles, Gate!Owners
  <2>2. /\ \A c \in GateBuilds \ {b} : gate_phase'[c] = gate_phase[c] /\ slot'[c] = slot[c]
             /\ (c \in holder' <=> c \in holder)
        /\ b \in holder' <=> gate_phase'[b] \in {"held", "redrafted", "running", "orphan"}
    BY <1>0, <1>b, <1>4 DEF Gate!Publish, Gate!Move, GateTyped, GatePhases, GateStarting, WithLock
  <2>3. \A s \in Slots, x \in GateShares : x.build # b => (x \in gate_lock'[s] <=> x \in gate_lock[s])
    BY <1>0, <1>a, <1>b, <1>4 DEF Gate!Publish, Gate!Move, GateTyped, WithLock, GatePhases, GateStarting
  <2>4. /\ gate_phase'[b] \in WithLock =>
             /\ slot'[b] \in Slots
             /\ \A x \in gate_lock'[slot'[b]] : x.build = b
             /\ b \in holder' <=> h \in gate_lock'[slot'[b]]
             /\ gate_phase'[b] \notin {"running", "orphan"} => w \in gate_lock'[slot'[b]]
        /\ \A s \in Slots : (gate_phase'[b] \notin WithLock \/ s # slot'[b]) => \A x \in gate_lock'[s] : x.build # b
    BY <1>0, <1>a, <1>b, <1>4 DEF Gate!Publish, Gate!Move, GateTyped, WithLock, GatePhases, GateStarting
  <2>5. GateLocked'
    BY <1>0, <2>1, <2>2, <2>3, <2>4, GateLockKeeps
  <2>6. ASSUME NEW c \in GateBuilds \ {b}, gate_phase[c] = "owned" \/ GateInUse(c)
        PROVE  owner'[slot[c]] = owner[slot[c]]
    BY <1>0, <1>b, <1>4, <1>c, <1>d, <2>6 DEF Gate!Publish, Gate!Move, GateTyped, WithLock, GatePhases,
       GateStarting, GateLocked
  <2>7. CASE gate_phase[b] = "drafted"
    <3>1. gate_phase'[b] = "owned" /\ ~GateInUse(b) /\ UNCHANGED <<gate_clock, reaper, slot, holder>>
          /\ files' \subseteq files /\ \A c \in GateBuilds \ {b} : gate_phase'[c] = gate_phase[c]
      BY <1>0, <1>b, <1>4, <2>7 DEF Gate!Publish, Gate!Move, GateTyped, GateInUse
    <3>2. owner'[slot[b]] = [build |-> b, acquired |-> Gate!Acquired(b, owner[slot[b]])]
      BY <1>0, <1>4, <2>0 DEF Gate!Publish, GateTyped
    <3>3. owner'[slot'[b]] # None /\ owner'[slot'[b]].build = b
      BY <2>0, <2>a, <3>1, <3>2 DEF Gate!Owners
    <3> QED
      BY <1>0, <2>1, <2>5, <2>6, <2>7, <3>1, <3>3, GateBuildKeeps DEF GateStarting, GateInUse
  <2>8. CASE gate_phase[b] = "redrafted"
    <3>1. owner[slot[b]] # None /\ owner[slot[b]].build = b /\ owner[slot[b]] \in Gate!Owners
      BY <1>0, <1>b, <2>0, <2>8 DEF GateOwned, GateInUse
    <3>2. [build |-> b, acquired |-> owner[slot[b]].acquired] = owner[slot[b]]
      BY <3>1 DEF Gate!Owners
    <3>3. owner'[slot[b]] = owner[slot[b]]
      BY <1>0, <1>4, <2>0, <3>1, <3>2 DEF Gate!Publish, Gate!Acquired, GateTyped
    <3> QED
      BY <1>0, <1>b, <1>4, <2>0, <2>1, <2>5, <2>6, <2>8, <3>3, GateBuildKeeps DEF Gate!Publish, Gate!Move,
         GateTyped, GateStarting, GateInUse
  <2> QED
    BY <2>0, <2>7, <2>8
<1>5. CASE Gate!Create(b)
  <2>1. GateTyped'
    BY <1>0, <1>a, <1>b, <1>5 DEF Gate!Create, Gate!Move, GateTyped, GatePhases, GateStarting, WithLock,
       GateFiles, Gate!Owners
  <2>2. /\ \A c \in GateBuilds \ {b} : gate_phase'[c] = gate_phase[c] /\ slot'[c] = slot[c]
             /\ (c \in holder' <=> c \in holder)
        /\ b \in holder' <=> gate_phase'[b] \in {"held", "redrafted", "running", "orphan"}
    BY <1>0, <1>b, <1>5 DEF Gate!Create, Gate!Move, GateTyped, GatePhases, GateStarting, WithLock
  <2>3. \A s \in Slots, x \in GateShares : x.build # b => (x \in gate_lock'[s] <=> x \in gate_lock[s])
    BY <1>0, <1>a, <1>b, <1>5 DEF Gate!Create, Gate!Move, GateTyped, WithLock, GatePhases, GateStarting
  <2>4. /\ gate_phase'[b] \in WithLock =>
             /\ slot'[b] \in Slots
             /\ \A x \in gate_lock'[slot'[b]] : x.build = b
             /\ b \in holder' <=> h \in gate_lock'[slot'[b]]
             /\ gate_phase'[b] \notin {"running", "orphan"} => w \in gate_lock'[slot'[b]]
        /\ \A s \in Slots : (gate_phase'[b] \notin WithLock \/ s # slot'[b]) => \A x \in gate_lock'[s] : x.build # b
    BY <1>0, <1>a, <1>b, <1>5 DEF Gate!Create, Gate!Move, GateTyped, WithLock, GatePhases, GateStarting
  <2>5. GateLocked'
    BY <1>0, <2>1, <2>2, <2>3, <2>4, GateLockKeeps
  <2> QED
    BY <1>0, <1>b, <1>5, <2>1, <2>5, GateBuildKeeps DEF Gate!Create, Gate!Move, GateTyped, GateStarting,
       GateInUse, WithLock, GatePhases
<1>6. CASE Gate!StartHolder(b)
  <2>1. GateTyped'
    BY <1>0, <1>a, <1>b, <1>6 DEF Gate!StartHolder, Gate!Move, GateTyped, GatePhases, GateStarting, WithLock,
       GateFiles, Gate!Owners
  <2>2. /\ \A c \in GateBuilds \ {b} : gate_phase'[c] = gate_phase[c] /\ slot'[c] = slot[c]
             /\ (c \in holder' <=> c \in holder)
        /\ b \in holder' <=> gate_phase'[b] \in {"held", "redrafted", "running", "orphan"}
    BY <1>0, <1>b, <1>6 DEF Gate!StartHolder, Gate!Move, GateTyped, GatePhases, GateStarting, WithLock
  <2>3. \A s \in Slots, x \in GateShares : x.build # b => (x \in gate_lock'[s] <=> x \in gate_lock[s])
    BY <1>0, <1>a, <1>b, <1>6 DEF Gate!StartHolder, Gate!Move, GateTyped, WithLock, GatePhases, GateStarting
  <2>4. /\ gate_phase'[b] \in WithLock =>
             /\ slot'[b] \in Slots
             /\ \A x \in gate_lock'[slot'[b]] : x.build = b
             /\ b \in holder' <=> h \in gate_lock'[slot'[b]]
             /\ gate_phase'[b] \notin {"running", "orphan"} => w \in gate_lock'[slot'[b]]
        /\ \A s \in Slots : (gate_phase'[b] \notin WithLock \/ s # slot'[b]) => \A x \in gate_lock'[s] : x.build # b
    BY <1>0, <1>a, <1>b, <1>6 DEF Gate!StartHolder, Gate!Move, GateTyped, WithLock, GatePhases, GateStarting
  <2>5. GateLocked'
    BY <1>0, <2>1, <2>2, <2>3, <2>4, GateLockKeeps
  <2> QED
    BY <1>0, <1>b, <1>6, <2>1, <2>5, GateBuildKeeps DEF Gate!StartHolder, Gate!Move, GateTyped, GateStarting,
       GateInUse, WithLock, GatePhases
<1>7. CASE Gate!Finish(b)
  <2>1. GateTyped'
    BY <1>0, <1>a, <1>b, <1>7, FS_Subset DEF Gate!Finish, Gate!Release, Gate!Move, Gate!Wrapped, Gate!Gone,
       GateTyped, GatePhases, GateStarting, WithLock, GateFiles, Gate!Owners
  <2>2. /\ \A c \in GateBuilds \ {b} : gate_phase'[c] = gate_phase[c] /\ slot'[c] = slot[c]
             /\ (c \in holder' <=> c \in holder)
        /\ b \in holder' <=> gate_phase'[b] \in {"held", "redrafted", "running", "orphan"}
    BY <1>0, <1>b, <1>7 DEF Gate!Finish, Gate!Release, Gate!Move, Gate!Wrapped, Gate!Gone, GateTyped,
       GatePhases, GateStarting, WithLock
  <2>3. \A s \in Slots, x \in GateShares : x.build # b => (x \in gate_lock'[s] <=> x \in gate_lock[s])
    BY <1>0, <1>a, <1>b, <1>7 DEF Gate!Finish, Gate!Release, Gate!Move, Gate!Wrapped, Gate!Gone, GateTyped,
       WithLock, GatePhases, GateStarting
  <2>4. /\ gate_phase'[b] \in WithLock =>
             /\ slot'[b] \in Slots
             /\ \A x \in gate_lock'[slot'[b]] : x.build = b
             /\ b \in holder' <=> h \in gate_lock'[slot'[b]]
             /\ gate_phase'[b] \notin {"running", "orphan"} => w \in gate_lock'[slot'[b]]
        /\ \A s \in Slots : (gate_phase'[b] \notin WithLock \/ s # slot'[b]) => \A x \in gate_lock'[s] : x.build # b
    BY <1>0, <1>a, <1>b, <1>7 DEF Gate!Finish, Gate!Release, Gate!Move, Gate!Wrapped, Gate!Gone, GateTyped,
       WithLock, GatePhases, GateStarting
  <2>5. GateLocked'
    BY <1>0, <2>1, <2>2, <2>3, <2>4, GateLockKeeps
  <2>6. ASSUME NEW c \in GateBuilds \ {b}, gate_phase[c] = "owned" \/ GateInUse(c)
        PROVE  owner'[slot[c]] = owner[slot[c]]
    BY <1>0, <1>b, <1>7, <1>c, <1>d, <2>6 DEF Gate!Finish, Gate!Release, Gate!Move, Gate!Wrapped, Gate!Gone,
       GateTyped, WithLock, GatePhases, GateStarting, GateLocked
  <2> QED
    BY SMTT(20), <1>0, <1>b, <1>7, <2>1, <2>5, <2>6, GateBuildKeeps DEF Gate!Finish, Gate!Release, Gate!Move,
       Gate!Wrapped, Gate!Gone, GateTyped, GateStarting, GateInUse, WithLock, GatePhases
<1>8. CASE Gate!KillWrapper(b)
  <2>1. GateTyped'
    BY <1>0, <1>a, <1>b, <1>8 DEF Gate!KillWrapper, Gate!Move, Gate!Wrapped, Gate!Gone, GateTyped, GatePhases,
       GateStarting, WithLock, GateFiles, Gate!Owners
  <2>2. /\ \A c \in GateBuilds \ {b} : gate_phase'[c] = gate_phase[c] /\ slot'[c] = slot[c]
             /\ (c \in holder' <=> c \in holder)
        /\ b \in holder' <=> gate_phase'[b] \in {"held", "redrafted", "running", "orphan"}
    BY <1>0, <1>b, <1>8 DEF Gate!KillWrapper, Gate!Move, Gate!Wrapped, Gate!Gone, GateTyped, GatePhases,
       GateStarting, WithLock
  <2>3. \A s \in Slots, x \in GateShares : x.build # b => (x \in gate_lock'[s] <=> x \in gate_lock[s])
    BY <1>0, <1>a, <1>b, <1>8 DEF Gate!KillWrapper, Gate!Move, Gate!Wrapped, Gate!Gone, GateTyped, WithLock,
       GatePhases, GateStarting
  <2>4. /\ gate_phase'[b] \in WithLock =>
             /\ slot'[b] \in Slots
             /\ \A x \in gate_lock'[slot'[b]] : x.build = b
             /\ b \in holder' <=> h \in gate_lock'[slot'[b]]
             /\ gate_phase'[b] \notin {"running", "orphan"} => w \in gate_lock'[slot'[b]]
        /\ \A s \in Slots : (gate_phase'[b] \notin WithLock \/ s # slot'[b]) => \A x \in gate_lock'[s] : x.build # b
    BY <1>0, <1>a, <1>b, <1>8 DEF Gate!KillWrapper, Gate!Move, Gate!Wrapped, Gate!Gone, GateTyped, WithLock,
       GatePhases, GateStarting
  <2>5. GateLocked'
    BY <1>0, <2>1, <2>2, <2>3, <2>4, GateLockKeeps
  <2> QED
    BY <1>0, <1>b, <1>8, <2>1, <2>5, GateBuildKeeps DEF Gate!KillWrapper, Gate!Move, Gate!Wrapped, Gate!Gone,
       GateTyped, GateStarting, GateInUse, WithLock, GatePhases
<1>9. CASE Gate!HolderEnds(b)
  <2>1. GateTyped'
    BY <1>0, <1>a, <1>b, <1>9 DEF Gate!HolderEnds, Gate!Release, Gate!Move, GateTyped, GatePhases,
       GateStarting, WithLock, GateFiles, Gate!Owners
  <2>2. /\ \A c \in GateBuilds \ {b} : gate_phase'[c] = gate_phase[c] /\ slot'[c] = slot[c]
             /\ (c \in holder' <=> c \in holder)
        /\ b \in holder' <=> gate_phase'[b] \in {"held", "redrafted", "running", "orphan"}
    BY <1>0, <1>b, <1>9 DEF Gate!HolderEnds, Gate!Release, Gate!Move, GateTyped, GatePhases, GateStarting,
       WithLock
  <2>3. \A s \in Slots, x \in GateShares : x.build # b => (x \in gate_lock'[s] <=> x \in gate_lock[s])
    BY <1>0, <1>a, <1>b, <1>9 DEF Gate!HolderEnds, Gate!Release, Gate!Move, GateTyped, WithLock, GatePhases,
       GateStarting
  <2>4. /\ gate_phase'[b] \in WithLock =>
             /\ slot'[b] \in Slots
             /\ \A x \in gate_lock'[slot'[b]] : x.build = b
             /\ b \in holder' <=> h \in gate_lock'[slot'[b]]
             /\ gate_phase'[b] \notin {"running", "orphan"} => w \in gate_lock'[slot'[b]]
        /\ \A s \in Slots : (gate_phase'[b] \notin WithLock \/ s # slot'[b]) => \A x \in gate_lock'[s] : x.build # b
    BY <1>0, <1>a, <1>b, <1>9 DEF Gate!HolderEnds, Gate!Release, Gate!Move, GateTyped, WithLock, GatePhases,
       GateStarting
  <2>5. GateLocked'
    BY <1>0, <2>1, <2>2, <2>3, <2>4, GateLockKeeps
  <2> QED
    BY <1>0, <1>b, <1>9, <2>1, <2>5, GateBuildKeeps DEF Gate!HolderEnds, Gate!Release, Gate!Move, GateTyped,
       GateStarting, GateInUse, WithLock, GatePhases
<1> QED
  BY <1>1, <1>2, <1>3, <1>4, <1>5, <1>6, <1>7, <1>8, <1>9

(* A scan removes no record behind a lock that somebody holds.             *)
LEMMA GateScanStep == GateInv /\ Gate!Scan => GateInv'
<1> SUFFICES ASSUME GateInv, Gate!Scan PROVE GateInv'
  OBVIOUS
<1> USE GateLimits DEF GateInv
<1>1. /\ UNCHANGED <<gate_clock, files, gate_lock, gate_phase, holder, slot, reaper>>
      /\ gate_queue' \in SUBSET gate_queue
      /\ owner' \in [Slots -> Gate!Owners \cup {None}]
      /\ \A s \in Slots : owner'[s] = owner[s] \/ owner'[s] = None
      /\ \A s \in Slots : gate_lock[s] # {} => owner'[s] = owner[s]
  BY DEF Gate!Scan, GateTyped
<1>2. \A b \in GateBuilds : gate_phase[b] = "owned" \/ GateInUse(b) =>
        gate_phase[b] \in WithLock /\ slot[b] \in Slots /\ gate_lock[slot[b]] # {}
  BY DEF GateInUse, GateLocked, WithLock, GatePhases, GateStarting
<1>3. GateTyped'
  BY <1>1, FS_Subset DEF GateTyped
<1>4. GateLocked'
  BY <1>1 DEF GateLocked
<1>5. GateOwned'
  BY <1>1, <1>2 DEF GateOwned, GateInUse
<1>6. \A f \in GateSeen : f.build \in GateBuilds
  BY DEF GateSeen, GateTyped, GateFiles, GateReapers
<1>7. GateSeen' = GateSeen
  BY <1>1 DEF GateSeen
<1>8. GateDated'
  BY <1>1, <1>2, <1>6, <1>7 DEF GateDated, GateInUse
<1>9. GateKnown'
  BY <1>1, <1>2, <1>6 DEF GateKnown, Gate!Needed, GateInUse, GateSeen
<1> QED
  BY <1>3, <1>4, <1>5, <1>8, <1>9

LEMMA GateReaperStep ==
  ASSUME GateInv,
         \/ \E space \in DOMAIN Visible : Gate!List(space)
         \/ Gate!Processes \/ Gate!Blind \/ Gate!Located \/ (\E s \in Slots : Gate!Starts(s))
         \/ (\E f \in GateSeen : Gate!Judge(f))
  PROVE  GateInv'
<1> USE GateLimits, IdleOrNot DEF GateInv, Gate!gate
<1>0. UNCHANGED <<gate_clock, Gate!gate>> /\ files' \subseteq files
  BY DEF Gate!List, Gate!Processes, Gate!Blind, Gate!Located, Gate!Starts, Gate!Judge
<1>1. GateLocked' /\ GateOwned'
  BY <1>0 DEF GateLocked, GateOwned, GateInUse
<1>2. SUFFICES /\ reaper' = Gate!Idle \/ reaper' \in GateReapers
               /\ GateSeen' \subseteq GateSeen
               /\ GateKnown'
  BY <1>0, <1>1 DEF GateTyped, GateDated, GateInUse
<1>a. \A f \in GateSeen : f \in GateFiles /\ f.build \in GateBuilds
  BY DEF GateSeen, GateTyped, GateFiles, GateReapers
<1>b. \A f \in GateSeen : Gate!Needed(f) =>
        /\ slot[f.build] \in Slots /\ gate_lock[slot[f.build]] # {}
        /\ owner[slot[f.build]] # None
  BY <1>a DEF Gate!Needed, GateInUse, GateLocked, GateOwned, WithLock, GatePhases, GateStarting
<1>3. ASSUME NEW space \in DOMAIN Visible, Gate!List(space)
      PROVE  (reaper' = Gate!Idle \/ reaper' \in GateReapers) /\ GateSeen' \subseteq GateSeen /\ GateKnown'
  <2> DEFINE old == {f \in files : Gate!Old(f, gate_clock)}
             new == [pc |-> "processes", sees |-> Visible[space], now |-> gate_clock, listed |-> old,
                     slots |-> {s \in Slots : owner[s] # None}, open |-> {}, alive |-> {}, starts |-> {}]
  <2>1. reaper' = new /\ UNCHANGED <<gate_clock, files, Gate!gate>>
    BY <1>3 DEF Gate!List
  <2>2. Visible[space] \in SUBSET GateBuilds
    BY GateAssumed DEF Gate!ReaperAssumption
  <2>3. new \in GateReapers
    BY <2>2 DEF GateReapers, GateTyped
  <2>4. reaper'.listed = old /\ reaper'.pc = "processes" /\ reaper'.slots = {s \in Slots : owner[s] # None}
    BY <2>1
  <2>5. GateSeen' \subseteq GateSeen
    BY <2>1, <2>4 DEF GateSeen
  <2>6. \A f \in old : f \in GateSeen
    BY DEF GateSeen
  <2> HIDE DEF old, new
  <2>7. GateKnown'
    BY <1>b, <2>1, <2>4, <2>6 DEF GateKnown, Gate!Needed
  <2> QED
    BY <2>1, <2>3, <2>5, <2>7
<1>4. ASSUME reaper \in GateReapers, reaper' \in GateReapers, reaper'.listed \subseteq reaper.listed,
             UNCHANGED <<files, Gate!gate>>,
             \/ reaper'.pc # "judge" /\ UNCHANGED <<reaper.slots, reaper.starts>> /\ reaper.pc # "judge"
             \/ reaper'.pc = "judge" /\ UNCHANGED <<reaper.slots, reaper.starts>>
                 /\ (reaper.pc # "judge" => reaper.slots = {})
      PROVE  (reaper' = Gate!Idle \/ reaper' \in GateReapers) /\ GateSeen' \subseteq GateSeen /\ GateKnown'
  BY <1>4 DEF GateSeen, GateKnown, Gate!Needed
<1>5. CASE Gate!Processes
  <2>1. reaper \in GateReapers
    BY <1>5 DEF Gate!Processes, GateTyped, Gate!Idle
  <2>2. /\ reaper' \in GateReapers /\ reaper'.listed = reaper.listed /\ reaper.pc = "processes"
             /\ reaper'.pc = "locks"
        /\ reaper'.slots = reaper.slots /\ reaper'.starts = reaper.starts
    BY <1>5, <2>1 DEF Gate!Processes, GateReapers, GateTyped
  <2> QED
    BY <1>5, <1>4, <2>1, <2>2 DEF Gate!Processes
<1>6. CASE Gate!Blind
  BY <1>6 DEF Gate!Blind, GateSeen, GateKnown
<1>7. CASE Gate!Located
  <2>1. reaper \in GateReapers
    BY <1>7 DEF Gate!Located, GateTyped, Gate!Idle
  <2>2. /\ reaper' \in GateReapers /\ reaper'.listed = reaper.listed /\ reaper'.pc = "judge" /\ reaper.slots = {}
        /\ reaper'.slots = reaper.slots /\ reaper'.starts = reaper.starts
    BY <1>7, <2>1 DEF Gate!Located, GateReapers
  <2> QED
    BY <1>7, <1>4, <2>1, <2>2 DEF Gate!Located
<1>8. ASSUME NEW s \in Slots, Gate!Starts(s)
      PROVE  (reaper' = Gate!Idle \/ reaper' \in GateReapers) /\ GateSeen' \subseteq GateSeen /\ GateKnown'
  <2>0. reaper.pc = "locks"
    BY <1>8 DEF Gate!Starts
  <2>1. reaper \in GateReapers
    BY <2>0 DEF GateTyped, Gate!Idle
  <2> DEFINE more == IF gate_lock[s] # {} /\ owner[s] # None
                      THEN reaper.starts \cup {owner[s].acquired} ELSE reaper.starts
  <2>2. more \in SUBSET Nat
    BY <2>1 DEF GateReapers, GateTyped, Gate!Owners
  <2>3. reaper' = [reaper EXCEPT !.slots = reaper.slots \ {s}, !.starts = more]
    BY <1>8 DEF Gate!Starts
  <2> HIDE DEF more
  <2>4. /\ reaper' \in GateReapers /\ reaper'.listed = reaper.listed /\ reaper'.pc = reaper.pc
        /\ reaper'.slots = reaper.slots \ {s} /\ reaper'.starts = more
    BY <2>1, <2>2, <2>3 DEF GateReapers
  <2>5. GateSeen' \subseteq GateSeen
    BY <1>8, <2>1, <2>4 DEF GateSeen, Gate!Starts
  <2>6. GateKnown'
    <3> SUFFICES ASSUME NEW f \in reaper.listed, Gate!Needed(f)
                 PROVE  \/ owner[slot[f.build]].acquired \in more
                        \/ reaper.pc # "judge" /\ slot[f.build] \in reaper.slots \ {s}
      BY <1>0, <2>4 DEF GateKnown, Gate!Needed
    <3>1. gate_lock[slot[f.build]] # {} /\ owner[slot[f.build]] # None
      BY <1>b, <2>1 DEF GateSeen
    <3>2. reaper.starts \subseteq more /\ (slot[f.build] = s => owner[s].acquired \in more)
      BY <3>1 DEF more
    <3> QED
      BY <2>1, <3>2 DEF GateKnown
  <2> QED
    BY <2>4, <2>5, <2>6
<1>9. ASSUME NEW f \in GateSeen, Gate!Judge(f)
      PROVE  (reaper' = Gate!Idle \/ reaper' \in GateReapers) /\ GateSeen' \subseteq GateSeen /\ GateKnown'
  <2>1. reaper \in GateReapers
    BY <1>9 DEF Gate!Judge, GateTyped, Gate!Idle
  <2>2. CASE reaper' = Gate!Idle
    BY <1>0, <2>2 DEF GateSeen, GateKnown
  <2>3. CASE reaper' = [reaper EXCEPT !.listed = @ \ {f}]
    <3>1. /\ reaper' \in GateReapers /\ reaper'.listed = reaper.listed \ {f} /\ reaper'.pc = reaper.pc
          /\ reaper'.slots = reaper.slots /\ reaper'.starts = reaper.starts
      BY <2>1, <2>3 DEF GateReapers
    <3>2. GateSeen' \subseteq GateSeen
      BY <1>0, <2>1, <3>1 DEF GateSeen
    <3>3. GateKnown'
      BY <1>0, <2>1, <3>1 DEF GateKnown, Gate!Needed
    <3> QED
      BY <3>1, <3>2, <3>3
  <2> QED
    BY <1>9, <2>2, <2>3 DEF Gate!Judge
<1> QED
  BY <1>3, <1>5, <1>6, <1>7, <1>8, <1>9

LEMMA GateStep == GateInv /\ (Gate!Next \/ UNCHANGED gate_vars) => GateInv'
<1> SUFFICES ASSUME GateInv, (Gate!Next \/ UNCHANGED gate_vars) PROVE GateInv'
  OBVIOUS
<1>1. CASE Gate!Tick
  <2>1. gate_clock \in Nat /\ gate_clock' = gate_clock + 1 /\ UNCHANGED <<files, Gate!gate, reaper>>
    BY <1>1 DEF Gate!Tick, GateInv, GateTyped
  <2>2. \A t \in Nat : t <= gate_clock => t <= gate_clock'
    BY <2>1
  <2>3. gate_clock' \in Nat
    BY <2>1
  <2>4. \A s \in Slots : owner[s] # None => owner[s].acquired \in Nat
    BY DEF GateInv, GateTyped, Gate!Owners
  <2>5. GateTyped'
    BY <2>1, <2>2, <2>3, <2>4 DEF Gate!gate, GateInv, GateTyped
  <2> QED
    BY <2>1, <2>5 DEF Gate!gate, GateInv, GateLocked, GateOwned, GateInUse, GateDated, GateSeen, GateKnown,
       Gate!Needed
<1>2. CASE UNCHANGED gate_vars
  BY <1>2 DEF gate_vars, GateInv, GateTyped, GateLocked, GateOwned, GateInUse, GateDated, GateSeen, GateKnown,
     Gate!Needed
<1> QED
  BY <1>1, <1>2, GateBuildStep, GateScanStep, GateReaperStep DEF Gate!Next, GateSeen

LEMMA GateKeeps == GateInv /\ (Gate!Next \/ UNCHANGED gate_vars) => Gate!KeepsHandshakes
<1> SUFFICES ASSUME GateInv, (Gate!Next \/ UNCHANGED gate_vars), reaper # Gate!Idle, reaper.pc = "judge",
                    reaper' # reaper,
                    NEW f \in files \ files', Gate!Needed(f)
             PROVE  FALSE
  BY DEF Gate!KeepsHandshakes
<1>1. Gate!Judge(f) /\ Gate!Dead(f) /\ f \in reaper.listed
  <2>1. PICK g \in GateSeen : Gate!Judge(g)
    BY DEF Gate!Next, gate_vars, Gate!Tick, Gate!Scan, Gate!Processes, Gate!Blind, Gate!Located, Gate!Enqueue,
       Gate!Acquire, Gate!Draft, Gate!Publish, Gate!Create, Gate!StartHolder, Gate!Finish, Gate!KillWrapper,
       Gate!HolderEnds, Gate!List, Gate!Starts, GateSeen
  <2> QED
    BY <2>1 DEF Gate!Judge
<1>2. owner[slot[f.build]].acquired \in reaper.starts
  BY <1>1 DEF GateInv, GateKnown
<1>3. f.kind = "handshake" /\ f.build \in GateBuilds /\ f \in GateSeen /\ f \in GateFiles
  BY DEF Gate!Needed, GateInv, GateTyped, GateFiles, GateSeen
<1>4. owner[slot[f.build]].acquired <= f.at
  BY <1>3 DEF GateInv, GateDated, Gate!Needed, GateInUse
<1>5. f.at < owner[slot[f.build]].acquired
  BY <1>1, <1>2, <1>3 DEF Gate!Dead
<1>6. owner[slot[f.build]].acquired \in Nat /\ f.at \in Nat
  BY <1>2, <1>3 DEF GateInv, GateTyped, GateReapers, GateFiles
<1> QED
  BY <1>4, <1>5, <1>6

LEMMA GateCounts == GateInv /\ (Gate!Next \/ UNCHANGED gate_vars) => Gate!CountsAll
<1> SUFFICES ASSUME GateInv, (Gate!Next \/ UNCHANGED gate_vars), gate_report = None, gate_report' # None,
                    ~gate_report'.degraded
             PROVE  /\ gate_report'.active = Cardinality({s \in Slots : gate_lock[s] # {}})
                    /\ gate_report'.queued = Cardinality({b \in gate_queue : Gate!Wrapped(b)})
  BY SameCardinality DEF Gate!CountsAll
<1>1. Gate!Scan
  BY DEF Gate!Next, gate_vars, Gate!Tick, Gate!Processes, Gate!Blind, Gate!Located, Gate!Enqueue, Gate!Acquire,
     Gate!Draft, Gate!Publish, Gate!Create, Gate!StartHolder, Gate!Finish, Gate!KillWrapper, Gate!HolderEnds,
     Gate!List, Gate!Starts, Gate!Judge
<1> DEFINE first == {s \in Slots : s <= CandidateLimit}
           room == Gate!Min({CandidateLimit - Cardinality(first), Cardinality(gate_queue)})
           taken == {s \in first : gate_lock[s] # {}}
           waits(waiting) == {b \in waiting : Gate!Wrapped(b)}
<1>2. PICK waiting \in Gate!kSubset(room, gate_queue) :
        gate_report' = [active |-> Cardinality(taken), queued |-> Cardinality(waits(waiting)),
                   degraded |-> Gate!Exceeded(Cardinality(first) + room,
                                              Cardinality(taken) + Cardinality(waits(waiting)))]
  BY <1>1, SameCardinality DEF Gate!Scan
<1>3. waiting \in SUBSET gate_queue /\ Cardinality(waiting) = room
  BY SameCardinality DEF Gate!kSubset
<1>4. ~(Cardinality(first) + room < Cardinality(Slots) + Cardinality(gate_queue))
  BY <1>2, SameCardinality DEF Gate!Exceeded
<1>5. first \in SUBSET Slots /\ IsFiniteSet(Slots) /\ IsFiniteSet(gate_queue)
  BY GateLimits DEF GateInv, GateTyped
<1> HIDE DEF first, room
<1>6. /\ Cardinality(first) <= Cardinality(Slots) /\ (Cardinality(first) = Cardinality(Slots) => first = Slots)
      /\ Cardinality(waiting) <= Cardinality(gate_queue)
           /\ (Cardinality(waiting) = Cardinality(gate_queue) => waiting = gate_queue)
      /\ IsFiniteSet(first) /\ IsFiniteSet(waiting)
  BY <1>3, <1>5, FS_Subset
<1>7. Cardinality(first) \in Nat /\ Cardinality(waiting) \in Nat /\ Cardinality(Slots) \in Nat
        /\ Cardinality(gate_queue) \in Nat
  BY <1>5, <1>6, FS_CardinalityType
<1>8. Cardinality(first) = Cardinality(Slots) /\ Cardinality(waiting) = Cardinality(gate_queue)
  <2>1. \A a, b, c, d \in Nat : a <= c /\ b <= d /\ ~(a + b < c + d) => a = c /\ b = d
    OBVIOUS
  <2> QED
    BY <1>3, <1>4, <1>6, <1>7, <2>1
<1> QED
  BY <1>2, <1>6, <1>8

-----------------------------------------------------------------------------
(*****************************************************************************)
(* The daily run of the newsletter (NewsletterRun).                          *)
(*****************************************************************************)

LEMMA DailyAssumed == Daily!RunAssumption
BY ProgramsAssumption

(* Division by the same number keeps the order.                            *)
LEMMA DivMonotone ==
  ASSUME NEW a \in Nat, NEW b \in Nat, NEW n \in Nat \ {0}, a <= b
  PROVE  a \div n \in Nat /\ a \div n <= b \div n
<1> DEFINE q == a \div n
           p == b \div n
<1>1. q \in Nat /\ p \in Nat /\ n * q <= a /\ b < n * p + n
  OBVIOUS
<1>2. ASSUME q > p PROVE FALSE
  <2>1. q >= p + 1
    BY <1>1, <1>2
  <2>2. n * q >= n * (p + 1)
    BY <2>1, <1>1
  <2>3. n * (p + 1) = n * p + n
    BY <1>1
  <2> HIDE DEF q, p
  <2> QED
    BY <2>2, <2>3, <1>1
<1> QED
  BY <1>1, <1>2

DailyHeld == {"marker", "preprocess", "read back", "html", "pdf", "report",
         "latest report", "latest html", "latest pdf", "wake", "mark"}

DailyTyped ==
  /\ daily_clock \in 0 .. MaxTime
  /\ out \in [Daily!Dates -> [Daily!Parts -> Daily!All \cup {None}]]
  /\ latest \in [Daily!Parts -> Daily!All \cup {None}]
  /\ daily_lock \in Runs \cup {None} /\ dry \subseteq Runs
  /\ daily_pc \in [Daily!All -> {"new", "lock", "over"} \cup DailyHeld]
  /\ now \in [Daily!All -> 0 .. MaxTime]
  /\ daily_report \in [Daily!All -> Daily!All \cup {None}]
  /\ wakes \in [Daily!Dates -> Nat] /\ cut \in [Daily!Dates -> Nat]

(* A daily run works under the lock, and a dry one never wakes.            *)
DailyAlone(r) ==
  /\ r \in Runs /\ daily_pc[r] \in DailyHeld => daily_lock = r
  /\ r \in Hand => daily_pc[r] \in {"new", "html", "pdf", "report", "over"}
  /\ daily_pc[r] \in {"wake", "mark"} => r \notin dry

(* While a run that may wake holds the lock, its date has no marker.       *)
DailyUnmarked(r) ==
  r \in Runs \ dry /\ daily_pc[r] \in DailyHeld \ {"marker"} => Daily!DayKey(now[r]) \notin marked

DailyMarking(d) == d \in marked \/ \E r \in Runs : daily_pc[r] = "mark" /\ Daily!DayKey(now[r]) = d
DailyCounted(d) == wakes[d] <= cut[d] + (IF DailyMarking(d) THEN 1 ELSE 0)

(* What a run that nobody disturbed has put in place so far.               *)
DailyPlaced(r) ==
  r \in Runs \cap alone =>
    /\ daily_pc[r] \in DailyHeld \ {"marker", "preprocess", "mark"} => out[Daily!Directory(r)]["report"] = r
    /\ daily_pc[r] \in DailyHeld \ {"marker", "preprocess", "read back", "mark"} => daily_report[r] = r
    /\ daily_pc[r] \in {"pdf", "report", "latest report", "latest html", "latest pdf", "wake"}
         => out[Daily!Directory(r)]["html"] = r
    /\ daily_pc[r] \in {"report", "latest report", "latest html", "latest pdf", "wake"}
         => out[Daily!Directory(r)]["pdf"] = r
    /\ daily_pc[r] \in {"latest html", "latest pdf", "wake"} => latest["report"] = r
    /\ daily_pc[r] \in {"latest pdf", "wake"} => latest["html"] = r
    /\ daily_pc[r] = "wake" => latest["pdf"] = r

DailyInv ==
  /\ DailyTyped
  /\ \A r \in Daily!All : DailyAlone(r) /\ DailyUnmarked(r) /\ DailyPlaced(r)
  /\ \A d \in Daily!Dates : DailyCounted(d)

LEMMA DatesCover ==
  ASSUME NEW t \in 0 .. MaxTime
  PROVE  Daily!DayKey(t) \in Daily!Dates /\ Daily!UtcDate(t) \in Daily!Dates
<1> USE DailyAssumed DEF Daily!RunAssumption
<1>1. t \div DayTicks \in Nat /\ t \div DayTicks <= (MaxTime + West) \div DayTicks
  BY DivMonotone
<1>2. (t + West) \div DayTicks \in Nat /\ (t + West) \div DayTicks <= (MaxTime + West) \div DayTicks
  BY DivMonotone
<1>3. (MaxTime + West) \div DayTicks \in Nat
  OBVIOUS
<1> HIDE DailyAssumed
<1> QED
  BY <1>1, <1>2, <1>3 DEF Daily!DayKey, Daily!UtcDate, Daily!Dates

LEMMA DailyInit == Daily!Init => DailyInv
<1> SUFFICES ASSUME Daily!Init PROVE DailyInv
  OBVIOUS
<1> USE DailyAssumed DEF Daily!RunAssumption, Daily!Init
<1>1. DailyTyped
  BY DEF DailyTyped, DailyHeld, Daily!All, Daily!NoOutputs
<1>2. ASSUME NEW r \in Daily!All PROVE DailyAlone(r) /\ DailyUnmarked(r) /\ DailyPlaced(r)
  BY <1>2 DEF DailyAlone, DailyUnmarked, DailyPlaced, DailyHeld, Daily!All
<1>3. ASSUME NEW d \in Daily!Dates PROVE DailyCounted(d)
  BY <1>3 DEF DailyCounted, DailyMarking
<1> QED
  BY <1>1, <1>2, <1>3 DEF DailyInv

(* A run's directory is one of the dates'.                                 *)
LEMMA DirectoryDated ==
  ASSUME DailyTyped, NEW r \in Daily!All
  PROVE  Daily!Directory(r) \in Daily!Dates /\ Daily!DayKey(now[r]) \in Daily!Dates
BY DatesCover DEF DailyTyped, Daily!Directory

LEMMA DailyStep == DailyInv /\ (Daily!Next \/ UNCHANGED daily_vars) => DailyInv'
<1> SUFFICES ASSUME DailyInv, (Daily!Next \/ UNCHANGED daily_vars) PROVE DailyInv'
  OBVIOUS
<1> USE DailyAssumed DEF Daily!RunAssumption, DailyInv
<1>0. DailyTyped
  OBVIOUS
<1>1. CASE Daily!Tick
  <2>1. DailyTyped'
    <3>1. daily_clock' \in 0 .. MaxTime
      BY <1>1 DEF Daily!Tick, DailyTyped
    <3> QED
      BY <1>1, <3>1 DEF Daily!Tick, Daily!files, DailyTyped
  <2>2. ASSUME NEW r \in Daily!All PROVE DailyAlone(r)'
    BY <1>1, <2>2 DEF Daily!Tick, Daily!files, DailyTyped, DailyHeld, Daily!All, DailyAlone
  <2>3. ASSUME NEW r \in Daily!All PROVE DailyUnmarked(r)'
    BY <1>1, <2>3 DEF Daily!Tick, Daily!files, DailyTyped, DailyHeld, Daily!All, DailyAlone, DailyUnmarked
  <2>4. ASSUME NEW r \in Daily!All PROVE DailyPlaced(r)'
    <3>1. Daily!Directory(r)' = Daily!Directory(r)
      BY <1>1 DEF Daily!Tick, Daily!Directory
    <3> QED
      BY <1>1, <2>4, <3>1 DEF Daily!Tick, Daily!files, DailyPlaced
  <2>5. ASSUME NEW d \in Daily!Dates PROVE DailyCounted(d)'
    BY <1>1, <2>5 DEF Daily!Tick, Daily!files, DailyTyped, DailyHeld, Daily!All, DailyAlone, DailyUnmarked,
       DailyCounted, DailyMarking
  <2> QED
    BY <2>1, <2>2, <2>3, <2>4, <2>5
<1>2. ASSUME NEW q \in Daily!All, Daily!Start(q) PROVE DailyInv'
  <2>1. DailyTyped'
    BY <1>2 DEF Daily!Start, Daily!Goto, Daily!files, DailyTyped, DailyHeld, Daily!All
  <2>2. ASSUME NEW r \in Daily!All PROVE DailyAlone(r)'
    BY <1>2, <2>2 DEF Daily!Start, Daily!Goto, Daily!files, DailyTyped, DailyHeld, Daily!All, DailyAlone
  <2>3. ASSUME NEW r \in Daily!All PROVE DailyUnmarked(r)'
    BY <1>2, <2>3 DEF Daily!Start, Daily!Goto, Daily!files, DailyTyped, DailyHeld, Daily!All, DailyAlone,
       DailyUnmarked
  <2>4. ASSUME NEW r \in Daily!All PROVE DailyPlaced(r)'
    <3>1. CASE r = q
      BY <1>2, <3>1 DEF Daily!Start, Daily!Goto, DailyTyped, DailyHeld, DailyPlaced, Daily!All
    <3>2. CASE r # q
      <4>1. Daily!Directory(r)' = Daily!Directory(r)
        BY <1>2, <2>4, <3>2 DEF Daily!Start, Daily!Directory, DailyTyped
      <4> QED
        BY <1>2, <2>4, <3>2, <4>1 DEF Daily!Start, Daily!Goto, Daily!files, DailyTyped, DailyPlaced
    <3> QED
      BY <3>1, <3>2
  <2>5. ASSUME NEW d \in Daily!Dates PROVE DailyCounted(d)'
    BY <1>2, <2>5 DEF Daily!Start, Daily!Goto, Daily!files, DailyTyped, DailyHeld, Daily!All, DailyAlone,
       DailyUnmarked, DailyCounted, DailyMarking
  <2> QED
    BY <2>1, <2>2, <2>3, <2>4, <2>5
<1>3. ASSUME NEW q \in Daily!All, Daily!Lock(q) PROVE DailyInv'
  <2>1. DailyTyped'
    <3>1. q \in Runs
      BY <1>3 DEF Daily!Lock, DailyAlone, Daily!All
    <3>2. daily_pc' \in [Daily!All -> {"new", "lock", "over"} \cup DailyHeld]
      BY <1>3 DEF Daily!Lock, DailyTyped, DailyHeld
    <3> QED
      BY <1>3, <3>1, <3>2 DEF Daily!Lock, Daily!files, DailyTyped
  <2>2. ASSUME NEW r \in Daily!All PROVE DailyAlone(r)'
    BY <1>3, <2>2 DEF Daily!Lock, Daily!LockFree, Daily!files, DailyTyped, DailyHeld, Daily!All, DailyAlone
  <2>3. ASSUME NEW r \in Daily!All PROVE DailyUnmarked(r)'
    BY <1>3, <2>3 DEF Daily!Lock, Daily!LockFree, Daily!files, DailyTyped, DailyHeld, Daily!All, DailyAlone,
       DailyUnmarked
  <2>4. ASSUME NEW r \in Daily!All PROVE DailyPlaced(r)'
    BY <1>3, <2>4, DirectoryDated DEF Daily!Lock, Daily!LockFree, Daily!files, DailyTyped, DailyHeld,
       Daily!All, DailyAlone, DailyPlaced
  <2>5. ASSUME NEW d \in Daily!Dates PROVE DailyCounted(d)'
    BY <1>3, <2>5 DEF Daily!Lock, Daily!LockFree, Daily!files, DailyTyped, DailyHeld, Daily!All, DailyAlone,
       DailyUnmarked, DailyCounted, DailyMarking
  <2> QED
    BY <2>1, <2>2, <2>3, <2>4, <2>5
<1>4. ASSUME NEW q \in Daily!All, Daily!Locked(q) PROVE DailyInv'
  <2>1. DailyTyped'
    BY <1>4 DEF Daily!Locked, Daily!LockFree, Daily!Goto, Daily!files, DailyTyped, DailyHeld, Daily!All
  <2>2. ASSUME NEW r \in Daily!All PROVE DailyAlone(r)'
    BY <1>4, <2>2 DEF Daily!Locked, Daily!LockFree, Daily!Goto, Daily!files, DailyTyped, DailyHeld, Daily!All,
       DailyAlone
  <2>3. ASSUME NEW r \in Daily!All PROVE DailyUnmarked(r)'
    BY <1>4, <2>3 DEF Daily!Locked, Daily!LockFree, Daily!Goto, Daily!files, DailyTyped, DailyHeld, Daily!All,
       DailyAlone, DailyUnmarked
  <2>4. ASSUME NEW r \in Daily!All PROVE DailyPlaced(r)'
    <3>1. Daily!Directory(r)' = Daily!Directory(r) /\ Daily!Directory(q)' = Daily!Directory(q)
      BY <1>4 DEF Daily!Locked, Daily!Directory
    <3> QED
      BY <1>4, <2>4, <3>1, DirectoryDated DEF Daily!Locked, Daily!LockFree, Daily!Goto, Daily!files,
         DailyTyped, DailyHeld, Daily!All, DailyAlone, DailyPlaced
  <2>5. ASSUME NEW d \in Daily!Dates PROVE DailyCounted(d)'
    BY <1>4, <2>5 DEF Daily!Locked, Daily!LockFree, Daily!Goto, Daily!files, DailyTyped, DailyHeld, Daily!All,
       DailyAlone, DailyUnmarked, DailyCounted, DailyMarking
  <2> QED
    BY <2>1, <2>2, <2>3, <2>4, <2>5
<1>5. ASSUME NEW q \in Daily!All, Daily!Marker(q) PROVE DailyInv'
  <2>1. DailyTyped'
    BY <1>5 DEF Daily!Marker, Daily!Goto, Daily!files, DailyTyped, DailyHeld, Daily!All
  <2>2. ASSUME NEW r \in Daily!All PROVE DailyAlone(r)'
    BY <1>5, <2>2 DEF Daily!Marker, Daily!Goto, Daily!files, DailyTyped, DailyHeld, Daily!All, DailyAlone
  <2>3. ASSUME NEW r \in Daily!All PROVE DailyUnmarked(r)'
    BY <1>5, <2>3 DEF Daily!Marker, Daily!Goto, Daily!files, DailyTyped, DailyHeld, Daily!All, DailyAlone,
       DailyUnmarked
  <2>4. ASSUME NEW r \in Daily!All PROVE DailyPlaced(r)'
    BY <1>5, <2>4, DirectoryDated DEF Daily!Marker, Daily!Goto, Daily!files, DailyTyped, DailyHeld, Daily!All,
       DailyAlone, DailyPlaced
  <2>5. ASSUME NEW d \in Daily!Dates PROVE DailyCounted(d)'
    BY <1>5, <2>5 DEF Daily!Marker, Daily!Goto, Daily!files, DailyTyped, DailyHeld, Daily!All, DailyAlone,
       DailyUnmarked, DailyCounted, DailyMarking
  <2> QED
    BY <2>1, <2>2, <2>3, <2>4, <2>5
<1>6. ASSUME NEW q \in Daily!All, Daily!Preprocess(q) PROVE DailyInv'
  <2>1. DailyTyped'
    BY <1>6 DEF Daily!Preprocess, Daily!Goto, Daily!Disturb, DailyTyped, DailyHeld, Daily!All
  <2>2. ASSUME NEW r \in Daily!All PROVE DailyAlone(r)'
    BY <1>6, <2>2 DEF Daily!Preprocess, Daily!Goto, Daily!Disturb, DailyTyped, DailyHeld, Daily!All, DailyAlone
  <2>3. ASSUME NEW r \in Daily!All PROVE DailyUnmarked(r)'
    BY <1>6, <2>3 DEF Daily!Preprocess, Daily!Goto, Daily!Disturb, DailyTyped, DailyHeld, Daily!All,
       DailyAlone, DailyUnmarked
  <2>4. ASSUME NEW r \in Daily!All PROVE DailyPlaced(r)'
    <3>1. Daily!Directory(r)' = Daily!Directory(r) /\ Daily!Directory(q)' = Daily!Directory(q)
      BY <1>6 DEF Daily!Preprocess, Daily!Directory
    <3>2. daily_pc' = [daily_pc EXCEPT ![q] = "read back"] /\ UNCHANGED <<latest, daily_report>>
      BY <1>6 DEF Daily!Preprocess, Daily!Goto
    <3>3. CASE r = q
      <4>1. out'[Daily!Directory(q)]["report"] = q
        BY <1>6, DirectoryDated DEF Daily!Preprocess, DailyTyped, Daily!Parts
      <4> QED
        BY <3>1, <3>2, <3>3, <4>1 DEF DailyTyped, DailyPlaced
    <3>4. CASE r # q
      <4>1. ASSUME r \in alone' PROVE r \in alone /\ out'[Daily!Directory(r)] = out[Daily!Directory(r)]
        BY <1>6, <3>4, <4>1, DirectoryDated DEF Daily!Preprocess, Daily!Disturb, DailyTyped
      <4> QED
        BY <2>4, <3>1, <3>2, <3>4, <4>1 DEF DailyTyped, DailyPlaced
    <3> QED
      BY <3>3, <3>4
  <2>5. ASSUME NEW d \in Daily!Dates PROVE DailyCounted(d)'
    BY <1>6, <2>5 DEF Daily!Preprocess, Daily!Goto, Daily!Disturb, DailyTyped, DailyHeld, Daily!All,
       DailyAlone, DailyUnmarked, DailyCounted, DailyMarking
  <2> QED
    BY <2>1, <2>2, <2>3, <2>4, <2>5
<1>7. ASSUME NEW q \in Daily!All, Daily!ReadBack(q) PROVE DailyInv'
  <2>1. DailyTyped'
    <3>1. out[Daily!Directory(q)]["report"] \in Daily!All \cup {None}
      BY DirectoryDated DEF DailyTyped, Daily!Parts
    <3>2. daily_report' \in [Daily!All -> Daily!All \cup {None}]
      BY <1>7, <3>1 DEF Daily!ReadBack, DailyTyped
    <3>3. daily_pc' \in [Daily!All -> {"new", "lock", "over"} \cup DailyHeld] /\ daily_lock' \in Runs \cup {None}
      BY <1>7 DEF Daily!ReadBack, Daily!Goto, DailyTyped, DailyHeld
    <3> QED
      BY <1>7, <3>2, <3>3 DEF Daily!ReadBack, Daily!files, DailyTyped
  <2>2. ASSUME NEW r \in Daily!All PROVE DailyAlone(r)'
    BY <1>7, <2>2 DEF Daily!ReadBack, Daily!Goto, Daily!files, DailyTyped, DailyHeld, Daily!All, DailyAlone
  <2>3. ASSUME NEW r \in Daily!All PROVE DailyUnmarked(r)'
    BY <1>7, <2>3 DEF Daily!ReadBack, Daily!Goto, Daily!files, DailyTyped, DailyHeld, Daily!All, DailyAlone,
       DailyUnmarked
  <2>4. ASSUME NEW r \in Daily!All PROVE DailyPlaced(r)'
    <3>1. Daily!Directory(r)' = Daily!Directory(r) /\ Daily!Directory(q)' = Daily!Directory(q)
      BY <1>7 DEF Daily!ReadBack, Daily!Directory
    <3> QED
      BY <1>7, <2>4, <3>1, DirectoryDated DEF Daily!ReadBack, Daily!Goto, Daily!files, DailyTyped, DailyHeld,
         Daily!All, DailyAlone, DailyPlaced
  <2>5. ASSUME NEW d \in Daily!Dates PROVE DailyCounted(d)'
    BY <1>7, <2>5 DEF Daily!ReadBack, Daily!Goto, Daily!files, DailyTyped, DailyHeld, Daily!All, DailyAlone,
       DailyUnmarked, DailyCounted, DailyMarking
  <2> QED
    BY <2>1, <2>2, <2>3, <2>4, <2>5
<1>8. ASSUME NEW q \in Daily!All, Daily!Replace(q) PROVE DailyInv'
  <2>1. DailyTyped'
    BY <1>8 DEF Daily!Replace, Daily!Goto, Daily!Disturb, Daily!Parts, Daily!After, Daily!NextStage,
       DailyTyped, DailyHeld, Daily!All
  <2>2. ASSUME NEW r \in Daily!All PROVE DailyAlone(r)'
    BY <1>8, <2>2 DEF Daily!Replace, Daily!Goto, Daily!Disturb, Daily!Parts, Daily!After, Daily!NextStage,
       DailyTyped, DailyHeld, Daily!All, DailyAlone
  <2>3. ASSUME NEW r \in Daily!All PROVE DailyUnmarked(r)'
    BY <1>8, <2>3 DEF Daily!Replace, Daily!Goto, Daily!Disturb, Daily!Parts, Daily!After, Daily!NextStage,
       DailyTyped, DailyHeld, Daily!All, DailyAlone, DailyUnmarked
  <2>4. ASSUME NEW r \in Daily!All PROVE DailyPlaced(r)'
    <3>1. Daily!Directory(r)' = Daily!Directory(r) /\ Daily!Directory(q)' = Daily!Directory(q)
      BY <1>8 DEF Daily!Replace, Daily!Directory
    <3>2. /\ daily_pc' = [daily_pc EXCEPT ![q] = Daily!After(q, daily_pc[q])] /\ UNCHANGED <<latest, daily_report>>
          /\ daily_pc[q] \in Daily!Parts
      BY <1>8 DEF Daily!Replace, Daily!Goto
    <3>3. CASE r = q
      <4>1. ASSUME q \in Runs \cap alone'
            PROVE  /\ daily_report[q] = q /\ DailyPlaced(q)
                   /\ \A part \in Daily!Parts : out'[Daily!Directory(q)][part]
                                         = IF part = daily_pc[q] THEN q ELSE out[Daily!Directory(q)][part]
        <5>1. daily_report[q] = q
          BY <1>8, <3>2, <4>1 DEF Daily!Replace, Daily!Disturb, DailyPlaced, Daily!Parts, DailyHeld
        <5> QED
          BY <1>8, <3>2, <5>1, DirectoryDated DEF Daily!Replace, DailyTyped
      <4>2. q \in alone' => q \in alone
        BY <1>8 DEF Daily!Replace, Daily!Disturb
      <4>3. q \in Runs => Daily!After(q, daily_pc[q]) = Daily!NextStage(daily_pc[q])
        BY <3>2 DEF Daily!After, Daily!NextStage, Daily!Parts, Daily!All
      <4>4. q \in Runs => Daily!After(q, daily_pc[q]) \in {"over", Daily!NextStage(daily_pc[q])}
        BY <4>3
      <4> SUFFICES ASSUME r \in Runs \cap alone' PROVE DailyPlaced(r)'
        BY DEF DailyPlaced
      <4>5. CASE daily_pc[q] = "html"
        <5>1. daily_pc'[q] \in {"over", "pdf"}
          BY <3>2, <3>3, <4>4, <4>5 DEF DailyTyped, Daily!NextStage
        <5> QED
          BY <3>1, <3>2, <3>3, <4>1, <4>2, <4>5, <5>1 DEF DailyPlaced, Daily!Parts, DailyHeld, Daily!LatestPart
      <4>6. CASE daily_pc[q] = "pdf"
        <5>1. daily_pc'[q] \in {"over", "report"}
          BY <3>2, <3>3, <4>4, <4>6 DEF DailyTyped, Daily!NextStage
        <5> QED
          BY <3>1, <3>2, <3>3, <4>1, <4>2, <4>6, <5>1 DEF DailyPlaced, Daily!Parts, DailyHeld, Daily!LatestPart
      <4>7. CASE daily_pc[q] = "report"
        <5>1. daily_pc'[q] \in {"over", "latest report"}
          BY <3>2, <3>3, <4>4, <4>7 DEF DailyTyped, Daily!NextStage
        <5> QED
          BY <3>1, <3>2, <3>3, <4>1, <4>2, <4>7, <5>1 DEF DailyPlaced, Daily!Parts, DailyHeld, Daily!LatestPart
      <4> QED
        BY <3>2, <4>5, <4>6, <4>7 DEF Daily!Parts
    <3>4. CASE r # q
      <4>1. ASSUME r \in alone' PROVE r \in alone /\ out'[Daily!Directory(r)] = out[Daily!Directory(r)]
        BY <1>8, <3>4, <4>1, DirectoryDated DEF Daily!Replace, Daily!Disturb, DailyTyped
      <4> QED
        BY <2>4, <3>1, <3>2, <3>4, <4>1 DEF DailyTyped, DailyPlaced
    <3> QED
      BY <3>3, <3>4
  <2>5. ASSUME NEW d \in Daily!Dates PROVE DailyCounted(d)'
    BY <1>8, <2>5 DEF Daily!Replace, Daily!Goto, Daily!Disturb, Daily!Parts, Daily!After, Daily!NextStage,
       DailyTyped, DailyHeld, Daily!All, DailyAlone, DailyUnmarked, DailyCounted, DailyMarking
  <2> QED
    BY <2>1, <2>2, <2>3, <2>4, <2>5
<1>9. ASSUME NEW q \in Daily!All, Daily!Latest(q) PROVE DailyInv'
  <2>1. DailyTyped'
    <3>1. Daily!LatestPart[daily_pc[q]] \in Daily!Parts
      BY <1>9 DEF Daily!Latest, Daily!LatestPart, Daily!Parts
    <3>2. out[Daily!Directory(q)][Daily!LatestPart[daily_pc[q]]] \in Daily!All \cup {None}
      BY <3>1, DirectoryDated DEF DailyTyped
    <3>3. latest' \in [Daily!Parts -> Daily!All \cup {None}]
      BY <1>9, <3>1, <3>2 DEF Daily!Latest, DailyTyped
    <3>4. Daily!After(q, daily_pc[q]) \in {"over"} \cup DailyHeld
      BY DEF Daily!After, Daily!NextStage, DailyHeld
    <3>5. daily_pc' \in [Daily!All -> {"new", "lock", "over"} \cup DailyHeld] /\ daily_lock' \in Runs \cup {None}
      BY <1>9, <3>4 DEF Daily!Latest, Daily!Goto, DailyTyped
    <3> QED
      BY <1>9, <3>3, <3>5 DEF Daily!Latest, DailyTyped
  <2>2. ASSUME NEW r \in Daily!All PROVE DailyAlone(r)'
    BY <1>9, <2>2 DEF Daily!Latest, Daily!Goto, Daily!LatestPart, Daily!After, Daily!NextStage, Daily!Parts,
       DailyTyped, DailyHeld, Daily!All, DailyAlone
  <2>3. ASSUME NEW r \in Daily!All PROVE DailyUnmarked(r)'
    BY <1>9, <2>3 DEF Daily!Latest, Daily!Goto, Daily!LatestPart, Daily!After, Daily!NextStage, Daily!Parts,
       DailyTyped, DailyHeld, Daily!All, DailyAlone, DailyUnmarked
  <2>4. ASSUME NEW r \in Daily!All PROVE DailyPlaced(r)'
    <3>1. Daily!Directory(r)' = Daily!Directory(r) /\ Daily!Directory(q)' = Daily!Directory(q)
      BY <1>9 DEF Daily!Latest, Daily!Directory
    <3>2. /\ daily_pc' = [daily_pc EXCEPT ![q] = Daily!After(q, daily_pc[q])]
               /\ UNCHANGED <<out, daily_report, alone>>
          /\ daily_pc[q] \in {"latest report", "latest html", "latest pdf"}
      BY <1>9 DEF Daily!Latest, Daily!LatestPart, Daily!Goto
    <3>3. q \in Runs /\ daily_lock = q
      BY <3>2 DEF DailyAlone, DailyHeld, Daily!All
    <3>4. CASE r = q
      <4>1. Daily!After(q, daily_pc[q]) \in {"over", Daily!NextStage(daily_pc[q])}
        BY DEF Daily!After
      <4>2. \A part \in Daily!Parts : latest'[part]
              = IF part = Daily!LatestPart[daily_pc[q]] THEN out[Daily!Directory(q)][part] ELSE latest[part]
        BY <1>9 DEF Daily!Latest, DailyTyped
      <4>3. Daily!After(q, daily_pc[q]) \in {"over", Daily!NextStage(daily_pc[q])}
        BY <4>1
      <4>4. CASE daily_pc[q] = "latest report"
        <5>1. daily_pc'[q] \in {"over", "latest html"}
          BY <3>2, <4>3, <4>4 DEF DailyTyped, Daily!NextStage
        <5> QED
          BY <3>1, <3>2, <3>3, <3>4, <4>2, <4>4, <5>1 DEF DailyPlaced, Daily!Parts, DailyHeld, Daily!LatestPart
      <4>5. CASE daily_pc[q] = "latest html"
        <5>1. daily_pc'[q] \in {"over", "latest pdf"}
          BY <3>2, <4>3, <4>5 DEF DailyTyped, Daily!NextStage
        <5> QED
          BY <3>1, <3>2, <3>3, <3>4, <4>2, <4>5, <5>1 DEF DailyPlaced, Daily!Parts, DailyHeld, Daily!LatestPart
      <4>6. CASE daily_pc[q] = "latest pdf"
        <5>1. daily_pc'[q] \in {"over", "wake"}
          BY <3>2, <4>3, <4>6 DEF DailyTyped, Daily!NextStage
        <5> QED
          BY <3>1, <3>2, <3>3, <3>4, <4>2, <4>6, <5>1 DEF DailyPlaced, Daily!Parts, DailyHeld, Daily!LatestPart
      <4> QED
        BY <3>2, <4>4, <4>5, <4>6
    <3>5. CASE r # q
      <4>1. r \in Runs => daily_pc'[r] \notin DailyHeld
        BY <2>4, <3>2, <3>3, <3>5 DEF DailyAlone, DailyTyped
      <4> QED
        BY <4>1 DEF DailyPlaced, DailyHeld
    <3> QED
      BY <3>4, <3>5
  <2>5. ASSUME NEW d \in Daily!Dates PROVE DailyCounted(d)'
    BY <1>9, <2>5 DEF Daily!Latest, Daily!Goto, Daily!LatestPart, Daily!After, Daily!NextStage, Daily!Parts,
       DailyTyped, DailyHeld, Daily!All, DailyAlone, DailyUnmarked, DailyCounted, DailyMarking
  <2> QED
    BY <2>1, <2>2, <2>3, <2>4, <2>5
<1>10. ASSUME NEW q \in Daily!All, Daily!Wake(q) PROVE DailyInv'
  <2>1. DailyTyped'
    <3>1. wakes' \in [Daily!Dates -> Nat]
      BY <1>10, DirectoryDated DEF Daily!Wake, DailyTyped
    <3>2. daily_pc' \in [Daily!All -> {"new", "lock", "over"} \cup DailyHeld] /\ daily_lock' \in Runs \cup {None}
      BY <1>10 DEF Daily!Wake, Daily!Goto, Daily!After, Daily!NextStage, DailyTyped, DailyHeld
    <3> QED
      BY <1>10, <3>1, <3>2 DEF Daily!Wake, Daily!files, DailyTyped
  <2>2. ASSUME NEW r \in Daily!All PROVE DailyAlone(r)'
    BY <1>10, <2>2 DEF Daily!Wake, Daily!Goto, Daily!After, Daily!NextStage, Daily!files, DailyTyped,
       DailyHeld, Daily!All, DailyAlone
  <2>3. ASSUME NEW r \in Daily!All PROVE DailyUnmarked(r)'
    BY <1>10, <2>3 DEF Daily!Wake, Daily!Goto, Daily!After, Daily!NextStage, Daily!files, DailyTyped,
       DailyHeld, Daily!All, DailyAlone, DailyUnmarked
  <2>4. ASSUME NEW r \in Daily!All PROVE DailyPlaced(r)'
    BY <1>10, <2>4, DirectoryDated DEF Daily!Wake, Daily!Goto, Daily!After, Daily!NextStage, Daily!files,
       DailyTyped, DailyHeld, Daily!All, DailyAlone, DailyPlaced
  <2>5. ASSUME NEW d \in Daily!Dates PROVE DailyCounted(d)'
    <3>1. q \in Runs \ dry /\ daily_lock = q /\ daily_pc[q] = "wake" /\ Daily!DayKey(now[q]) \notin marked
      BY <1>10 DEF Daily!Wake, DailyTyped, DailyAlone, DailyUnmarked, DailyHeld, Daily!All
    <3>2. daily_pc' = [daily_pc EXCEPT ![q] = "mark"] /\ UNCHANGED <<now, marked, cut>>
      BY <1>10, <3>1 DEF Daily!Wake, Daily!Goto, Daily!After, Daily!NextStage, Daily!files, Daily!All
    <3>3. wakes'[d] = IF d = Daily!DayKey(now[q]) THEN wakes[d] + 1 ELSE wakes[d]
      BY <1>10, <2>5 DEF Daily!Wake, DailyTyped
    <3>4. wakes[d] \in Nat /\ cut[d] \in Nat /\ DailyCounted(d)
      BY <2>5 DEF DailyTyped
    <3>5. CASE d = Daily!DayKey(now[q])
      <4>1. ~DailyMarking(d)
        BY <3>1, <3>5 DEF DailyMarking, DailyAlone, DailyHeld, Daily!All
      <4>2. DailyMarking(d)'
        BY <3>1, <3>2, <3>5 DEF DailyMarking, DailyTyped, Daily!All
      <4> QED
        BY <3>2, <3>3, <3>4, <3>5, <4>1, <4>2 DEF DailyCounted
    <3>6. CASE d # Daily!DayKey(now[q])
      <4>1. DailyMarking(d) => DailyMarking(d)'
        BY <3>1, <3>2 DEF DailyMarking, DailyTyped, Daily!All
      <4> QED
        BY <3>2, <3>3, <3>4, <3>6, <4>1 DEF DailyCounted
    <3> QED
      BY <3>5, <3>6
  <2> QED
    BY <2>1, <2>2, <2>3, <2>4, <2>5
<1>11. ASSUME NEW q \in Daily!All, Daily!Mark(q) PROVE DailyInv'
  <2>1. DailyTyped'
    BY <1>11 DEF Daily!Mark, Daily!Goto, Daily!After, Daily!NextStage, DailyTyped, DailyHeld, Daily!All
  <2>2. ASSUME NEW r \in Daily!All PROVE DailyAlone(r)'
    BY <1>11, <2>2 DEF Daily!Mark, Daily!Goto, Daily!After, Daily!NextStage, DailyTyped, DailyHeld, Daily!All,
       DailyAlone
  <2>3. ASSUME NEW r \in Daily!All PROVE DailyUnmarked(r)'
    BY <1>11, <2>3 DEF Daily!Mark, Daily!Goto, Daily!After, Daily!NextStage, DailyTyped, DailyHeld, Daily!All,
       DailyAlone, DailyUnmarked
  <2>4. ASSUME NEW r \in Daily!All PROVE DailyPlaced(r)'
    BY <1>11, <2>4, DirectoryDated DEF Daily!Mark, Daily!Goto, Daily!After, Daily!NextStage, DailyTyped,
       DailyHeld, Daily!All, DailyAlone, DailyPlaced
  <2>5. ASSUME NEW d \in Daily!Dates PROVE DailyCounted(d)'
    BY <1>11, <2>5 DEF Daily!Mark, Daily!Goto, Daily!After, Daily!NextStage, DailyTyped, DailyHeld, Daily!All,
       DailyAlone, DailyUnmarked, DailyCounted, DailyMarking
  <2> QED
    BY <2>1, <2>2, <2>3, <2>4, <2>5
<1>12. ASSUME NEW q \in Daily!All, Daily!Stop(q) PROVE DailyInv'
  <2>1. DailyTyped'
    <3>1. cut' \in [Daily!Dates -> Nat]
      BY <1>12, DirectoryDated DEF Daily!Stop, DailyTyped
    <3>2. daily_pc' \in [Daily!All -> {"new", "lock", "over"} \cup DailyHeld] /\ daily_lock' \in Runs \cup {None}
      BY <1>12 DEF Daily!Stop, Daily!Goto, DailyTyped, DailyHeld
    <3> QED
      BY <1>12, <3>1, <3>2 DEF Daily!Stop, Daily!files, DailyTyped
  <2>2. ASSUME NEW r \in Daily!All PROVE DailyAlone(r)'
    BY <1>12, <2>2 DEF Daily!Stop, Daily!Goto, Daily!files, DailyTyped, DailyHeld, Daily!All, DailyAlone
  <2>3. ASSUME NEW r \in Daily!All PROVE DailyUnmarked(r)'
    BY <1>12, <2>3 DEF Daily!Stop, Daily!Goto, Daily!files, DailyTyped, DailyHeld, Daily!All, DailyAlone,
       DailyUnmarked
  <2>4. ASSUME NEW r \in Daily!All PROVE DailyPlaced(r)'
    <3>1. Daily!Directory(r)' = Daily!Directory(r) /\ Daily!Directory(q)' = Daily!Directory(q)
      BY <1>12 DEF Daily!Stop, Daily!Directory
    <3> QED
      BY <1>12, <2>4, <3>1, DirectoryDated DEF Daily!Stop, Daily!Goto, Daily!files, DailyTyped, DailyHeld,
         Daily!All, DailyAlone, DailyPlaced
  <2>5. ASSUME NEW d \in Daily!Dates PROVE DailyCounted(d)'
    <3>1. daily_pc' = [daily_pc EXCEPT ![q] = "over"] /\ UNCHANGED <<now, marked, wakes>>
      BY <1>12 DEF Daily!Stop, Daily!Goto, Daily!files
    <3>2. wakes[d] \in Nat /\ cut[d] \in Nat /\ DailyCounted(d)
      BY <2>5 DEF DailyTyped
    <3>3. CASE daily_pc[q] = "mark" /\ d = Daily!DayKey(now[q])
      <4>1. cut'[d] = cut[d] + 1
        BY <1>12, <2>5, <3>3 DEF Daily!Stop, DailyTyped
      <4> QED
        BY <3>1, <3>2, <4>1 DEF DailyCounted
    <3>4. CASE ~(daily_pc[q] = "mark" /\ d = Daily!DayKey(now[q]))
      <4>1. cut'[d] = cut[d]
        BY <1>12, <2>5, <3>4 DEF Daily!Stop, DailyTyped
      <4>2. DailyMarking(d) => DailyMarking(d)'
        BY <3>1, <3>4 DEF DailyMarking, DailyTyped, Daily!All
      <4> QED
        BY <3>1, <3>2, <4>1, <4>2 DEF DailyCounted
    <3> QED
      BY <3>3, <3>4
  <2> QED
    BY <2>1, <2>2, <2>3, <2>4, <2>5
<1>13. CASE UNCHANGED daily_vars
  BY <1>13 DEF daily_vars, Daily!files, DailyTyped, DailyAlone, DailyUnmarked, DailyPlaced, DailyCounted,
     DailyMarking, Daily!Directory
<1> HIDE DEF DailyInv
<1> QED
  BY <1>1, <1>2, <1>3, <1>4, <1>5, <1>6, <1>7, <1>8, <1>9, <1>10, <1>11, <1>12, <1>13 DEF Daily!Next

LEMMA DailyWakes == DailyInv => Daily!WokenOnce /\ Daily!NamesOneBuild
<1>1. DailyInv => Daily!WokenOnce
  BY DEF DailyInv, DailyTyped, Daily!WokenOnce, DailyCounted
<1>2. DailyInv => Daily!NamesOneBuild
  BY DEF DailyInv, Daily!NamesOneBuild, DailyPlaced, Daily!Parts, Daily!All, DailyHeld
<1> QED
  BY <1>1, <1>2

-----------------------------------------------------------------------------
(***************************************************************************)
(* A commit's CI run (CiRun): what a gate that passes stands on, and who    *)
(* comes back for one that fails too early.                                 *)
(***************************************************************************)

LEMMA CiAssumed == Ci!CiAssumption
BY ProgramsAssumption

JobNames == {"changes", "lint", "soak", "affected-tests", "coverage-partition", "the others"}

CiTyped ==
  /\ DOMAIN results = JobNames
  /\ partition = [status |-> partition.status, log |-> partition.log, plan |-> partition.plan, again |-> partition.again]
  /\ gate = [status |-> gate.status, result |-> gate.result, ticks |-> gate.ticks]
  /\ gate.status \in {"absent", "queued", "reading", "judging", "failing", "completed"}
  /\ gate.ticks \in Nat
  /\ check = [id |-> check.id, result |-> check.result]
  /\ helper = [state |-> helper.state, polls |-> helper.polls]
  /\ helper.state \in {"idle", "polling", "rerun"} /\ helper.polls \in Nat
  /\ ci_edits \in Nat

\* The jobs end before the gate is queued, and a result of the gate is its end.
JobsFirst ==
  /\ gate.status # "absent" => \A j \in JobNames : results[j] # None
  /\ gate.status = "completed" <=> gate.result # None

\* A partition that counts as passed has been forgiven, or passed.
Forgiven ==
  /\ Ci!PullRequest /\ partition.status = 2 /\ ~partition.log.setup
  /\ partition.log.failed = partition.plan /\ partition.again = {}
  /\ partition.log.summary.failures = Cardinality(partition.plan)
  /\ \A t \in partition.plan :
       /\ Tests[t].path \notin Changed
       /\ \/ t \in KnownFlaky \/ Ci!Quarantined(BaseQuarantine, t)
          \/ \E r \in BaseRuns : r.conclusion = "failure" /\ t \in r.failed
PartitionEarned == results["coverage-partition"] = "success" => partition.status = 0 \/ Forgiven

\* A gate that goes on to the jobs has read a check that succeeded, of this text
\* or of an earlier one; it passes on the jobs alone.
TextRead ==
  /\ Ci!PullRequest /\ (gate.status = "judging" \/ gate.result = "success") => check.result = "success" \/ ci_edits > 0
  /\ gate.result = "success" => Ci!JobsPassed

\* A gate that fails on a check which has succeeded since has a helper that saw no
\* more of it than it lasted, so the helper outlives it.
HelperComes ==
  /\ helper.state # "idle" => check.result = "success"
  /\ Ci!PullRequest /\ gate.status = "failing" /\ check.result = "success" =>
       helper.state = "polling" /\ helper.polls <= gate.ticks

CiInv == CiTyped /\ JobsFirst /\ PartitionEarned /\ TextRead /\ HelperComes /\ Ci!NeverStuck

LEMMA JobsAre == Ci!Range(Ci!Modelled) = JobNames
<1> DEFINE M == Ci!Modelled
<1>1. /\ DOMAIN M = 1 .. 6
      /\ M[1] = "changes" /\ M[2] = "lint" /\ M[3] = "soak" /\ M[4] = "affected-tests"
      /\ M[5] = "coverage-partition" /\ M[6] = "the others"
  BY DEF Ci!Modelled
<1> HIDE DEF M
<1>2. \A i : i \in 1 .. 6 <=> i = 1 \/ i = 2 \/ i = 3 \/ i = 4 \/ i = 5 \/ i = 6
  OBVIOUS
<1>3. \A j : j \in Ci!Range(M) <=> \E i \in DOMAIN M : j = M[i]
  BY DEF Ci!Range
<1>4. \A j : j \in Ci!Range(M) <=> j = M[1] \/ j = M[2] \/ j = M[3] \/ j = M[4] \/ j = M[5] \/ j = M[6]
  <2>1. \A i : i \in DOMAIN M <=> i = 1 \/ i = 2 \/ i = 3 \/ i = 4 \/ i = 5 \/ i = 6
    BY <1>1, <1>2
  <2> QED
    BY <1>3, <2>1, Zenon
<1>5. \A j : j \in Ci!Range(M) <=> j \in JobNames
  BY <1>1, <1>4, Zenon DEF JobNames
<1> QED
  BY <1>5 DEF M

LEMMA CiInit == Ci!Init => CiInv
<1> SUFFICES ASSUME Ci!Init PROVE CiInv
  OBVIOUS
<1>1. None # "success" /\ None # "failure"
  BY CiAssumed DEF Ci!CiAssumption
<1>2. results = [j \in JobNames |-> None]
  BY JobsAre DEF Ci!Init
<1>3. /\ gate = [status |-> "absent", result |-> None, ticks |-> 0] /\ helper = [state |-> "idle", polls |-> 0]
      /\ check = [id |-> 1, result |-> None] /\ ci_edits = 0 /\ partition = Ci!NoPartition
  BY DEF Ci!Init, Ci!Waiting, Ci!Idle
<1>4. CiTyped
  BY <1>2, <1>3 DEF CiTyped, Ci!NoPartition
<1>5. PartitionEarned
  BY <1>1, <1>2 DEF PartitionEarned, JobNames
<1> QED
  BY <1>1, <1>3, <1>4, <1>5 DEF CiInv, JobsFirst, TextRead, HelperComes, Ci!NeverStuck

\* Whether the jobs have passed depends on their results, what the commit is and
\* what the run is for.
LEMMA PassedStays == ASSUME UNCHANGED <<results, outputs, event>> PROVE Ci!JobsPassed' <=> Ci!JobsPassed
BY DEF Ci!JobsPassed, Ci!RequiredJobs, Ci!ResultOf, Ci!PullRequest

LEMMA ForgivenStays == ASSUME UNCHANGED <<partition, event>> PROVE Forgiven' <=> Forgiven
BY DEF Forgiven, Ci!PullRequest

\* While a job is missing there is no gate, and the end of another job than the
\* partition disturbs nothing.
LEMMA NoGateYet ==
  ASSUME CiInv, NEW job \in JobNames, Ci!Turn(job)
  PROVE  gate.status = "absent" /\ gate.result = None /\ results[job] = None
BY DEF CiInv, CiTyped, JobsFirst, Ci!Turn

LEMMA JobKeeps ==
  ASSUME CiInv, NEW job \in JobNames, Ci!Turn(job), UNCHANGED <<gate, event, check, helper, ci_edits>>,
         results' = results \/ \E v : results' = [results EXCEPT ![job] = v],
         CiTyped', PartitionEarned'
  PROVE  CiInv'
<1>1. gate.status = "absent" /\ gate.result = None
  BY NoGateYet
<1>2. None # "success"
  BY CiAssumed DEF Ci!CiAssumption
<1> QED
  BY <1>1, <1>2 DEF CiInv, JobsFirst, TextRead, HelperComes, Ci!NeverStuck, Ci!PullRequest

LEMMA OtherJobKeeps ==
  ASSUME CiInv, NEW job \in JobNames \ {"coverage-partition"}, Ci!Turn(job),
         UNCHANGED <<partition, gate, event, check, helper, ci_edits>>,
         results' = results \/ \E v : results' = [results EXCEPT ![job] = v]
  PROVE  CiInv'
<1>1. CiTyped'
  BY DEF CiInv, CiTyped
<1>2. PartitionEarned'
  <2>1. results'["coverage-partition"] = results["coverage-partition"]
    BY DEF CiInv, CiTyped, JobNames
  <2> QED
    BY <2>1, ForgivenStays DEF CiInv, PartitionEarned
<1> QED
  BY <1>1, <1>2, JobKeeps

LEMMA JobStep ==
  ASSUME CiInv,
         \/ Ci!Classify \/ Ci!Lint \/ Ci!NoSoak \/ Ci!SoakEnds
         \/ \E outcome \in {"passed", "failed", "late"}, time \in 1..2 :
              Ci!SoakTests(outcome, time) \/ Ci!SoakSuite(outcome, time)
         \/ \E count \in {None, 0, 1, 2} : Ci!ListSuite(count)
         \/ \E kind \in {"none", "deferred", "run"}, selected, failed \in SUBSET Ci!Files, bombs \in SUBSET Dated,
               tardy \in BOOLEAN : Ci!AffectedTests(kind, selected, failed, bombs, tardy)
         \/ \E ok \in BOOLEAN : Ci!OtherJobs(ok)
  PROVE  CiInv'
<1>1. ASSUME Ci!Classify PROVE CiInv'
  BY <1>1, OtherJobKeeps DEF Ci!Classify, Ci!End, Ci!text, JobNames
<1>2. ASSUME Ci!Lint PROVE CiInv'
  BY <1>2, OtherJobKeeps DEF Ci!Lint, Ci!End, Ci!text, JobNames
<1>3. ASSUME Ci!NoSoak PROVE CiInv'
  BY <1>3, OtherJobKeeps DEF Ci!NoSoak, Ci!Skipped, Ci!text, JobNames
<1>4. ASSUME Ci!SoakEnds PROVE CiInv'
  BY <1>4, OtherJobKeeps DEF Ci!SoakEnds, Ci!Soaking, Ci!End, Ci!text, JobNames
<1>5. ASSUME NEW outcome, NEW time, Ci!SoakTests(outcome, time) PROVE CiInv'
  BY <1>5, OtherJobKeeps DEF Ci!SoakTests, Ci!Soaking, Ci!End, Ci!text, JobNames
<1>6. ASSUME NEW outcome, NEW time, Ci!SoakSuite(outcome, time) PROVE CiInv'
  BY <1>6, OtherJobKeeps DEF Ci!SoakSuite, Ci!Soaking, Ci!End, Ci!text, JobNames
<1>7. ASSUME NEW count, Ci!ListSuite(count) PROVE CiInv'
  BY <1>7, OtherJobKeeps DEF Ci!ListSuite, Ci!Soaking, Ci!text, JobNames
<1>8. ASSUME NEW kind, NEW selected, NEW failed, NEW bombs, NEW tardy,
             Ci!AffectedTests(kind, selected, failed, bombs, tardy)
      PROVE  CiInv'
  BY <1>8, OtherJobKeeps DEF Ci!AffectedTests, Ci!Skipped, Ci!End, Ci!text, JobNames
<1>9. ASSUME NEW ok, Ci!OtherJobs(ok) PROVE CiInv'
  BY <1>9, OtherJobKeeps DEF Ci!OtherJobs, Ci!End, Ci!text, JobNames
<1> QED
  BY <1>1, <1>2, <1>3, <1>4, <1>5, <1>6, <1>7, <1>8, <1>9

\* What the script plans to run again is all that failed, and each of it was
\* known to be flaky by the base.
LEMMA PlanIsForgivable ==
  ASSUME NEW log, NEW status, NEW readable \in SUBSET BaseRuns, NEW targets, NEW plan,
         plan = Ci!RetryPlan(log, status, Ci!RecentBaseFailures(targets, readable)), plan # {}
  PROVE  /\ Ci!PullRequest /\ status = 2 /\ ~log.setup /\ log.failed = plan
         /\ log.summary.failures = Ci!Cardinality(plan)
         /\ \A t \in plan :
              /\ Tests[t].path \notin Changed
              /\ \/ t \in KnownFlaky \/ Ci!Quarantined(BaseQuarantine, t)
                 \/ \E r \in BaseRuns : r.conclusion = "failure" /\ t \in r.failed
<1>1. /\ Ci!CompleteTestFailure(log, status) /\ Ci!PullRequest /\ Ci!PathsOf(log.failed) \cap Changed = {}
      /\ plan = log.failed
      /\ \A t \in log.failed : Ci!Excusable(t) \/ t \in Ci!RecentBaseFailures(targets, readable)
  BY DEF Ci!RetryPlan
<1>2. \A t \in plan : Tests[t].path \notin Changed
  BY <1>1 DEF Ci!PathsOf
<1>3. \A t \in Ci!RecentBaseFailures(targets, readable) : \E r \in BaseRuns : r.conclusion = "failure" /\ t \in r.failed
  BY DEF Ci!RecentBaseFailures
<1> QED
  BY <1>1, <1>2, <1>3 DEF Ci!CompleteTestFailure, Ci!Excusable

LEMMA SameCount == \A S : Ci!Cardinality(S) = Cardinality(S)
BY DEF Ci!Cardinality, Cardinality

LEMMA PartitionStep ==
  ASSUME CiInv,
         \/ Ci!NoPartitionJob
         \/ \E run \in PartitionRuns : Ci!RunPartition(run)
         \/ \E readable \in SUBSET BaseRuns, again \in SUBSET Ci!Ids, keeps \in BOOLEAN :
              Ci!PartitionEnds(readable, again, keeps)
  PROVE  CiInv'
<1> DEFINE job == "coverage-partition"
<1>0. job \in JobNames /\ None # "success"
  BY CiAssumed DEF JobNames, Ci!CiAssumption
<1>1. ASSUME Ci!NoPartitionJob PROVE CiInv'
  <2>1. Ci!Turn(job) /\ results' = [results EXCEPT ![job] = "skipped"]
        /\ UNCHANGED <<partition, gate, event, check, helper, ci_edits>>
    BY <1>1 DEF Ci!NoPartitionJob, Ci!Skipped, Ci!text
  <2>2. CiTyped'
    BY <2>1 DEF CiInv, CiTyped
  <2>3. PartitionEarned'
    BY <2>1, <1>0 DEF CiInv, CiTyped, PartitionEarned
  <2> QED
    BY <1>0, <2>1, <2>2, <2>3, JobKeeps
<1>2. ASSUME NEW run, Ci!RunPartition(run) PROVE CiInv'
  <2>1. Ci!Turn(job) /\ UNCHANGED <<results, gate, event, check, helper, ci_edits>>
    BY <1>2 DEF Ci!RunPartition, Ci!text
  <2>2. CiTyped'
    BY <1>2, <2>1 DEF CiInv, CiTyped, Ci!RunPartition
  <2>3. PartitionEarned'
    BY <1>0, <2>1, NoGateYet DEF PartitionEarned
  <2> QED
    BY <1>0, <2>1, <2>2, <2>3, JobKeeps
<1>3. ASSUME NEW readable \in SUBSET BaseRuns, NEW again, NEW keeps, Ci!PartitionEnds(readable, again, keeps)
      PROVE  CiInv'
  <2> DEFINE uncovered == Ci!RetryCandidates(partition.log, partition.status)
             plan == IF partition.status = 0 THEN {}
                     ELSE Ci!RetryPlan(partition.log, partition.status, Ci!RecentBaseFailures(uncovered, readable))
  <2>1. /\ Ci!Turn(job) /\ UNCHANGED <<gate, event, check, helper, ci_edits>>
        /\ partition' = [partition EXCEPT !.plan = plan, !.again = again]
    BY <1>3 DEF Ci!PartitionEnds, Ci!text
  <2>2. results' = [results EXCEPT ![job] =
                      IF partition'.status = 0 \/ (plan # {} /\ again = {}) THEN "success" ELSE "failure"]
    BY <1>3, <2>1 DEF Ci!PartitionEnds, Ci!End
  <2>3. /\ partition'.status = partition.status /\ partition'.log = partition.log
        /\ partition'.plan = plan /\ partition'.again = again
    <3> HIDE DEF plan
    <3> QED BY <2>1 DEF CiInv, CiTyped
  <2>4. CiTyped'
    <3> HIDE DEF plan
    <3> QED BY <2>1, <2>2 DEF CiInv, CiTyped
  <2>5. PartitionEarned'
    <3> SUFFICES ASSUME plan # {}, again = {}, partition.status # 0 PROVE Forgiven'
      <4> HIDE DEF plan
      <4> QED BY <2>2, <2>3, <1>0 DEF PartitionEarned, CiInv, CiTyped
    <3>1. plan = Ci!RetryPlan(partition.log, partition.status, Ci!RecentBaseFailures(uncovered, readable))
      OBVIOUS
    <3> HIDE DEF plan, uncovered
    <3>2. /\ Ci!PullRequest /\ partition.status = 2 /\ ~partition.log.setup /\ partition.log.failed = plan
          /\ partition.log.summary.failures = Ci!Cardinality(plan)
          /\ \A t \in plan :
               /\ Tests[t].path \notin Changed
               /\ \/ t \in KnownFlaky \/ Ci!Quarantined(BaseQuarantine, t)
                  \/ \E r \in BaseRuns : r.conclusion = "failure" /\ t \in r.failed
      BY <3>1, PlanIsForgivable
    <3>3. event' = event
      BY <2>1
    <3> QED
      BY <2>3, <3>2, <3>3, SameCount DEF Forgiven, Ci!PullRequest
  <2> HIDE DEF plan
  <2> QED
    BY <1>0, <2>1, <2>2, <2>4, <2>5, JobKeeps
<1> QED
  BY <1>1, <1>2, <1>3

LEMMA GateStepsKeep ==
  ASSUME CiInv, Ci!GateQueued \/ Ci!GateStarts \/ Ci!GateReads \/ Ci!GateEnds
  PROVE  CiInv'
<1>0. UNCHANGED <<results, outputs, event, partition, check, helper, ci_edits>>
  BY DEF Ci!GateQueued, Ci!GateStarts, Ci!GateReads, Ci!GateEnds, Ci!jobs, Ci!text
<1>1. PartitionEarned'
  BY <1>0, ForgivenStays DEF CiInv, PartitionEarned
<1>2. None # "success" /\ None # "failure"
  BY CiAssumed DEF Ci!CiAssumption
<1>3. (Ci!JobsPassed' <=> Ci!JobsPassed) /\ (Ci!PullRequest' <=> Ci!PullRequest)
  BY <1>0, PassedStays DEF Ci!PullRequest
<1>4. CASE Ci!GateQueued
  BY <1>0, <1>1, <1>2, <1>3, <1>4 DEF Ci!GateQueued, CiInv, CiTyped, JobsFirst, TextRead, HelperComes, Ci!NeverStuck
<1>5. CASE Ci!GateStarts
  BY <1>0, <1>1, <1>2, <1>3, <1>5
  DEF Ci!GateStarts, Ci!Waiting, CiInv, CiTyped, JobsFirst, TextRead, HelperComes, Ci!NeverStuck
<1>6. CASE Ci!GateReads
  BY <1>0, <1>1, <1>2, <1>3, <1>6 DEF Ci!GateReads, CiInv, CiTyped, JobsFirst, TextRead, HelperComes, Ci!NeverStuck
<1>7. CASE Ci!GateEnds
  BY <1>0, <1>1, <1>2, <1>3, <1>7
  DEF Ci!GateEnds, Ci!Ended, CiInv, CiTyped, JobsFirst, TextRead, HelperComes, Ci!NeverStuck
<1> QED
  BY <1>4, <1>5, <1>6, <1>7

LEMMA RerunKeeps == ASSUME CiInv, Ci!RerunFailed PROVE CiInv'
<1>0. /\ gate' = Ci!Waiting /\ UNCHANGED <<event, check, helper, ci_edits>>
      /\ results' = [j \in DOMAIN results |-> IF results[j] = "failure" THEN None ELSE results[j]]
      /\ partition' = IF results["coverage-partition"] = "failure" THEN Ci!NoPartition ELSE partition
  BY DEF Ci!RerunFailed, Ci!text
<1>1. None # "success"
  BY CiAssumed DEF Ci!CiAssumption
<1>2. CiTyped'
  BY <1>0 DEF CiInv, CiTyped, Ci!Waiting, Ci!NoPartition
<1>3. PartitionEarned'
  <2>1. CASE results["coverage-partition"] = "failure"
    BY <1>0, <1>1, <2>1 DEF CiInv, CiTyped, JobNames, PartitionEarned
  <2>2. CASE results["coverage-partition"] # "failure"
    BY <1>0, <2>2, ForgivenStays DEF CiInv, CiTyped, JobNames, PartitionEarned
  <2> QED
    BY <2>1, <2>2
<1> QED
  BY <1>0, <1>1, <1>2, <1>3
  DEF CiInv, CiTyped, JobsFirst, TextRead, HelperComes, Ci!NeverStuck, Ci!Waiting, Ci!PullRequest

LEMMA TextStepsKeep ==
  ASSUME CiInv, Ci!BodyChecked \/ \E b \in Bodies : Ci!EditBody(b)
  PROVE  CiInv'
<1>0. UNCHANGED <<results, outputs, event, partition, gate>>
  BY DEF Ci!BodyChecked, Ci!EditBody, Ci!jobs
<1>1. PartitionEarned'
  BY <1>0, ForgivenStays DEF CiInv, PartitionEarned
<1>2. None # "success" /\ None # "failure"
  BY CiAssumed DEF Ci!CiAssumption
<1>3. (Ci!JobsPassed' <=> Ci!JobsPassed) /\ (Ci!PullRequest' <=> Ci!PullRequest)
  BY <1>0, PassedStays DEF Ci!PullRequest
<1>4. CASE Ci!BodyChecked
  BY <1>0, <1>1, <1>2, <1>3, <1>4
  DEF Ci!BodyChecked, Ci!Idle, CiInv, CiTyped, JobsFirst, TextRead, HelperComes, Ci!NeverStuck
<1>5. ASSUME NEW b, Ci!EditBody(b) PROVE CiInv'
  BY <1>0, <1>1, <1>2, <1>3, <1>5
  DEF Ci!EditBody, Ci!Idle, CiInv, CiTyped, JobsFirst, TextRead, HelperComes, Ci!NeverStuck
<1> QED
  BY <1>4, <1>5

LEMMA HelperStepsKeep == ASSUME CiInv, Ci!HelperPolls \/ Ci!HelperReruns PROVE CiInv'
<1>0. UNCHANGED <<results, outputs, event, partition, check, ci_edits>>
  BY DEF Ci!HelperPolls, Ci!HelperReruns, Ci!jobs
<1>1. PartitionEarned'
  BY <1>0, ForgivenStays DEF CiInv, PartitionEarned
<1>2. None # "success" /\ None # "failure"
  BY CiAssumed DEF Ci!CiAssumption
<1>3. (Ci!JobsPassed' <=> Ci!JobsPassed) /\ (Ci!PullRequest' <=> Ci!PullRequest)
  BY <1>0, PassedStays DEF Ci!PullRequest
<1>4. CASE Ci!HelperPolls
  <2>1. CASE Ci!ReadsLater(gate.status)
    BY <1>0, <1>1, <1>2, <1>3, <1>4, <2>1
    DEF Ci!HelperPolls, Ci!ReadsLater, Ci!Idle, CiInv, CiTyped, JobsFirst, TextRead, HelperComes, Ci!NeverStuck
  <2>2. CASE Ci!Running(gate.status)
    <3>1. ~Ci!ReadsLater(gate.status)
      BY <2>2 DEF Ci!Running, Ci!ReadsLater
    <3>2. /\ gate.ticks < GateTicks /\ gate' = [gate EXCEPT !.ticks = @ + 1]
          /\ helper' = IF helper.polls + 1 = MaxPolls THEN Ci!Idle ELSE [helper EXCEPT !.polls = @ + 1]
          /\ helper.state = "polling"
      BY <1>4, <2>2, <3>1 DEF Ci!HelperPolls
    <3>3. GateTicks \in Nat /\ MaxPolls \in Nat /\ GateTicks < MaxPolls
      BY CiAssumed DEF Ci!CiAssumption
    <3>4. gate'.ticks = gate.ticks + 1 /\ gate'.status = gate.status /\ gate'.result = gate.result
      BY <3>2 DEF CiInv, CiTyped
    <3>5. helper.polls <= gate.ticks => helper'.state = "polling" /\ helper'.polls = helper.polls + 1
      BY <3>2, <3>3 DEF CiInv, CiTyped
    <3>6. CiTyped'
      BY <1>0, <3>2, <3>4 DEF CiInv, CiTyped, Ci!Idle
    <3>7. HelperComes'
      <4>1. helper'.state # "idle" => check'.result = "success"
        BY <1>0, <3>2 DEF CiInv, HelperComes
      <4>2. helper.polls <= gate.ticks => helper'.polls <= gate'.ticks
        BY <3>4, <3>5 DEF CiInv, CiTyped
      <4> QED
        BY <1>0, <1>3, <3>4, <3>5, <4>1, <4>2 DEF CiInv, HelperComes
    <3> QED
      BY <1>0, <1>1, <1>3, <2>2, <3>4, <3>6, <3>7 DEF CiInv, JobsFirst, TextRead, Ci!NeverStuck, Ci!Running
  <2>3. CASE gate.status = "completed"
    <3>1. /\ ~Ci!ReadsLater(gate.status) /\ ~Ci!Running(gate.status)
      BY <2>3 DEF Ci!Running, Ci!ReadsLater
    <3>2. /\ helper' = IF gate.result = "failure" THEN [helper EXCEPT !.state = "rerun"] ELSE Ci!Idle
          /\ helper.state = "polling" /\ gate' = gate
      BY <1>4, <3>1 DEF Ci!HelperPolls
    <3> QED
      BY <1>0, <1>1, <1>2, <1>3, <2>3, <3>2
      DEF Ci!Idle, CiInv, CiTyped, JobsFirst, TextRead, HelperComes, Ci!NeverStuck
  <2> QED
    BY <2>1, <2>2, <2>3 DEF CiInv, CiTyped, Ci!ReadsLater, Ci!Running
<1>5. CASE Ci!HelperReruns
  BY <1>0, <1>1, <1>2, <1>3, <1>5
  DEF Ci!HelperReruns, Ci!Idle, Ci!Waiting, CiInv, CiTyped, JobsFirst, TextRead, HelperComes, Ci!NeverStuck
<1> QED
  BY <1>4, <1>5

LEMMA CiStep == CiInv /\ (Ci!Next \/ UNCHANGED ci_vars) => CiInv'
<1>1. ASSUME CiInv, Ci!Next PROVE CiInv'
  BY <1>1, JobStep, PartitionStep, GateStepsKeep, RerunKeeps, TextStepsKeep, HelperStepsKeep DEF Ci!Next
<1>2. ASSUME CiInv, UNCHANGED ci_vars PROVE CiInv'
  <2>1. (Ci!JobsPassed' <=> Ci!JobsPassed) /\ (Forgiven' <=> Forgiven)
    BY <1>2, PassedStays, ForgivenStays DEF ci_vars
  <2> QED
    BY <1>2, <2>1
    DEF ci_vars, CiInv, CiTyped, JobsFirst, PartitionEarned, TextRead, HelperComes, Ci!NeverStuck, Ci!PullRequest
<1> QED
  BY <1>1, <1>2

\* A full commit needs its coverage partition.
LEMMA CiEarns == CiInv => Ci!GreenIsEarned /\ Ci!NeverStuck
<1> SUFFICES ASSUME CiInv, gate.result = "success", Ci!Full
             PROVE  /\ Ci!PullRequest => check.result = "success" \/ ci_edits > 0
                    /\ partition.status # 0 => Forgiven
  BY SameCount DEF Ci!GreenIsEarned, Forgiven, CiInv
<1>1. results["coverage-partition"] = "success"
  BY DEF CiInv, CiTyped, JobNames, TextRead, Ci!JobsPassed, Ci!RequiredJobs, Ci!ResultOf, Ci!Full
<1> QED
  BY <1>1 DEF CiInv, TextRead, PartitionEarned

-----------------------------------------------------------------------------
(***************************************************************************)
(* The collector of progress estimates (ProgressCapture): what was told is  *)
(* in the output, and in what the collector that will replace it has read.  *)
(***************************************************************************)

LEMMA ProgressAssumed == Progress!ProgressAssumption
BY ProgramsAssumption

Ranks == {"attempted", "failed", "emitted"}
IsSample(s) == s = [field \in Progress!Fields |-> s[field]] /\ s.time \in Int /\ s.status \in Ranks
IsOutcome(s) == s.time \in Int /\ s.status \in Ranks
                /\ s = [id |-> s.id, status |-> s.status, event |-> s.event, time |-> s.time]
OutcomesAre(known) == \A id \in DOMAIN known : IsOutcome(known[id])

ProgressTyped ==
  /\ progress_pc \in [Collectors -> {"idle", "transcripts", "publications"}]
  /\ left \in [Collectors -> SUBSET Estimators]
  /\ DOMAIN unread = Collectors /\ DOMAIN samples = Collectors /\ DOMAIN outcomes = Collectors
  /\ \A c \in Collectors : unread[c] \in Seq(Estimates) /\ OutcomesAre(outcomes[c])
  /\ \A t \in Estimators : transcripts[t] \in Seq(Estimates)
  /\ DOMAIN transcripts = Estimators /\ publications \in Seq(Estimates)
  /\ \A id \in DOMAIN output : IsSample(output[id])
  /\ \A id \in DOMAIN progress_told : IsSample(progress_told[id])

\* Only the holder of the lock works.
OneCollector == \A c \in Collectors : progress_pc[c] # "idle" => progress_lock = c

\* These samples have what was told: the sample itself, of the version that knows
\* of outcomes, no lower in rank, with its event, and no later.
Holding(known) ==
  \A id \in DOMAIN progress_told :
    /\ id \in DOMAIN known /\ known[id].version = 2
    /\ Progress!StatusRank[known[id].status] >= Progress!StatusRank[progress_told[id].status]
    /\ progress_told[id].event # None => known[id].event = progress_told[id].event
    /\ known[id].time <= progress_told[id].time

\* Samples that were read or found by this version of the collector.
Current(known) == \A id \in DOMAIN known : IsSample(known[id]) /\ known[id].version = 2

\* What a collector has in hand goes into the output as it is.
InHand ==
  \A c \in Collectors : progress_pc[c] # "idle" =>
    Holding(samples[c]) /\ Current(samples[c])

ProgressInv == ProgressTyped /\ OneCollector /\ InHand /\ Holding(output)

LEMMA RanksAre ==
  /\ DOMAIN Progress!StatusRank = Ranks
  /\ \A s \in Ranks : Progress!StatusRank[s] \in Int
BY DEF Progress!StatusRank, Ranks

LEMMA ProgressInit == Progress!Init => ProgressInv
<1> SUFFICES ASSUME Progress!Init PROVE ProgressInv
  OBVIOUS
<1>1. DOMAIN progress_told = {}
  BY DEF Progress!Init, Progress!Empty
<1>2. \A id \in DOMAIN output : IsSample(output[id])
  BY ProgressAssumed, RanksAre DEF Progress!Init, Progress!ProgressAssumption, IsSample
<1>3. \A c \in Collectors : OutcomesAre(outcomes[c])
  BY DEF Progress!Init, Progress!Empty, OutcomesAre
<1> QED
  BY <1>1, <1>2, <1>3 DEF Progress!Init, ProgressInv, ProgressTyped, OneCollector, InHand, Holding

\* Whatever is merged into a sample, it stays one and loses nothing.
LEMMA BetterIs ==
  ASSUME NEW old, NEW new, old.status \in Ranks, new.status \in Ranks
  PROVE  /\ Progress!Better(old, new) \in Ranks
         /\ Progress!StatusRank[Progress!Better(old, new)] >= Progress!StatusRank[old.status]
BY RanksAre DEF Progress!Better

LEMMA SampleKeeps ==
  ASSUME NEW old, NEW new, IsSample(old), new.time \in Int, new.status \in Ranks,
         NEW merged, merged \in {Progress!MergeSample(old, new), Progress!ApplyOutcome(old, new)}
  PROVE  /\ IsSample(merged) /\ merged.version = old.version
         /\ Progress!StatusRank[merged.status] >= Progress!StatusRank[old.status]
         /\ old.event # None => merged.event = old.event
         /\ merged.time <= old.time
<1> DEFINE time == Progress!Earliest(old.time, new.time)
           status == Progress!Better(old, new)
<1>0. old = [field \in Progress!Fields |-> old[field]] /\ old.time \in Int /\ old.status \in Ranks
  BY DEF IsSample
<1>1. time \in Int /\ time <= old.time
  BY <1>0 DEF Progress!Earliest
<1>2. status \in Ranks /\ Progress!StatusRank[status] >= Progress!StatusRank[old.status]
  BY <1>0, BetterIs
<1> HIDE DEF time, status
<1>3. CASE merged = Progress!MergeSample(old, new)
  <2>1. merged = [old EXCEPT !.time = time, !.status = status,
                    !.event = Progress!Known(@, new.event), !.call = Progress!Known(@, new.call)]
    BY <1>3 DEF Progress!MergeSample, time, status
  <2>2. /\ merged = [field \in Progress!Fields |-> merged[field]]
        /\ merged.time = time /\ merged.status = status /\ merged.version = old.version
        /\ merged.event = Progress!Known(old.event, new.event)
    BY <1>0, <2>1 DEF Progress!Fields
  <2> QED
    BY <1>1, <1>2, <2>2 DEF IsSample, Progress!Known
<1>4. CASE merged = Progress!ApplyOutcome(old, new)
  <2>1. merged = [old EXCEPT !.status = status, !.event = Progress!Known(@, new.event)]
    BY <1>4 DEF Progress!ApplyOutcome, status
  <2>2. /\ merged = [field \in Progress!Fields |-> merged[field]]
        /\ merged.time = old.time /\ merged.status = status /\ merged.version = old.version
        /\ merged.event = Progress!Known(old.event, new.event)
    BY <1>0, <2>1 DEF Progress!Fields
  <2> QED
    BY <1>0, <1>2, <2>2 DEF IsSample, Progress!Known
<1> QED
  BY <1>3, <1>4

LEMMA OutcomeKeeps ==
  ASSUME NEW old, NEW new, IsOutcome(old), IsOutcome(new)
  PROVE  IsOutcome(Progress!MergeOutcome(old, new))
<1>1. Progress!Better(old, new) \in Ranks
  BY BetterIs DEF IsOutcome
<1>2. Progress!Earliest(old.time, new.time) \in Int
  BY DEF IsOutcome, Progress!Earliest
<1> DEFINE time == Progress!Earliest(old.time, new.time)
           status == Progress!Better(old, new)
           known == Progress!Known(old.event, new.event)
<1>3. Progress!MergeOutcome(old, new) = [old EXCEPT !.time = time, !.status = status, !.event = known]
  BY DEF Progress!MergeOutcome
<1>4. old = [id |-> old.id, status |-> old.status, event |-> old.event, time |-> old.time]
  BY DEF IsOutcome
<1>5. time \in Int /\ status \in Ranks
  BY <1>1, <1>2
<1> HIDE DEF time, status, known
<1>6. Progress!MergeOutcome(old, new) = [id |-> old.id, status |-> status, event |-> known, time |-> time]
  BY <1>3, <1>4
<1> QED
  BY <1>5, <1>6 DEF IsOutcome

\* Samples that only grow hold what was told.
LEMMA HoldingGrows ==
  ASSUME NEW known, NEW more, Holding(known), \A id \in DOMAIN known : IsSample(known[id]),
         \A id \in DOMAIN progress_told : IsSample(progress_told[id]),
         \A id \in DOMAIN known :
           /\ id \in DOMAIN more /\ IsSample(more[id]) /\ more[id].version = known[id].version
           /\ Progress!StatusRank[more[id].status] >= Progress!StatusRank[known[id].status]
           /\ known[id].event # None => more[id].event = known[id].event
           /\ more[id].time <= known[id].time
  PROVE  Holding(more)
<1> SUFFICES ASSUME NEW id \in DOMAIN progress_told
             PROVE  /\ id \in DOMAIN more /\ more[id].version = 2
                    /\ Progress!StatusRank[more[id].status] >= Progress!StatusRank[progress_told[id].status]
                    /\ progress_told[id].event # None => more[id].event = progress_told[id].event
                    /\ more[id].time <= progress_told[id].time
  BY DEF Holding
<1>1. /\ id \in DOMAIN known /\ known[id].version = 2
      /\ Progress!StatusRank[known[id].status] >= Progress!StatusRank[progress_told[id].status]
      /\ progress_told[id].event # None => known[id].event = progress_told[id].event
      /\ known[id].time <= progress_told[id].time
  BY DEF Holding
<1>2. /\ Progress!StatusRank[known[id].status] \in Int /\ Progress!StatusRank[progress_told[id].status] \in Int
      /\ Progress!StatusRank[more[id].status] \in Int
      /\ known[id].time \in Int /\ progress_told[id].time \in Int /\ more[id].time \in Int
  BY <1>1, RanksAre DEF IsSample
<1> QED
  BY <1>1, <1>2

LEMMA FoundIsSample ==
  ASSUME NEW row \in Estimates, NEW s \in Progress!SamplesIn(row)
  PROVE  IsSample(s) /\ s.version = 2
<1>1. row.time \in Int
  BY ProgressAssumed DEF Progress!ProgressAssumption, Progress!SamplesIn
<1> QED
  BY <1>1 DEF Progress!SamplesIn, Progress!SchemaVersion, IsSample, Progress!Fields, Ranks

LEMMA FoundIsOutcome ==
  ASSUME NEW row \in Estimates, NEW s \in Progress!OutcomesIn(row)
  PROVE  IsOutcome(s)
<1>1. row.time \in Int /\ row.event \in DOMAIN Progress!PublicationStatus
  BY ProgressAssumed DEF Progress!ProgressAssumption, Progress!OutcomesIn
<1>2. Progress!PublicationStatus[row.event] \in Ranks
  BY <1>1 DEF Progress!PublicationStatus, Ranks
<1> QED
  BY <1>1, <1>2 DEF Progress!OutcomesIn, IsOutcome

\* A row is remembered beside the samples, or merged with one of them.
LEMMA SamplesGrow ==
  ASSUME NEW known, NEW row \in Estimates, Current(known),
         NEW more, more = Progress!Remember(known, Progress!SamplesIn(row), Progress!MergeSample)
  PROVE  /\ Current(more)
         /\ \A id \in DOMAIN known :
              /\ id \in DOMAIN more /\ IsSample(more[id]) /\ more[id].version = known[id].version
              /\ Progress!StatusRank[more[id].status] >= Progress!StatusRank[known[id].status]
              /\ known[id].event # None => more[id].event = known[id].event
              /\ more[id].time <= known[id].time
<1> DEFINE facts == Progress!SamplesIn(row)
           One(id) == CHOOSE s \in facts : s.id = id
<1>1. /\ DOMAIN more = DOMAIN known \cup {s.id : s \in facts}
      /\ \A id \in DOMAIN more :
           more[id] = IF \E s \in facts : s.id = id
                      THEN IF id \in DOMAIN known THEN Progress!MergeSample(known[id], One(id)) ELSE One(id)
                      ELSE known[id]
  BY DEF Progress!Remember
<1>2. \A id : (\E s \in facts : s.id = id) => One(id) \in facts
  OBVIOUS
<1>3. \A s \in facts : IsSample(s) /\ s.version = 2
  BY FoundIsSample
<1>0. \A id \in DOMAIN known : IsSample(known[id]) /\ known[id].version = 2
  BY DEF Current
<1> HIDE DEF facts, One
<1>4. ASSUME NEW id \in DOMAIN known
      PROVE  /\ id \in DOMAIN more /\ IsSample(more[id]) /\ more[id].version = known[id].version
             /\ Progress!StatusRank[more[id].status] >= Progress!StatusRank[known[id].status]
             /\ known[id].event # None => more[id].event = known[id].event
             /\ more[id].time <= known[id].time
  <2>1. id \in DOMAIN more
    BY <1>1
  <2>2. CASE \E s \in facts : s.id = id
    <3>1. more[id] = Progress!MergeSample(known[id], One(id))
      BY <1>1, <2>1, <2>2
    <3>2. One(id).time \in Int /\ One(id).status \in Ranks
      BY <1>2, <1>3, <2>2 DEF IsSample
    <3> DEFINE old == known[id]
               new == One(id)
               merged == more[id]
    <3>3. IsSample(old) /\ new.time \in Int /\ new.status \in Ranks
      BY <1>0, <3>2
    <3>4. merged \in {Progress!MergeSample(old, new), Progress!ApplyOutcome(old, new)}
      BY <3>1
    <3> HIDE DEF old, new, merged
    <3>5. /\ IsSample(merged) /\ merged.version = old.version
          /\ Progress!StatusRank[merged.status] >= Progress!StatusRank[old.status]
          /\ old.event # None => merged.event = old.event
          /\ merged.time <= old.time
      BY <3>3, <3>4, SampleKeeps
    <3> QED
      BY <2>1, <3>5 DEF old, merged
  <2>3. CASE ~\E s \in facts : s.id = id
    <3>1. more[id] = known[id]
      BY <1>1, <2>1, <2>3
    <3>2. known[id].time \in Int /\ Progress!StatusRank[known[id].status] \in Int
      BY <1>0, RanksAre DEF IsSample
    <3> QED
      BY <1>0, <2>1, <3>1, <3>2
  <2> QED
    BY <2>2, <2>3
<1>5. ASSUME NEW id \in DOMAIN more PROVE IsSample(more[id]) /\ more[id].version = 2
  <2>1. CASE id \in DOMAIN known
    BY <1>0, <1>4, <2>1
  <2>2. CASE id \notin DOMAIN known
    <3>1. \E s \in facts : s.id = id
      BY <1>1, <2>2
    <3>2. more[id] = One(id) /\ One(id) \in facts
      BY <1>1, <1>2, <2>2, <3>1
    <3> QED
      BY <1>3, <3>2
  <2> QED
    BY <2>1, <2>2
<1> QED
  BY <1>4, <1>5 DEF Current

LEMMA OutcomesGrow ==
  ASSUME NEW known, NEW row \in Estimates, OutcomesAre(known)
  PROVE  OutcomesAre(Progress!Remember(known, Progress!OutcomesIn(row), Progress!MergeOutcome))
<1> DEFINE facts == Progress!OutcomesIn(row)
           One(id) == CHOOSE s \in facts : s.id = id
           more == Progress!Remember(known, facts, Progress!MergeOutcome)
<1>1. /\ DOMAIN more = DOMAIN known \cup {s.id : s \in facts}
      /\ \A id \in DOMAIN more :
           more[id] = IF \E s \in facts : s.id = id
                      THEN IF id \in DOMAIN known THEN Progress!MergeOutcome(known[id], One(id)) ELSE One(id)
                      ELSE known[id]
  BY DEF Progress!Remember
<1>2. \A id : (\E s \in facts : s.id = id) => One(id) \in facts
  OBVIOUS
<1>3. \A s \in facts : IsOutcome(s)
  BY FoundIsOutcome
<1> HIDE DEF facts, One, more
<1>4. ASSUME NEW id \in DOMAIN more PROVE IsOutcome(more[id])
  BY <1>1, <1>2, <1>3, OutcomeKeeps DEF OutcomesAre
<1>5. OutcomesAre(more)
  BY <1>4 DEF OutcomesAre
<1> QED
  BY <1>5 DEF more, facts

\* What a collector writes holds what it had in hand.
LEMMA AppliedHolds ==
  ASSUME ProgressInv, NEW c \in Collectors, progress_pc[c] # "idle"
  PROVE  /\ Current(Progress!Applied(c))
         /\ Holding(Progress!Applied(c))
<1> DEFINE more == Progress!Applied(c)
           known == samples[c]
<1>1. /\ DOMAIN more = DOMAIN known
      /\ \A id \in DOMAIN known :
           more[id] = IF id \in DOMAIN outcomes[c] THEN Progress!ApplyOutcome(known[id], outcomes[c][id]) ELSE known[id]
  BY DEF Progress!Applied
<1>2. /\ Holding(known) /\ \A id \in DOMAIN known : IsSample(known[id]) /\ known[id].version = 2
      /\ \A id \in DOMAIN outcomes[c] : outcomes[c][id].time \in Int /\ outcomes[c][id].status \in Ranks
      /\ \A id \in DOMAIN progress_told : IsSample(progress_told[id])
  BY DEF ProgressInv, InHand, Current, ProgressTyped, OutcomesAre, IsOutcome
<1> HIDE DEF more, known
<1>3. ASSUME NEW id \in DOMAIN known
      PROVE  /\ id \in DOMAIN more /\ IsSample(more[id]) /\ more[id].version = known[id].version
             /\ Progress!StatusRank[more[id].status] >= Progress!StatusRank[known[id].status]
             /\ known[id].event # None => more[id].event = known[id].event
             /\ more[id].time <= known[id].time
  <2>1. CASE id \in DOMAIN outcomes[c]
    <3>1. more[id] = Progress!ApplyOutcome(known[id], outcomes[c][id])
      BY <1>1, <2>1
    <3> QED
      BY <1>1, <1>2, <2>1, <3>1, SampleKeeps
  <2>2. CASE id \notin DOMAIN outcomes[c]
    <3>1. more[id] = known[id]
      BY <1>1, <2>2
    <3>2. known[id].time \in Int /\ Progress!StatusRank[known[id].status] \in Int
      BY <1>2, RanksAre DEF IsSample
    <3> QED
      BY <1>1, <1>2, <3>1, <3>2
  <2> QED
    BY <2>1, <2>2
<1>4. Holding(more)
  BY <1>2, <1>3, HoldingGrows
<1>5. Current(more)
  BY <1>1, <1>2, <1>3 DEF Current
<1> QED
  BY <1>4, <1>5 DEF more

\* Rows come and workspaces go without the collectors.
LEMMA LogsKeep ==
  ASSUME ProgressInv, (\E row \in Estimates : Progress!Append1(row)) \/ (\E t \in Estimators : Progress!Removed(t))
  PROVE  ProgressInv'
<1>1. UNCHANGED <<output, progress_lock, progress_pc, left, unread, samples, outcomes, progress_told>>
  BY DEF Progress!Append1, Progress!Removed, Progress!reading
<1>2. /\ DOMAIN transcripts' = Estimators /\ publications' \in Seq(Estimates)
      /\ \A t \in Estimators : transcripts'[t] \in Seq(Estimates)
  <2>1. ASSUME NEW row \in Estimates, Progress!Append1(row)
        PROVE  /\ DOMAIN transcripts' = Estimators /\ publications' \in Seq(Estimates)
               /\ \A other \in Estimators : transcripts'[other] \in Seq(Estimates)
    <3>0. /\ DOMAIN transcripts = Estimators /\ publications \in Seq(Estimates)
          /\ \A other \in Estimators : transcripts[other] \in Seq(Estimates)
      BY DEF ProgressInv, ProgressTyped
    <3>1. CASE row.event # None
      <4>1. publications' = Append(publications, row) /\ transcripts' = transcripts
        BY <2>1, <3>1 DEF Progress!Append1
      <4>2. Append(publications, row) \in Seq(Estimates)
        BY <3>0
      <4> QED
        BY <3>0, <4>1, <4>2
    <3>2. CASE row.event = None
      <4>1. /\ publications' = publications
            /\ transcripts' = [transcripts EXCEPT ![row.ticket] = Append(transcripts[row.ticket], row)]
        BY <2>1, <3>2 DEF Progress!Append1
      <4>2. \A other \in Estimators : Append(transcripts[other], row) \in Seq(Estimates)
        BY <3>0
      <4>3. DOMAIN transcripts' = Estimators
            /\ \A other \in Estimators :
                 transcripts'[other] = IF other = row.ticket THEN Append(transcripts[other], row) ELSE transcripts[other]
        BY <3>0, <4>1
      <4> QED
        BY <3>0, <4>1, <4>2, <4>3
    <3> QED
      BY <3>1, <3>2
  <2>2. ASSUME NEW t \in Estimators, Progress!Removed(t)
        PROVE  /\ DOMAIN transcripts' = Estimators /\ publications' \in Seq(Estimates)
               /\ \A other \in Estimators : transcripts'[other] \in Seq(Estimates)
    BY <2>2 DEF Progress!Removed, ProgressInv, ProgressTyped
  <2> QED
    BY <2>1, <2>2
<1>3. ProgressTyped'
  BY <1>1, <1>2 DEF ProgressInv, ProgressTyped
<1> QED
  BY <1>1, <1>3 DEF ProgressInv, OneCollector, InHand, Holding, Current

\* A collector's own steps, up to the one that replaces the output.
LEMMA CollectorKeeps ==
  ASSUME ProgressInv, NEW c \in Collectors,
         UNCHANGED <<transcripts, publications, output, progress_told>>,
         progress_pc' = [progress_pc EXCEPT ![c] = progress_pc'[c]],
         progress_pc'[c] \in {"idle", "transcripts", "publications"},
         left' \in [Collectors -> SUBSET Estimators],
         DOMAIN unread' = Collectors, DOMAIN samples' = Collectors, DOMAIN outcomes' = Collectors,
         \A d \in Collectors \ {c} : unread'[d] = unread[d] /\ samples'[d] = samples[d] /\ outcomes'[d] = outcomes[d],
         unread'[c] \in Seq(Estimates), OutcomesAre(outcomes'[c]),
         progress_pc'[c] # "idle" =>
           progress_lock' = c /\ Holding(samples'[c]) /\ Current(samples'[c]),
         \A d \in Collectors \ {c} : progress_pc[d] # "idle" => progress_lock' = d
  PROVE  ProgressInv'
<1>1. ProgressTyped'
  <2>1. \A d \in Collectors : unread'[d] \in Seq(Estimates) /\ OutcomesAre(outcomes'[d])
    BY DEF ProgressInv, ProgressTyped
  <2>2. progress_pc' \in [Collectors -> {"idle", "transcripts", "publications"}]
    BY DEF ProgressInv, ProgressTyped
  <2> QED
    BY <2>1, <2>2 DEF ProgressInv, ProgressTyped, OutcomesAre
<1>2. \A d \in Collectors \ {c} : progress_pc'[d] = progress_pc[d]
  BY DEF ProgressInv, ProgressTyped
<1>3. OneCollector'
  BY <1>2 DEF OneCollector
<1>4. InHand'
  BY <1>2 DEF ProgressInv, InHand, Holding, Current
<1> QED
  BY <1>1, <1>3, <1>4 DEF ProgressInv, Holding

LEMMA LoadKeeps == ASSUME ProgressInv, NEW c \in Collectors, Progress!Load(c) PROVE ProgressInv'
<1> DEFINE loaded == [id \in DOMAIN output |-> Progress!Upgraded(output[id])]
<1>1. /\ progress_lock = c /\ progress_lock' = c
      /\ samples' = [samples EXCEPT ![c] = loaded] /\ outcomes' = [outcomes EXCEPT ![c] = <<>>]
      /\ unread' = [unread EXCEPT ![c] = <<>>] /\ progress_pc' = [progress_pc EXCEPT ![c] = "transcripts"]
      /\ left' = [left EXCEPT ![c] = Estimators]
      /\ UNCHANGED <<transcripts, publications, output, progress_told>>
  BY DEF Progress!Load, Progress!HoldsLock, Progress!files, Progress!Empty
<1>2. /\ Holding(output) /\ \A id \in DOMAIN output : IsSample(output[id])
  BY DEF ProgressInv, ProgressTyped
<1>3. DOMAIN loaded = DOMAIN output /\ \A id \in DOMAIN output : loaded[id] = Progress!Upgraded(output[id])
  OBVIOUS
<1> HIDE DEF loaded
<1>4. Holding(loaded)
  <2>1. ASSUME NEW id \in DOMAIN progress_told PROVE id \in DOMAIN loaded /\ loaded[id] = output[id]
    BY <1>2, <1>3 DEF Holding, Progress!Upgraded, Progress!SchemaVersion
  <2> QED
    BY <1>2, <2>1 DEF Holding
<1>5. ASSUME NEW id \in DOMAIN loaded PROVE IsSample(loaded[id]) /\ loaded[id].version = 2
  <2>1. IsSample(output[id])
    BY <1>2, <1>3
  <2>2. CASE output[id].version = 2
    BY <1>3, <2>1, <2>2 DEF Progress!Upgraded, Progress!SchemaVersion
  <2>3. CASE output[id].version # 2
    <3>1. loaded[id] = [output[id] EXCEPT !.version = 2, !.status = "attempted", !.event = None]
      BY <1>3, <2>3 DEF Progress!Upgraded, Progress!SchemaVersion
    <3> QED
      BY <2>1, <3>1 DEF IsSample, Progress!Fields, Ranks
  <2> QED
    BY <2>2, <2>3
<1>6. /\ DOMAIN unread' = Collectors /\ DOMAIN samples' = Collectors /\ DOMAIN outcomes' = Collectors
      /\ samples'[c] = loaded /\ outcomes'[c] = <<>> /\ unread'[c] = <<>> /\ progress_pc'[c] = "transcripts"
      /\ \A d \in Collectors \ {c} : unread'[d] = unread[d] /\ samples'[d] = samples[d] /\ outcomes'[d] = outcomes[d]
      /\ left' \in [Collectors -> SUBSET Estimators]
  BY <1>1 DEF ProgressInv, ProgressTyped
<1>7. OutcomesAre(outcomes'[c]) /\ unread'[c] \in Seq(Estimates)
  BY <1>6 DEF OutcomesAre
<1>8. \A d \in Collectors \ {c} : progress_pc[d] = "idle"
  BY <1>1 DEF ProgressInv, OneCollector
<1> QED
  BY <1>1, <1>4, <1>5, <1>6, <1>7, <1>8, CollectorKeeps DEF Current

LEMMA ReadKeeps ==
  ASSUME ProgressInv, NEW c \in Collectors,
         \/ Progress!OpenTranscript(c) \/ Progress!ReadTranscript(c)
         \/ Progress!OpenPublications(c) \/ Progress!ReadPublication(c)
  PROVE  ProgressInv'
<1>1. /\ progress_pc[c] # "idle" /\ progress_lock = c /\ progress_lock' = c
      /\ UNCHANGED <<transcripts, publications, output, progress_told>>
      /\ \A d \in Collectors \ {c} : progress_pc[d] = "idle"
      /\ progress_pc'[c] \in {"transcripts", "publications"}
      /\ progress_pc' = [progress_pc EXCEPT ![c] = progress_pc'[c]]
      /\ left' \in [Collectors -> SUBSET Estimators]
  <2>1. progress_pc[c] # "idle" /\ UNCHANGED <<transcripts, publications, output, progress_told, progress_lock>>
    BY DEF Progress!OpenTranscript, Progress!ReadTranscript, Progress!OpenPublications, Progress!ReadPublication,
      Progress!files
  <2>2. /\ progress_pc'[c] \in {"transcripts", "publications"}
        /\ progress_pc' = [progress_pc EXCEPT ![c] = progress_pc'[c]]
    BY DEF Progress!OpenTranscript, Progress!ReadTranscript, Progress!OpenPublications, Progress!ReadPublication,
      ProgressInv, ProgressTyped
  <2>3. left' \in [Collectors -> SUBSET Estimators]
    <3>1. left \in [Collectors -> SUBSET Estimators]
      BY DEF ProgressInv, ProgressTyped
    <3>2. left' = left \/ \E t \in left[c] : left' = [left EXCEPT ![c] = left[c] \ {t}]
      BY DEF Progress!OpenTranscript, Progress!ReadTranscript, Progress!OpenPublications, Progress!ReadPublication
    <3> QED
      BY <3>1, <3>2
  <2> QED
    BY <2>1, <2>2, <2>3 DEF ProgressInv, OneCollector
<1>2. /\ Holding(samples[c]) /\ Current(samples[c])
      /\ unread[c] \in Seq(Estimates) /\ OutcomesAre(outcomes[c])
      /\ DOMAIN unread = Collectors /\ DOMAIN samples = Collectors /\ DOMAIN outcomes = Collectors
  BY <1>1 DEF ProgressInv, InHand, ProgressTyped
<1>3. ASSUME Progress!OpenTranscript(c) PROVE ProgressInv'
  <2>1. PICK t \in left[c] : unread' = [unread EXCEPT ![c] = transcripts[t]]
    BY <1>3 DEF Progress!OpenTranscript
  <2>2. UNCHANGED <<samples, outcomes>>
    BY <1>3 DEF Progress!OpenTranscript
  <2>3. transcripts[t] \in Seq(Estimates)
    BY DEF ProgressInv, ProgressTyped
  <2> QED
    BY <1>1, <1>2, <2>1, <2>2, <2>3, CollectorKeeps
<1>4. ASSUME Progress!ReadTranscript(c) PROVE ProgressInv'
  <2> DEFINE more == Progress!Remember(samples[c], Progress!SamplesIn(Head(unread[c])), Progress!MergeSample)
  <2>1. /\ unread[c] # <<>> /\ unread' = [unread EXCEPT ![c] = Tail(@)] /\ outcomes' = outcomes
        /\ samples' = [samples EXCEPT ![c] = more]
    BY <1>4 DEF Progress!ReadTranscript
  <2>2. Head(unread[c]) \in Estimates /\ Tail(unread[c]) \in Seq(Estimates)
    BY <1>2, <2>1
  <2>3. Holding(more) /\ Current(more)
    <3>1. \A id \in DOMAIN progress_told : IsSample(progress_told[id])
      BY DEF ProgressInv, ProgressTyped
    <3> QED
      BY <1>2, <2>2, <3>1, SamplesGrow, HoldingGrows DEF Current
  <2> HIDE DEF more
  <2> QED
    BY <1>1, <1>2, <2>1, <2>2, <2>3, CollectorKeeps
<1>5. ASSUME Progress!OpenPublications(c) PROVE ProgressInv'
  <2>1. unread' = [unread EXCEPT ![c] = publications] /\ UNCHANGED <<samples, outcomes>>
    BY <1>5 DEF Progress!OpenPublications
  <2>2. publications \in Seq(Estimates)
    BY DEF ProgressInv, ProgressTyped
  <2> QED
    BY <1>1, <1>2, <2>1, <2>2, CollectorKeeps
<1>6. ASSUME Progress!ReadPublication(c) PROVE ProgressInv'
  <2> DEFINE more == Progress!Remember(outcomes[c], Progress!OutcomesIn(Head(unread[c])), Progress!MergeOutcome)
  <2>1. /\ unread[c] # <<>> /\ unread' = [unread EXCEPT ![c] = Tail(@)] /\ samples' = samples
        /\ outcomes' = [outcomes EXCEPT ![c] = more]
    BY <1>6 DEF Progress!ReadPublication
  <2>2. Head(unread[c]) \in Estimates /\ Tail(unread[c]) \in Seq(Estimates)
    BY <1>2, <2>1
  <2>3. OutcomesAre(more)
    BY <1>2, <2>2, OutcomesGrow
  <2> HIDE DEF more
  <2> QED
    BY <1>1, <1>2, <2>1, <2>2, <2>3, CollectorKeeps
<1> QED
  BY <1>3, <1>4, <1>5, <1>6

LEMMA LockKeeps ==
  ASSUME ProgressInv, NEW c \in Collectors, Progress!Lock(c) \/ Progress!Killed(c)
  PROVE  ProgressInv'
<1>1. /\ UNCHANGED <<transcripts, publications, output, progress_told, left, unread, samples, outcomes>>
      /\ progress_pc' = [progress_pc EXCEPT ![c] = progress_pc'[c]] /\ progress_pc'[c] = "idle"
  BY DEF Progress!Lock, Progress!Killed, Progress!files, Progress!reading, ProgressInv, ProgressTyped
<1>2. \A d \in Collectors \ {c} : progress_pc[d] # "idle" => progress_lock' = d
  <2>1. Nobody \notin Collectors
    BY ProgressAssumed DEF Progress!ProgressAssumption
  <2> QED
    BY <2>1 DEF Progress!Lock, Progress!Killed, ProgressInv, OneCollector
<1>3. /\ left \in [Collectors -> SUBSET Estimators]
      /\ DOMAIN unread = Collectors /\ DOMAIN samples = Collectors /\ DOMAIN outcomes = Collectors
      /\ unread[c] \in Seq(Estimates) /\ OutcomesAre(outcomes[c])
  BY DEF ProgressInv, ProgressTyped
<1> QED
  BY <1>1, <1>2, <1>3, CollectorKeeps

LEMMA WriteKeeps == ASSUME ProgressInv, NEW c \in Collectors, Progress!Write(c) PROVE ProgressInv'
<1> DEFINE new == Progress!Applied(c)
<1>1. /\ progress_pc[c] = "publications" /\ output' = new
      /\ progress_told' = [id \in DOMAIN progress_told \cup DOMAIN new |->
                             IF id \in DOMAIN new THEN new[id] ELSE progress_told[id]]
      /\ progress_pc' = [progress_pc EXCEPT ![c] = "idle"]
      /\ UNCHANGED <<transcripts, publications, left, unread, samples, outcomes>>
  BY DEF Progress!Write, Progress!files, Progress!reading
<1>2. Holding(new) /\ \A id \in DOMAIN new : IsSample(new[id]) /\ new[id].version = 2
  BY <1>1, AppliedHolds DEF Current
<1> HIDE DEF new
<1>3. progress_told' = new
  <2>1. DOMAIN progress_told \subseteq DOMAIN new
    BY <1>2 DEF Holding
  <2>2. DOMAIN progress_told \cup DOMAIN new = DOMAIN new
    BY <2>1
  <2>3. progress_told' = [id \in DOMAIN new |-> new[id]]
    BY <1>1, <2>2
  <2>4. new = [id \in DOMAIN new |-> new[id]]
    BY DEF new, Progress!Applied
  <2> QED
    BY <2>3, <2>4
<1>4. \A d \in Collectors : progress_pc'[d] = "idle"
  <2>1. \A d \in Collectors \ {c} : progress_pc[d] = "idle"
    BY <1>1 DEF ProgressInv, OneCollector
  <2> QED
    BY <1>1, <2>1 DEF ProgressInv, ProgressTyped
<1>5. ProgressTyped'
  BY <1>1, <1>2, <1>3 DEF ProgressInv, ProgressTyped
<1>7. Holding(output)'
  <2>1. \A id \in DOMAIN new : new[id].time \in Int /\ Progress!StatusRank[new[id].status] \in Int
    BY <1>2, RanksAre DEF IsSample
  <2> QED
    BY <1>1, <1>2, <1>3, <2>1 DEF Holding
<1> QED
  BY <1>4, <1>5, <1>7 DEF ProgressInv, OneCollector, InHand

LEMMA ProgressStep == ProgressInv /\ (Progress!Next \/ UNCHANGED progress_vars) => ProgressInv'
<1>1. ASSUME ProgressInv, Progress!Next PROVE ProgressInv'
  BY <1>1, LogsKeep, LockKeeps, LoadKeeps, ReadKeeps, WriteKeeps DEF Progress!Next
<1>2. ASSUME ProgressInv, UNCHANGED progress_vars PROVE ProgressInv'
  BY <1>2 DEF progress_vars, ProgressInv, ProgressTyped, OneCollector, InHand, Holding, Current
<1> QED
  BY <1>1, <1>2

LEMMA ProgressKeeps == ProgressInv => Progress!NothingForgotten
BY DEF ProgressInv, Holding, Progress!NothingForgotten

-----------------------------------------------------------------------------
(***************************************************************************)
(* The validator of an amendment (ExecutionAmendment): two equal reads of   *)
(* things that are dated show what GitHub had between them.                 *)
(***************************************************************************)

LEMMA AmendmentAssumed == Amendment!AmendmentAssumption
BY ProgramsAssumption

AmendmentIds == Members \cup {Epic, Skill}
Accepting == {"first", "second", "accepted"}

\* One state of an issue is another's past, or the same.  A ticket has at most one
\* comment of the amendment, which may be changed and deleted.
IssuePast(a, b) == a.updated \in Int /\ b.updated \in Int /\ (a = b \/ a.updated < b.updated)
OneComment(cs) == cs = {} \/ \E c \in cs : cs = {c} /\ "updated" \in DOMAIN c /\ c.updated \in Int
CommentPast(cs, ds) ==
  \/ ds = {} \/ cs = ds
  \/ \E c \in cs, d \in ds : cs = {c} /\ ds = {d} /\ c.updated < d.updated

GithubTyped ==
  /\ DOMAIN issues = AmendmentIds /\ \A i \in AmendmentIds : "updated" \in DOMAIN issues[i] /\ issues[i].updated \in Int
  /\ DOMAIN comments = Members \cup {Epic} /\ \A i \in Members \cup {Epic} : OneComment(comments[i])

\* Each answer of the first read is of the past of this, each one of the second of
\* its future.
ReadBefore(answers, here, notes) ==
  /\ \A i \in AmendmentIds : Amendment!IssueOf(i) \in DOMAIN answers => IssuePast(answers[Amendment!IssueOf(i)], here[i])
  /\ \A i \in Amendment!Commented : Amendment!CommentsOf(i) \in DOMAIN answers =>
       OneComment(answers[Amendment!CommentsOf(i)]) /\ CommentPast(answers[Amendment!CommentsOf(i)], notes[i])
ReadAfter(here, notes, answers) ==
  /\ \A i \in AmendmentIds : Amendment!IssueOf(i) \in DOMAIN answers => IssuePast(here[i], answers[Amendment!IssueOf(i)])
  /\ \A i \in Amendment!Commented : Amendment!CommentsOf(i) \in DOMAIN answers =>
       CommentPast(notes[i], answers[Amendment!CommentsOf(i)])
Found(answers) ==
  \A i \in Amendment!Commented : Amendment!CommentOf(i) \in DOMAIN answers => answers[Amendment!CommentOf(i)] # {}

\* What the second read began with has become what is there now.
BetweenPast ==
  /\ DOMAIN between.issues = AmendmentIds
  /\ \A i \in AmendmentIds : IssuePast(between.issues[i], issues[i])
  /\ \A i \in Members \cup {Epic} : OneComment(between.comments[i]) /\ CommentPast(between.comments[i], comments[i])

AmendmentInv ==
  /\ GithubTyped
  /\ amendment_pc \in Accepting \cup {"static", "rejected", "accepted offline"}
  /\ amendment_pc \in Accepting => Amendment!StaticErrors(candidate) = {} /\ Found(first_read)
  /\ amendment_pc = "static" => first_read = <<>> /\ second_read = <<>>
  /\ amendment_pc = "first" => ReadBefore(first_read, issues, comments) /\ second_read = <<>>
  /\ amendment_pc \in {"second", "accepted"} =>
       /\ BetweenPast /\ DOMAIN first_read = Amendment!Requests
       /\ ReadBefore(first_read, between.issues, between.comments)
       /\ ReadAfter(between.issues, between.comments, second_read)
  /\ amendment_pc = "accepted" => first_read = second_read /\ Amendment!Compare(first_read, candidate) = {}

LEMMA NoErrors == ASSUME NEW condition, NEW name, Amendment!Error(condition, name) = {} PROVE ~condition
BY DEF Amendment!Error

LEMMA Checked ==
  ASSUME Amendment!StaticErrors(candidate) = {}
  PROVE  /\ candidate.amendment.order = Epic /\ candidate.amendment.lanes = ExpectedLanes
         /\ candidate.amendment.decision = Amendment!Decision(candidate.amendment)
         /\ DOMAIN candidate.amendment.comments = Amendment!Affected
<1> DEFINE a == candidate.amendment
           members == Amendment!MemberIds(candidate.manifest)
<1>1. Amendment!SchemaErrors(a, candidate.manifest) = {}
  BY DEF Amendment!StaticErrors
<1>2. /\ Amendment!Error(a.order # Epic, "build_order_id") = {}
      /\ Amendment!Error(a.decision # Amendment!Decision(a), "decision_sha256") = {}
      /\ Amendment!LaneErrors(a, members) = {} /\ Amendment!PartitionErrors(a, members) = {}
      /\ Amendment!CommentErrors(a, members) = {}
  BY <1>1, Zenon DEF Amendment!SchemaErrors
<1>3. Amendment!Error(a.lanes # ExpectedLanes, "lanes") = {}
  BY <1>2 DEF Amendment!LaneErrors
<1>4. Amendment!Error(Amendment!Range(a.affected) # Amendment!Affected, "affected tickets") = {}
  BY <1>2 DEF Amendment!PartitionErrors
<1>5. Amendment!Error(DOMAIN a.comments # Amendment!Range(a.affected), "comments must cover affected tickets") = {}
  BY <1>2 DEF Amendment!CommentErrors
<1> QED
  BY <1>2, <1>3, <1>4, <1>5, NoErrors

\* Only what the amendment affects has comments.
LEMMA CommentedAre ==
  ASSUME Amendment!StaticErrors(candidate) = {}
  PROVE  Amendment!Commented = {Epic} \cup Amendment!Affected /\ Amendment!Commented \subseteq Members \cup {Epic}
BY Checked, AmendmentAssumed DEF Amendment!Commented, Amendment!AmendmentAssumption

LEMMA PastIsTransitive ==
  /\ \A a, b, c : IssuePast(a, b) /\ IssuePast(b, c) => IssuePast(a, c)
  /\ \A a, b, c : OneComment(a) /\ OneComment(b) /\ OneComment(c) /\ CommentPast(a, b) /\ CommentPast(b, c) => CommentPast(a, c)
<1>1. ASSUME NEW a, NEW b, NEW c, IssuePast(a, b), IssuePast(b, c) PROVE IssuePast(a, c)
  BY <1>1 DEF IssuePast
<1>2. ASSUME NEW a, NEW b, NEW c, OneComment(a), OneComment(b), OneComment(c), CommentPast(a, b), CommentPast(b, c)
      PROVE  CommentPast(a, c)
  BY <1>2 DEF OneComment, CommentPast
<1> QED
  BY <1>1, <1>2

LEMMA AmendmentInit == Amendment!Init => AmendmentInv
<1> SUFFICES ASSUME Amendment!Init PROVE AmendmentInv
  OBVIOUS
<1>1. DOMAIN issues = AmendmentIds
      /\ \A i \in AmendmentIds : "updated" \in DOMAIN issues[i] /\ issues[i].updated = 1
  BY DEF Amendment!Init, Amendment!Fields, AmendmentIds, Amendment!Ids, Amendment!Core
<1>2. DOMAIN comments = Members \cup {Epic}
  BY DEF Amendment!Init, Amendment!Core
<1>3. ASSUME NEW i \in Members \cup {Epic} PROVE OneComment(comments[i])
  BY DEF Amendment!Init, Amendment!Core, OneComment
<1>4. GithubTyped
  BY <1>1, <1>2, <1>3 DEF GithubTyped
<1>5. amendment_pc = "static" /\ first_read = <<>> /\ second_read = <<>>
  BY DEF Amendment!Init
<1> QED
  BY <1>4, <1>5 DEF AmendmentInv, Accepting

\* The answers about issues and comments.
LEMMA AnswersAre ==
  ASSUME NEW i
  PROVE  /\ Amendment!Answer(Amendment!IssueOf(i)) = issues[i]
         /\ Amendment!Answer(Amendment!CommentOf(i)) = Amendment!Exact(i, comments[i])
         /\ Amendment!Answer(Amendment!CommentsOf(i)) = comments[i]
<1>1. /\ Amendment!IssueOf(i) = <<1, i, 1>> /\ Amendment!CommentOf(i) = <<5, i, 1>> /\ Amendment!CommentsOf(i) = <<5, i, 2>>
      /\ Amendment!ParentOf(i) = <<3, i, 1>> /\ Amendment!BlockersOf(i) = <<4, i, 1>>
      /\ Amendment!SubissuesOf(i) \in {<<2, i, 1>>, <<3, i, 2>>}
  BY DEF Amendment!IssueOf, Amendment!CommentOf, Amendment!CommentsOf, Amendment!ParentOf, Amendment!BlockersOf,
    Amendment!SubissuesOf
<1>2. /\ Amendment!IssueOf(i)[2] = i /\ Amendment!CommentOf(i)[2] = i /\ Amendment!CommentsOf(i)[2] = i
      /\ Amendment!IssueOf(i) # Amendment!CommentOf(i) /\ Amendment!IssueOf(i) # Amendment!CommentsOf(i)
      /\ Amendment!CommentOf(i) # Amendment!CommentsOf(i)
      /\ \A other \in {Amendment!SubissuesOf(i), Amendment!ParentOf(i), Amendment!BlockersOf(i)} :
           other # Amendment!IssueOf(i) /\ other # Amendment!CommentOf(i) /\ other # Amendment!CommentsOf(i)
  BY <1>1
<1> QED
  BY <1>2 DEF Amendment!Answer, Amendment!IssueRecord

\* A read that is answered once more.
LEMMA ReadBeforeGrows ==
  ASSUME GithubTyped, Amendment!Commented \subseteq Members \cup {Epic},
         NEW answers, NEW r, ReadBefore(answers, issues, comments)
  PROVE  ReadBefore(Amendment!Answered(answers, r), issues, comments)
<1> DEFINE more == Amendment!Answered(answers, r)
<1>1. /\ DOMAIN more = DOMAIN answers \cup {r}
      /\ \A q \in DOMAIN more : more[q] = IF q = r THEN Amendment!Answer(r) ELSE answers[q]
  BY DEF Amendment!Answered
<1> HIDE DEF more
<1>2. ASSUME NEW i \in AmendmentIds, Amendment!IssueOf(i) \in DOMAIN more
      PROVE  IssuePast(more[Amendment!IssueOf(i)], issues[i])
  <2>1. CASE Amendment!IssueOf(i) = r
    BY <1>1, <1>2, <2>1, AnswersAre DEF GithubTyped, IssuePast
  <2>2. CASE Amendment!IssueOf(i) # r
    BY <1>1, <1>2, <2>2 DEF ReadBefore
  <2> QED
    BY <2>1, <2>2
<1>3. ASSUME NEW i \in Amendment!Commented, Amendment!CommentsOf(i) \in DOMAIN more
      PROVE  OneComment(more[Amendment!CommentsOf(i)]) /\ CommentPast(more[Amendment!CommentsOf(i)], comments[i])
  <2>1. CASE Amendment!CommentsOf(i) = r
    BY <1>1, <1>3, <2>1, AnswersAre DEF CommentPast, GithubTyped
  <2>2. CASE Amendment!CommentsOf(i) # r
    BY <1>1, <1>3, <2>2 DEF ReadBefore
  <2> QED
    BY <2>1, <2>2
<1>4. ReadBefore(more, issues, comments)
  BY <1>2, <1>3 DEF ReadBefore
<1> QED
  BY <1>4 DEF more

LEMMA ReadAfterGrows ==
  ASSUME GithubTyped, BetweenPast, Amendment!Commented \subseteq Members \cup {Epic},
         NEW answers, NEW r, ReadAfter(between.issues, between.comments, answers)
  PROVE  ReadAfter(between.issues, between.comments, Amendment!Answered(answers, r))
<1> DEFINE more == Amendment!Answered(answers, r)
<1>1. /\ DOMAIN more = DOMAIN answers \cup {r}
      /\ \A q \in DOMAIN more : more[q] = IF q = r THEN Amendment!Answer(r) ELSE answers[q]
  BY DEF Amendment!Answered
<1> HIDE DEF more
<1>2. ASSUME NEW i \in AmendmentIds, Amendment!IssueOf(i) \in DOMAIN more
      PROVE  IssuePast(between.issues[i], more[Amendment!IssueOf(i)])
  <2>1. CASE Amendment!IssueOf(i) = r
    BY <1>1, <1>2, <2>1, AnswersAre DEF BetweenPast
  <2>2. CASE Amendment!IssueOf(i) # r
    BY <1>1, <1>2, <2>2 DEF ReadAfter
  <2> QED
    BY <2>1, <2>2
<1>3. ASSUME NEW i \in Amendment!Commented, Amendment!CommentsOf(i) \in DOMAIN more
      PROVE  CommentPast(between.comments[i], more[Amendment!CommentsOf(i)])
  <2>1. CASE Amendment!CommentsOf(i) = r
    BY <1>1, <1>3, <2>1, AnswersAre DEF BetweenPast
  <2>2. CASE Amendment!CommentsOf(i) # r
    BY <1>1, <1>3, <2>2 DEF ReadAfter
  <2> QED
    BY <2>1, <2>2
<1>4. ReadAfter(between.issues, between.comments, more)
  BY <1>2, <1>3 DEF ReadAfter
<1> QED
  BY <1>4 DEF more

LEMMA FoundGrows ==
  ASSUME NEW answers, NEW r, Found(answers), ~Amendment!Refused(r) PROVE Found(Amendment!Answered(answers, r))
<1> DEFINE more == Amendment!Answered(answers, r)
<1>1. /\ DOMAIN more = DOMAIN answers \cup {r}
      /\ \A q \in DOMAIN more : more[q] = IF q = r THEN Amendment!Answer(r) ELSE answers[q]
  BY DEF Amendment!Answered
<1> HIDE DEF more
<1>2. ASSUME NEW i \in Amendment!Commented, Amendment!CommentOf(i) \in DOMAIN more
      PROVE  more[Amendment!CommentOf(i)] # {}
  <2>1. CASE Amendment!CommentOf(i) = r
    <3>1. r[2] = i
      BY <2>1 DEF Amendment!CommentOf
    <3>2. Amendment!Exact(i, comments[i]) # {}
      BY <2>1, <3>1 DEF Amendment!Refused
    <3> QED
      BY <1>1, <1>2, <2>1, <3>2, AnswersAre
  <2>2. CASE Amendment!CommentOf(i) # r
    BY <1>1, <1>2, <2>2 DEF Found
  <2> QED
    BY <2>1, <2>2
<1>3. Found(more)
  BY <1>2 DEF Found
<1> QED
  BY <1>3 DEF more

\* People only make a state of an issue or a comment the past of the next.
LEMMA EditsDate ==
  ASSUME GithubTyped, NEW e \in GithubEdits,
         Amendment!EditIssue(e) \/ Amendment!EditComment(e) \/ Amendment!DeleteComment(e) \/ Amendment!EditGraph(e)
  PROVE  /\ GithubTyped'
         /\ UNCHANGED <<candidate, amendment_pc, first_read, second_read, between>>
         /\ amendment_pc \in {"first", "second"}
         /\ \A i \in AmendmentIds : IssuePast(issues[i], issues'[i])
         /\ \A i \in Members \cup {Epic} : CommentPast(comments[i], comments'[i])
<1>1. UNCHANGED <<candidate, amendment_pc, first_read, second_read, between>> /\ amendment_pc \in {"first", "second"}
  BY DEF Amendment!EditIssue, Amendment!EditComment, Amendment!DeleteComment, Amendment!EditGraph, Amendment!Editing,
    Amendment!reads
<1>2. /\ DOMAIN issues' = AmendmentIds /\ \A i \in AmendmentIds : "updated" \in DOMAIN issues'[i] /\ issues'[i].updated \in Int
      /\ \A i \in AmendmentIds : IssuePast(issues[i], issues'[i])
  <2>1. CASE Amendment!EditIssue(e)
    <3>1. e.field # "updated"
      BY AmendmentAssumed DEF Amendment!AmendmentAssumption
    <3>2. issues' = [issues EXCEPT ![e.issue] = Amendment!EditedIssue(issues[e.issue], e)]
      BY <2>1 DEF Amendment!EditIssue
    <3>3. ASSUME NEW i \in AmendmentIds 
          PROVE  "updated" \in DOMAIN issues'[i] /\ issues'[i].updated \in Int /\ IssuePast(issues[i], issues'[i])
      <4>1. "updated" \in DOMAIN issues[i] /\ issues[i].updated \in Int
        BY DEF GithubTyped
      <4>2. CASE i # e.issue
        <5>1. issues'[i] = issues[i]
          BY <3>2, <4>2 DEF GithubTyped
        <5> QED
          BY <4>1, <5>1 DEF IssuePast
      <4>3. CASE i = e.issue
        <5>1. issues'[i] = Amendment!EditedIssue(issues[i], e)
          BY <3>2, <4>3 DEF GithubTyped
        <5>2. "updated" \in DOMAIN issues[i]
          BY DEF GithubTyped
        <5>3. "updated" \in DOMAIN issues'[i] /\ issues'[i].updated = issues[i].updated + 1
          BY <3>1, <5>1, <5>2 DEF Amendment!EditedIssue
        <5> QED
          BY <4>1, <5>3 DEF IssuePast
      <4> QED
        BY <4>2, <4>3
    <3> QED
      BY <3>2, <3>3 DEF GithubTyped
  <2>2. CASE ~Amendment!EditIssue(e)
    <3>1. issues' = issues
      BY <2>2 DEF Amendment!EditComment, Amendment!DeleteComment, Amendment!EditGraph
    <3> QED
      BY <3>1 DEF GithubTyped, IssuePast
  <2> QED
    BY <2>1, <2>2
<1>3. DOMAIN comments' = Members \cup {Epic}
  BY DEF GithubTyped, Amendment!EditIssue, Amendment!EditComment, Amendment!DeleteComment, Amendment!EditGraph
<1>4. ASSUME NEW i \in Members \cup {Epic} PROVE OneComment(comments'[i]) /\ CommentPast(comments[i], comments'[i])
  <2>0. OneComment(comments[i]) /\ DOMAIN comments = Members \cup {Epic}
    BY DEF GithubTyped
  <2>1. CASE Amendment!EditComment(e) /\ i = e.issue
    <3>1. comments'[i] = {[c EXCEPT !.body.owner = e.value, !.updated = c.updated + 1] : c \in comments[i]}
      BY <2>0, <2>1 DEF Amendment!EditComment
    <3>2. CASE comments[i] = {}
      BY <3>1, <3>2 DEF OneComment, CommentPast
    <3>3. CASE comments[i] # {}
      <4>1. PICK c \in comments[i] : comments[i] = {c} /\ "updated" \in DOMAIN c /\ c.updated \in Int
        BY <2>0, <3>3 DEF OneComment
      <4> DEFINE d == [c EXCEPT !.body.owner = e.value, !.updated = c.updated + 1]
      <4>2. comments'[i] = {d}
        BY <3>1, <4>1
      <4>3. "updated" \in DOMAIN d /\ d.updated = c.updated + 1
        BY <4>1
      <4> HIDE DEF d
      <4> QED
        BY <4>1, <4>2, <4>3 DEF OneComment, CommentPast
    <3> QED
      BY <3>2, <3>3
  <2>2. CASE Amendment!DeleteComment(e) /\ i = e.issue
    BY <2>0, <2>2 DEF Amendment!DeleteComment, OneComment, CommentPast
  <2>3. CASE ~(Amendment!EditComment(e) /\ i = e.issue) /\ ~(Amendment!DeleteComment(e) /\ i = e.issue)
    <3>1. comments'[i] = comments[i]
      BY <2>0, <2>3 DEF Amendment!EditIssue, Amendment!EditComment, Amendment!DeleteComment, Amendment!EditGraph
    <3> QED
      BY <2>0, <3>1 DEF CommentPast
  <2> QED
    BY <2>1, <2>2, <2>3
<1>5. GithubTyped'
  BY <1>2, <1>3, <1>4 DEF GithubTyped
<1> QED
  BY <1>1, <1>2, <1>4, <1>5

\* What depends on no more than the amendment and the first read.
LEMMA CandidateKept ==
  ASSUME UNCHANGED <<candidate, first_read>>
  PROVE  /\ Amendment!Commented' = Amendment!Commented /\ Amendment!Requests' = Amendment!Requests
         /\ Amendment!StaticErrors(candidate)' = Amendment!StaticErrors(candidate)
         /\ Amendment!Compare(first_read, candidate)' = Amendment!Compare(first_read, candidate)
<1>1. Amendment!Commented' = Amendment!Commented
  BY DEF Amendment!Commented
<1>2. Amendment!Requests' = Amendment!Requests
  BY <1>1 DEF Amendment!Requests
<1>3. Amendment!StaticErrors(candidate)' = Amendment!StaticErrors(candidate)
  OBVIOUS
<1>4. Amendment!Compare(first_read, candidate)' = Amendment!Compare(first_read, candidate)
  BY <1>1 DEF Amendment!Compare, Amendment!LiveCommentErrors, Amendment!AsRendered, Amendment!Evidence, Amendment!Commented
<1> QED
  BY <1>1, <1>2, <1>3, <1>4

LEMMA ReadsKeep ==
  ASSUME AmendmentInv,
         \/ Amendment!ReadFirst \/ Amendment!FirstEnds \/ Amendment!ReadSecond \/ Amendment!SecondEnds
  PROVE  AmendmentInv'
<1>0. /\ amendment_pc \in Accepting /\ GithubTyped /\ Amendment!StaticErrors(candidate) = {} /\ Found(first_read)
      /\ UNCHANGED <<candidate, issues, subissues, blockers, comments>>
  BY DEF AmendmentInv, Accepting, Amendment!ReadFirst, Amendment!FirstEnds, Amendment!ReadSecond, Amendment!SecondEnds,
    Amendment!world
<1>1. Amendment!Commented \subseteq Members \cup {Epic}
  BY <1>0, CommentedAre
<1>2. GithubTyped' /\ Amendment!StaticErrors(candidate)' = {}
  BY <1>0, CandidateKept DEF GithubTyped
<1>a. Amendment!Commented' = Amendment!Commented /\ Amendment!Requests' = Amendment!Requests
  BY <1>0 DEF Amendment!Commented, Amendment!Requests
<1>3. ASSUME Amendment!ReadFirst PROVE AmendmentInv'
  <2>1. PICK r \in Amendment!Due(first_read) : ~Amendment!Refused(r) /\ first_read' = Amendment!Answered(first_read, r)
    BY <1>3 DEF Amendment!ReadFirst
  <2>2. amendment_pc = "first" /\ amendment_pc' = "first" /\ second_read' = second_read
    BY <1>3 DEF Amendment!ReadFirst
  <2>3. ReadBefore(first_read, issues, comments) /\ second_read = <<>>
    BY <2>2 DEF AmendmentInv
  <2>4. ReadBefore(Amendment!Answered(first_read, r), issues, comments) /\ Found(Amendment!Answered(first_read, r))
    BY <1>0, <1>1, <2>1, <2>3, ReadBeforeGrows, FoundGrows
  <2>5. ReadBefore(first_read, issues, comments)' /\ Found(first_read)'
    BY <1>0, <1>a, <2>1, <2>4 DEF ReadBefore, Found
  <2> QED
    BY <1>2, <2>2, <2>3, <2>5 DEF AmendmentInv, Accepting
<1>4. ASSUME Amendment!FirstEnds PROVE AmendmentInv'
  <2>1. /\ amendment_pc = "first" /\ DOMAIN first_read = Amendment!Requests /\ amendment_pc' = "second"
        /\ between' = [issues |-> issues, comments |-> comments] /\ UNCHANGED <<first_read, second_read>>
    BY <1>4 DEF Amendment!FirstEnds, Amendment!reads
  <2>2. ReadBefore(first_read, issues, comments) /\ second_read = <<>>
    BY <2>1 DEF AmendmentInv
  <2>3. between'.issues = issues /\ between'.comments = comments
    BY <2>1
  <2>4. BetweenPast'
    BY <1>0, <2>3 DEF BetweenPast, GithubTyped, IssuePast, CommentPast
  <2>5. ReadBefore(first_read, between.issues, between.comments)' /\ Found(first_read)'
    BY <1>0, <1>a, <2>1, <2>2, <2>3 DEF ReadBefore, Found
  <2>6. ReadAfter(between.issues, between.comments, second_read)'
    BY <1>a, <2>1, <2>2 DEF ReadAfter
  <2>7. (DOMAIN first_read = Amendment!Requests)'
    BY <1>a, <2>1
  <2> QED
    BY <1>2, <2>1, <2>4, <2>5, <2>6, <2>7 DEF AmendmentInv, Accepting
<1>5. ASSUME amendment_pc = "second"
      PROVE  /\ BetweenPast /\ DOMAIN first_read = Amendment!Requests
             /\ ReadBefore(first_read, between.issues, between.comments)
             /\ ReadAfter(between.issues, between.comments, second_read)
  BY <1>5 DEF AmendmentInv
<1>6. ASSUME UNCHANGED <<first_read, between>>, amendment_pc = "second"
      PROVE  /\ BetweenPast' /\ (DOMAIN first_read = Amendment!Requests)' /\ Found(first_read)'
             /\ ReadBefore(first_read, between.issues, between.comments)'
  <2>1. BetweenPast'
    BY <1>0, <1>5, <1>6 DEF BetweenPast
  <2>2. (DOMAIN first_read = Amendment!Requests)'
    BY <1>a, <1>5, <1>6
  <2>3. Found(first_read)' /\ ReadBefore(first_read, between.issues, between.comments)'
    BY <1>0, <1>a, <1>5, <1>6 DEF ReadBefore, Found
  <2> QED
    BY <2>1, <2>2, <2>3
<1>7. ASSUME Amendment!ReadSecond PROVE AmendmentInv'
  <2>1. PICK r \in Amendment!Due(second_read) : second_read' = Amendment!Answered(second_read, r)
    BY <1>7 DEF Amendment!ReadSecond
  <2>2. amendment_pc = "second" /\ amendment_pc' = "second" /\ UNCHANGED <<first_read, between>>
    BY <1>7 DEF Amendment!ReadSecond
  <2>3. ReadAfter(between.issues, between.comments, Amendment!Answered(second_read, r))
    BY <1>0, <1>1, <1>5, <2>2, ReadAfterGrows
  <2>4. ReadAfter(between.issues, between.comments, second_read)'
    BY <1>0, <1>a, <2>1, <2>2, <2>3 DEF ReadAfter
  <2> QED
    BY <1>2, <1>6, <2>2, <2>4 DEF AmendmentInv, Accepting
<1>8. ASSUME Amendment!SecondEnds PROVE AmendmentInv'
  <2>1. /\ amendment_pc = "second" /\ UNCHANGED <<first_read, second_read, between>>
        /\ amendment_pc' \in {"accepted", "rejected"}
        /\ amendment_pc' = "accepted" => first_read = second_read /\ Amendment!Compare(first_read, candidate) = {}
    BY <1>8 DEF Amendment!SecondEnds, Amendment!reads
  <2>2. ReadAfter(between.issues, between.comments, second_read)'
    BY <1>0, <1>a, <1>5, <2>1 DEF ReadAfter
  <2>3. (amendment_pc = "accepted" => first_read = second_read /\ Amendment!Compare(first_read, candidate) = {})'
    BY <1>0, <2>1, CandidateKept
  <2> QED
    BY <1>2, <1>6, <2>1, <2>2, <2>3 DEF AmendmentInv, Accepting
<1> QED
  BY <1>3, <1>4, <1>7, <1>8

LEMMA OthersKeepAmendment ==
  ASSUME AmendmentInv,
         \/ Amendment!Validate \/ Amendment!ReadFails
         \/ \E e \in GithubEdits : \/ Amendment!EditIssue(e) \/ Amendment!EditComment(e)
                                 \/ Amendment!DeleteComment(e) \/ Amendment!EditGraph(e)
  PROVE  AmendmentInv'
<1>0. GithubTyped
  BY DEF AmendmentInv
<1>1. ASSUME Amendment!Validate PROVE AmendmentInv'
  <2>1. /\ amendment_pc = "static" /\ amendment_pc' \in {"first", "rejected", "accepted offline"}
        /\ amendment_pc' = "first" => Amendment!StaticErrors(candidate) = {}
        /\ UNCHANGED <<candidate, issues, comments, first_read, second_read, between>>
    BY <1>1 DEF Amendment!Validate, Amendment!world, Amendment!reads
  <2>2. first_read' = <<>> /\ second_read' = <<>> /\ GithubTyped'
    BY <1>0, <2>1 DEF AmendmentInv, GithubTyped
  <2>3. ReadBefore(first_read, issues, comments)' /\ Found(first_read)'
    BY <2>2 DEF ReadBefore, Found
  <2>4. (amendment_pc = "first" => Amendment!StaticErrors(candidate) = {})'
    BY <2>1, CandidateKept
  <2> QED
    BY <2>1, <2>2, <2>3, <2>4 DEF AmendmentInv, Accepting
<1>2. ASSUME Amendment!ReadFails PROVE AmendmentInv'
  <2>1. amendment_pc' = "rejected" /\ UNCHANGED <<issues, comments>>
    BY <1>2 DEF Amendment!ReadFails, Amendment!world
  <2>2. GithubTyped'
    BY <1>0, <2>1 DEF GithubTyped
  <2> QED
    BY <2>1, <2>2 DEF AmendmentInv, Accepting
<1>3. ASSUME NEW e \in GithubEdits,
             \/ Amendment!EditIssue(e) \/ Amendment!EditComment(e)
             \/ Amendment!DeleteComment(e) \/ Amendment!EditGraph(e)
      PROVE  AmendmentInv'
  <2>1. /\ GithubTyped' /\ UNCHANGED <<candidate, amendment_pc, first_read, second_read, between>>
        /\ amendment_pc \in {"first", "second"}
        /\ \A i \in AmendmentIds : IssuePast(issues[i], issues'[i])
        /\ \A i \in Members \cup {Epic} : CommentPast(comments[i], comments'[i])
    BY <1>0, <1>3, EditsDate
  <2>2. /\ Amendment!StaticErrors(candidate) = {} /\ Found(first_read)
        /\ Amendment!Commented \subseteq Members \cup {Epic}
    BY <2>1, CommentedAre DEF AmendmentInv, Accepting
  <2>a. Amendment!Commented' = Amendment!Commented /\ Amendment!Requests' = Amendment!Requests
    BY <2>1, CandidateKept
  <2>3. Amendment!StaticErrors(candidate)' = {} /\ Found(first_read)'
    BY <2>1, <2>2, <2>a, CandidateKept DEF Found
  <2>4. CASE amendment_pc = "first"
    <3>1. ReadBefore(first_read, issues, comments) /\ second_read = <<>>
      BY <2>4 DEF AmendmentInv
    <3>2. ReadBefore(first_read, issues', comments')
      <4>1. \A i \in Amendment!Commented : OneComment(comments[i]) /\ OneComment(comments'[i])
        BY <1>0, <2>1, <2>2 DEF GithubTyped
      <4>2. \A i \in Amendment!Commented : Amendment!CommentsOf(i) \in DOMAIN first_read =>
              OneComment(first_read[Amendment!CommentsOf(i)])
        BY <3>1 DEF ReadBefore
      <4> QED
        BY <2>1, <2>2, <3>1, <4>1, <4>2, PastIsTransitive DEF ReadBefore
    <3>3. ReadBefore(first_read, issues, comments)'
      BY <2>1, <2>a, <3>2 DEF ReadBefore
    <3> QED
      BY <2>1, <2>3, <2>4, <3>1, <3>3 DEF AmendmentInv, Accepting
  <2>5. CASE amendment_pc = "second"
    <3>1. /\ BetweenPast /\ DOMAIN first_read = Amendment!Requests
          /\ ReadBefore(first_read, between.issues, between.comments)
          /\ ReadAfter(between.issues, between.comments, second_read)
      BY <2>5 DEF AmendmentInv
    <3>2. BetweenPast'
      BY <1>0, <2>1, <3>1, PastIsTransitive DEF BetweenPast, GithubTyped
    <3>3. (DOMAIN first_read = Amendment!Requests)'
      BY <2>1, <2>a, <3>1
    <3>4. /\ ReadBefore(first_read, between.issues, between.comments)'
          /\ ReadAfter(between.issues, between.comments, second_read)'
      BY <2>1, <2>a, <3>1 DEF ReadBefore, ReadAfter
    <3> QED
      BY <2>1, <2>3, <2>5, <3>2, <3>3, <3>4 DEF AmendmentInv, Accepting
  <2> QED
    BY <2>1, <2>4, <2>5
<1> QED
  BY <1>1, <1>2, <1>3

LEMMA AmendmentStep == AmendmentInv /\ (Amendment!Next \/ UNCHANGED amendment_vars) => AmendmentInv'
<1>1. ASSUME AmendmentInv, Amendment!Next PROVE AmendmentInv'
  BY <1>1, ReadsKeep, OthersKeepAmendment DEF Amendment!Next
<1>2. ASSUME AmendmentInv, UNCHANGED amendment_vars PROVE AmendmentInv'
  <2>1. UNCHANGED <<candidate, issues, subissues, blockers, comments, amendment_pc, first_read, second_read, between>>
    BY <1>2 DEF amendment_vars
  <2>2. /\ Amendment!Commented' = Amendment!Commented /\ Amendment!Requests' = Amendment!Requests
        /\ Amendment!StaticErrors(candidate)' = Amendment!StaticErrors(candidate)
        /\ Amendment!Compare(first_read, candidate)' = Amendment!Compare(first_read, candidate)
    BY <2>1, CandidateKept
  <2> QED
    BY <1>2, <2>1, <2>2
      DEF AmendmentInv, GithubTyped, BetweenPast, ReadBefore, ReadAfter, Found
<1> QED
  BY <1>1, <1>2

LEMMA RequestsAre ==
  /\ \A i \in AmendmentIds : Amendment!IssueOf(i) \in Amendment!Requests
  /\ \A i \in Amendment!Commented : Amendment!CommentOf(i) \in Amendment!Requests /\ Amendment!CommentsOf(i) \in Amendment!Requests
<1>1. ASSUME NEW i \in AmendmentIds PROVE Amendment!IssueOf(i) \in Amendment!Requests
  BY DEF Amendment!Requests, AmendmentIds, Amendment!Ids, Amendment!Core
<1>2. ASSUME NEW i \in Amendment!Commented
      PROVE  Amendment!CommentOf(i) \in Amendment!Requests /\ Amendment!CommentsOf(i) \in Amendment!Requests
  BY DEF Amendment!Requests
<1> QED
  BY <1>1, <1>2

\* Both the past and the future of the answers of the first read is what they are.
LEMMA AnswersHeld ==
  ASSUME AmendmentInv, amendment_pc = "accepted"
  PROVE  /\ \A i \in AmendmentIds : between.issues[i] = first_read[Amendment!IssueOf(i)]
         /\ \A i \in Amendment!Commented :
              first_read[Amendment!CommentsOf(i)] # {} => between.comments[i] = first_read[Amendment!CommentsOf(i)]
<1>1. /\ DOMAIN first_read = Amendment!Requests
      /\ ReadBefore(first_read, between.issues, between.comments)
      /\ ReadAfter(between.issues, between.comments, first_read)
  BY DEF AmendmentInv
<1>4. ASSUME NEW i \in Amendment!Commented PROVE OneComment(between.comments[i])
  BY CommentedAre DEF AmendmentInv, Accepting, BetweenPast
<1>2. ASSUME NEW i \in AmendmentIds PROVE between.issues[i] = first_read[Amendment!IssueOf(i)]
  <2>1. /\ IssuePast(first_read[Amendment!IssueOf(i)], between.issues[i])
        /\ IssuePast(between.issues[i], first_read[Amendment!IssueOf(i)])
    BY <1>1, RequestsAre DEF ReadBefore, ReadAfter
  <2> QED
    BY <2>1 DEF IssuePast
<1>3. ASSUME NEW i \in Amendment!Commented, first_read[Amendment!CommentsOf(i)] # {}
      PROVE  between.comments[i] = first_read[Amendment!CommentsOf(i)]
  <2> DEFINE was == first_read[Amendment!CommentsOf(i)]
             is == between.comments[i]
  <2>1. OneComment(was) /\ OneComment(is) /\ CommentPast(was, is) /\ CommentPast(is, was)
    BY <1>1, <1>4, RequestsAre DEF ReadBefore, ReadAfter
  <2> HIDE DEF was, is
  <2>2. SUFFICES ASSUME was # is PROVE FALSE
    BY DEF was, is
  <2>3. was # {}
    BY <1>3 DEF was
  <2>4. PICK d \in is, c \in was : is = {d} /\ was = {c} /\ d.updated < c.updated
    BY <2>1, <2>2, <2>3 DEF CommentPast
  <2>5. c.updated < d.updated
    BY <2>1, <2>2, <2>4 DEF CommentPast
  <2>6. c.updated \in Int /\ d.updated \in Int
    BY <2>1, <2>4 DEF OneComment
  <2> QED
    BY <2>4, <2>5, <2>6
<1> QED
  BY <1>2, <1>3

\* What is said of the issues depends on what each one is.
LEMMA IssueErrorsAre ==
  ASSUME NEW these, NEW other, NEW amendment, \A i \in AmendmentIds : these[i] = other[i]
  PROVE  Amendment!IssueErrors(these, amendment) = Amendment!IssueErrors(other, amendment)
<1>1. Amendment!Ids = AmendmentIds /\ Members \subseteq AmendmentIds /\ Epic \in AmendmentIds
  BY DEF Amendment!Ids, Amendment!Core, AmendmentIds
<1>2. /\ {i \in Members : these[i].state = "CLOSED" /\ these[i].reason = "completed"}
           = {i \in Members : other[i].state = "CLOSED" /\ other[i].reason = "completed"}
      /\ {i \in Members : these[i].state = "OPEN"} = {i \in Members : other[i].state = "OPEN"}
      /\ these[Epic] = other[Epic]
  BY <1>1
<1>3. UNION {Amendment!DriftErrors(i, these[i]) \cup Amendment!StateErrors(i, these[i], amendment) : i \in Amendment!Ids}
        = UNION {Amendment!DriftErrors(i, other[i]) \cup Amendment!StateErrors(i, other[i], amendment) : i \in Amendment!Ids}
  BY <1>1
<1> QED
  BY <1>2, <1>3 DEF Amendment!IssueErrors

LEMMA AmendmentKeeps == AmendmentInv => Amendment!AcceptedWasInForce
<1> SUFFICES ASSUME AmendmentInv, amendment_pc = "accepted" PROVE Amendment!AcceptedWasInForce
  BY DEF Amendment!AcceptedWasInForce
<1> DEFINE a == candidate.amendment
           answers == first_read
           shown == [i \in Amendment!Ids |-> answers[Amendment!IssueOf(i)]]
           exactly == [i \in Amendment!Commented |-> answers[Amendment!CommentOf(i)]]
           all == [i \in Amendment!Commented |-> answers[Amendment!CommentsOf(i)]]
           marks == [i \in Amendment!Commented |-> between.comments[i]]
           exact == [i \in Amendment!Commented |-> Amendment!Exact(i, marks[i])]
<1>1. /\ Amendment!StaticErrors(candidate) = {} /\ Found(answers) /\ BetweenPast
      /\ DOMAIN answers = Amendment!Requests /\ Amendment!Compare(answers, candidate) = {}
  BY DEF AmendmentInv, Accepting
<1>2. Amendment!IssueErrors(shown, a) = {} /\ Amendment!LiveCommentErrors(exactly, all, a) = {}
  BY <1>1, Zenon DEF Amendment!Compare
<1>3. Amendment!IssueErrors(between.issues, a) = {}
  <2>1. \A i \in AmendmentIds : between.issues[i] = shown[i]
    BY AnswersHeld DEF AmendmentIds, Amendment!Ids, Amendment!Core
  <2> HIDE DEF shown
  <2> QED
    BY <1>2, <2>1, IssueErrorsAre
<1>4. ASSUME NEW i \in Amendment!Commented
      PROVE  /\ marks[i] # {} /\ exact[i] = marks[i]
             /\ \A c \in marks[i] : Amendment!AsRendered(c, i, a)
  <2>1. /\ Amendment!Error(\E c \in exactly[i] : ~Amendment!AsRendered(c, i, a), "comment drifted") = {}
        /\ Amendment!Error(all[i] # exactly[i], "exactly one marker") = {}
    <3> HIDE DEF exactly, all
    <3> DEFINE of(j) == Amendment!Error(\E c \in exactly[j] : ~Amendment!AsRendered(c, j, a), "comment drifted")
                       \cup Amendment!Error(all[j] # exactly[j], "exactly one marker")
               every == {of(j) : j \in Amendment!Commented}
    <3>1. UNION every = {}
      BY <1>2, Zenon DEF Amendment!LiveCommentErrors
    <3>2. of(i) \in every
      OBVIOUS
    <3> HIDE DEF every
    <3>3. of(i) = {}
      BY <3>1, <3>2
    <3> QED
      BY <3>3
  <2>2. (\A c \in exactly[i] : Amendment!AsRendered(c, i, a)) /\ all[i] = exactly[i]
    BY <2>1, NoErrors
  <2>3. answers[Amendment!CommentOf(i)] # {}
    BY <1>1, RequestsAre DEF Found
  <2>4. answers[Amendment!CommentsOf(i)] = answers[Amendment!CommentOf(i)]
    BY <2>2
  <2>5. marks[i] = answers[Amendment!CommentOf(i)]
    BY <2>3, <2>4, AnswersHeld
  <2>6. \A c \in marks[i] : Amendment!AsRendered(c, i, a)
    BY <2>2, <2>5
  <2>7. Amendment!Exact(i, marks[i]) = marks[i]
    BY <2>6 DEF Amendment!Exact, Amendment!AsRendered
  <2> QED
    BY <2>3, <2>5, <2>6, <2>7
<1>5. Amendment!LiveCommentErrors(exact, marks, a) = {}
  <2> HIDE DEF marks, exact
  <2>1. ASSUME NEW i \in Amendment!Commented
        PROVE  /\ Amendment!Error(\E c \in exact[i] : ~Amendment!AsRendered(c, i, a), "comment drifted") = {}
               /\ Amendment!Error(marks[i] # exact[i], "exactly one marker") = {}
    BY <1>4 DEF Amendment!Error
  <2> QED
    BY <2>1 DEF Amendment!LiveCommentErrors
<1>6. ASSUME NEW t \in Amendment!Affected
      PROVE  \E c \in between.comments[t] :
               /\ between.comments[t] = {c} /\ c.body.marker.decision = Amendment!Decision(a)
               /\ c.body.owner = Amendment!Owner(t, Amendment!LaneFor([lanes |-> ExpectedLanes], t))
  <2>1. t \in Amendment!Commented /\ t \in Members /\ t # Epic
    BY <1>1, CommentedAre, AmendmentAssumed DEF Amendment!AmendmentAssumption
  <2>2. PICK c \in between.comments[t] : between.comments[t] = {c}
    BY <1>1, <1>4, <2>1 DEF BetweenPast, OneComment
  <2>3. c.body = Amendment!Rendered(a, t)
    BY <1>4, <2>1, <2>2 DEF Amendment!AsRendered
  <2>4. a.order = Epic /\ a.lanes = ExpectedLanes /\ a.decision = Amendment!Decision(a)
    BY <1>1, Checked
  <2>5. c.body = Amendment!RenderTicket(a, t)
    BY <2>1, <2>3, <2>4 DEF Amendment!Rendered
  <2>6. Amendment!LaneFor(a, t) = Amendment!LaneFor([lanes |-> ExpectedLanes], t)
    BY <2>4 DEF Amendment!LaneFor
  <2>7. c.body.marker = Amendment!Marker(a, t, Amendment!LaneFor(a, t)) /\ c.body.owner = Amendment!Owner(t, Amendment!LaneFor(a, t))
    BY <2>5 DEF Amendment!RenderTicket
  <2>8. c.body.marker.decision = a.decision
    BY <2>7 DEF Amendment!Marker
  <2> QED
    BY <2>2, <2>4, <2>6, <2>7, <2>8
<1> QED
  BY <1>3, <1>5, <1>6, Zenon DEF Amendment!AcceptedWasInForce

-----------------------------------------------------------------------------
(***************************************************************************)
(* The newsletter's snapshot (NewsletterCollect).                          *)
(***************************************************************************)

LEMMA CollectAssumed == Collect!CollectAssumption
BY ProgramsAssumption

NewsDaemons == 1 .. Configured

\* What was asked of GitHub: every request is held to as many points as it took.
BudgetHeld ==
  /\ calls \in Nat /\ used \in Nat /\ cost \in Nat /\ spent \in Nat
  /\ Collect!PointsHeld

\* What the daemons said: a known lifecycle comes from a daemon whose whole answer
\* was good, and what a good answer lists is the lifecycle that is known.
UnitsAgree ==
  /\ daemons \in [NewsDaemons -> {None, "available", "stale", "unavailable"}]
  /\ units \in [Planned -> Lives \cup {None}]
  /\ daemon_listed \in [NewsDaemons -> SUBSET Collect!Row]
  /\ Collect!LifecyclesAreWhole
  /\ \A d \in NewsDaemons : daemons[d] = "available" =>
       \A row \in daemon_listed[d] : row[2] \in Lives /\ units[row[1]] = row[2]

\* The counts are made when every daemon was fresh, and no daemon is asked later.
CountedLast ==
  /\ collect_stage = "counts" => Collect!Fresh
  /\ class_counts # None => collect_stage \in {"files", "write", "done"} /\ Collect!AllOrNoCounts

CollectInv == BudgetHeld /\ UnitsAgree /\ CountedLast

LEMMA CollectInit == Collect!Init => CollectInv
BY CollectAssumed DEF Collect!CollectAssumption, Collect!Init, CollectInv, BudgetHeld, UnitsAgree, CountedLast,
   Collect!PointsHeld, Collect!LifecyclesAreWhole, NewsDaemons

\* The tickets of a class that any daemon shows so, and the counts made of them.
ShownSo(lists, show, class) ==
  {t \in Planned : ClassOf[t] = class /\
     \E d \in NewsDaemons : \E row \in lists[d] : row[1] = t /\ Collect!Shown(row[2]) = show}

CountsOf(all, states, lists) ==
  all # None =>
    /\ \A d \in NewsDaemons : states[d] = "available"
    /\ \A show \in Collect!Shows, class \in Collect!Classes :
         all[show][class] = Cardinality(ShownSo(lists, show, class))

LEMMA SameCounts ==
  /\ Collect!AllOrNoCounts <=> CountsOf(class_counts, daemons, daemon_listed)
  /\ Collect!AllOrNoCounts' <=> CountsOf(class_counts', daemons', daemon_listed')
BY Zenon DEF Collect!AllOrNoCounts, CountsOf, ShownSo, NewsDaemons, Collect!Cardinality, Cardinality

\* A request keeps the budget.
LEMMA AskHolds ==
  ASSUME BudgetHeld, NEW told \in BOOLEAN, NEW points \in 0 .. Collect!Reserve, Collect!Ask(told, points)
  PROVE  BudgetHeld'
<1>1. points \in 0 .. 2 /\ RequestCeiling \in Nat /\ PointBudget \in Nat
  BY CollectAssumed DEF Collect!CollectAssumption, Collect!Reserve
<1>2. calls \in Nat /\ used \in Nat /\ cost \in Nat /\ spent \in Nat /\ spent <= used
  BY DEF BudgetHeld, Collect!PointsHeld
<1>3. calls < RequestCeiling /\ used + 2 < PointBudget
  BY DEF Collect!Ask, Collect!MayAsk, Collect!Reserve
<1>4. calls' = calls + 1 /\ spent' = spent + points
  BY DEF Collect!Ask
<1>5. CASE told
  <2>1. used' = used + points /\ cost' = cost + points /\ (cost_known' => cost_known)
    BY <1>5 DEF Collect!Ask, Collect!Held
  <2>2. cost_known => cost = spent
    BY DEF BudgetHeld, Collect!PointsHeld
  <2>3. cost_known' => cost' = spent'
    BY <2>1, <2>2, <1>4
  <2>4. calls' \in Nat /\ used' \in Nat /\ cost' \in Nat /\ spent' \in Nat /\ spent' <= used'
        /\ used' < PointBudget /\ calls' <= RequestCeiling
    BY <1>1, <1>2, <1>3, <1>4, <2>1
  <2> QED
    BY <2>1, <2>3, <2>4 DEF BudgetHeld, Collect!PointsHeld
<1>6. CASE ~told
  <2>1. used' = used + 2 /\ cost' = cost /\ ~cost_known'
    BY <1>6, <1>2 DEF Collect!Ask, Collect!Held, Collect!Reserve
  <2>2. calls' \in Nat /\ used' \in Nat /\ cost' \in Nat /\ spent' \in Nat /\ spent' <= used'
        /\ used' < PointBudget /\ calls' <= RequestCeiling
    BY <1>1, <1>2, <1>3, <1>4, <2>1
  <2> QED
    BY <2>1, <2>2 DEF BudgetHeld, Collect!PointsHeld
<1> QED
  BY <1>5, <1>6

\* Nothing is asked: the budget stays.
LEMMA BudgetRests == BudgetHeld /\ UNCHANGED Collect!asked => BudgetHeld'
BY DEF BudgetHeld, Collect!PointsHeld, Collect!asked

LEMMA UnitsRest == UnitsAgree /\ UNCHANGED <<units, Collect!daemon>> => UnitsAgree'
BY DEF UnitsAgree, Collect!LifecyclesAreWhole, Collect!daemon, NewsDaemons

\* A step that changes neither counts nor daemons, and does not leave the end.
LEMMA CountsRest ==
  ASSUME CountedLast, UNCHANGED <<units, class_counts, Collect!daemon>>,
         collect_stage' = "counts" => collect_stage = "counts" \/ Collect!Fresh,
         collect_stage \in {"files", "write", "done"} => collect_stage' \in {"files", "write", "done"}
  PROVE  CountedLast'
<1>1. daemons' = daemons /\ daemon_listed' = daemon_listed /\ class_counts' = class_counts
  BY DEF Collect!daemon
<1>2. Collect!Fresh' <=> Collect!Fresh
  BY <1>1 DEF Collect!Fresh
<1>3. Collect!AllOrNoCounts => Collect!AllOrNoCounts'
  BY <1>1, SameCounts
<1> QED
  BY <1>1, <1>2, <1>3 DEF CountedLast

\* A daemon's rows as they are applied.
LEMMA RowsApplied ==
  ASSUME UnitsAgree, NEW rows, rows \in Seq(Collect!Row)
  PROVE  LET good == Collect!Agreed(rows)
             after == Collect!Applied(rows, good)
             said == {rows[i] : i \in 1 .. Len(rows)} IN
         /\ said \subseteq Collect!Row
         /\ after \in [Planned -> Lives \cup {None}]
         /\ \A t \in Planned : after[t] # units[t] => good /\ <<t, after[t]>> \in said
         /\ \A t \in Planned : units[t] # None => after[t] = units[t]
         /\ good => \A row \in said : row[2] \in Lives /\ after[row[1]] = row[2]
<1> DEFINE good == Collect!Agreed(rows)
           after == Collect!Applied(rows, good)
           said == {rows[i] : i \in 1 .. Len(rows)}
           mine(t) == {i \in 1 .. Len(rows) : rows[i][1] = t}
           one(t) == CHOOSE i \in mine(t) : TRUE
<1>1. \A i \in 1 .. Len(rows) : rows[i] \in Collect!Row
  OBVIOUS
<1>2. \A i \in 1 .. Len(rows) : rows[i] = <<rows[i][1], rows[i][2]>> /\ rows[i][1] \in Planned
  BY <1>1 DEF Collect!Row
<1>3. \A t : mine(t) # {} => one(t) \in 1 .. Len(rows) /\ rows[one(t)][1] = t
  OBVIOUS
<1>4. after = [t \in Planned |-> IF ~good \/ mine(t) = {} THEN units[t] ELSE rows[one(t)][2]]
  BY DEF Collect!Applied
<1>5. good => \A i \in 1 .. Len(rows) : rows[i][2] \in Lives /\ units[rows[i][1]] \in {None, rows[i][2]}
  BY DEF Collect!Agreed
<1>6. good => \A i, k \in 1 .. Len(rows) : rows[i][1] = rows[k][1] => rows[i][2] = rows[k][2]
  <2> SUFFICES ASSUME good, NEW i \in 1 .. Len(rows), NEW k \in 1 .. Len(rows), rows[i][1] = rows[k][1]
               PROVE  rows[i][2] = rows[k][2]
    OBVIOUS
  <2>1. CASE k <= i
    BY <2>1 DEF Collect!Agreed
  <2>2. CASE i <= k
    BY <2>2 DEF Collect!Agreed
  <2> QED
    BY <2>1, <2>2
<1> HIDE DEF good, after, mine, one
<1>7. after \in [Planned -> Lives \cup {None}]
  BY <1>3, <1>4, <1>5 DEF UnitsAgree
<1>8. \A t \in Planned : after[t] # units[t] => good /\ <<t, after[t]>> \in said
  BY <1>2, <1>3, <1>4
<1>9. \A t \in Planned : units[t] # None => after[t] = units[t]
  BY <1>3, <1>4, <1>5
<1>10. ASSUME good, NEW i \in 1 .. Len(rows) PROVE rows[i][2] \in Lives /\ after[rows[i][1]] = rows[i][2]
  <2>1. i \in mine(rows[i][1])
    BY DEF mine
  <2> QED
    BY <1>2, <1>3, <1>4, <1>5, <1>6, <1>10, <2>1
<1> QED
  BY <1>1, <1>7, <1>8, <1>9, <1>10 DEF good, after

\* A read that failed.
LEMMA FailedRests ==
  ASSUME CollectInv, Collect!Asking, Collect!Failed
  PROVE  UnitsAgree' /\ CountedLast'
<1>1. collect_stage \in {"phases", "program", "merges", "closing", "evidence", "counts"}
  BY DEF Collect!Asking, Collect!Paged, Collect!Batched
<1>2. collect_stage' \in {"merges", "units", "fresh", "files"}
  BY DEF Collect!Failed, Collect!Ends, Collect!AfterFailure
<1>3. UNCHANGED <<units, class_counts, Collect!daemon>>
  BY DEF Collect!Failed
<1> QED
  BY <1>1, <1>2, <1>3, UnitsRest, CountsRest DEF CollectInv

\* A set of numbers has a smallest one.
LEMMA SmallestOf ==
  ASSUME NEW S, S \subseteq Nat, S # {}
  PROVE  \E k \in S : \A j \in S : k <= j
<1> DEFINE R == OpToRel(<, Nat)
<1>1. IsWellFoundedOn(R, Nat)
  BY NatLessThanWellFounded, Zenon
<1> HIDE DEF R
<1>2. PICK k \in S : \A j \in S : ~ (<<j, k>> \in R)
  BY <1>1, WFMin
<1>3. \A j \in Nat, m \in Nat : j < m => <<j, m>> \in R
  BY DEF R, OpToRel
<1>4. k \in Nat /\ \A j \in S : j \in Nat /\ ~(j < k)
  BY <1>2, <1>3
<1>5. \A j \in S : k <= j
  BY <1>4
<1> QED
  BY <1>5

\* A daemon is asked.
LEMMA DaemonAgrees ==
  ASSUME CollectInv, Collect!Daemon
  PROVE  UnitsAgree' /\ CountedLast'
<1> DEFINE d == CHOOSE k \in Collect!Unread : \A j \in Collect!Unread : k <= j
<1>1. collect_stage = "units" /\ collect_stage' = "units" /\ class_counts' = class_counts
  BY DEF Collect!Daemon
<1>2. class_counts = None
  BY <1>1 DEF CollectInv, CountedLast
<1>3. CountedLast'
  BY <1>1, <1>2 DEF CountedLast
<1>4. d \in NewsDaemons /\ daemons[d] = None
  <2>1. Collect!Unread # {} /\ Collect!Unread \subseteq Nat
    BY CollectAssumed DEF Collect!CollectAssumption, Collect!Daemon, Collect!Unread
  <2>2. \E k \in Collect!Unread : \A j \in Collect!Unread : k <= j
    BY <2>1, SmallestOf
  <2>3. d \in Collect!Unread
    BY <2>2
  <2> HIDE DEF d
  <2> QED
    BY <2>3 DEF Collect!Unread, NewsDaemons
<1>5. UnitsAgree
  BY DEF CollectInv
<1>6. None # "available"
  BY CollectAssumed DEF Collect!CollectAssumption
<1> HIDE DEF d
<1>7. ASSUME NEW state \in {"stale", "unavailable"},
             daemons' = [daemons EXCEPT ![d] = state], UNCHANGED <<units, daemon_listed>>
      PROVE  UnitsAgree'
  <2>1. daemons' \in [NewsDaemons -> {None, "available", "stale", "unavailable"}]
        /\ \A k \in NewsDaemons : daemons'[k] = IF k = d THEN state ELSE daemons[k]
    BY <1>4, <1>5, <1>7 DEF UnitsAgree
  <2>2. \A k \in NewsDaemons : daemons[k] = "available" => daemons'[k] = "available"
    BY <1>4, <1>6, <2>1
  <2>3. \A k \in NewsDaemons : daemons'[k] = "available" => daemons[k] = "available"
    BY <1>7, <2>1
  <2>4. Collect!LifecyclesAreWhole'
    BY <1>5, <1>7, <2>2 DEF UnitsAgree, Collect!LifecyclesAreWhole, NewsDaemons
  <2> QED
    BY <1>5, <1>7, <2>1, <2>3, <2>4 DEF UnitsAgree
<1>8. ASSUME NEW raw \in Collect!Raw, Collect!Envelope(raw) # "available",
             daemons' = [daemons EXCEPT ![d] = Collect!Envelope(raw)], UNCHANGED <<units, daemon_listed>>
      PROVE  UnitsAgree'
  <2>1. Collect!Envelope(raw) \in {"stale", "unavailable"}
    BY <1>8 DEF Collect!Envelope
  <2> QED
    BY <1>7, <1>8, <2>1
<1>9. ASSUME NEW rows \in {<<>>} \cup [1 .. 1 -> Collect!Row] \cup [1 .. 2 -> Collect!Row],
             daemons' = [daemons EXCEPT ![d] = IF Collect!Agreed(rows) THEN "available" ELSE "unavailable"],
             units' = Collect!Applied(rows, Collect!Agreed(rows)),
             daemon_listed' = [daemon_listed EXCEPT ![d] = {rows[i] : i \in 1 .. Len(rows)}]
      PROVE  UnitsAgree'
  <2>1. rows \in Seq(Collect!Row)
    <3>1. CASE rows = <<>>
      BY <3>1
    <3>2. ASSUME NEW n \in {1, 2}, rows \in [1 .. n -> Collect!Row]
          PROVE  rows \in Seq(Collect!Row)
      BY <3>2
    <3> QED
      BY <3>1, <3>2
  <2> DEFINE good == Collect!Agreed(rows)
             after == Collect!Applied(rows, good)
             said == {rows[i] : i \in 1 .. Len(rows)}
  <2>2. /\ said \subseteq Collect!Row
        /\ after \in [Planned -> Lives \cup {None}]
        /\ \A t \in Planned : after[t] # units[t] => good /\ <<t, after[t]>> \in said
        /\ \A t \in Planned : units[t] # None => after[t] = units[t]
        /\ good => \A row \in said : row[2] \in Lives /\ after[row[1]] = row[2]
    BY <1>5, <2>1, RowsApplied
  <2>3. units' = after /\ daemon_listed' = [daemon_listed EXCEPT ![d] = said]
        /\ daemons' = [daemons EXCEPT ![d] = IF good THEN "available" ELSE "unavailable"]
    BY <1>9
  <2> HIDE DEF good, after, said
  <2>4. /\ daemons' \in [NewsDaemons -> {None, "available", "stale", "unavailable"}]
        /\ units' \in [Planned -> Lives \cup {None}]
        /\ daemon_listed' \in [NewsDaemons -> SUBSET Collect!Row]
    BY <1>4, <1>5, <2>2, <2>3 DEF UnitsAgree
  <2>5. ASSUME NEW t \in Planned, units'[t] # None
        PROVE  \E k \in NewsDaemons : daemons'[k] = "available" /\ <<t, units'[t]>> \in daemon_listed'[k]
    <3>1. CASE units'[t] # units[t]
      <4>1. good /\ <<t, units'[t]>> \in said
        BY <2>2, <2>3, <3>1
      <4>2. daemons'[d] = "available" /\ daemon_listed'[d] = said
        BY <1>4, <1>5, <2>3, <4>1 DEF UnitsAgree
      <4> QED
        BY <1>4, <4>1, <4>2
    <3>2. CASE units'[t] = units[t]
      <4>1. PICK k \in NewsDaemons : daemons[k] = "available" /\ <<t, units[t]>> \in daemon_listed[k]
        BY <1>5, <2>5, <3>2 DEF UnitsAgree, Collect!LifecyclesAreWhole, NewsDaemons
      <4>2. k # d
        BY <1>4, <1>6, <4>1
      <4>3. daemons'[k] = daemons[k] /\ daemon_listed'[k] = daemon_listed[k]
        BY <1>5, <2>3, <4>2 DEF UnitsAgree
      <4> QED
        BY <3>2, <4>1, <4>3
    <3> QED
      BY <3>1, <3>2
  <2>6. Collect!LifecyclesAreWhole'
    BY <2>5 DEF Collect!LifecyclesAreWhole, NewsDaemons
  <2>7. ASSUME NEW k \in NewsDaemons, daemons'[k] = "available", NEW row \in daemon_listed'[k]
        PROVE  row[2] \in Lives /\ units'[row[1]] = row[2]
    <3>1. CASE k = d
      <4>1. daemon_listed'[k] = said /\ good
        BY <1>4, <1>5, <2>3, <2>7, <3>1 DEF UnitsAgree
      <4> QED
        BY <2>2, <2>3, <2>7, <4>1
    <3>2. CASE k # d
      <4>1. daemons'[k] = daemons[k] /\ daemon_listed'[k] = daemon_listed[k]
        BY <1>5, <2>3, <3>2 DEF UnitsAgree
      <4>2. row[2] \in Lives /\ units[row[1]] = row[2] /\ row \in Collect!Row
        BY <1>5, <2>7, <4>1 DEF UnitsAgree
      <4>3. row[1] \in Planned /\ row[2] # None
        BY <4>2, CollectAssumed DEF Collect!Row, Collect!CollectAssumption
      <4> QED
        BY <2>2, <2>3, <4>2, <4>3
    <3> QED
      BY <3>1, <3>2
  <2> QED
    BY <2>4, <2>6, <2>7 DEF UnitsAgree
<1>10. UnitsAgree'
  <2>1. \/ daemons' = [daemons EXCEPT ![d] = "unavailable"] /\ UNCHANGED <<units, daemon_listed>>
        \/ \E raw \in Collect!Raw : /\ Collect!Envelope(raw) # "available"
             /\ daemons' = [daemons EXCEPT ![d] = Collect!Envelope(raw)] /\ UNCHANGED <<units, daemon_listed>>
        \/ \E rows \in {<<>>} \cup [1 .. 1 -> Collect!Row] \cup [1 .. 2 -> Collect!Row] :
             /\ daemons' = [daemons EXCEPT ![d] = IF Collect!Agreed(rows) THEN "available" ELSE "unavailable"]
             /\ units' = Collect!Applied(rows, Collect!Agreed(rows))
             /\ daemon_listed' = [daemon_listed EXCEPT ![d] = {rows[i] : i \in 1 .. Len(rows)}]
    BY Zenon DEF Collect!Daemon, d
  <2> QED
    BY <1>7, <1>8, <1>9, <2>1
<1> QED
  BY <1>3, <1>10

\* The tickets are counted.
LEMMA CountedWhole ==
  ASSUME CollectInv, Collect!Count
  PROVE  CountedLast'
<1> DEFINE mine(show, class) == {t \in Planned : units[t] # None /\ ClassOf[t] = class /\ Collect!Shown(units[t]) = show}
           theirs(show, class) == ShownSo(daemon_listed, show, class)
<1>1. Collect!Fresh
  BY DEF Collect!Count, CollectInv, CountedLast
<1>2. UnitsAgree /\ \A d \in NewsDaemons : daemons[d] = "available"
  BY <1>1 DEF CollectInv, Collect!Fresh, NewsDaemons
<1>3. \A t \in Planned : units[t] # None => \E d \in NewsDaemons : <<t, units[t]>> \in daemon_listed[d]
  BY <1>2 DEF UnitsAgree, Collect!LifecyclesAreWhole, NewsDaemons
<1>4. \A d \in NewsDaemons : \A row \in daemon_listed[d] :
        row[1] \in Planned /\ units[row[1]] = row[2] /\ units[row[1]] # None
  BY <1>2, CollectAssumed DEF UnitsAgree, Collect!CollectAssumption, Collect!Row
<1>5. \A show, class : mine(show, class) = theirs(show, class)
  <2> TAKE show, class
  <2>1. ASSUME NEW t \in mine(show, class) PROVE t \in theirs(show, class)
    <3>1. PICK d \in NewsDaemons : <<t, units[t]>> \in daemon_listed[d]
      BY <1>3
    <3>2. <<t, units[t]>>[1] = t /\ Collect!Shown(<<t, units[t]>>[2]) = show
      OBVIOUS
    <3> QED
      BY <3>1, <3>2 DEF ShownSo
  <2>2. ASSUME NEW t \in theirs(show, class) PROVE t \in mine(show, class)
    <3>1. PICK d \in NewsDaemons : \E row \in daemon_listed[d] : row[1] = t /\ Collect!Shown(row[2]) = show
      BY DEF ShownSo
    <3>2. PICK row \in daemon_listed[d] : row[1] = t /\ Collect!Shown(row[2]) = show
      BY <3>1
    <3> QED
      BY <1>4, <3>2 DEF ShownSo
  <2> QED
    BY <2>1, <2>2
<1>6. class_counts' = [show \in Collect!Shows |-> [class \in Collect!Classes |-> Cardinality(mine(show, class))]]
  BY Zenon DEF Collect!Count, Collect!Cardinality, Cardinality
<1>7. daemons' = daemons /\ daemon_listed' = daemon_listed /\ collect_stage' = "files"
  BY DEF Collect!Count, Collect!daemon, Collect!Ends
<1> HIDE DEF mine
<1>8. \A show \in Collect!Shows, class \in Collect!Classes : class_counts'[show][class] = Cardinality(theirs(show, class))
  BY <1>5, <1>6
<1>9. Collect!AllOrNoCounts'
  <2>1. CountsOf(class_counts', daemons', daemon_listed')
    BY <1>2, <1>7, <1>8 DEF CountsOf
  <2> QED
    BY <2>1, SameCounts
<1> QED
  BY <1>7, <1>9 DEF CountedLast

\* Every step of the collector keeps what holds of its snapshot.
LEMMA CollectStep ==
  ASSUME CollectInv, Collect!Next
  PROVE  CollectInv'
<1> USE DEF CollectInv
<1>1. CASE Collect!Refused
  BY <1>1, BudgetRests, FailedRests DEF Collect!Refused
<1>2. CASE Collect!Lost
  BY <1>2, AskHolds, FailedRests DEF Collect!Lost
<1>3. CASE Collect!More
  <2>1. BudgetHeld'
    BY <1>3, AskHolds DEF Collect!More
  <2>2. collect_stage' = collect_stage /\ UNCHANGED <<units, class_counts, Collect!daemon>>
    BY <1>3 DEF Collect!More
  <2> QED
    BY <2>1, <2>2, UnitsRest, CountsRest
<1>4. CASE Collect!LastPage
  <2>1. BudgetHeld'
    BY <1>4, AskHolds DEF Collect!LastPage
  <2>2. UNCHANGED <<units, class_counts, Collect!daemon>>
    BY <1>4 DEF Collect!LastPage
  <2>3. collect_stage \in {"phases", "program", "merges"} /\ collect_stage' \in {"program", "closing"}
    BY <1>4 DEF Collect!LastPage, Collect!Ends
  <2> QED
    BY <2>1, <2>2, <2>3, UnitsRest, CountsRest
<1>5. CASE Collect!Searched
  <2>1. BudgetHeld'
    BY <1>5, BudgetRests DEF Collect!Searched
  <2>2. UNCHANGED <<units, class_counts, Collect!daemon>>
    BY <1>5 DEF Collect!Searched
  <2>3. collect_stage = "program" /\ collect_stage' = "merges"
    BY <1>5 DEF Collect!Searched, Collect!Ends
  <2> QED
    BY <2>1, <2>2, <2>3, UnitsRest, CountsRest
<1>6. CASE Collect!Fetch
  <2>1. BudgetHeld'
    BY <1>6, AskHolds DEF Collect!Fetch
  <2>2. collect_stage' = collect_stage /\ UNCHANGED <<units, class_counts, Collect!daemon>>
    BY <1>6 DEF Collect!Fetch
  <2> QED
    BY <2>1, <2>2, UnitsRest, CountsRest
<1>7. CASE Collect!Closed
  <2>1. BudgetHeld'
    BY <1>7, BudgetRests DEF Collect!Closed
  <2>2. UNCHANGED <<units, class_counts, Collect!daemon>>
    BY <1>7 DEF Collect!Closed
  <2>3. collect_stage = "closing" /\ collect_stage' = "units"
    BY <1>7 DEF Collect!Closed, Collect!Ends
  <2> QED
    BY <2>1, <2>2, <2>3, UnitsRest, CountsRest
<1>8. CASE Collect!Daemon
  <2>1. BudgetHeld'
    BY <1>8, BudgetRests DEF Collect!Daemon
  <2> QED
    BY <1>8, <2>1, DaemonAgrees
<1>9. CASE Collect!DaemonsRead
  <2>1. BudgetHeld'
    BY <1>9, BudgetRests DEF Collect!DaemonsRead
  <2>2. UNCHANGED <<units, class_counts, Collect!daemon>>
    BY <1>9 DEF Collect!DaemonsRead
  <2>3. collect_stage = "units" /\ collect_stage' = "evidence"
    BY <1>9 DEF Collect!DaemonsRead
  <2> QED
    BY <2>1, <2>2, <2>3, UnitsRest, CountsRest
<1>10. CASE Collect!Evidence
  <2>1. BudgetHeld'
    BY <1>10, BudgetRests DEF Collect!Evidence
  <2>2. UNCHANGED <<units, class_counts, Collect!daemon>>
    BY <1>10 DEF Collect!Evidence
  <2>3. collect_stage = "evidence" /\ collect_stage' = "fresh"
    BY <1>10 DEF Collect!Evidence, Collect!Ends
  <2> QED
    BY <2>1, <2>2, <2>3, UnitsRest, CountsRest
<1>11. CASE Collect!Allocate
  <2>1. BudgetHeld'
    BY <1>11, BudgetRests DEF Collect!Allocate
  <2>2. UNCHANGED <<units, class_counts, Collect!daemon>>
    BY <1>11 DEF Collect!Allocate
  <2>3. collect_stage = "fresh" /\ (collect_stage' = "counts" => Collect!Fresh)
    BY <1>11 DEF Collect!Allocate
  <2> QED
    BY <2>1, <2>2, <2>3, UnitsRest, CountsRest
<1>12. CASE Collect!Count
  <2>1. BudgetHeld'
    BY <1>12, BudgetRests DEF Collect!Count
  <2>2. UnitsAgree'
    BY <1>12, UnitsRest DEF Collect!Count
  <2> QED
    BY <1>12, <2>1, <2>2, CountedWhole
<1>13. CASE Collect!ReadFiles \/ Collect!Finish
  <2>1. BudgetHeld'
    BY <1>13, BudgetRests DEF Collect!ReadFiles, Collect!Finish
  <2>2. UNCHANGED <<units, class_counts, Collect!daemon>>
    BY <1>13 DEF Collect!ReadFiles, Collect!Finish
  <2>3. collect_stage' \in {"write", "done"}
    BY <1>13 DEF Collect!ReadFiles, Collect!Finish, Collect!Ends
  <2> QED
    BY <2>1, <2>2, <2>3, UnitsRest, CountsRest
<1> QED
  BY <1>1, <1>2, <1>3, <1>4, <1>5, <1>6, <1>7, <1>8, <1>9, <1>10, <1>11, <1>12, <1>13 DEF Collect!Next

LEMMA CollectRests == CollectInv /\ UNCHANGED collect_vars => CollectInv'
<1> SUFFICES ASSUME CollectInv, UNCHANGED collect_vars PROVE CollectInv'
  OBVIOUS
<1>1. UNCHANGED Collect!asked /\ UNCHANGED <<units, class_counts, Collect!daemon>> /\ collect_stage' = collect_stage
  BY DEF collect_vars, Collect!asked, Collect!daemon
<1> QED
  BY <1>1, BudgetRests, UnitsRest, CountsRest DEF CollectInv

LEMMA CollectTrue ==
  CollectInv => Collect!PointsHeld /\ Collect!LifecyclesAreWhole /\ Collect!AllOrNoCounts
BY DEF CollectInv, BudgetHeld, UnitsAgree, CountedLast, Collect!AllOrNoCounts

-----------------------------------------------------------------------------
(***************************************************************************)
(* The program's figures (NewsletterProgram).                              *)
(***************************************************************************)

LEMMA ProgramAssumed == IsFiniteSet(Planned) /\ MobileTickets \subseteq Planned /\ None \notin BOOLEAN
BY ProgramsAssumption, Zenon DEF Program!ProgramAssumption, Program!IsFiniteSet, IsFiniteSet

\* Every ticket's row is one; a day's snapshot that is kept has the tickets.
ProgramTyped ==
  /\ today \in [Planned -> Program!Row \cup {None}]
  /\ yesterday # None => yesterday \in [Planned -> Program!Row \cup {None}]

LEMMA ProgramInit == Program!Init => ProgramTyped
BY DEF Program!Init, ProgramTyped

LEMMA ProgramStep ==
  ASSUME ProgramTyped, Program!Next
  PROVE  ProgramTyped'
<1>1. CASE Program!Midnight
  BY <1>1 DEF ProgramTyped, Program!Midnight
<1>2. ASSUME NEW t \in Planned,
             Program!TakeIn(t) \/ Program!TakeOut(t) \/ Program!Close(t) \/ Program!Reopen(t)
             \/ Program!Pause(t) \/ Program!Work(t)
      PROVE  ProgramTyped'
  <2>1. \E row \in Program!Row \cup {None} : Program!Set(t, row)
    <3>1. today[t] # None => today[t] \in Program!Row
      BY DEF ProgramTyped
    <3> QED
      BY <1>2, <3>1 DEF Program!TakeIn, Program!TakeOut, Program!Close, Program!Reopen, Program!Pause, Program!Work,
         Program!Row, Program!States, Program!Opened
  <2> QED
    BY <2>1 DEF ProgramTyped, Program!Set
<1> QED
  BY <1>1, <1>2 DEF Program!Next

LEMMA ProgramRests == ProgramTyped /\ UNCHANGED program_vars => ProgramTyped'
BY DEF ProgramTyped, program_vars

\* The tickets a snapshot has with rows of some kind, counted.
LEMMA PlannedCounts ==
  ASSUME NEW S, S \subseteq Planned
  PROVE  IsFiniteSet(S) /\ Cardinality(S) \in Nat
BY ProgramAssumed, FS_Subset, FS_CardinalityType

LEMMA ProgramCount == \A S : Program!Cardinality(S) = Cardinality(S)
BY DEF Program!Cardinality, Cardinality

\* Two sets without a common member, and a set less another.
LEMMA SplitCounts ==
  ASSUME NEW S, NEW T, S \subseteq Planned, T \subseteq Planned, S \cap T = {}
  PROVE  Cardinality(S \cup T) = Cardinality(S) + Cardinality(T)
<1>1. IsFiniteSet(S) /\ IsFiniteSet(T) /\ Cardinality(S) \in Nat /\ Cardinality(T) \in Nat
  BY PlannedCounts
<1>2. Cardinality(S \cup T) = Cardinality(S) + Cardinality(T) - Cardinality(S \cap T)
  BY <1>1, FS_Union
<1>3. Cardinality(S \cap T) = 0
  BY FS_EmptySet
<1> QED
  BY <1>1, <1>2, <1>3

\* A set is what it has in common with another and what it has not.
LEMMA PartCounts ==
  ASSUME NEW S, NEW T, S \subseteq Planned, T \subseteq Planned
  PROVE  Cardinality(S) = Cardinality(S \ T) + Cardinality(S \cap T)
<1>1. S = (S \ T) \cup (S \cap T) /\ (S \ T) \cap (S \cap T) = {}
  OBVIOUS
<1> QED
  BY <1>1, SplitCounts

LEMMA StatesHold ==
  ASSUME ProgramTyped
  PROVE  Program!StatesAddUp
<1> DEFINE of(state) == {t \in Program!Known(today) : Program!State(t, today[t]) = state}
           bar == Program!StateCounts(today)
           total == {t \in Program!Known(today) \cap Planned : ~Program!NotPlanned(today[t])}
           nobody == [t \in Planned |-> None]
           shelved == {t \in Program!Known(today) : Program!Shelved(t, today[t])
                         /\ (t \notin Program!Known(nobody) \/ ~Program!Shelved(t, nobody[t]))}
<1>1. \A state \in Program!Bar : bar[state] = Cardinality(of(state))
  BY ProgramCount DEF Program!StateCounts
<1>2. Program!Known(today) \subseteq Planned /\ \A t \in Program!Known(today) : today[t] \in Program!Row
  BY DEF Program!Known, ProgramTyped
<1>3. \A state : of(state) \subseteq Planned
  BY <1>2
<1>4. \A state, other : state # other => of(state) \cap of(other) = {}
  OBVIOUS
<1>5. of("done") = {t \in Program!Known(today) \cap Planned : Program!Completed(today[t])}
  BY <1>2 DEF Program!State, Program!Completed, Program!NotPlanned
<1>6. total = of("done") \cup of("active") \cup of("todo") \cup of("paused") \cup of("shelved")
  <2>1. \A t \in Program!Known(today) :
          Program!State(t, today[t]) \in {"done", "active", "todo", "paused", "shelved"} <=> ~Program!NotPlanned(today[t])
    BY DEF Program!State
  <2> QED
    BY <1>2, <2>1
<1>7. shelved = of("shelved")
  <2>1. Program!Known(nobody) = {}
    BY DEF Program!Known
  <2>2. \A t \in Program!Known(today) : Program!Shelved(t, today[t]) <=> Program!State(t, today[t]) = "shelved"
    BY DEF Program!State, Program!Shelved
  <2> QED
    BY <2>1, <2>2
<1>8. bar["done"] = Program!Done(today, Planned)
  BY <1>1, <1>5, ProgramCount DEF Program!Done, Program!Bar
<1>9. bar["shelved"] = Program!Transitions(today, nobody).shelved
  <2>1. Program!Transitions(today, nobody).shelved = Cardinality(shelved)
    BY ProgramCount DEF Program!Transitions
  <2> QED
    BY <1>1, <1>7, <2>1 DEF Program!Bar
<1>10. bar["done"] + bar["active"] + bar["todo"] + bar["paused"] + bar["shelved"] = Program!Total(today, Planned)
  <2>1. Program!Total(today, Planned) = Cardinality(total)
    BY ProgramCount DEF Program!Total
  <2> HIDE DEF of, bar, total
  <2>2. Cardinality(of("done") \cup of("active")) = Cardinality(of("done")) + Cardinality(of("active"))
    BY <1>3, <1>4, SplitCounts
  <2>3. Cardinality(of("done") \cup of("active") \cup of("todo"))
        = Cardinality(of("done") \cup of("active")) + Cardinality(of("todo"))
    <3>1. (of("done") \cup of("active")) \cap of("todo") = {}
      BY <1>4
    <3> QED
      BY <1>3, <3>1, SplitCounts
  <2>4. Cardinality(of("done") \cup of("active") \cup of("todo") \cup of("paused"))
        = Cardinality(of("done") \cup of("active") \cup of("todo")) + Cardinality(of("paused"))
    <3>1. (of("done") \cup of("active") \cup of("todo")) \cap of("paused") = {}
      BY <1>4
    <3> QED
      BY <1>3, <3>1, SplitCounts
  <2>5. Cardinality(total)
        = Cardinality(of("done") \cup of("active") \cup of("todo") \cup of("paused")) + Cardinality(of("shelved"))
    <3>1. (of("done") \cup of("active") \cup of("todo") \cup of("paused")) \cap of("shelved") = {}
      BY <1>4
    <3> QED
      BY <1>3, <1>6, <3>1, SplitCounts
  <2>6. /\ bar["done"] = Cardinality(of("done")) /\ bar["active"] = Cardinality(of("active"))
        /\ bar["todo"] = Cardinality(of("todo")) /\ bar["paused"] = Cardinality(of("paused"))
        /\ bar["shelved"] = Cardinality(of("shelved"))
    BY <1>1 DEF Program!Bar
  <2> QED
    BY <2>1, <2>2, <2>3, <2>4, <2>5, <2>6
<1> QED
  BY <1>8, <1>9, <1>10 DEF Program!StatesAddUp

LEMMA ScopeHolds ==
  ASSUME ProgramTyped
  PROVE  Program!ScopeAccounts
<1> SUFFICES ASSUME yesterday # None
             PROVE  Program!Total(today, Planned) - Program!Total(yesterday, Planned) =
                      Program!Transitions(today, yesterday).added - Program!Transitions(today, yesterday).removed
                      + Program!Cardinality({t \in {t \in Program!Known(yesterday) : Program!NotPlanned(yesterday[t])} :
                          t \notin Program!Known(today) \/ ~Program!NotPlanned(today[t])})
  BY DEF Program!ScopeAccounts
<1> DEFINE K == Program!Known(today)
           L == Program!Known(yesterday)
           P == {t \in K : Program!NotPlanned(today[t])}
           Q == {t \in L : Program!NotPlanned(yesterday[t])}
<1>1. K \subseteq Planned /\ L \subseteq Planned /\ P \subseteq K /\ Q \subseteq L
  BY DEF Program!Known
<1>2. Program!Total(today, Planned) = Cardinality(K \ P)
  <2>1. {t \in K \cap Planned : ~Program!NotPlanned(today[t])} = K \ P
    BY <1>1
  <2> QED
    BY <2>1, ProgramCount DEF Program!Total
<1>3. Program!Total(yesterday, Planned) = Cardinality(L \ Q)
  <2>1. {t \in L \cap Planned : ~Program!NotPlanned(yesterday[t])} = L \ Q
    BY <1>1
  <2> QED
    BY <2>1, ProgramCount DEF Program!Total
<1>4. Program!Transitions(today, yesterday).added = Cardinality(K \ L)
  BY ProgramCount DEF Program!Transitions
<1>5. Program!Transitions(today, yesterday).removed = Cardinality(L \ K) + Cardinality(P \ Q)
  <2>1. {t \in K : Program!NotPlanned(today[t]) /\ (t \notin L \/ ~Program!NotPlanned(yesterday[t]))} = P \ Q
    OBVIOUS
  <2> QED
    BY <2>1, ProgramCount DEF Program!Transitions, Program!Removed
<1>6. Program!Cardinality({t \in {t \in Program!Known(yesterday) : Program!NotPlanned(yesterday[t])} :
        t \notin Program!Known(today) \/ ~Program!NotPlanned(today[t])}) = Cardinality(Q \ P)
  <2>1. {t \in Q : t \notin K \/ ~Program!NotPlanned(today[t])} = Q \ P
    OBVIOUS
  <2> QED
    BY <2>1, ProgramCount
<1> HIDE DEF K, L, P, Q
<1>7. K \cap P = P /\ L \cap Q = Q /\ L \cap K = K \cap L /\ Q \cap P = P \cap Q
  BY <1>1
<1>8. /\ Cardinality(K) = Cardinality(K \ P) + Cardinality(P)
      /\ Cardinality(L) = Cardinality(L \ Q) + Cardinality(Q)
      /\ Cardinality(K) = Cardinality(K \ L) + Cardinality(K \cap L)
      /\ Cardinality(L) = Cardinality(L \ K) + Cardinality(K \cap L)
      /\ Cardinality(P) = Cardinality(P \ Q) + Cardinality(P \cap Q)
      /\ Cardinality(Q) = Cardinality(Q \ P) + Cardinality(P \cap Q)
  <2>1. P \subseteq Planned /\ Q \subseteq Planned
    BY <1>1
  <2>2. /\ Cardinality(K) = Cardinality(K \ P) + Cardinality(K \cap P)
        /\ Cardinality(L) = Cardinality(L \ Q) + Cardinality(L \cap Q)
    BY <1>1, <2>1, PartCounts
  <2>3. /\ Cardinality(K) = Cardinality(K \ L) + Cardinality(K \cap L)
        /\ Cardinality(L) = Cardinality(L \ K) + Cardinality(L \cap K)
    BY <1>1, PartCounts
  <2>4. /\ Cardinality(P) = Cardinality(P \ Q) + Cardinality(P \cap Q)
        /\ Cardinality(Q) = Cardinality(Q \ P) + Cardinality(Q \cap P)
    BY <2>1, PartCounts
  <2> QED
    BY <1>7, <2>2, <2>3, <2>4
<1>9. /\ Cardinality(K) \in Nat /\ Cardinality(L) \in Nat /\ Cardinality(P) \in Nat /\ Cardinality(Q) \in Nat
      /\ Cardinality(K \ P) \in Nat /\ Cardinality(L \ Q) \in Nat /\ Cardinality(K \ L) \in Nat
      /\ Cardinality(L \ K) \in Nat /\ Cardinality(P \ Q) \in Nat /\ Cardinality(Q \ P) \in Nat
      /\ Cardinality(K \cap L) \in Nat /\ Cardinality(P \cap Q) \in Nat
  BY <1>1, PlannedCounts
<1> QED
  BY <1>2, <1>3, <1>4, <1>5, <1>6, <1>8, <1>9

LEMMA FinishedHolds ==
  ASSUME ProgramTyped
  PROVE  Program!FinishedIsNew
<1> SUFFICES ASSUME NEW lane \in Program!Lanes(today), Program!Finished(lane, today, yesterday) = TRUE
             PROVE  \E t \in Program!Known(yesterday) :
                      LaneOf[t] = lane /\ yesterday[t].state \in {"open", "closed"} /\
                      (t \notin Program!Known(today) \/ Program!Completed(today[t]) \/ Program!NotPlanned(today[t]))
  BY DEF Program!FinishedIsNew
<1> DEFINE in == {t \in Planned : LaneOf[t] = lane}
           done(rows) == {t \in Program!Known(rows) \cap in : Program!Completed(rows[t])}
           total(rows) == {t \in Program!Known(rows) \cap in : ~Program!NotPlanned(rows[t])}
<1>1. yesterday # None
  BY ProgramAssumed DEF Program!Finished
<1>2. Program!Done(today, in) = Program!Total(today, in) /\ Program!Done(yesterday, in) < Program!Total(yesterday, in)
  BY <1>1 DEF Program!Finished
<1>3. Cardinality(done(today)) = Cardinality(total(today)) /\ Cardinality(done(yesterday)) < Cardinality(total(yesterday))
  BY <1>2, ProgramCount DEF Program!Done, Program!Total
<1>4. done(today) \subseteq total(today) /\ total(today) \subseteq Planned
  BY DEF Program!Completed, Program!NotPlanned
<1>5. done(today) = total(today)
  BY <1>3, <1>4, PlannedCounts, FS_Subset
<1>6. total(yesterday) \subseteq Planned /\ done(yesterday) \subseteq Planned
  OBVIOUS
<1>7. ~ (total(yesterday) \subseteq done(yesterday))
  <2> HIDE DEF total, done
  <2>1. IsFiniteSet(done(yesterday)) /\ Cardinality(done(yesterday)) \in Nat /\ Cardinality(total(yesterday)) \in Nat
    BY <1>6, PlannedCounts
  <2>2. total(yesterday) \subseteq done(yesterday) => Cardinality(total(yesterday)) <= Cardinality(done(yesterday))
    BY <2>1, FS_Subset
  <2> QED
    BY <1>3, <2>1, <2>2
<1>8. PICK t \in total(yesterday) : t \notin done(yesterday)
  BY <1>7
<1>9. yesterday[t] \in Program!Row
  BY <1>1, <1>8 DEF ProgramTyped, Program!Known
<1>10. yesterday[t].state \in {"open", "closed"}
  BY <1>8, <1>9 DEF Program!Row, Program!States, Program!Completed, Program!NotPlanned
<1>11. t \in Program!Known(today) => Program!Completed(today[t]) \/ Program!NotPlanned(today[t])
  BY <1>5, <1>8
<1> QED
  BY <1>8, <1>10, <1>11

-----------------------------------------------------------------------------
(***************************************************************************)
(* Live and verified merges (NewsletterLive).                              *)
(***************************************************************************)

LiveTyped ==
  /\ merges \in Nat /\ merges_old \in Nat /\ merges_gone \in Nat
  /\ merges_gone <= merges_old /\ merges_old <= merges
  /\ verified \subseteq DOMAIN Features

LEMMA LiveInit == Live!Init => LiveTyped
BY DEF Live!Init, LiveTyped

LEMMA LiveStep == LiveTyped /\ Live!Next => LiveTyped'
BY DEF LiveTyped, Live!Next, Live!MergeOne, Live!Midnight, Live!Deploy, Live!Answer, Live!Complete, Live!Verify

LEMMA LiveRests == LiveTyped /\ UNCHANGED live_vars => LiveTyped'
BY DEF LiveTyped, live_vars

\* What is said of a merge is so in the builds.
LEMMA LiveSaid ==
  ASSUME NEW merge \in Nat, Live!Live(merge) # None
  PROVE  Live!Live(merge) = TRUE <=> \E d \in Live!Builds : merge <= deployed_build[d]
<1>1. CASE \E d \in Live!Builds : Live!Holds(d, merge)
  <2>1. Live!Live(merge) = TRUE
    BY <1>1 DEF Live!Live
  <2>2. PICK d \in Live!Builds : Live!Holds(d, merge)
    BY <1>1
  <2>3. merge <= merge
    OBVIOUS
  <2>4. merge <= deployed_build[d]
    BY <2>2, <2>3 DEF Live!Holds
  <2> QED
    BY <2>1, <2>4
<1>2. CASE ~ \E d \in Live!Builds : Live!Holds(d, merge)
  <2>1. Live!Live(merge) = FALSE /\ \A d \in Live!Builds : d \in ancestry
    BY <1>2 DEF Live!Live, Live!Denies
  <2> QED
    BY <1>2, <2>1 DEF Live!Holds
<1> QED
  BY <1>1, <1>2

LEMMA LiveHolds ==
  ASSUME LiveTyped
  PROVE  Live!LiveIsProven
<1> SUFFICES ASSUME Live!LiveCount # None
             PROVE  Live!LiveCount
                      = Live!Cardinality({merge \in Live!Window : \E d \in Live!Builds : merge <= deployed_build[d]})
  BY DEF Live!LiveIsProven
<1>1. Live!LiveCount = Live!Cardinality({merge \in Live!Window : Live!Live(merge) = TRUE})
      /\ \A merge \in Live!Window : Live!Live(merge) # None
  BY DEF Live!LiveCount
<1>2. \A merge \in Live!Window : merge \in Nat
  BY DEF Live!Window, LiveTyped
<1>3. {merge \in Live!Window : Live!Live(merge) = TRUE}
      = {merge \in Live!Window : \E d \in Live!Builds : merge <= deployed_build[d]}
  BY <1>1, <1>2, LiveSaid
<1> QED
  BY <1>1, <1>3

LEMMA VerifiedHolds ==
  ASSUME LiveTyped
  PROVE  Live!VerifiedIsProven
<1> DEFINE judged == {f \in DOMAIN Features : Features[f] # {} /\ Features[f] \subseteq completed_tickets}
           Related(f) == {merge \in merges_gone + 1 .. merges : MergeCloses[merge] \in Features[f]}
           given == {f \in judged \cap verified : \A merge \in Related(f) : Live!Live(merge) = TRUE}
           proven == {f \in verified :
             /\ Features[f] # {} /\ Features[f] \subseteq completed_tickets
             /\ \A t \in Features[f] : \E merge \in 1 .. merges : MergeCloses[merge] = t
             /\ \A merge \in 1 .. merges : MergeCloses[merge] \in Features[f] =>
                  \E d \in Live!Builds : merge <= deployed_build[d]}
<1> SUFFICES ASSUME Live!FinishedVerified # None
             PROVE  Live!FinishedVerified = Live!Cardinality(proven)
  BY DEF Live!VerifiedIsProven
<1>1. /\ Live!FinishedVerified = Live!Cardinality(given)
      /\ \A f \in judged : /\ Live!MergesComplete(f) /\ Live!Merged(Features[f], Related(f))
                           /\ \A merge \in Related(f) : Live!Live(merge) # None
  BY DEF Live!FinishedVerified
<1>2. \A f \in judged : \A merge \in 1 .. merges : MergeCloses[merge] \in Features[f] <=> merge \in Related(f)
  <2> SUFFICES ASSUME NEW f \in judged, NEW merge \in 1 .. merges
               PROVE  MergeCloses[merge] \in Features[f] <=> merge \in Related(f)
    OBVIOUS
  <2>1. merge \in 1 .. merges_gone => MergeCloses[merge] \notin Features[f]
    BY <1>1 DEF Live!MergesComplete
  <2> QED
    BY <2>1 DEF LiveTyped
<1>3. \A f : \A merge \in Related(f) : merge \in Nat /\ merge \in 1 .. merges
  BY DEF LiveTyped
<1>4. \A f \in judged : \A t \in Features[f] : \E merge \in 1 .. merges : MergeCloses[merge] = t
  BY <1>1, <1>3 DEF Live!Merged
<1>5. \A f \in judged : \A merge \in Related(f) :
        Live!Live(merge) = TRUE <=> \E d \in Live!Builds : merge <= deployed_build[d]
  BY <1>1, <1>3, LiveSaid
<1>6. given = proven
  <2> HIDE DEF Related
  <2>1. \A f \in judged : (\A merge \in Related(f) : Live!Live(merge) = TRUE)
          <=> \A merge \in 1 .. merges : MergeCloses[merge] \in Features[f] =>
                \E d \in Live!Builds : merge <= deployed_build[d]
    BY <1>2, <1>3, <1>5
  <2>2. verified \subseteq DOMAIN Features
    BY DEF LiveTyped
  <2>3. \A f : f \in proven => f \in judged /\ f \in verified
    BY <2>2
  <2> QED
    BY <1>4, <2>1, <2>3
<1> QED
  BY <1>1, <1>6

-----------------------------------------------------------------------------
(***************************************************************************)
(* The programs together: each keeps its invariant, and rests while another *)
(* runs.                                                                   *)
(***************************************************************************)

LEMMA StartsAs ==
  ASSUME Init
  PROVE  /\ tool = "broker" => Broker!Init
         /\ tool = "session" => Session!Init
         /\ tool = "wal" => Wal!Init
         /\ tool = "reap" => Reap!Init
         /\ tool = "tree" => Tree!Init
         /\ tool = "start" => Start!Init
         /\ tool = "gate" => Gate!Init
         /\ tool = "daily" => Daily!Init
         /\ tool = "ci" => Ci!Init
         /\ tool = "progress" => Progress!Init
         /\ tool = "amendment" => Amendment!Init
         /\ tool = "collect" => Collect!Init
         /\ tool = "program" => Program!Init
         /\ tool = "live" => Live!Init
BY DEF Init, Started

LEMMA StepsAs ==
  ASSUME [Next]_vars
  PROVE  /\ tool' = tool
         /\ tool = "broker" => Broker!Next \/ UNCHANGED broker_vars
         /\ tool = "session" => Session!Next \/ UNCHANGED session_vars
         /\ tool = "wal" => Wal!Next \/ UNCHANGED wal_vars
         /\ tool = "reap" => Reap!Next \/ UNCHANGED reap_vars
         /\ tool = "tree" => Tree!Next \/ UNCHANGED tree_vars
         /\ tool = "start" => Start!Next \/ UNCHANGED start_vars
         /\ tool = "gate" => Gate!Next \/ UNCHANGED gate_vars
         /\ tool = "daily" => Daily!Next \/ UNCHANGED daily_vars
         /\ tool = "ci" => Ci!Next \/ UNCHANGED ci_vars
         /\ tool = "progress" => Progress!Next \/ UNCHANGED progress_vars
         /\ tool = "amendment" => Amendment!Next \/ UNCHANGED amendment_vars
         /\ tool = "collect" => Collect!Next \/ UNCHANGED collect_vars
         /\ tool = "program" => Program!Next \/ UNCHANGED program_vars
         /\ tool = "live" => Live!Next \/ UNCHANGED live_vars
<1>1. CASE Next
  BY <1>1 DEF Next, Step, Only
<1>2. CASE UNCHANGED vars
  BY <1>2 DEF vars
<1> QED
  BY <1>1, <1>2

\* A fleet of brokers opens a cold ledger, writes nothing before the ledger
\* refuses those that could not honour it, and the resident ones defer to a newer
\* stamp (00_schema.py), whatever the brokers, their versions and the columns are.
THEOREM UsableLedger == Spec => LedgerStaysUsable
<1> DEFINE Inv == (tool = "broker" => BrokerInv)
<1>1. Init => Inv
  BY StartsAs, BrokerInit
<1>2. Inv /\ [Next]_vars => Inv'
  BY StepsAs, BrokerStep
<1>3. Inv => (tool = "broker" => Broker!ColdStartOpens /\ Broker!WritersPrepare)
  BY BrokerKeeps
<1>4. Inv /\ [Next]_vars => [tool = "broker" => Broker!ResidentsDefer]_vars
  BY BrokerKeeps
<1> QED
  BY <1>1, <1>2, <1>3, <1>4, PTL DEF Spec, LedgerStaysUsable

\* What a broker answers about the commands of a batch (run_transaction) is what
\* the database says, in the ledger of the credential's own, for any number of
\* requests, identities, tokens, crashes and failures.
THEOREM TrueAnswers == Spec => []AnswersAreTrue
<1> DEFINE Inv == tool = "session" => SessionInv
<1>1. Init => Inv
  BY StartsAs, SessionInit
<1>2. Inv /\ [Next]_vars => Inv'
  BY StepsAs, SessionStep
<1>3. Inv => AnswersAreTrue
  BY SessionAnswers DEF AnswersAreTrue
<1> QED
  BY <1>1, <1>2, <1>3, PTL DEF Spec

\* The write-ahead log is copied back whenever the thread for it dies
\* (recover_checkpoint_if_needed), for any limits of frames, age and retry with
\* which the retry comes no later than the age.
THEOREM CopiedLog == Spec => []LogIsCopied
<1> DEFINE Inv == tool = "wal" => WalInv
<1>1. Init => Inv
  BY StartsAs, WalInit
<1>2. Inv /\ [Next]_vars => Inv'
  BY StepsAs, WalStep
<1>3. Inv => LogIsCopied
  BY WalCopies DEF LogIsCopied
<1> QED
  BY <1>1, <1>2, <1>3, PTL DEF Spec

\* What ends processes (pidfd_reap.py, kill_descendants) and what sweeps up after
\* them (sweep_dead_relays) spare whom they have to spare, and the second leaves
\* nothing it could see, for any processes, births, rounds and relays.
THEOREM SparedLiving == Spec => TheLivingAreSpared
<1> DEFINE Inv == /\ tool = "reap" => ReapInv
                  /\ tool = "tree" => TreeInv
                  /\ tool = "start" => StartInv
<1>1. Init => Inv
  BY StartsAs, ReapInit, TreeInit, StartInit
<1>2. Inv /\ [Next]_vars => Inv'
  BY StepsAs, ReapStep, TreeStep, StartStep
<1>3. Inv => (tool = "reap" => Reap!SignalsStayInside)
  BY ReapStays
<1>4. Inv => (tool = "tree" => Tree!NothingSeenIsLeft)
  BY TreeLeavesNothing
<1>5. Inv => (tool = "start" => Start!RunningKeepsFiles)
  BY StartSpares
<1>6. Inv /\ [Next]_vars => [tool = "tree" => Tree!SparesTheProvider]_vars
  BY StepsAs, TreeSpares
<1> QED
  BY <1>1, <1>2, <1>3, <1>4, <1>5, <1>6, PTL DEF Spec, TheLivingAreSpared

\* The gate's reaper (build_gate_reaper.py) unlinks no handshake in use, and a
\* scan (files.py) that is not called degraded counts everybody, for any builds,
\* slots, namespaces and limits.
THEOREM RightGateFiles == Spec => GateFilesAreRight
<1> DEFINE Inv == tool = "gate" => GateInv
<1>1. Init => Inv
  BY StartsAs, GateInit
<1>2. Inv /\ [Next]_vars => Inv'
  BY StepsAs, GateStep
<1>3. Inv /\ [Next]_vars => [tool = "gate" => Gate!KeepsHandshakes /\ Gate!CountsAll]_vars
  BY StepsAs, GateKeeps, GateCounts
<1> QED
  BY <1>1, <1>2, <1>3, PTL DEF Spec, GateFilesAreRight

\* The Executor is woken once for a newsletter's date (daily.py), with the files
\* of one build, for any runs, builds by hand, time zone and days.
THEOREM OneWake == Spec => OneWakePerDate
<1> DEFINE Inv == tool = "daily" => DailyInv
<1>1. Init => Inv
  BY StartsAs, DailyInit
<1>2. Inv /\ [Next]_vars => Inv'
  BY StepsAs, DailyStep
<1>3. Inv => (tool = "daily" => Daily!WokenOnce)
  BY DailyWakes
<1>4. Inv /\ [Next]_vars => [tool = "daily" => Daily!NamesOneBuild]_vars
  BY DailyWakes
<1> QED
  BY <1>1, <1>2, <1>3, <1>4, PTL DEF Spec, OneWakePerDate

\* A gate that has passed was earned (ci-flake-retry.py and the gate's scripts),
\* and a failed one of a pull request does not stay when its check and its jobs
\* have succeeded, for any tests, lists of the base, logs, re-runs and edits: only
\* a helper waits longer than a gate runs.
THEOREM RightGate == Spec => []GateIsRight
<1> DEFINE Inv == tool = "ci" => CiInv
<1>1. Init => Inv
  BY StartsAs, CiInit
<1>2. Inv /\ [Next]_vars => Inv'
  BY StepsAs, CiStep
<1>3. Inv => GateIsRight
  BY CiEarns DEF GateIsRight
<1> QED
  BY <1>1, <1>2, <1>3, PTL DEF Spec

\* What a collection of estimates has ended with is never forgotten
\* (capture_progress_estimates.py), for any collectors, tickets, rows and outputs of
\* the version before, whoever is killed and whatever workspace is removed.
THEOREM ToldIsKept == Spec => []NothingForgotten
<1> DEFINE Inv == tool = "progress" => ProgressInv
<1>1. Init => Inv
  BY StartsAs, ProgressInit
<1>2. Inv /\ [Next]_vars => Inv'
  BY StepsAs, ProgressStep
<1>3. Inv => NothingForgotten
  BY ProgressKeeps DEF NothingForgotten
<1> QED
  BY <1>1, <1>2, <1>3, PTL DEF Spec

\* An amendment that is accepted (execution_amendment_live.py) was in force while
\* it was read, as a whole, for any members, lanes, policy, published issues and
\* edits: at one moment every issue and every comment agreed with it.
THEOREM WasInForce == Spec => []AcceptedWasInForce
<1> DEFINE Inv == tool = "amendment" => AmendmentInv
<1>1. Init => Inv
  BY StartsAs, AmendmentInit
<1>2. Inv /\ [Next]_vars => Inv'
  BY StepsAs, AmendmentStep
<1>3. Inv => AcceptedWasInForce
  BY AmendmentKeeps DEF AcceptedWasInForce
<1> QED
  BY <1>1, <1>2, <1>3, PTL DEF Spec

\* The newsletter's snapshot (collect.py, github.py) stays within its budget and
\* takes a daemon's tickets, and counts them, only when its answer was whole; and
\* the figures of the program and of live work (metric_program.py,
\* metric_evidence.py) are the ones of their evidence or are not given, for any
\* daemons, tickets, labels, merges, builds, features and limits.
THEOREM TrueNewsletter == Spec => []NewsletterIsTrue
<1> DEFINE Inv == /\ tool = "collect" => CollectInv
                  /\ tool = "program" => ProgramTyped
                  /\ tool = "live" => LiveTyped
<1>1. Init => Inv
  BY StartsAs, CollectInit, ProgramInit, LiveInit
<1>2. Inv /\ [Next]_vars => Inv'
  BY StepsAs, CollectStep, CollectRests, ProgramStep, ProgramRests, LiveStep, LiveRests
<1>3. Inv => NewsletterIsTrue
  BY CollectTrue, StatesHold, ScopeHolds, FinishedHolds, LiveHolds, VerifiedHolds DEF NewsletterIsTrue
<1> QED
  BY <1>1, <1>2, <1>3, PTL DEF Spec
=============================================================================
