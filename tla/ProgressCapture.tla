--------------------------- MODULE ProgressCapture ---------------------------
(***************************************************************************)
(* The collector of progress estimates (docs/build-order/scripts:          *)
(* capture_progress_estimates.py, progress_estimate_parse.py).  Agents     *)
(* write their transcripts, the daemon writes whether an estimate was      *)
(* published, and workspaces are removed when their tickets are done.      *)
(* The collector adds what it finds to one file, under a lock, and         *)
(* replaces the file as a whole; several may run, and be killed.           *)
(***************************************************************************)
EXTENDS Integers, Sequences

CONSTANTS
    Collectors, Nobody, None,
    Tickets,            \* ticket_min..ticket_max
    Rows,               \* what may be appended: [ticket, time, call, args, event, id]
    OldOutput,          \* the output before: [sample id -> sample]
    MaxRows, MaxKills   \* bounds

VARIABLES
    transcripts,    \* [ticket -> its agent.ndjson]
    publications,   \* event-publications.ndjson of the daemon
    output,         \* progress-estimates.ndjson: [sample id -> sample]
    lock,           \* who holds the output's flock
    pc, left, unread,       \* of each collector: the logs and the rows it has still to read
    samples, outcomes,
    told,           \* the samples that a collector has ended with
    appended, kills

files == <<transcripts, publications>>
reading == <<left, unread>>
vars == <<files, output, lock, pc, reading, samples, outcomes, told, appended, kills>>

EstimateKinds == {"progress", "progress.checkin"}
SchemaVersion == 2
StatusRank == [attempted |-> 0, failed |-> 1, emitted |-> 2]
Empty == <<>>

\* A time that is known is a number, and an output is one that was written so.
Fields == {"id", "version", "ticket", "time", "event", "call", "percent", "status"}
ProgressAssumption ==
    /\ Nobody \notin Collectors
    /\ \A row \in Rows : row.time # None => row.time \in Int
    /\ \A id \in DOMAIN OldOutput :
         /\ OldOutput[id] = [field \in Fields |-> OldOutput[id][field]]
         /\ OldOutput[id].time \in Int /\ OldOutput[id].status \in DOMAIN StatusRank

-----------------------------------------------------------------------------
(* Plausible slips in the code below, each of which TLC must catch.        *)

\* the output is read before the lock is held
WithoutLock(c) == TRUE

-----------------------------------------------------------------------------
(* Rows (progress_estimate_parse.py).  "args" are the places of a row that *)
(* may hold the arguments of a tool call, in the order in which they are   *)
(* looked at; a percentage that is not one is None.                        *)

IsEstimate(arguments) == arguments.name \in EstimateKinds /\ arguments.percent # None

\* _sample_id, _call_sample_id: of the call, if it is known
CallSampleId(ticket, call) == <<"call", ticket, call>>
SampleId(row, a) ==
    IF row.call # None THEN CallSampleId(row.ticket, row.call)
    ELSE <<"estimate", row.ticket, <<row.time, a.name, a.percent>>>>

\* sample_from_row
SamplesIn(row) ==
    LET found == SelectSeq(row.args, IsEstimate)
    IN IF row.time = None \/ found = <<>> THEN {}
       ELSE {[id |-> SampleId(row, Head(found)), version |-> SchemaVersion, ticket |-> row.ticket, time |-> row.time,
              event |-> None, call |-> row.call, percent |-> Head(found).percent, status |-> "attempted"]}

\* _publication_outcome, _publication_ticket
PublicationStatus == [event_publication_completed |-> "emitted", event_publication_failed |-> "failed"]
OutcomesIn(row) ==
    IF row.event \notin DOMAIN PublicationStatus \/ row.call = None \/ row.time = None \/ row.ticket \notin Tickets THEN {}
    ELSE {[id |-> CallSampleId(row.ticket, row.call), status |-> PublicationStatus[row.event], event |-> row.id, time |-> row.time]}

-----------------------------------------------------------------------------
(* Merging: the best status, the first time, and what is known.            *)

Better(current, incoming) ==
    IF StatusRank[incoming.status] > StatusRank[current.status] THEN incoming.status ELSE current.status
Known(current, incoming) == IF current = None THEN incoming ELSE current
Earliest(a, b) == IF b < a THEN b ELSE a

MergeSample(current, incoming) ==
    [current EXCEPT !.time = Earliest(@, incoming.time), !.status = Better(current, incoming),
        !.event = Known(@, incoming.event), !.call = Known(@, incoming.call)]
MergeOutcome(current, incoming) ==
    [current EXCEPT !.time = Earliest(@, incoming.time), !.status = Better(current, incoming), !.event = Known(@, incoming.event)]
ApplyOutcome(sample, outcome) ==
    [sample EXCEPT !.status = Better(sample, outcome), !.event = Known(@, outcome.event)]

\* what a row has told of, at most one thing, is merged with what is known of it
Remember(known, found, Merge(_, _)) ==
    [id \in DOMAIN known \cup {s.id : s \in found} |->
       IF \E s \in found : s.id = id
       THEN LET s == CHOOSE s \in found : s.id = id IN IF id \in DOMAIN known THEN Merge(known[id], s) ELSE s
       ELSE known[id]]

\* _load_existing, _upgrade_existing_sample: the first version knew no outcomes
Upgraded(sample) ==
    IF sample.version = SchemaVersion THEN sample
    ELSE [sample EXCEPT !.version = SchemaVersion, !.status = "attempted", !.event = None]

-----------------------------------------------------------------------------
Init ==
    /\ transcripts = [t \in Tickets |-> <<>>] /\ publications = <<>>
    /\ output = OldOutput /\ lock = Nobody
    /\ pc = [c \in Collectors |-> "idle"]
    /\ left = [c \in Collectors |-> {}] /\ unread = [c \in Collectors |-> <<>>]
    /\ samples = [c \in Collectors |-> Empty] /\ outcomes = [c \in Collectors |-> Empty]
    /\ told = Empty /\ appended = 0 /\ kills = 0

\* The agents, the daemon, and the removal of a workspace.
Append1(row) ==
    /\ appended < MaxRows /\ appended' = appended + 1
    /\ IF row.event # None
       THEN publications' = Append(publications, row) /\ UNCHANGED transcripts
       ELSE /\ transcripts' = [transcripts EXCEPT ![row.ticket] = Append(@, row)]
            /\ UNCHANGED publications
    /\ UNCHANGED <<output, lock, pc, reading, samples, outcomes, told, kills>>
Removed(t) ==
    /\ transcripts[t] # <<>> /\ transcripts' = [transcripts EXCEPT ![t] = <<>>]
    /\ UNCHANGED <<publications, output, lock, pc, reading, samples, outcomes, told, appended, kills>>

HoldsLock(c) == lock = c

Lock(c) ==
    /\ pc[c] = "idle" /\ lock = Nobody
    /\ lock' = c /\ UNCHANGED <<files, output, pc, reading, samples, outcomes, told, appended, kills>>
Load(c) ==
    /\ pc[c] = "idle" /\ HoldsLock(c)
    /\ samples' = [samples EXCEPT ![c] = [id \in DOMAIN output |-> Upgraded(output[id])]]
    /\ outcomes' = [outcomes EXCEPT ![c] = Empty]
    /\ left' = [left EXCEPT ![c] = Tickets] /\ unread' = [unread EXCEPT ![c] = <<>>]
    /\ pc' = [pc EXCEPT ![c] = "transcripts"]
    /\ UNCHANGED <<files, output, lock, told, appended, kills>>

\* Every transcript, in the order of the tickets, then the publication log: a row
\* at a time of what the log holds when it is opened.
OpenTranscript(c) ==
    /\ pc[c] = "transcripts" /\ unread[c] = <<>>
    /\ \E t \in left[c] :
         /\ \A other \in left[c] : t <= other
         /\ left' = [left EXCEPT ![c] = @ \ {t}] /\ unread' = [unread EXCEPT ![c] = transcripts[t]]
    /\ UNCHANGED <<files, output, lock, pc, samples, outcomes, told, appended, kills>>
ReadTranscript(c) ==
    /\ pc[c] = "transcripts" /\ unread[c] # <<>>
    /\ samples' = [samples EXCEPT ![c] = Remember(@, SamplesIn(Head(unread[c])), MergeSample)]
    /\ unread' = [unread EXCEPT ![c] = Tail(@)]
    /\ UNCHANGED <<files, output, lock, pc, left, outcomes, told, appended, kills>>
OpenPublications(c) ==
    /\ pc[c] = "transcripts" /\ left[c] = {} /\ unread[c] = <<>>
    /\ pc' = [pc EXCEPT ![c] = "publications"] /\ unread' = [unread EXCEPT ![c] = publications]
    /\ UNCHANGED <<files, output, lock, left, samples, outcomes, told, appended, kills>>
ReadPublication(c) ==
    /\ pc[c] = "publications" /\ unread[c] # <<>>
    /\ outcomes' = [outcomes EXCEPT ![c] = Remember(@, OutcomesIn(Head(unread[c])), MergeOutcome)]
    /\ unread' = [unread EXCEPT ![c] = Tail(@)]
    /\ UNCHANGED <<files, output, lock, pc, left, samples, told, appended, kills>>

\* the outcomes of known samples, then _write_atomic
Applied(c) ==
    [id \in DOMAIN samples[c] |->
       IF id \in DOMAIN outcomes[c] THEN ApplyOutcome(samples[c][id], outcomes[c][id]) ELSE samples[c][id]]
Write(c) ==
    /\ pc[c] = "publications" /\ unread[c] = <<>> /\ lock \in {c, Nobody}
    /\ output' = Applied(c) /\ lock' = Nobody
    /\ told' = [id \in DOMAIN told \cup DOMAIN Applied(c) |->
                  IF id \in DOMAIN Applied(c) THEN Applied(c)[id] ELSE told[id]]
    /\ pc' = [pc EXCEPT ![c] = "idle"]
    /\ UNCHANGED <<files, reading, samples, outcomes, appended, kills>>

\* The operating system frees the lock of a collector that is killed.
Killed(c) ==
    /\ kills < MaxKills /\ (pc[c] # "idle" \/ lock = c) /\ kills' = kills + 1
    /\ pc' = [pc EXCEPT ![c] = "idle"] /\ lock' = IF lock = c THEN Nobody ELSE lock
    /\ UNCHANGED <<files, output, reading, samples, outcomes, told, appended>>

Next ==
    \/ \E row \in Rows : Append1(row)
    \/ \E t \in Tickets : Removed(t)
    \/ \E c \in Collectors :
         \/ Lock(c) \/ Load(c) \/ OpenTranscript(c) \/ ReadTranscript(c) \/ OpenPublications(c) \/ ReadPublication(c)
         \/ Write(c) \/ Killed(c)

Spec == Init /\ [][Next]_vars

-----------------------------------------------------------------------------
(* Properties.                                                             *)

\* What a collection has ended with is never forgotten, even when the
\* transcript that it came from is gone: the sample stays in the output, no
\* other collector puts back an older output, a publication is never undone by a
\* failed one, and its event stays known.
NothingForgotten ==
    \A id \in DOMAIN told :
      /\ id \in DOMAIN output
      /\ StatusRank[output[id].status] >= StatusRank[told[id].status]
      /\ told[id].event # None => output[id].event = told[id].event
      /\ output[id].time <= told[id].time
=============================================================================
