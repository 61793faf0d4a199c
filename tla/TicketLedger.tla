---------------------------- MODULE TicketLedger ----------------------------
(***************************************************************************)
(* The durable ticket ledger (analytics/lib/analytics/ledger_store.py,     *)
(* ledger.py, ledger_enrich.py, parse.py).  The daemon appends telemetry   *)
(* records to a stream.  A materializer, under a file lock, reads what is  *)
(* new in the streams into the cursor's cache, rebuilds the records of the *)
(* tickets that this touches, writes them one by one and saves the cursor  *)
(* last.  It may be killed at any point.  Retention drops old records from *)
(* the stream, but only after a checkpoint: a run of the materializer for  *)
(* which the writer waits.                                                 *)
(*                                                                         *)
(* A line is a record of the attributes that the ledger looks at.  Ticket  *)
(* names are safe path segments and the records built are valid.           *)
(***************************************************************************)
EXTENDS Integers, Sequences, SequencesExt, FiniteSets, TLC

CONSTANTS
    Lines,          \* the lines the daemon may write
    Facts,          \* Facts[t]: the line that the backfill writes for t
    Tickets, Boots,
    Repo, None,
    Since,          \* the cut-off of a backfill
    PrefixLines,    \* how many lines the hashed prefix of a file covers
    Shas,           \* merge commits that may be reverted
    MaxText,        \* bound: lines written
    MaxUpsets       \* bound: crashes, checkpoints and reverts

Paths == {"telemetry", "facts"}
PathOrder == <<"telemetry", "facts">>

VARIABLES
    streams,    \* the files: [inode, text, torn], torn if the last line is incomplete
    written,    \* lines completed so far
    timeline,   \* repo-timeline.ndjson: the merge commits that were reverted
    cursor,     \* ledger-cursor.json
    disk,       \* tickets/<ticket>.json
    history,    \* tickets/.history
    work,       \* the run in progress: [phase, since, files, cache, touched, todo], and
                \* in `owed` the widest run that was killed and not made up for
    checkpoint, \* none, running: the writer waits for the run; done: it may prune
    upsets

vars == <<streams, written, timeline, cursor, disk, history, work, checkpoint, upsets>>
stored == <<cursor, disk, history>>

Idle == [phase |-> "idle", since |-> FALSE, files |-> <<>>, cache |-> <<>>, touched |-> {},
         todo |-> <<>>, owed |-> "none"]
NoFile == [inode |-> 0, prefix |-> <<>>, offset |-> 0]
Empty == [files |-> [p \in Paths |-> NoFile], records |-> {}, repos |-> [b \in Boots |-> None],
          timeline |-> {}, partial |-> {}]

Init ==
    /\ streams = [p \in Paths |-> [inode |-> 1, text |-> <<>>, torn |-> FALSE]]
    /\ written = {} /\ timeline = {}
    /\ cursor = Empty
    /\ disk = [t \in Tickets |-> None] /\ history = [t \in Tickets |-> <<>>]
    /\ work = Idle /\ checkpoint = "none" /\ upsets = 0

-----------------------------------------------------------------------------
(* One line: parse_line and ledger.project.                                *)

SupportedKinds == {"feature_supply", "restart", "run_context", "lifecycle", "resource", "warning"}
IgnoredKinds == {"firehose_poll", "capacity_hold", "capacity_resumed"}
LedgerEvents == {"dispatch", "implement", "pr_opened", "pr_ready", "pr_merged", "closed",
                 "dependency_cleared", "pr_facts", "ticket_usage", "ci_result", "state_change",
                 "agent_pause", "agent_resume"}

\* `wellFormed`: UTF-8, an object of a known schema with its fields; `dated`:
\* its attributes are an object and its timestamp can be read
Parse(l) ==
    IF l.wellFormed /\ l.kind \in IgnoredKinds THEN "ignored"
    ELSE IF l.wellFormed /\ l.kind \in SupportedKinds /\ l.dated THEN "record" ELSE "warning"

\* `identified`: record, boot, sequence, and ticket and event of a lifecycle
\* record have their types; `valid`: so have the attributes that are kept
Project(l) ==
    IF l.kind \notin {"lifecycle", "run_context"} THEN "none"
    ELSE IF ~l.identified THEN "error"
    ELSE IF l.kind = "lifecycle" /\ l.event \notin LedgerEvents THEN "none"
    ELSE IF l.valid THEN "kept" ELSE "error"

Bad(l) == Parse(l) = "warning" \/ (Parse(l) = "record" /\ Project(l) = "error")
Evidence(l) == Parse(l) = "record" /\ Project(l) = "kept"
Foreign(repos, l) == Repo # None /\ repos[l.boot] \notin {None, Repo}

-----------------------------------------------------------------------------
(* Plausible slips in the code below, each of which TLC must catch.        *)

\* a line whose end is not written yet counts as read
TornIsRead(s) == Len(s.text)

-----------------------------------------------------------------------------
(* _ingest.  st = [cache, touched].                                        *)

TicketsOf(rows) == {r.line.ticket : r \in rows} \ {None}

\* _mark_partial
MarkPartial(st, p) ==
    IF p \in st.cache.partial THEN st
    ELSE [cache |-> [st.cache EXCEPT !.partial = @ \cup {p}],
          touched |-> st.touched \cup TicketsOf({r \in st.cache.records : r.path = p})]

Admit(st, l, p) ==
    LET repos == IF l.kind = "run_context" /\ l.repo # None
                 THEN [st.cache.repos EXCEPT ![l.boot] = l.repo] ELSE st.cache.repos
        known == \E r \in st.cache.records : r.line.id = l.id
        sameBoot == {r \in st.cache.records : r.line.boot = l.boot}
    IN IF known \/ Foreign(repos, l) THEN [st EXCEPT !.cache.repos = repos]
       ELSE [cache |-> [st.cache EXCEPT !.repos = repos, !.records = @ \cup {[line |-> l, path |-> p]}],
             touched |-> st.touched \cup
                 IF l.ticket # None THEN {l.ticket}
                 ELSE IF l.kind = "run_context" THEN TicketsOf(sameBoot) ELSE {}]

Ingest(st, l, p) ==
    IF Bad(l) THEN MarkPartial(st, p) ELSE IF Evidence(l) THEN Admit(st, l, p) ELSE st

\* half a line cannot be parsed
Text(s) == IF s.torn THEN [s.text EXCEPT ![Len(s.text)].wellFormed = FALSE] ELSE s.text
WholeLines(s) == IF s.torn THEN Len(s.text) - 1 ELSE Len(s.text)

\* A prefix of a file that ends inside the hashed part has another hash once
\* the file has grown.
Prefix(s) ==
    [text |-> SubSeq(s.text, 1, IF Len(s.text) < PrefixLines THEN Len(s.text) ELSE PrefixLines),
     torn |-> s.torn /\ Len(s.text) <= PrefixLines]

\* One file from where the cursor left off, or from its start if it is another one
ReadStream(st, p) ==
    LET s == streams[p]
        last == st.cache.files[p]
        same == last.inode = s.inode /\ last.prefix = Prefix(s) /\ Len(s.text) >= last.offset
        from == IF same THEN last.offset ELSE 0
        fresh == SubSeq(Text(s), from + 1, WholeLines(s))
        read == FoldLeft(LAMBDA a, l : Ingest(a, l, p), st, fresh)
    IN [read EXCEPT !.cache.files[p] = [inode |-> s.inode, prefix |-> Prefix(s), offset |-> from + Len(fresh)]]

-----------------------------------------------------------------------------
(* From the cache to the rows of each ticket.                              *)

\* A boot learnt to belong to another repository takes its rows with it.
Scoped(cache) == [cache EXCEPT !.records = {r \in @ : ~Foreign(cache.repos, r.line)}]

\* _record_sort_key
Before(r, s) ==
    \/ r.line.ms < s.line.ms
    \/ r.line.ms = s.line.ms /\ r.line.boot < s.line.boot
    \/ r.line.ms = s.line.ms /\ r.line.boot = s.line.boot /\ r.line.id < s.line.id

\* Segments carried over repeat an event under its time and attempt.
EventKey(l) ==
    IF l.event \in {"dispatch", "pr_opened", "pr_merged"}
    THEN <<l.ticket, l.event, l.attempt, l.ms>> ELSE l.key

Dedupe(rows) ==
    FoldLeft(LAMBDA kept, r :
        IF EventKey(r.line) # <<>> /\ \E i \in DOMAIN kept : EventKey(kept[i].line) = EventKey(r.line)
        THEN kept ELSE Append(kept, r), <<>>, SetToSortSeq(rows, Before))

EventsOf(cache, t) ==
    SelectSeq(Dedupe(cache.records), LAMBDA r : r.line.kind = "lifecycle" /\ r.line.ticket = t)
EventsByTicket(cache) == [t \in Tickets |-> EventsOf(cache, t)]
Contexts(cache) == SelectSeq(Dedupe(cache.records), LAMBDA r : r.line.kind = "run_context")

Fact(facts, k) == IF k \in DOMAIN facts THEN facts[k] ELSE None

\* blocker_merges: when each ticket merged, by its events or its facts
MergedAt(evs) ==
    LET at(r) == IF r.line.event = "pr_merged" THEN r.line.ms ELSE Fact(r.line.facts, "merged_at")
        merges == SelectSeq(evs, LAMBDA e : at(e) # None)
    IN IF merges = <<>> THEN None ELSE at(Last(merges))

-----------------------------------------------------------------------------
(* ledger.build_ticket_record.                                             *)

Named(evs, e) == SelectSeq(evs, LAMBDA r : r.line.event = e)
FirstMs(evs, e) == IF Named(evs, e) = <<>> THEN None ELSE Head(Named(evs, e)).line.ms
LastMs(seq) == IF seq = <<>> THEN None ELSE Last(seq).line.ms

\* pr_facts override one another in order
FactsOf(evs) == FoldLeft(LAMBDA f, r : IF r.line.event = "pr_facts" THEN r.line.facts @@ f ELSE f, <<>>, evs)

EventMilestone(evs) ==
    LET closing == SelectSeq(evs, LAMBDA r : r.line.event = "state_change" /\ r.line.to = "closed")
        starts == SelectSeq(evs, LAMBDA r : r.line.boundary = "start")
    IN [first_dispatch |-> FirstMs(evs, "dispatch"), first_work |-> FirstMs(starts, "implement"),
        pr_opened |-> FirstMs(evs, "pr_opened"), pr_ready |-> FirstMs(evs, "pr_ready"),
        first_review |-> None, first_approval |-> None,
        merged |-> FirstMs(evs, "pr_merged"),
        closed |-> IF closing # <<>> THEN LastMs(closing) ELSE FirstMs(evs, "closed"),
        blockers_cleared |-> LastMs(Named(evs, "dependency_cleared"))]

FactTimes == [pr_opened |-> "pr_created_at", pr_ready |-> "pr_ready_at", first_review |-> "first_review_at",
              first_approval |-> "first_approval_at", merged |-> "merged_at", closed |-> "closed_at"]

BlockersOf(evs) ==
    UNION {r.line.blockers : r \in {evs[i] : i \in {j \in DOMAIN evs : evs[j].line.event = "dispatch"}}}

Milestones(evs, merges) ==
    LET facts == FactsOf(evs)
        m == EventMilestone(evs)
        told(k) == IF k \in DOMAIN FactTimes THEN Fact(facts, FactTimes[k]) ELSE None
        shown == [k \in DOMAIN m |-> IF told(k) # None THEN told(k) ELSE m[k]]
        blockers == BlockersOf(evs)
        times == {merges[b] : b \in blockers}
    IN IF shown.blockers_cleared = None /\ blockers # {} /\ None \notin times
       THEN [shown EXCEPT !.blockers_cleared = CHOOSE x \in times : \A y \in times : y <= x] ELSE shown

\* A dwell starts once and ends at the first event that leaves it.
Opens(l, s) == (s = "paused" /\ l.event = "agent_pause") \/ (l.event = "state_change" /\ l.to = s /\ l.from # s)
Closes(l, s) == (s = "paused" /\ l.event = "agent_resume") \/ (l.event = "state_change" /\ l.from = s /\ l.to # s)
Dwell(evs, s) ==
    FoldLeft(LAMBDA d, r :
        IF Closes(r.line, s) /\ d.start # None THEN [start |-> None, total |-> d.total + r.line.ms - d.start]
        ELSE IF Opens(r.line, s) /\ d.start = None THEN [d EXCEPT !.start = r.line.ms] ELSE d,
        [start |-> None, total |-> 0], evs).total

ReworkRounds(evs) ==
    LET opened == IF Fact(FactsOf(evs), "pr_created_at") # None THEN FactsOf(evs).pr_created_at
                  ELSE FirstMs(evs, "pr_opened")
    IN {i \in DOMAIN evs : /\ Opens(evs[i].line, "rework")
                           /\ opened # None /\ evs[i].line.ms >= opened}

\* An attempt runs under the last context of its boot.
Attempts(evs, contexts) ==
    LET context(l) == SelectSeq(contexts, LAMBDA c : c.line.boot = l.boot /\ c.line.ms <= l.ms)
        dispatches == Named(evs, "dispatch")
    IN [i \in DOMAIN dispatches |->
          LET l == dispatches[i].line
          IN [attempt |-> l.attempt, boot |-> l.boot, at |-> l.ms, retry |-> l.retry,
              vsn |-> IF context(l) = <<>> THEN "unknown" ELSE Last(context(l)).line.vsn]]

TicketRecord(cache, t, reverted) ==
    LET evs == EventsOf(cache, t)
        facts == FactsOf(evs)
        attempts == Attempts(evs, Contexts(cache))
        m == Milestones(evs, [b \in Tickets |-> MergedAt(EventsOf(cache, b))])
    IN [last |-> Last(evs).line.ms, sources |-> [i \in DOMAIN evs |-> evs[i].line.id],
        attempts |-> attempts, milestones |-> m,
        durations |-> [s \in {"ci-wait", "rework", "paused"} |-> Dwell(evs, s)],
        counts |-> [rework |-> Cardinality(ReworkRounds(evs)),
                    retries |-> Cardinality({i \in DOMAIN attempts : attempts[i].retry > 0}),
                    ci |-> Len(SelectSeq(Named(evs, "ci_result"), LAMBDA r : r.line.outcome = "failed"))],
        usage |-> LastMs(Named(evs, "ticket_usage")),
        reverted |-> Fact(facts, "merge_commit_sha") \in reverted,
        mixed |-> \E i, j \in DOMAIN attempts : attempts[i].vsn # attempts[j].vsn,
        partial |-> \/ None \in {m.first_dispatch, m.pr_opened}
                    \/ \E i \in DOMAIN evs : evs[i].path \in cache.partial]

Terminal(rec) == rec # None /\ ~(rec.milestones.merged = None /\ rec.milestones.closed = None)

-----------------------------------------------------------------------------
(* The run: _materialize, one action per effect on the disk.               *)

Upset == upsets < MaxUpsets /\ upsets' = upsets + 1

\* `reduce --ledger`, by hand or by the writer's checkpoint, reads the stream;
\* a backfill also its own facts, with a cut-off for which all is read again
Start(since) ==
    /\ work.phase = "idle"
    /\ work' = [work EXCEPT !.phase = "ingest", !.since = since,
                 !.files = IF since THEN PathOrder ELSE <<"telemetry">>,
                 !.cache = IF since THEN [cursor EXCEPT !.files = Empty.files] ELSE cursor]

Run(since) == Start(since) /\ UNCHANGED <<streams, written, timeline, stored, checkpoint, upsets>>

ReadNext ==
    /\ work.phase = "ingest" /\ work.files # <<>>
    /\ LET st == ReadStream([cache |-> work.cache, touched |-> work.touched], Head(work.files))
       IN work' = [work EXCEPT !.files = Tail(@), !.cache = st.cache, !.touched = st.touched]
    /\ UNCHANGED <<streams, written, timeline, stored, checkpoint, upsets>>

\* The dependents of a touched ticket, in the order in which tickets are met
WithDependents(touched, evs) ==
    FoldLeft(LAMBDA T, t :
        IF \E i \in DOMAIN evs[t] : evs[t][i].line.blockers \cap T # {} THEN T \cup {t} ELSE T,
        touched, SetToSeq({t \in Tickets : evs[t] # <<>>}))

Assemble ==
    /\ work.phase = "ingest" /\ work.files = <<>>
    /\ LET cache == [Scoped(work.cache) EXCEPT !.timeline = timeline]
           evs == EventsByTicket(cache)
           known == {t \in Tickets : evs[t] # <<>>}
           all == work.since \/ work.cache.timeline # timeline
           touched == WithDependents(work.touched \cup (IF all THEN known ELSE {}), evs)
           due == {t \in touched \cap known : work.since => Last(evs[t]).line.ms >= Since}
       IN work' = [work EXCEPT !.phase = "write", !.cache = cache, !.touched = touched, !.todo = SetToSeq(due)]
    /\ UNCHANGED <<streams, written, timeline, stored, checkpoint, upsets>>

Built(t) == TicketRecord(work.cache, t, work.cache.timeline)

\* A terminal record that is to change is kept first; the last five are.
Newest(t) == IF history[t] = <<>> THEN None ELSE Last(history[t])
Unkept(t) == Terminal(disk[t]) /\ disk[t] # Built(t) /\ Newest(t) # disk[t]

KeepVersion ==
    /\ work.phase = "write" /\ work.todo # <<>>
    /\ LET t == Head(work.todo)
           kept == Append(history[t], disk[t])
       IN /\ Unkept(t)
          /\ history' = [history EXCEPT ![t] = SubSeq(kept, IF Len(kept) > 5 THEN Len(kept) - 4 ELSE 1, Len(kept))]
    /\ UNCHANGED <<streams, written, timeline, cursor, disk, work, checkpoint, upsets>>

WriteRecord ==
    /\ work.phase = "write" /\ work.todo # <<>>
    /\ LET t == Head(work.todo)
       IN /\ ~Unkept(t)
          /\ disk' = [disk EXCEPT ![t] = Built(t)]
    /\ work' = [work EXCEPT !.todo = Tail(@)]
    /\ UNCHANGED <<streams, written, timeline, cursor, history, checkpoint, upsets>>

SaveCursor ==
    /\ work.phase = "write" /\ work.todo = <<>>
    /\ cursor' = work.cache
    /\ work' = [Idle EXCEPT !.owed = IF work.since \/ work.owed = "reduce" THEN "none" ELSE work.owed]
    /\ checkpoint' = IF checkpoint = "running" THEN "done" ELSE checkpoint
    /\ UNCHANGED <<streams, written, timeline, disk, history, upsets>>

\* The materializer is killed; a writer that waits for it goes on unpruned.
Crash ==
    /\ work.phase # "idle" /\ Upset
    /\ work' = [Idle EXCEPT !.owed = IF work.since \/ work.owed = "backfill" THEN "backfill" ELSE "reduce"]
    /\ checkpoint' = "none"
    /\ UNCHANGED <<streams, written, timeline, stored>>

\* ledger_enrich.enrich: a finished ticket whose facts nobody captured
Captured(t) == \E r \in cursor.records : r.line.ticket = t /\ r.line.event = "pr_facts"
Enrich(t) ==
    /\ work.phase = "idle" /\ Terminal(disk[t]) /\ ~Captured(t)
    /\ LET m == disk[t].milestones IN (IF m.merged # None THEN m.merged ELSE m.closed) >= Since
    /\ Len(streams["facts"].text) < 1
    /\ streams' = [streams EXCEPT !["facts"].text = Append(@, Facts[t])]
    /\ written' = written \cup {Facts[t]}
    /\ UNCHANGED <<timeline, stored, work, checkpoint, upsets>>

-----------------------------------------------------------------------------
(* The daemon: a boot's first record is its context.                       *)

Waiting == checkpoint # "none"

WriteBegins(l) ==
    /\ ~Waiting /\ ~streams["telemetry"].torn
    /\ l \notin written /\ Cardinality(written) < MaxText
    /\ l.kind # "run_context" => \E c \in written : c.kind = "run_context" /\ c.boot = l.boot
    /\ streams' = [streams EXCEPT !["telemetry"].text = Append(@, l), !["telemetry"].torn = TRUE]
    /\ UNCHANGED <<written, timeline, stored, work, checkpoint, upsets>>

WriteEnds ==
    /\ streams["telemetry"].torn
    /\ streams' = [streams EXCEPT !["telemetry"].torn = FALSE]
    /\ written' = written \cup {Last(streams["telemetry"].text)}
    /\ UNCHANGED <<timeline, stored, work, checkpoint, upsets>>

\* LedgerRetention.prune: the writer waits for a run, then drops old lines by
\* putting a shorter file in the place of the stream
Checkpoint ==
    /\ ~Waiting /\ ~streams["telemetry"].torn /\ Upset
    /\ Start(FALSE)
    /\ checkpoint' = "running"
    /\ UNCHANGED <<streams, written, timeline, stored>>

Prune ==
    /\ checkpoint = "done"
    /\ \E k \in 0..Len(streams["telemetry"].text) :
         streams' = [streams EXCEPT !["telemetry"].text = SubSeq(@, k + 1, Len(@)),
                                    !["telemetry"].inode = @ + 1]
    /\ checkpoint' = "none"
    /\ UNCHANGED <<written, timeline, stored, work, upsets>>

\* the writer's five seconds are over, the run goes on
WriterGivesUp ==
    /\ checkpoint = "running" /\ checkpoint' = "none"
    /\ UNCHANGED <<streams, written, timeline, stored, work, upsets>>

Reverted(sha) ==
    /\ sha \notin timeline /\ Upset
    /\ timeline' = timeline \cup {sha}
    /\ UNCHANGED <<streams, written, stored, work, checkpoint>>

Next ==
    \/ Run(TRUE) \/ Run(FALSE) \/ ReadNext \/ Assemble \/ KeepVersion \/ WriteRecord \/ SaveCursor \/ Crash
    \/ \E t \in Tickets : Enrich(t)
    \/ \E l \in Lines : WriteBegins(l)
    \/ WriteEnds \/ Checkpoint \/ Prune \/ WriterGivesUp
    \/ \E sha \in Shas : Reverted(sha)

Spec == Init /\ [][Next]_vars

-----------------------------------------------------------------------------
(* Properties.                                                             *)

\* Retention loses nothing: every line of evidence that was ever completed is
\* still in a stream or in the saved cursor, whatever run was killed, given up
\* or met a half-written line.
OwnEvidence(l) == Evidence(l) /\ \A c \in written : c.kind = "run_context" /\ c.boot = l.boot => c.repo \in {None, Repo}
EvidenceKept ==
    \A l \in written : OwnEvidence(l) =>
        \/ \E r \in cursor.records : r.line.id = l.id
        \/ \E p \in Paths : \E i \in DOMAIN streams[p].text : streams[p].text[i].id = l.id

\* Between runs the record of every ticket is what a rebuild from everything
\* the cursor knows would write, although a run rebuilds only what it touches:
\* a new blocker, context, revert or unreadable line of another ticket counts.
\* A run that was killed leaves records ahead of the cursor until one that reads
\* the same files is through; a backfill leaves tickets alone that are older
\* than its cut-off.
RecordsAreCurrent ==
    work.phase = "idle" /\ work.owed = "none" =>
        \A t \in Tickets :
            LET evs == EventsOf(cursor, t)
            IN evs # <<>> /\ Last(evs).line.ms >= Since =>
                 disk[t] = TicketRecord(cursor, t, cursor.timeline)
=============================================================================
