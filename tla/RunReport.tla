------------------------------ MODULE RunReport ------------------------------
(***************************************************************************)
(* The telemetry stream and its reports (run_telemetry/writer,             *)
(* run_telemetry/retention.ex, analytics/lib/analytics: reduce.py,         *)
(* reduce_tickets.py, reduce_actors.py, optimistic.py, materialize.py,     *)
(* render.py, render_build.py, feature_supply.py).  The daemon's writer    *)
(* appends records.  When the stream is too long it rolls: it closes and   *)
(* reopens what is in progress around a boundary marker, repeats the       *)
(* points that say how far a ticket is, and drops the older segments.  The *)
(* analytics reduce what is left to intervals, profiles and findings, for  *)
(* one boot or for one build order.                                        *)
(*                                                                         *)
(* A record has the attributes that the reducer looks at.  CPU is in       *)
(* hundredths of a core, money and wording are left out, and a feature     *)
(* supply interval carries its minutes per unit of time.  Records are      *)
(* written in the order of their timestamps.                               *)
(***************************************************************************)
EXTENDS Integers, Sequences, SequencesExt, FiniteSetsExt, Functions, TLC

CONSTANTS
    Templates,      \* attributes of the records that the daemon may write
    GithubEvents,   \* a sequence of [event, ms, ticket, id], read from a file
    Boots, None, Github,
    Members,        \* the tickets of a build order, in its order
    Grace, Now, GapMs, SampleMs, DayMs,
    MaxRecords, MaxRolls        \* bounds

VARIABLES
    stream,     \* telemetry.ndjson
    boot, seq, ms,
    open,       \* the writer's open_lifecycles: the starts in progress
    carried,    \* its carried_points
    history,    \* what this boot has written, rolls aside
    rolls

vars == <<stream, boot, seq, ms, open, carried, history, rolls>>

CarriedEvents == {"dispatch", "pr_opened", "pr_merged", "pr_ready", "pr_facts"}

Plain == [kind |-> "restart", ticket |-> None, event |-> "daemon_restart", boundary |-> None, attempt |-> None,
    op |-> None, source |-> None, origin |-> None, outcome |-> None, cont |-> None, complexity |-> 0,
    backend |-> None, host |-> None, trigger |-> None, blockers |-> {}, evidence |-> None, nonff |-> None,
    head |-> None, actor |-> None, availability |-> None, cpu |-> None, fleet |-> None, build |-> None, from |-> 0, to |-> 0,
    rate |-> 0, key |-> <<>>]
Line(attrs, b, s, t) == attrs @@ [boot |-> b, seq |-> s, ms |-> t]

EventKey(a) == <<a.ticket, a.attempt, a.event, a.boundary, a.op, a.source>>
PairKey(e) == <<e.attempt, e.event, e.op>>

-----------------------------------------------------------------------------
(* Plausible slips in the code below, each of which TLC must catch.        *)

\* the end that a roll writes ends the interval
SegmentEndEnds(acc, e) ==
    IF e.boundary = "start" THEN
        [acc EXCEPT !.open = {s \in @ : PairKey(s) # PairKey(e)} \cup {e}]
    ELSE IF e.boundary = "end" THEN
        LET started == {s \in acc.open : PairKey(s) = PairKey(e)}
        IN [open |-> acc.open \ started,
            done |-> acc.done \cup
                (IF started = {} THEN {[start |-> e, end |-> None, status |-> "orphan_end"]}
                 ELSE {[start |-> s, end |-> e, status |-> "closed"] : s \in started})]
    ELSE [acc EXCEPT !.done = @ \cup {[start |-> e, end |-> None, status |-> "point"]}]

-----------------------------------------------------------------------------
(* The reducer: records.                                                   *)

\* _lifecycle_event_key
DedupeKey(r) == IF r.kind = "lifecycle" /\ (r.source # None \/ r.op # None) THEN r.key ELSE <<>>

Dedupe(records) ==
    FoldLeft(LAMBDA kept, r :
        IF \/ \E i \in DOMAIN kept : kept[i].boot = r.boot /\ kept[i].seq = r.seq
           \/ DedupeKey(r) # <<>> /\ \E i \in DOMAIN kept : DedupeKey(kept[i]) = DedupeKey(r)
        THEN kept ELSE Append(kept, r), <<>>, records)

\* the sort key: what follows the sequence number is the same line twice
Earlier(r, s) ==
    \/ r.ms < s.ms
    \/ r.ms = s.ms /\ (r.boot < s.boot \/ (r.boot = s.boot /\ r.seq < s.seq))

SequenceGaps(records) ==
    LET numbers(b) == {records[i].seq : i \in {j \in DOMAIN records : records[j].boot = b}}
        gap(b, x, y) == y > x + 1 /\ \A z \in numbers(b) : (z <= x \/ z >= y)
    IN UNION {{<<b, p[1], p[2]>> : p \in {q \in numbers(b) \X numbers(b) : gap(b, q[1], q[2])}} : b \in Boots}

\* _github_record: an event that has a time
GithubRecords ==
    LET record(i) ==
          LET e == GithubEvents[i]
              name == IF e.event \in {"pr.opened", "pr.merged"} THEN e.event ELSE "comment"
          IN Line([Plain EXCEPT !.kind = "lifecycle", !.ticket = e.ticket, !.source = e.id, !.origin = "github",
                     !.boundary = "point",
                     !.event = CASE name = "pr.opened" -> "pr_opened" [] name = "pr.merged" -> "pr_merged"
                                 [] OTHER -> "comment_received"],
                  Github, i, e.ms)
    IN SelectSeq([i \in DOMAIN GithubEvents |-> record(i)], LAMBDA r : r.ms # None)

-----------------------------------------------------------------------------
(* Tickets (reduce_tickets.py).                                            *)

Boundaries == {"start", "end", "point"}
IsLifecycleEvent(r) == r.kind = "lifecycle" /\ r.ticket # None /\ r.event # None /\ r.boundary \in Boundaries
Complexity(r) == IF r.complexity \in 1..5 THEN r.complexity ELSE None

TicketEvents(records, t) ==
    SortSeq(SelectSeq(records, LAMBDA r : IsLifecycleEvent(r) /\ r.ticket = t), Earlier)
EventsNamed(events, name) == SelectSeq(events, LAMBDA e : e.event = name)
LastOf(s) == IF s = <<>> THEN None ELSE Last(s)

DispatchComplexity(events) ==
    LET known == SelectSeq(events, LAMBDA e : e.event = "dispatch" /\ Complexity(e) # None)
    IN IF known = <<>> THEN None ELSE Complexity(Head(known))

\* One event: an interval in progress is reopened by a later segment, and not
\* ended by the one before.
PairEvent(acc, e) ==
    LET same == {s \in acc.open : PairKey(s) = PairKey(e)}
        ends(status, ev) == [start |-> ev, end |-> None, status |-> status]
    IN IF e.boundary = "start" THEN
           IF e.cont = "open" /\ same # {} THEN acc ELSE [acc EXCEPT !.open = (@ \ same) \cup {e}]
       ELSE IF e.boundary = "point" THEN [acc EXCEPT !.done = @ \cup {ends("point", e)}]
       ELSE IF e.cont = "close" THEN acc
       ELSE [open |-> acc.open \ same,
             done |-> acc.done \cup IF same = {} THEN {ends("orphan_end", e)}
                                    ELSE {[start |-> s, end |-> e, status |-> "closed"] : s \in same}]

LifecycleIntervals(events) ==
    LET acc == FoldLeft(PairEvent, [open |-> {}, done |-> {}], events)
    IN acc.done \cup {[start |-> s, end |-> None, status |-> "open"] : s \in acc.open}

Duration(i) == IF i.end.ms > i.start.ms THEN i.end.ms - i.start.ms ELSE 0
Outcome(i) == IF i.status = "closed" /\ i.end.outcome # None THEN i.end.outcome ELSE i.start.outcome

\* _active_review_pause, _response_window
ReviewPause(events, c) ==
    LET prior == {i \in DOMAIN events : events[i].ms < c.ms}
        active == {i \in prior : /\ events[i].event = "review_pause"
                                 /\ \A j \in prior : j > i => events[j].event \notin {"pr_merged", "agent_resume"}}
    IN IF active = {} THEN None ELSE events[Max(active)]

Response(events, c) ==
    LET later == SelectSeq(events, LAMBDA e : e.ms > c.ms)
        stops == {i \in DOMAIN later : later[i].event \in {"review_pause", "pr_merged"}}
        window == IF stops = {} THEN later ELSE SubSeq(later, 1, Min(stops) - 1)
        rework == {i \in DOMAIN window : window[i].event = "rework_start"}
    IN [merged |-> stops # {} /\ later[Min(stops)].event = "pr_merged",
        missing |-> (IF rework = {} THEN {"rework_start"} ELSE {})
            \cup (IF rework # {} /\ \E i \in DOMAIN window : i > Min(rework) /\ window[i].event = "agent_resume"
                  THEN {} ELSE {"agent_resume"})]

Findings(events) ==
    {[comment |-> c, pause |-> ReviewPause(events, c), missing |-> Response(events, c).missing,
      status |-> IF Response(events, c).missing = {} THEN "resolved"
                 ELSE IF Response(events, c).merged THEN "closed"
                 ELSE IF Now < c.ms + Grace THEN "pending" ELSE "broken"] :
        c \in {e \in Range(events) : e.event = "comment_received" /\ ReviewPause(events, e) # None}}

-----------------------------------------------------------------------------
(* Optimistic starts (optimistic.py).                                      *)

CountIf(s, P(_)) == Len(SelectSeq(s, P))

\* an implement interval between the optimistic start and the park that ended it
Waste(intervals, starts, parks) ==
    LET spans == {i \in intervals : i.start.event = "implement"}
        startOf(i) == SelectSeq(starts, LAMBDA e : e.attempt = i.start.attempt)
        parkOf(i) == SelectSeq(parks, LAMBDA e : e.attempt = i.start.attempt /\ e.ms >= Head(startOf(i)).ms)
        begin(i) == Max({i.start.ms, Head(startOf(i)).ms})
        end(i) == IF i.end = None THEN Head(parkOf(i)).ms ELSE Min({i.end.ms, Head(parkOf(i)).ms})
        counted == {i \in spans : startOf(i) # <<>> /\ parkOf(i) # <<>> /\ end(i) >= begin(i)}
    IN IF counted = {} THEN None ELSE MapThenSumSet(LAMBDA i : end(i) - begin(i), counted)

TicketOptimistic(events, intervals) ==
    LET starts == EventsNamed(events, "optimistic_start")
        reports == EventsNamed(events, "blocker_integrate")
        pushes == EventsNamed(events, "blocker_push")
        outcome == LastOf(EventsNamed(events, "optimistic_outcome"))
        parks == EventsNamed(events, "optimistic_park")
        status == IF outcome = None \/ outcome.outcome = None THEN "open" ELSE outcome.outcome
        reported == {r.evidence : r \in Range(reports)} \ {None}
        unknown == CountIf(pushes, LAMBDA p : p.evidence \notin reported)
                   + CountIf(reports, LAMBDA r : r.outcome \notin {"clean", "conflict"})
        told(n) == IF reports = <<>> THEN None ELSE n
    IN IF starts = <<>> THEN None ELSE
       [trigger |-> Head(starts).trigger, blockers |-> Head(starts).blockers, pushes |-> Len(pushes),
        clean |-> told(CountIf(reports, LAMBDA r : r.outcome = "clean")),
        conflict |-> told(CountIf(reports, LAMBDA r : r.outcome = "conflict")),
        unknown |-> IF reports = <<>> /\ pushes = <<>> THEN None ELSE unknown,
        nonff |-> IF unknown = 0 /\ \A r \in Range(reports) : r.nonff # None
                  THEN told(CountIf(reports, LAMBDA r : r.nonff = TRUE)) ELSE None,
        parks |-> Len(parks), resumes |-> Len(EventsNamed(events, "optimistic_resume")), outcome |-> status,
        head |-> IF status \in {"merged", "merged_after_redo"} /\ outcome.head # None
                 THEN Max({outcome.head, 0}) ELSE None,
        waste |-> IF status = "discarded" THEN Waste(intervals, starts, parks) ELSE None]

\* optimistic_rollup: one row per trigger
Rollup(tickets) ==
    LET evidence == {t \in DOMAIN tickets : tickets[t].optimistic # None}
        ev(t) == tickets[t].optimistic
        of(g) == {t \in evidence : ev(t).trigger = g}
        total(S, f(_)) == MapThenSumSet(LAMBDA t : IF f(t) = None THEN 0 ELSE f(t), S)
        ended(g, o) == Cardinality({t \in of(g) : ev(t).outcome = o})
    IN [g \in {ev(t).trigger : t \in evidence} |->
          [starts |-> Cardinality(of(g)), merged |-> ended(g, "merged"), redone |-> ended(g, "merged_after_redo"),
           discarded |-> ended(g, "discarded"),
           head |-> total(of(g), LAMBDA t : ev(t).head), waste |-> total(of(g), LAMBDA t : ev(t).waste),
           headUnknown |-> Cardinality({t \in of(g) : ev(t).head = None /\ ev(t).outcome \in {"merged", "merged_after_redo"}}),
           wasteUnknown |-> Cardinality({t \in of(g) : ev(t).waste = None /\ ev(t).outcome = "discarded"}),
           clean |-> total(of(g), LAMBDA t : ev(t).clean), conflict |-> total(of(g), LAMBDA t : ev(t).conflict),
           unknown |-> IF \E t \in of(g) : ev(t).unknown = None THEN None ELSE total(of(g), LAMBDA t : ev(t).unknown)]]

-----------------------------------------------------------------------------
(* Actors (reduce_actors.py): each has samples.                            *)

Samples(records, a) == SortSeq(SelectSeq(records, LAMBDA r : r.kind = "resource" /\ r.actor = a), Earlier)
ActorsOf(records) == {records[i].actor : i \in {j \in DOMAIN records : records[j].kind = "resource"}} \ {None}

\* twice the median
Statistics(values) ==
    LET v == SortSeq(values, LAMBDA x, y : x < y)
        n == Len(v)
        p95 == (95 * n + 99) \div 100
    IN [count |-> n, min |-> v[1], sum |-> FoldLeft(LAMBDA x, y : x + y, 0, v), max |-> v[n],
        median |-> v[(n + 1) \div 2] + v[n \div 2 + 1], p95 |-> v[IF p95 < 1 THEN 1 ELSE p95]]

CpuProfile(samples) ==
    LET measured == SelectSeq(samples, LAMBDA s : s.cpu # None)
    IN IF measured = <<>> THEN None ELSE Statistics([i \in DOMAIN measured |-> measured[i].cpu])

\* between the samples of one boot
Gaps(samples) ==
    UNION {LET own == SelectSeq(samples, LAMBDA s : s.boot = b)
           IN {<<own[i], own[i + 1]>> : i \in {j \in 1..(Len(own) - 1) : own[j + 1].ms - own[j].ms > GapMs}} :
           b \in Boots}

Actor(samples) ==
    [samples |-> samples, profile |-> CpuProfile(samples), gaps |-> Gaps(samples),
     measured |-> CountIf(samples, LAMBDA s : s.availability = "measured")]

-----------------------------------------------------------------------------
(* reduce_files, and what the reports narrow it to.                        *)

Ticket(events) ==
    LET intervals == LifecycleIntervals(events)
    IN [complexity |-> DispatchComplexity(events), facts |-> LastOf(EventsNamed(events, "pr_facts")),
        events |-> events, intervals |-> intervals,
        optimistic |-> TicketOptimistic(events, intervals), findings |-> Findings(events)]

TicketsOf(records) == {records[i].ticket : i \in {j \in DOMAIN records : IsLifecycleEvent(records[j])}}
DaemonRestart(r) == r.kind = "restart" /\ r.event = "daemon_restart"
OfKind(records, kind) == SelectSeq(records, LAMBDA r : r.kind = kind)
TimeRange(records) == IF records = <<>> THEN None ELSE <<Head(records).ms, Last(records).ms>>

Dataset(lines) ==
    LET own == Dedupe(SortSeq(lines, Earlier))
        records == own \o GithubRecords
    IN [records |-> records, restarts |-> SelectSeq(records, DaemonRestart),
        contexts |-> OfKind(records, "run_context"),
        actors |-> [a \in ActorsOf(records) |-> Actor(Samples(records, a))],
        tickets |-> [t \in TicketsOf(records) |-> Ticket(TicketEvents(records, t))],
        warnings |-> SequenceGaps(own), range |-> TimeRange(records)]

BootIds(d) == {d.records[i].boot : i \in DOMAIN d.records} \ {Github}

\* _in_boot: what GitHub said counts for every boot, what was found later for none
InBoot(r, b) == r.boot = Github \/ (r.origin # "github_reconciliation" /\ r.boot = b)
Pick(s, b) == SelectSeq(s, LAMBDA r : InBoot(r, b))

RescopeTickets(tickets, b) ==
    [t \in {u \in DOMAIN tickets : Pick(tickets[u].events, b) # <<>>} |->
       LET events == Pick(tickets[t].events, b)
           intervals == LifecycleIntervals(events)
       IN [tickets[t] EXCEPT !.events = events, !.intervals = intervals,
             !.facts = LastOf(EventsNamed(events, "pr_facts")), !.optimistic = TicketOptimistic(events, intervals)]]

Reprofiled(actor, samples) == Actor(samples)
RescopeActors(actors, b) ==
    LET own(a) == SelectSeq(actors[a].samples, LAMBDA s : s.boot = b)
    IN [a \in {x \in DOMAIN actors : own(x) # <<>>} |-> Reprofiled(actors[a], own(a))]

BootSummary(d, b) ==
    [records |-> Pick(d.records, b), restarts |-> Pick(d.restarts, b),
     contexts |-> Pick(OfKind(d.records, "run_context"), b),
     actors |-> RescopeActors(d.actors, b), tickets |-> RescopeTickets(d.tickets, b),
     warnings |-> {w \in d.warnings : w[1] = b}, range |-> TimeRange(Pick(d.records, b))]

\* write_all_run_summaries
RunSummaries(d) == [b \in BootIds(d) |-> BootSummary(d, b)]

\* run-summary without a boot: the one with the newest record
NewestBoot(d) ==
    LET last(b) == Max({d.records[i].ms : i \in {j \in DOMAIN d.records : d.records[j].boot = b}})
    IN CHOOSE b \in BootIds(d) : \A c \in BootIds(d) : last(b) >= last(c)

\* _rollup_build
MemberRollup(d, members) ==
    LET own(r) == r.ticket \in members
        named == {a \in DOMAIN d.actors : \E i \in DOMAIN d.actors[a].samples : own(d.actors[a].samples[i])}
    IN [records |-> SelectSeq(d.records, own), restarts |-> SelectSeq(d.restarts, own),
        actors |-> Restrict(d.actors, named), tickets |-> Restrict(d.tickets, DOMAIN d.tickets \cap members),
        warnings |-> d.warnings, range |-> TimeRange(SelectSeq(d.records, own))]

-----------------------------------------------------------------------------
(* The numbers of the reports (render.py, render_build.py).                *)

\* in hundredths of a core times samples
CpuOf(actor) == IF actor.profile = None THEN 0 ELSE actor.profile.sum
Phases(ticket) == {i.start.event : i \in ticket.intervals}
TicketStatus(ticket) ==
    IF "pr_merged" \in Phases(ticket) THEN "merged"
    ELSE IF "rework_start" \in Phases(ticket) THEN "rework"
    ELSE IF "agent_pause" \in Phases(ticket) THEN "paused" ELSE "active"

WallClock(ticket) ==
    LET dispatched == EventsNamed(ticket.events, "dispatch")
        starts == {i.start.ms : i \in ticket.intervals}
        ends == {i.end.ms : i \in {j \in ticket.intervals : j.end # None}} \cup starts
        from == IF dispatched = <<>> THEN Min(starts) ELSE Head(dispatched).ms
    IN Max({Max(ends) - from, 0})

Closed(ticket) == {i \in ticket.intervals : i.status = "closed"}
ActiveMs(ticket) == MapThenSumSet(Duration, Closed(ticket))
CiCycles(ticket) == {i \in Closed(ticket) : i.start.event = "build_test"}
Backends(ticket) ==
    LET pairs == {<<e.backend, e.host>> : e \in Range(ticket.events)} \ {<<None, None>>}
    IN [p \in pairs |-> CountIf(ticket.events, LAMBDA e : <<e.backend, e.host>> = p)]

IsAgent(a) == a \notin {"_daemon", "_operator", "daemon", "operator", "executor"}

\* how many agents were busy in one sampling period
Concurrency(actors) ==
    LET busy(a) == {s.ms \div SampleMs : s \in {x \in Range(actors[a].samples) :
                      x.availability = "measured" /\ x.cpu # None /\ x.cpu > 0}}
        agents == {a \in DOMAIN actors : IsAgent(a)}
        buckets == UNION {busy(a) : a \in agents}
    IN Max({Cardinality({a \in agents : k \in busy(a)}) : k \in buckets} \cup {0})

\* Exact fleet samples if there are any, else what CPU use suggests
Highest(samples, f(_)) ==
    LET known == {f(samples[i]) : i \in DOMAIN samples} \ {None} IN IF known = {} THEN None ELSE Max(known)

FleetPressure(summary) ==
    LET samples == IF "_daemon" \in DOMAIN summary.actors THEN summary.actors["_daemon"].samples ELSE <<>>
        fleet == SelectSeq(samples, LAMBDA s : s.fleet # None)
        build == SelectSeq(samples, LAMBDA s : s.build # None)
        sized == {i \in DOMAIN fleet : fleet[i].fleet.effective # None}
    IN [peak |-> IF fleet = <<>> THEN Concurrency(summary.actors) ELSE Highest(fleet, LAMBDA s : s.fleet.occupied),
        wasted |-> IF sized = {} THEN None
                   ELSE MapThenSumSet(LAMBDA i : Max({fleet[i].fleet.effective - fleet[i].fleet.occupied, 0}), sized),
        partial |-> fleet = <<>> \/ sized # DOMAIN fleet, legacy |-> fleet = <<>>,
        latest |-> LastOf(fleet), latestBuild |-> LastOf(build),
        active |-> Highest(build, LAMBDA s : s.build.active), queued |-> Highest(build, LAMBDA s : s.build.queued),
        wait |-> Highest(build, LAMBDA s : s.build.wait)]

\* daily_supply: an interval is divided among the days that it spans
DailySupply(records) ==
    LET intervals == SelectSeq(records, LAMBDA r : r.kind = "feature_supply" /\ r.event = "interval" /\ r.to > r.from)
        overlap(r, d) == Max({0, Min({r.to, (d + 1) * DayMs}) - Max({r.from, d * DayMs})})
        days == UNION {(r.from \div DayMs)..((r.to - 1) \div DayMs) : r \in Range(intervals)}
    IN [d \in days |-> FoldLeft(LAMBDA x, r : x + r.rate * overlap(r, d), 0, intervals)]

Kpis(summary) ==
    LET ts == summary.tickets
        merged == {t \in DOMAIN ts : TicketStatus(ts[t]) = "merged"}
        agents == {a \in DOMAIN summary.actors : IsAgent(a)}
    IN [tickets |-> Cardinality(DOMAIN ts), merged |-> Cardinality(merged),
        dispatched |-> Cardinality({t \in DOMAIN ts : EventsNamed(ts[t].events, "dispatch") # <<>>}),
        cpu |-> MapThenSumSet(LAMBDA a : CpuOf(summary.actors[a]), agents),
        pressure |-> FleetPressure(summary), supply |-> DailySupply(summary.records), optimistic |-> Rollup(ts)]

\* build_report_rows
BuildRow(rollup, m) ==
    IF m \notin DOMAIN rollup.tickets
    THEN [observed |-> FALSE, status |-> "open", wall |-> None, active |-> 0, ci |-> 0, failed |-> 0, rework |-> 0, cpu |-> 0]
    ELSE LET t == rollup.tickets[m]
             named == {a \in DOMAIN rollup.actors : m \in {s.ticket : s \in Range(rollup.actors[a].samples)}}
         IN [observed |-> TRUE, status |-> TicketStatus(t), wall |-> WallClock(t), active |-> ActiveMs(t),
             ci |-> Cardinality(CiCycles(t)), failed |-> Cardinality({i \in CiCycles(t) : Outcome(i) = "failed"}),
             rework |-> Len(EventsNamed(t.events, "rework_start")),
             cpu |-> MapThenSumSet(LAMBDA a : CpuOf(rollup.actors[a]), named)]

\* the slowest last, those without a time at the very end
BuildRows(d) ==
    LET rollup == MemberRollup(d, Range(Members))
        rows == [i \in DOMAIN Members |-> [at |-> i, ticket |-> Members[i], backends |->
                   IF Members[i] \in DOMAIN rollup.tickets THEN Backends(rollup.tickets[Members[i]]) ELSE <<>>]
                   @@ BuildRow(rollup, Members[i])]
        before(x, y) == \/ x.wall # None /\ y.wall = None
                        \/ x.wall # None /\ y.wall # None /\ x.wall < y.wall
                        \/ x.wall = y.wall /\ x.at < y.at
    IN SortSeq(rows, before)

-----------------------------------------------------------------------------
(* The writer.                                                             *)

Init ==
    /\ stream = <<>> /\ boot = 0 /\ seq = 0 /\ ms = 0
    /\ open = {} /\ carried = <<>> /\ history = <<>> /\ rolls = 0

\* A group starts at a restart or a boundary marker.
GroupStarts == {i \in DOMAIN stream : stream[i].kind = "restart"}
DropBefore(i) == SubSeq(stream, i, Len(stream))

\* retain_by_size when a boot begins: groups from the newest back.  A group
\* that a roll has begun is kept with the one before it, and no more.
KeptAtBoot ==
    LET last == Max(GroupStarts)
        older == GroupStarts \ {last}
    IN IF GroupStarts = {} THEN {stream}
       ELSE {stream} \cup IF stream[last].event = "segment_boundary" THEN {DropBefore(Max(older))}
                          ELSE {DropBefore(i) : i \in GroupStarts}

\* Writer.init
Boot ==
    /\ boot + 1 \in Boots /\ ms < MaxRecords
    /\ boot' = boot + 1 /\ seq' = 2 /\ ms' = ms + 1
    /\ \E kept \in KeptAtBoot :
         stream' = kept \o <<Line(Plain, boot', 1, ms'), Line([Plain EXCEPT !.kind = "run_context"], boot', 2, ms')>>
    /\ history' = <<Line(Plain, boot', 1, ms'), Line([Plain EXCEPT !.kind = "run_context"], boot', 2, ms')>>
    /\ open' = {} /\ carried' = <<>>
    /\ UNCHANGED rolls

\* append_many, with track_lifecycles and track_carried_points.  An attempt is of
\* one boot, and an event happens once.
Record(template) ==
    LET a == [template EXCEPT !.attempt = IF @ = None THEN None ELSE boot] IN
    /\ boot # 0 /\ ms < MaxRecords
    /\ a.kind = "lifecycle" => \A i \in DOMAIN history : history[i].key # EventKey(a)
    /\ a.boundary = "end" => \E s \in open : PairKey(s) = PairKey(a)
    /\ LET e == Line([a EXCEPT !.key = EventKey(a)], boot, seq + 1, ms + 1)
           same == {s \in open : PairKey(s) = PairKey(e)}
       IN /\ stream' = Append(stream, e) /\ history' = Append(history, e)
          /\ open' = IF a.boundary = "start" THEN (open \ same) \cup {e}
                     ELSE IF a.boundary = "end" THEN open \ same ELSE open
          /\ carried' = IF a.event \in CarriedEvents /\ a.boundary = "point"
                           /\ \A i \in DOMAIN carried : carried[i].key # e.key
                        THEN Append(carried, e) ELSE carried
    /\ seq' = seq + 1 /\ ms' = ms + 1
    /\ UNCHANGED <<boot, rolls>>

\* write_segment_boundary, then LedgerRetention.prune, which may fail: the
\* segment before the boundary is kept with it
Closing(e) == [e EXCEPT !.boundary = "end", !.cont = "close"]
Reopened(e) == [e EXCEPT !.boundary = "start", !.cont = "open"]
Roll ==
    /\ boot # 0 /\ rolls < MaxRolls
    /\ LET starts == SetToSortSeq(open, Earlier)
           n == Len(starts)
           marks == [i \in 1..n |-> Closing(starts[i])]
                    \o <<[Plain EXCEPT !.event = "segment_boundary"], [Plain EXCEPT !.kind = "run_context", !.cont = "carried"]>>
                    \o [i \in 1..n |-> Reopened(starts[i])]
                    \o [i \in DOMAIN carried |-> [carried[i] EXCEPT !.cont = "carried"]]
           at(i) == IF marks[i].cont = "carried" /\ marks[i].kind = "lifecycle" THEN marks[i].ms ELSE ms
           lines == [i \in DOMAIN marks |-> [boot |-> boot, seq |-> seq + i, ms |-> at(i)] @@ marks[i]]
       IN /\ \/ stream' = stream \o lines
             \/ stream' = DropBefore(Max(GroupStarts)) \o lines
          /\ open' = {lines[n + 2 + i] : i \in 1..n}
          /\ seq' = seq + Len(lines)
    /\ rolls' = rolls + 1
    /\ UNCHANGED <<boot, ms, carried, history>>

Next == Boot \/ (\E a \in Templates : Record(a)) \/ Roll

Spec == Init /\ [][Next]_vars

-----------------------------------------------------------------------------
(* Properties.                                                             *)

\* Rolling is invisible: although it writes ends that are none and drops older
\* segments, the report of the newest boot is the running one's and has exactly the open intervals that the boot has
\* left open, no end without its start, the same closed intervals since, and the
\* same merges and dispatches.
Live == LET d == Dataset(stream) IN BootSummary(d, NewestBoot(d))
True == BootSummary(Dataset(history), boot)
Open(ticket) == {PairKey(i.start) : i \in {j \in ticket.intervals : j.status = "open"}}
RollsAreInvisible ==
    boot # 0 =>
      \A t \in DOMAIN Live.tickets \cup DOMAIN True.tickets :
           LET shown == IF t \in DOMAIN Live.tickets THEN Live.tickets[t] ELSE Ticket(<<>>)
               true == IF t \in DOMAIN True.tickets THEN True.tickets[t] ELSE Ticket(<<>>)
           IN /\ Open(shown) = Open(true)
              /\ \A i \in shown.intervals : i.status # "orphan_end"
              /\ Phases(shown) \cap CarriedEvents = Phases(true) \cap CarriedEvents
              /\ {PairKey(i.start) : i \in Closed(shown)} \subseteq {PairKey(i.start) : i \in Closed(true)}

\* A boot's summary says what a reduction of the boot's records alone would say:
\* no interval, sample, gap or count of another boot gets into it.  The review
\* findings and the complexity are those of the whole stream.
Comparable(summary) ==
    [kpis |-> Kpis(summary), records |-> summary.records, actors |-> summary.actors, range |-> summary.range,
     restarts |-> summary.restarts, contexts |-> summary.contexts, warnings |-> summary.warnings,
     tickets |-> [t \in DOMAIN summary.tickets |->
                    [summary.tickets[t] EXCEPT !.findings = {}, !.complexity = None]]]
SummariesAreOwn ==
    LET d == Dataset(stream)
    IN \A b \in BootIds(d) :
         LET own == Dataset(SelectSeq(stream, LAMBDA r : InBoot(r, b)))
         IN Comparable(RunSummaries(d)[b]) = Comparable(own)

\* A build's report adds up its members' runs: a member was observed if a run's
\* summary shows it, and its active time is the sum of theirs.
RowsAddUp ==
    LET d == Dataset(stream)
        runs == RunSummaries(d)
        active(m, b) == IF m \in DOMAIN runs[b].tickets THEN ActiveMs(runs[b].tickets[m]) ELSE 0
    IN BootIds(d) # {} =>
         \A r \in Range(BuildRows(d)) :
           /\ r.observed = \E b \in BootIds(d) : r.ticket \in DOMAIN runs[b].tickets
           /\ r.active = MapThenSumSet(LAMBDA b : active(r.ticket, b), BootIds(d))
=============================================================================
