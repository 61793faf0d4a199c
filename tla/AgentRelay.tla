----------------------------- MODULE AgentRelay -----------------------------
(* The detached relay that owns a provider process: it journals the        *)
(* provider's output frame by frame, hands the frames to one controller at *)
(* a time over a Unix socket, lets a controller of a later generation take *)
(* over, and stops the provider's process tree.  Its controllers are the   *)
(* RelayPort processes of successive daemons.                              *)
(*                                                                         *)
(* A frame has length one, so an offset is the number of a frame.  What a  *)
(* task of the relay does between two awaits is one step; an await that    *)
(* need not wait is none.  A connection attaches once; its requests and    *)
(* the relay's answers travel in order.                                    *)
EXTENDS Naturals, Sequences

CONSTANTS
    Clients,      \* controllers' connections, each used once
    NoClient,     \* no controller
    MaxFrames,    \* bound: frames the provider writes
    MaxGen,       \* bound: generations
    Cap,          \* journal_cap: frames that may be unacknowledged
    MaxFaults     \* bound: writes that fail and controllers that stop reading

ASSUME ClientsAssumption == NoClient \notin Clients
ASSUME BoundsAssumption ==
    MaxFrames \in Nat /\ MaxGen \in Nat /\ Cap \in Nat \ {0} /\ MaxFaults \in Nat

VARIABLES
    provider,     \* running, exited, or read: its output is read to the end
    end,          \* end: frames the relay has read and numbered
    crossed,      \* a line of a former controller has reached the provider
    acked, generation, lossy, failed,
    watched,      \* the watch task has published the exit status
    stop,         \* the stop task: none, asked, stopping or done
    serve,        \* serve: up, drain (it waits for a controller) or down
    waitsOn,      \* the controller serve waits for
    open,         \* connections the relay has not closed
    controller,   \* the connection that controls the relay
    sent,         \* last frame sent to it
    acking,       \* its forward task waits for an acknowledgement
    ready, acknowledged, drained,  \* its events
    toRelay, toClient,             \* requests and answers in the sockets
    client,       \* RelayPort: idle, on, closing or gone
    gen,          \* generation it attached with
    last,         \* last frame it handed to its owner, or the offset it began at
    pending,      \* connections whose last frame is not acknowledged
    seen,         \* exit status its owner was told: none, code or one
    taken,        \* frames that some controller has handed to its owner
    faults

output == <<provider, end, crossed>>
relay == <<acked, generation, watched, serve, waitsOn>>
failure == <<lossy, failed, stop>>
link == <<controller, open>>
events == <<ready, acknowledged, drained>>
task == <<sent, acking, events>>
port == <<client, gen, last, pending, seen, taken>>
vars == <<output, relay, failure, link, task, toRelay, toClient, port, faults>>

Offsets == 0..MaxFrames
Generations == 0..MaxGen
Requests ==
    [op : {"ack"}, offset : Offsets] \cup [op : {"stdin", "detach", "stop"}]
Answers == [op : {"frame"}, offset : Offsets] \cup [op : {"exit", "error"}]

TypeOK ==
    /\ provider \in {"running", "exited", "read"}
    /\ end \in Offsets /\ acked \in Offsets /\ sent \in Offsets
    /\ crossed \in BOOLEAN /\ generation \in Generations
    /\ lossy \in BOOLEAN /\ failed \in BOOLEAN /\ watched \in BOOLEAN
    /\ stop \in {"none", "asked", "stopping", "done"}
    /\ serve \in {"up", "drain", "down"}
    /\ controller \in Clients \cup {NoClient} /\ waitsOn \in Clients \cup {NoClient}
    /\ open \subseteq Clients /\ pending \subseteq Clients /\ taken \subseteq Offsets
    /\ acking \in BOOLEAN /\ ready \in BOOLEAN
    /\ acknowledged \in BOOLEAN /\ drained \in BOOLEAN
    /\ toRelay \in [Clients -> Seq(Requests)]
    /\ toClient \in [Clients -> Seq(Answers)]
    /\ client \in [Clients -> {"idle", "on", "closing", "gone"}]
    /\ last \in [Clients -> Offsets] /\ gen \in [Clients -> Generations]
    /\ seen \in [Clients -> {"none", "code", "one"}]
    /\ faults \in 0..MaxFaults

None(v) == [c \in Clients |-> v]

Init ==
    /\ provider = "running" /\ end = 0 /\ crossed = FALSE
    /\ acked = 0 /\ generation = 0 /\ lossy = FALSE /\ failed = FALSE
    /\ watched = FALSE /\ stop = "none" /\ serve = "up" /\ waitsOn = NoClient
    /\ open = {} /\ controller = NoClient
    /\ sent = 0 /\ acking = FALSE
    /\ ready = FALSE /\ acknowledged = FALSE /\ drained = FALSE
    /\ toRelay = None(<<>>) /\ toClient = None(<<>>)
    /\ client = None("idle") /\ gen = None(0) /\ last = None(0)
    /\ pending = {} /\ seen = None("none") /\ taken = {} /\ faults = 0

Up == serve # "down"
Stopping == stop \in {"stopping", "done"}
ExitStatus == watched \/ stop = "done"
Fault == faults < MaxFaults /\ faults' = faults + 1
NoFault == UNCHANGED <<failure, faults>>

-----------------------------------------------------------------------------
(* Plausible slips in the code below, each of which TLC must catch.        *)

Anyone(c) == TRUE                            \* requests are not fenced
FromTheEnd(o) == end                         \* frames nobody has taken are skipped
DropsAll(o) == end                           \* an acknowledgement drops every frame
NeverReleased == drained                     \* a disconnect does not wake serve
ReadersIgnored == provider # "running"       \* the status before the readers end

-----------------------------------------------------------------------------
(* The relay's connections and its failure path.                           *)

Tell(c, m) == toClient' = [toClient EXCEPT ![c] = IF c \in open THEN Append(@, m) ELSE @]

\* What the controller, if there is one, is told before it is disconnected.
TellController(m) ==
    toClient' = [c \in Clients |->
        IF c = controller THEN Append(toClient[c], m) ELSE toClient[c]]

\* disconnect: the writers are closed; if one was the controller's, there is
\* none.  Its events are set, which ends its forward task.
Disconnect(S) ==
    /\ open' = open \ S
    /\ controller' = IF controller \in S THEN NoClient ELSE controller

AskStop == stop' = IF stop = "none" THEN "asked" ELSE stop

\* fail_io: a write failed.  The journal is lossy, the controller is told and
\* disconnected, the provider is killed and stop is asked.  The connections in
\* also are closed.
FailIo(also) ==
    /\ Fault
    /\ failed' = TRUE /\ lossy' = TRUE
    /\ IF failed
       THEN Disconnect(also) /\ UNCHANGED <<stop, toClient>>
       ELSE /\ Disconnect(also \cup {controller})
            /\ AskStop /\ TellController([op |-> "error"])

\* The controller's place once the journal is lossy.
Evicted == NoClient

\* mark_lossy, its state saved.
MarkLossy ==
    /\ lossy' = TRUE /\ UNCHANGED <<failed, stop, faults>>
    /\ controller' = Evicted /\ open' = open \ {controller}
    /\ TellController([op |-> "error"])

-----------------------------------------------------------------------------
(* The provider and the task that reads its output.                        *)

ProviderExits ==
    /\ provider = "running" /\ provider' = "exited"
    /\ UNCHANGED <<end, crossed, relay, failure, link, task, toRelay, toClient, port, faults>>

\* kill_descendants, by watch or by stop: nobody holds the output open, so it
\* is read to its end.
ReadersEnd ==
    /\ Up /\ provider = "exited" /\ provider' = "read"
    /\ UNCHANGED <<end, crossed, relay, failure, link, task, toRelay, toClient, port, faults>>

\* append: one more frame is journaled, numbered and saved, or its write fails.
Journal ==
    /\ end - acked < Cap
    /\ \/ end' = end + 1 /\ ready' = TRUE /\ NoFault /\ UNCHANGED <<link, toClient>>
       \/ end' \in {end, end + 1} /\ UNCHANGED ready /\ FailIo({})

\* append beyond the journal's room.
Overflow ==
    /\ end - acked >= Cap /\ UNCHANGED <<end, ready>>
    /\ MarkLossy \/ FailIo({})

\* Output is read until its end; once the journal is lossy it is thrown away.
Read ==
    /\ Up /\ provider # "read" /\ ~lossy /\ end < MaxFrames
    /\ Journal \/ Overflow
    /\ UNCHANGED <<provider, crossed, relay, sent, acking, acknowledged, drained, toRelay,
                   port>>

-----------------------------------------------------------------------------
(* The requests of a connection, in order.                                 *)

\* valid_offset: nothing already acknowledged, nothing beyond the journal.
ValidOffset(o) == acked <= o /\ o <= end

NewGeneration(g) == g > generation

IsController(c) == controller = c

Refuse(c) ==
    Tell(c, [op |-> "error"]) /\ UNCHANGED <<output, relay, failure, link, task, port, faults>>

Becomes(c, phase) == client' = [client EXCEPT ![c] = phase]

\* What an acknowledgement leaves to be acknowledged: the frames beyond o.
Dropped(o) == o

\* ack: the frames up to the offset are dropped, the journal's file may be
\* rewritten, and the next frame may be sent.
Sendable(o) == ValidOffset(o) /\ o <= sent

Ack(c, r) ==
    \/ ~Sendable(r.offset) /\ Refuse(c)
    \/ /\ Sendable(r.offset) /\ acked' = Dropped(r.offset)
       /\ \/ acknowledged' = TRUE /\ NoFault /\ UNCHANGED <<link, toClient>>
          \/ FailIo({c}) /\ UNCHANGED acknowledged
       /\ UNCHANGED <<output, generation, watched, serve, waitsOn, sent, acking, ready,
                      drained, port>>

\* stdin: one line for the provider, while it has not exited.
Stdin(c) ==
    \/ provider # "running" /\ Refuse(c)
    \/ /\ provider = "running" /\ crossed' = (crossed \/ gen[c] # generation)
       /\ UNCHANGED <<provider, end, relay, failure, link, task, toClient, port, faults>>

Detach(c) ==
    /\ Disconnect({c})
    /\ UNCHANGED <<output, relay, failure, task, toClient, port, faults>>

StopRequest ==
    /\ AskStop
    /\ UNCHANGED <<output, relay, lossy, failed, link, task, toClient, port, faults>>

Fenced(c, r) ==
    \/ r.op = "ack" /\ Ack(c, r)
    \/ r.op = "stdin" /\ Stdin(c)
    \/ r.op = "detach" /\ Detach(c)
    \/ r.op = "stop" /\ StopRequest

Command(c) ==
    /\ Up /\ toRelay[c] # <<>>
    /\ toRelay' = [toRelay EXCEPT ![c] = Tail(@)]
    /\ LET r == Head(toRelay[c]) IN
       \/ IsController(c) /\ Fenced(c, r)
       \/ ~IsController(c) /\ Refuse(c)

\* receive ends: the peer has closed, or the relay has and drops what it had
\* not yet read.
Hangup(c) ==
    /\ Up
    /\ \/ client[c] = "gone" /\ toRelay[c] = <<>> /\ c \in open
       \/ c \notin open /\ toRelay[c] # <<>>
    /\ Disconnect({c})
    /\ toRelay' = [toRelay EXCEPT ![c] = <<>>]
    /\ UNCHANGED <<output, relay, failure, task, toClient, port, faults>>

-----------------------------------------------------------------------------
(* forward: the task that sends frames to the controller.                  *)

Deliverable == ExitStatus /\ (Stopping \/ sent >= end)

\* An acknowledgement is awaited before the task goes on.
Backpressure == acknowledged

SendFrame ==
    /\ Tell(controller, [op |-> "frame", offset |-> sent + 1])
    /\ sent' = sent + 1
    /\ acking' = TRUE /\ acknowledged' = FALSE
    /\ UNCHANGED drained

\* No frame is left for now: the exit status is told, once, if it is due.
Rest ==
    /\ IF Deliverable /\ ~drained
       THEN Tell(controller, [op |-> "exit"]) /\ drained' = TRUE
       ELSE UNCHANGED <<toClient, drained>>
    /\ acking' = FALSE /\ UNCHANGED <<sent, acknowledged>>

Forward ==
    /\ Up /\ controller # NoClient
    /\ \/ acking /\ Backpressure /\ UNCHANGED ready
       \/ ~acking /\ ready /\ ready' = FALSE
    /\ \/ ~Stopping /\ sent < end /\ SendFrame
       \/ (Stopping \/ sent >= end) /\ Rest
    /\ UNCHANGED <<output, relay, failure, link, toRelay, port, faults>>

\* A controller that does not read for a second is disconnected.
Stalled ==
    /\ Up /\ controller # NoClient /\ acking /\ toClient[controller] # <<>>
    /\ Fault /\ Disconnect({controller})
    /\ UNCHANGED <<output, relay, failure, task, toRelay, toClient, port>>

-----------------------------------------------------------------------------
(* The end of the provider and of the relay.                               *)

OutputRead == provider = "read"

\* The wake-up of the forward task once the status is known.
Woken == TRUE

\* watch: the provider has exited, its descendants are dead and its output is
\* read to the end: the exit status is published.
Watch ==
    /\ Up /\ ~watched /\ OutputRead /\ watched' = TRUE
    /\ \/ ready' = Woken /\ NoFault /\ UNCHANGED <<link, toClient>>
       \/ FailIo({}) /\ UNCHANGED ready
    /\ UNCHANGED <<output, acked, generation, serve, waitsOn, sent, acking, acknowledged,
                   drained, toRelay, port>>

\* stop, once: the controller's task is woken; the provider is asked to end
\* and, after the grace, killed.
StopBegins ==
    /\ Up /\ stop = "asked" /\ stop' = "stopping"
    /\ ready' = TRUE /\ acknowledged' = TRUE
    /\ UNCHANGED <<output, relay, lossy, failed, link, sent, acking, drained, toRelay,
                   toClient, port, faults>>

StopEnds ==
    /\ Up /\ stop = "stopping" /\ provider = "read" /\ stop' = "done"
    /\ \/ UNCHANGED <<lossy, failed, link, toClient, faults>>
       \/ /\ Fault /\ failed' = TRUE /\ lossy' = TRUE
          /\ Disconnect({controller}) /\ TellController([op |-> "error"])
    /\ UNCHANGED <<output, relay, task, toRelay, port>>

\* orphan: no controller for the timeout.
Orphaned ==
    /\ Up /\ controller = NoClient /\ stop = "none" /\ stop' = "asked"
    /\ UNCHANGED <<output, relay, lossy, failed, link, task, toRelay, toClient, port, faults>>

\* serve: once stop is done it waits for the controller to have been told the
\* exit status, then closes every connection.
Released == controller # waitsOn \/ drained

Close ==
    /\ serve' = "down" /\ waitsOn' = NoClient
    /\ open' = {} /\ controller' = NoClient
    /\ toRelay' = None(<<>>)

Serve ==
    /\ stop = "done"
    /\ \/ serve = "up" /\ controller = NoClient /\ Close
       \/ /\ serve = "up" /\ controller # NoClient
          /\ serve' = "drain" /\ waitsOn' = controller /\ UNCHANGED <<link, toRelay>>
       \/ serve = "drain" /\ Released /\ Close
    /\ UNCHANGED <<output, acked, generation, watched, failure, task, toClient, port, faults>>

-----------------------------------------------------------------------------
(* RelayPort, the controller in the daemon.                                *)

Alive(c) == client[c] \in {"on", "closing"}

\* controller[1] of a new controller: what it has need not be sent.
StartsAt(o) == o

\* A port process has connected, read the relay's hello and asks to attach.
\* By now the hello may be stale, so its offset is any that was acknowledged;
\* or a former controller handed over its last one.  The generation is the next
\* one of the relay or of the daemons, and may be taken.  The former controller
\* is disconnected and a task is started that forwards to the new one; or the
\* state cannot be saved.
Attach(c) ==
    /\ client[c] = "idle" /\ Up
    /\ \E g \in 1..MaxGen, o \in 0..acked \cup {last[d] : d \in Clients} :
         /\ g <= generation + 1
         /\ IF ~NewGeneration(g) \/ lossy \/ ~ValidOffset(o)
            THEN Becomes(c, "gone") /\ UNCHANGED <<generation, failure, link, task, gen, last, faults>>
            ELSE /\ generation' = g /\ gen' = [gen EXCEPT ![c] = g]
                 /\ sent' = StartsAt(o) /\ last' = [last EXCEPT ![c] = o]
                 /\ acking' = FALSE
                 /\ ready' = TRUE /\ acknowledged' = FALSE /\ drained' = FALSE
                 /\ \/ /\ controller' = c /\ open' = (open \ {controller}) \cup {c}
                       /\ Becomes(c, "on") /\ NoFault
                    \/ /\ Fault /\ failed' = TRUE /\ lossy' = TRUE /\ AskStop
                       /\ Disconnect({controller}) /\ Becomes(c, "gone")
    /\ UNCHANGED <<output, acked, watched, serve, waitsOn, toRelay, toClient, pending, seen,
                   taken>>

Told(c, s) == seen' = [seen EXCEPT ![c] = IF @ = "none" THEN s ELSE @]

\* One answer of the relay.  A frame goes to the owner and stays pending; no
\* other answer is read before it has been acknowledged.
Receive(c) ==
    /\ Alive(c) /\ toClient[c] # <<>> /\ c \notin pending
    /\ toClient' = [toClient EXCEPT ![c] = Tail(@)]
    /\ LET a == Head(toClient[c]) IN
       \/ /\ a.op = "frame" /\ last' = [last EXCEPT ![c] = a.offset]
          /\ pending' = pending \cup {c} /\ taken' = taken \cup {a.offset}
          /\ UNCHANGED seen
       \/ /\ a.op # "frame" /\ Told(c, IF a.op = "exit" THEN "code" ELSE "one")
          /\ UNCHANGED <<last, pending, taken>>
    /\ UNCHANGED <<output, relay, failure, link, task, toRelay, client, gen, faults>>

\* The port process ends; what it was sent is not read any more.
Gone(c) ==
    /\ Becomes(c, "gone")
    /\ toClient' = [toClient EXCEPT ![c] = <<>>]
    /\ pending' = pending \ {c} /\ seen' = [seen EXCEPT ![c] = "none"]
    /\ UNCHANGED <<output, relay, failure, link, task, gen, taken, faults>>

GoneForGood(c) == Gone(c) /\ last' = [last EXCEPT ![c] = 0] /\ UNCHANGED toRelay

\* The connection is closed and everything it brought has been read: the owner
\* is told an exit status unless it was.
SocketClosed(c) ==
    Alive(c) /\ c \notin open /\ toClient[c] = <<>> /\ c \notin pending /\ GoneForGood(c)

Request(c, rs) == toRelay' = [toRelay EXCEPT ![c] = IF c \in open THEN @ \o rs ELSE @]

AckOf(c) == IF c \in pending THEN <<[op |-> "ack", offset |-> last[c]]>> ELSE <<>>

\* acknowledge_pending, at once or when the owner asks for it.  The owner may
\* answer a frame with a line for the provider.
Acknowledge(c) ==
    /\ Alive(c) /\ c \in pending
    /\ \/ Request(c, AckOf(c))
       \/ /\ client[c] = "on" /\ provider = "running"
          /\ Request(c, AckOf(c) \o <<[op |-> "stdin"]>>)
    /\ pending' = pending \ {c}
    /\ UNCHANGED <<output, relay, failure, link, task, toClient, client, gen, last, seen,
                   taken, faults>>

\* Handoff: the pending frame is acknowledged, the relay goes on without us and
\* the last offset is handed to the next controller.
HandOver(c) ==
    /\ client[c] = "on" /\ Gone(c) /\ UNCHANGED last
    /\ Request(c, AckOf(c) \o <<[op |-> "detach"]>>)

\* Close: the same, and the relay is asked to stop; the exit status is awaited.
CloseRelay(c) ==
    /\ client[c] = "on" /\ Becomes(c, "closing")
    /\ Request(c, AckOf(c) \o <<[op |-> "stop"]>>) /\ pending' = pending \ {c}
    /\ UNCHANGED <<output, relay, failure, link, task, toClient, gen, last, seen, taken,
                   faults>>

\* The daemon is killed.
Dies(c) == Alive(c) /\ GoneForGood(c)

Port(c) ==
    \/ Attach(c) \/ Receive(c) \/ SocketClosed(c) \/ Acknowledge(c)
    \/ HandOver(c) \/ CloseRelay(c) \/ Dies(c)

Next ==
    \/ ProviderExits \/ ReadersEnd \/ Read
    \/ Forward \/ Stalled \/ Watch \/ StopBegins \/ StopEnds \/ Orphaned \/ Serve
    \/ \E c \in Clients : Command(c) \/ Hangup(c) \/ Port(c)

\* The event loop runs every task that is ready; a provider that stop kills
\* dies; a controller reads, hands over and acknowledges what it is sent.
Fairness ==
    /\ WF_vars(Stopping /\ ProviderExits) /\ WF_vars(ReadersEnd)
    /\ WF_vars(Forward) /\ WF_vars(Watch)
    /\ WF_vars(StopBegins) /\ WF_vars(StopEnds) /\ WF_vars(Serve)
    /\ \A c \in Clients :
         /\ WF_vars(Command(c)) /\ WF_vars(Hangup(c))
         /\ WF_vars(Receive(c)) /\ WF_vars(SocketClosed(c)) /\ WF_vars(Acknowledge(c))

Spec == Init /\ [][Next]_vars /\ Fairness

-----------------------------------------------------------------------------
(* Properties.                                                             *)

\* Frames reach a controller's owner in order, from its offset, none skipped
\* and none twice, whatever takeovers and acknowledgements happen meanwhile.
Contiguous ==
    [][\A c \in Clients :
           Alive(c) /\ client'[c] # "gone" => last'[c] \in {last[c], last[c] + 1}]_last

\* The relay drops a frame only after some controller handed it to its owner.
NothingLost == 1..acked \subseteq taken

\* A controller that is told the exit status of a provider nobody stopped has
\* been sent all of the provider's output.
ExitIsLast ==
    \A c \in Clients :
        seen[c] = "code" /\ stop = "none" => last[c] = end /\ provider = "read"

\* A controller is sent one frame at a time: the next one goes out when the
\* last one has been handed to its owner and acknowledged.
OneInFlight ==
    controller # NoClient /\ Alive(controller) =>
        sent <= last[controller] + (IF controller \in pending THEN 0 ELSE 1)

\* No line of a controller reaches the provider once another has taken over,
\* however late it was read from its connection.
InputFenced == ~crossed

\* A relay that was asked to stop ends: no task waits for a controller, a
\* provider or a reader for ever.
StopEnded == (stop # "none") ~> (serve = "down")

=============================================================================
