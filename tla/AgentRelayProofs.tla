--------------------------- MODULE AgentRelayProofs ---------------------------
(***************************************************************************)
(* What TLAPS proves of AgentRelay for every set of controllers and every  *)
(* bound: the invariants of its passing runs.  The inductive invariant     *)
(* follows one frame at a time from the relay's socket to the controller's *)
(* owner and back as an acknowledgement.  Most steps touch little of that: *)
(* what they leave alone is stated once (Quiet), and so is why it is       *)
(* enough.                                                                 *)
(***************************************************************************)
EXTENDS AgentRelay, TLAPS

\* A request or answer with this operation is among them, or at most one is.
Has(s, op) == \E i \in 1..Len(s) : s[i].op = op
One(s, op) == \A i, j \in 1..Len(s) : s[i].op = op /\ s[j].op = op => i = j

\* Every frame among them is this one.
Only(s, o) == \A i \in 1..Len(s) : s[i].op = "frame" => s[i].offset = o

\* Every acknowledgement among them is of frames that were handed over.
Covered(s, T) == \A i \in 1..Len(s) : s[i].op = "ack" => 1..s[i].offset \subseteq T

HasFrame(c) == Has(toClient[c], "frame")
HasAck(c) == Has(toRelay[c], "ack")

\* The controller's generation is the relay's, so that no line of another
\* crosses.
Fence ==
    /\ InputFenced
    /\ controller # NoClient => controller \in open /\ gen[controller] = generation

\* A connection that has not attached is unknown to the relay.
Unused(c) ==
    client[c] = "idle" =>
        c \notin open /\ c \notin pending /\ toClient[c] = <<>> /\ toRelay[c] = <<>>

\* One frame is on its way to a controller, with its owner, or acknowledged on
\* its way back.
Window(c) ==
    Alive(c) =>
        /\ One(toClient[c], "frame") /\ Only(toClient[c], last[c] + 1)
        /\ One(toRelay[c], "ack")
        /\ HasFrame(c) => c \notin pending /\ ~HasAck(c)
        /\ c \in pending => ~HasAck(c)

\* The relay knows how far its controller is, and when nothing is on its way.
Settled(c) == ~HasFrame(c) /\ c \notin pending /\ ~HasAck(c)
Position(c) ==
    controller = c /\ Alive(c) =>
        /\ sent = last[c] + (IF HasFrame(c) THEN 1 ELSE 0)
        /\ ~Stopping /\ (acking => acknowledged) => Settled(c)

\* Frames are handed over before they are acknowledged, and acknowledged before
\* they are dropped.
HandedOver(c) == 1..last[c] \subseteq taken /\ Covered(toRelay[c], taken)

\* A controller that the exit status was sent has been sent everything.
Finished(c) ==
    /\ seen[c] # "none" => Alive(c)
    /\ Alive(c) /\ stop = "none" /\ (Has(toClient[c], "exit") \/ seen[c] = "code") =>
          provider = "read" /\ last[c] = end /\ ~HasFrame(c)

At(c) == Unused(c) /\ Window(c) /\ Position(c) /\ HandedOver(c) /\ Finished(c)

RelayInv ==
    /\ Fence /\ NothingLost
    /\ sent <= end /\ (watched => provider = "read")
    /\ \A c \in Clients : At(c)

-----------------------------------------------------------------------------
(* What the operations on the queues do to Has, One, Only and Covered.     *)

\* A message that is appended is among them, behind the others.
LEMMA AppendHas ==
  ASSUME NEW S, NEW s \in Seq(S), NEW m \in S, NEW op
  PROVE  /\ Has(Append(s, m), op) <=> Has(s, op) \/ m.op = op
         /\ One(s, op) /\ (m.op # op \/ ~Has(s, op)) => One(Append(s, m), op)
  BY DEF Has, One

LEMMA AppendOnly ==
  ASSUME NEW S, NEW s \in Seq(S), NEW m \in S, NEW o, NEW T
  PROVE  /\ Only(s, o) /\ (m.op = "frame" => m.offset = o) => Only(Append(s, m), o)
         /\ Covered(s, T) /\ (m.op = "ack" => 1..m.offset \subseteq T) => Covered(Append(s, m), T)
  BY DEF Only, Covered

\* Reading the first one leaves the rest.
LEMMA TailHas ==
  ASSUME NEW S, NEW s \in Seq(S), s # <<>>, NEW op
  PROVE  /\ Has(s, op) <=> Head(s).op = op \/ Has(Tail(s), op)
         /\ One(s, op) => One(Tail(s), op)
         /\ One(s, op) /\ Head(s).op = op => ~Has(Tail(s), op)
  <1>1. /\ Len(s) \in Nat /\ 1 \in 1..Len(s) /\ Head(s) = s[1] /\ Len(Tail(s)) = Len(s) - 1
        /\ \A i \in 1..Len(Tail(s)) : i + 1 \in 1..Len(s) /\ Tail(s)[i] = s[i + 1]
        /\ \A i \in 1..Len(s) : i # 1 => i - 1 \in 1..Len(Tail(s)) /\ s[i] = Tail(s)[i - 1]
    OBVIOUS
  <1>2. Has(s, op) <=> Head(s).op = op \/ Has(Tail(s), op)
    <2>1. Has(s, op) => Head(s).op = op \/ Has(Tail(s), op)
      BY <1>1 DEF Has
    <2>2. Head(s).op = op \/ Has(Tail(s), op) => Has(s, op)
      BY <1>1 DEF Has
    <2>. QED  BY <2>1, <2>2
  <1>3. One(s, op) => One(Tail(s), op)
    BY <1>1 DEF One
  <1>4. One(s, op) /\ Head(s).op = op => ~Has(Tail(s), op)
    BY <1>1 DEF Has, One
  <1>. QED  BY <1>2, <1>3, <1>4

LEMMA TailOnly ==
  ASSUME NEW S, NEW s \in Seq(S), s # <<>>, NEW o, NEW T
  PROVE  /\ Only(s, o) => Only(Tail(s), o) /\ (Head(s).op = "frame" => Head(s).offset = o)
         /\ Covered(s, T) => Covered(Tail(s), T) /\ (Head(s).op = "ack" => 1..Head(s).offset \subseteq T)
  BY DEF Only, Covered

\* An empty queue has nothing.
LEMMA EmptyHas ==
  ASSUME NEW op, NEW o, NEW T
  PROVE  ~Has(<<>>, op) /\ One(<<>>, op) /\ Only(<<>>, o) /\ Covered(<<>>, T)
  BY DEF Has, One, Only, Covered

\* Requests that are sent together come behind the others.
LEMMA ConcatHas ==
  ASSUME NEW S, NEW s \in Seq(S), NEW t \in Seq(S), NEW op, NEW T
  PROVE  /\ Has(s \o t, op) <=> Has(s, op) \/ Has(t, op)
         /\ One(s, op) /\ One(t, op) /\ ~(Has(s, op) /\ Has(t, op)) => One(s \o t, op)
         /\ Covered(s, T) /\ Covered(t, T) => Covered(s \o t, T)
  <1>. DEFINE st == s \o t
  <1>1. /\ st \in Seq(S) /\ Len(st) = Len(s) + Len(t)
        /\ \A i \in 1..Len(s) : st[i] = s[i]
        /\ \A i \in 1..Len(t) : st[Len(s) + i] = t[i]
    OBVIOUS
  <1>2. Len(s) \in Nat /\ Len(t) \in Nat
    OBVIOUS
  <1>. HIDE DEF st
  <1>3. ASSUME NEW i \in 1..Len(st)
        PROVE  \/ i \in 1..Len(s) /\ st[i] = s[i]
               \/ i - Len(s) \in 1..Len(t) /\ st[i] = t[i - Len(s)]
    <2>1. CASE i <= Len(s)
      BY <1>1, <1>2, <2>1
    <2>2. CASE i > Len(s)
      <3>1. i - Len(s) \in 1..Len(t) /\ Len(s) + (i - Len(s)) = i
        BY <1>1, <1>2, <2>2
      <3>. QED  BY <1>1, <3>1
    <2>. QED  BY <1>1, <1>2, <2>1, <2>2
  <1>4. \A i \in 1..Len(s) : i \in 1..Len(st) /\ st[i] = s[i]
    BY <1>1, <1>2
  <1>5. \A i \in 1..Len(t) : Len(s) + i \in 1..Len(st) /\ st[Len(s) + i] = t[i]
    BY <1>1, <1>2
  <1>6. Has(st, op) <=> Has(s, op) \/ Has(t, op)
    <2>1. Has(st, op) => Has(s, op) \/ Has(t, op)
      BY <1>3 DEF Has
    <2>2. Has(s, op) => Has(st, op)
      BY <1>4 DEF Has
    <2>3. Has(t, op) => Has(st, op)
      BY <1>5 DEF Has
    <2>. QED  BY <2>1, <2>2, <2>3
  <1>7. ASSUME One(s, op), One(t, op), ~(Has(s, op) /\ Has(t, op)),
               NEW i \in 1..Len(st), NEW j \in 1..Len(st), st[i].op = op, st[j].op = op
        PROVE  i = j
    <2>1. CASE Has(s, op)
      <3>1. i \in 1..Len(s) /\ j \in 1..Len(s) /\ s[i].op = op /\ s[j].op = op
        BY <1>3, <1>7, <2>1 DEF Has
      <3>. QED  BY <1>7, <3>1 DEF One
    <2>2. CASE ~Has(s, op)
      <3>1. /\ i - Len(s) \in 1..Len(t) /\ t[i - Len(s)].op = op
            /\ j - Len(s) \in 1..Len(t) /\ t[j - Len(s)].op = op
        BY <1>3, <1>7, <2>2 DEF Has
      <3>2. i - Len(s) = j - Len(s)
        BY <1>7, <3>1 DEF One
      <3>. QED  BY <1>2, <3>2
    <2>. QED  BY <2>1, <2>2
  <1>8. Covered(s, T) /\ Covered(t, T) => Covered(st, T)
    BY <1>3 DEF Covered
  <1>. QED  BY <1>6, <1>7, <1>8 DEF st, One

-----------------------------------------------------------------------------
(* Types: the flags, and everything else.                                  *)

Flags ==
    /\ crossed \in BOOLEAN /\ lossy \in BOOLEAN /\ failed \in BOOLEAN /\ watched \in BOOLEAN
    /\ acking \in BOOLEAN /\ ready \in BOOLEAN
    /\ acknowledged \in BOOLEAN /\ drained \in BOOLEAN

Places ==
    /\ provider \in {"running", "exited", "read"}
    /\ end \in Offsets /\ acked \in Offsets /\ sent \in Offsets
    /\ generation \in Generations
    /\ stop \in {"none", "asked", "stopping", "done"}
    /\ serve \in {"up", "drain", "down"}
    /\ controller \in Clients \cup {NoClient} /\ waitsOn \in Clients \cup {NoClient}
    /\ open \subseteq Clients /\ pending \subseteq Clients /\ taken \subseteq Offsets
    /\ toRelay \in [Clients -> Seq(Requests)]
    /\ toClient \in [Clients -> Seq(Answers)]
    /\ client \in [Clients -> {"idle", "on", "closing", "gone"}]
    /\ last \in [Clients -> Offsets] /\ gen \in [Clients -> Generations]
    /\ seen \in [Clients -> {"none", "code", "one"}]
    /\ faults \in 0..MaxFaults

LEMMA TypeParts == TypeOK <=> Flags /\ Places
  BY Zenon DEF TypeOK, Flags, Places

LEMMA AckOfType ==
  ASSUME Places, NEW c \in Clients, NEW m \in [op : {"stdin", "detach", "stop"}]
  PROVE  /\ AckOf(c) \in Seq(Requests)
         /\ AckOf(c) \o <<m>> \in Seq(Requests)
  <1>1. AckOf(c) \in Seq(Requests)
    <2>1. [op |-> "ack", offset |-> last[c]] \in Requests
      BY DEF Requests, Places
    <2>. QED  BY <2>1 DEF AckOf
  <1>2. <<m>> \in Seq(Requests)
    BY DEF Requests
  <1>. QED  BY <1>1, <1>2

\* A request leaves the sockets typed.
LEMMA RequestType ==
  ASSUME Places, NEW c \in Clients, NEW rs \in Seq(Requests), Request(c, rs)
  PROVE  toRelay' \in [Clients -> Seq(Requests)]
  BY DEF Places, Request

LEMMA TellType ==
  ASSUME Places, NEW c \in Clients \cup {NoClient}, NEW m \in Answers
  PROVE  /\ Tell(c, m) => toClient' \in [Clients -> Seq(Answers)]
         /\ TellController(m) => toClient' \in [Clients -> Seq(Answers)]
  <1>1. \A d \in Clients : toClient[d] \in Seq(Answers) /\ Append(toClient[d], m) \in Seq(Answers)
    BY DEF Places
  <1>2. ASSUME Tell(c, m) PROVE toClient' \in [Clients -> Seq(Answers)]
    <2>1. toClient \in [Clients -> Seq(Answers)]
      BY DEF Places
    <2>2. CASE c \in open
      <3>1. toClient' = [toClient EXCEPT ![c] = Append(toClient[c], m)] /\ c \in Clients
        BY <1>2, <2>2 DEF Tell, Places
      <3>. QED  BY <1>1, <2>1, <3>1
    <2>3. CASE c \notin open
      BY <1>2, <2>1, <2>3 DEF Tell
    <2>. QED  BY <2>2, <2>3
  <1>3. TellController(m) => toClient' \in [Clients -> Seq(Answers)]
    BY <1>1 DEF TellController
  <1>. QED  BY <1>2, <1>3

LEMMA FailIoType ==
  ASSUME Places, NEW also \in SUBSET Clients, FailIo(also)
  PROVE  /\ faults' \in 0..MaxFaults
         /\ open' \subseteq Clients /\ controller' \in Clients \cup {NoClient}
         /\ stop' \in {"none", "asked", "stopping", "done"}
         /\ toClient' \in [Clients -> Seq(Answers)]
  <1>1. [op |-> "error"] \in Answers
    BY DEF Answers
  <1>2. toClient' \in [Clients -> Seq(Answers)]
    BY <1>1, TellType DEF FailIo, Places
  <1>. QED
    BY <1>2, BoundsAssumption DEF Places, FailIo, Fault, Disconnect, AskStop

LEMMA PlacesStep == Places /\ [Next]_vars => Places'
  <1> SUFFICES ASSUME Places, [Next]_vars PROVE Places'
    OBVIOUS
  <1>1. CASE ProviderExits
    BY <1>1 DEF Places, ProviderExits, relay, failure, link, task, events, port
  <1>2. CASE ReadersEnd
    BY <1>2 DEF Places, ReadersEnd, relay, failure, link, task, events, port
  <1>3. CASE Read
    <2>1. end' \in Offsets
      <3>1. end < MaxFrames /\ end' \in {end, end + 1}
        BY <1>3 DEF Read, Journal, Overflow
      <3>2. end \in 0..MaxFrames
        BY DEF Places, Offsets
      <3>. QED  BY <3>1, <3>2, BoundsAssumption DEF Offsets
    <2>2. [op |-> "error"] \in Answers
      BY DEF Answers
    <2>3. CASE FailIo({})
      BY <1>3, <2>1, <2>3, FailIoType DEF Places, Read, relay, port
    <2>4. CASE MarkLossy
      BY <1>3, <2>1, <2>2, <2>4, TellType
         DEF Places, Read, MarkLossy, Evicted, relay, port
    <2>5. CASE NoFault /\ UNCHANGED <<link, toClient>>
      BY <1>3, <2>1, <2>5 DEF Places, Read, NoFault, failure, link, relay, port
    <2>. QED  BY <1>3, <2>3, <2>4, <2>5 DEF Read, Journal, Overflow
  <1>4. CASE Forward
    <2>1. CASE SendFrame /\ sent < end
      <3>1. sent + 1 \in Offsets
        BY <2>1, BoundsAssumption DEF Places, Offsets
      <3>2. [op |-> "frame", offset |-> sent + 1] \in Answers
        BY <3>1 DEF Answers
      <3>3. toClient' \in [Clients -> Seq(Answers)]
        BY <2>1, <3>2, TellType DEF SendFrame, Places
      <3>. QED
        BY <1>4, <2>1, <3>1, <3>3
           DEF Forward, SendFrame, Places, output, relay, failure, link, port
    <2>2. CASE Rest
      <3>1. [op |-> "exit"] \in Answers
        BY DEF Answers
      <3>2. toClient' \in [Clients -> Seq(Answers)]
        BY <2>2, <3>1, TellType DEF Rest, Places
      <3>. QED
        BY <1>4, <2>2, <3>2 DEF Forward, Rest, Places, output, relay, failure, link, port
    <2>. QED  BY <1>4, <2>1, <2>2 DEF Forward
  <1>5. CASE Stalled
    BY <1>5, BoundsAssumption
       DEF Stalled, Fault, Disconnect, Places, output, relay, failure, task, events, port
  <1>6. CASE Watch
    <2>1. CASE FailIo({})
      BY <1>6, <2>1, FailIoType DEF Watch, Places, output, port
    <2>2. CASE NoFault /\ UNCHANGED <<link, toClient>>
      BY <1>6, <2>2 DEF Watch, Woken, NoFault, Places, output, failure, link, port
    <2>. QED  BY <1>6, <2>1, <2>2 DEF Watch
  <1>7. CASE StopBegins
    BY <1>7 DEF StopBegins, Places, output, relay, link, port
  <1>8. CASE StopEnds
    <2>1. [op |-> "error"] \in Answers
      BY DEF Answers
    <2>2. toClient' \in [Clients -> Seq(Answers)]
      BY <1>8, <2>1, TellType DEF StopEnds, Places
    <2>. QED
      BY <1>8, <2>2, BoundsAssumption
         DEF StopEnds, Fault, Disconnect, Places, output, relay, link, task, events, port
  <1>9. CASE Orphaned
    BY <1>9 DEF Orphaned, Places, output, relay, link, task, events, port
  <1>10. CASE Serve
    <2>1. /\ serve' \in {"drain", "down"} /\ waitsOn' \in {NoClient, controller}
          /\ open' \in {open, {}} /\ controller' \in {controller, NoClient}
          /\ toRelay' = toRelay \/ toRelay' = [c \in Clients |-> <<>>]
      <3>1. CASE Close
        BY <3>1 DEF Close, None
      <3>2. CASE ~Close
        BY <1>10, <3>2 DEF Serve, link
      <3>. QED  BY <3>1, <3>2
    <2>2. UNCHANGED <<output, acked, generation, failure, task, toClient, port, faults>>
      BY <1>10 DEF Serve
    <2>3. toRelay' \in [Clients -> Seq(Requests)]
      <3>1. <<>> \in Seq(Requests)
        OBVIOUS
      <3>2. [c \in Clients |-> <<>>] \in [Clients -> Seq(Requests)]
        BY <3>1
      <3>3. toRelay \in [Clients -> Seq(Requests)]
        BY DEF Places
      <3>. QED  BY <2>1, <3>2, <3>3
    <2>. QED
      BY <2>1, <2>2, <2>3 DEF Places, output, failure, task, events, port
  <1>11. ASSUME NEW c \in Clients, Command(c)
         PROVE  Places'
    <2>. DEFINE r == Head(toRelay[c])
    <2>1. r \in Requests /\ toRelay' \in [Clients -> Seq(Requests)]
      BY <1>11 DEF Command, Places
    <2>2. [op |-> "error"] \in Answers
      BY DEF Answers
    <2>. HIDE DEF r
    <2>3. CASE Refuse(c)
      BY <2>1, <2>2, <2>3, TellType
         DEF Refuse, Places, output, relay, failure, link, task, events, port
    <2>4. CASE r.op = "ack" /\ Sendable(r.offset) /\ Ack(c, r) /\ ~Refuse(c)
      <3>1. r.offset \in Offsets
        BY <2>1, <2>4 DEF Requests
      <3>2. CASE FailIo({c}) /\ UNCHANGED acknowledged
        BY <2>1, <2>4, <3>1, <3>2, FailIoType
           DEF Ack, Dropped, Places, output, port
      <3>3. CASE acknowledged' = TRUE /\ NoFault /\ UNCHANGED <<link, toClient>>
        BY <2>1, <2>4, <3>1, <3>3
           DEF Ack, Dropped, NoFault, Places, output, link, failure, port
      <3>. QED  BY <2>4, <3>2, <3>3 DEF Ack
    <2>5. CASE Stdin(c) /\ ~Refuse(c)
      BY <2>1, <2>5 DEF Stdin, Places, relay, failure, link, task, events, port
    <2>6. CASE Detach(c)
      BY <2>1, <2>6
         DEF Detach, Disconnect, Places, output, relay, failure, task, events, port
    <2>7. CASE StopRequest
      BY <2>1, <2>7
         DEF StopRequest, AskStop, Places, output, relay, link, task, events, port
    <2>. QED
      BY <1>11, <2>3, <2>4, <2>5, <2>6, <2>7 DEF Command, Fenced, Ack, r
  <1>12. ASSUME NEW c \in Clients, Hangup(c)
         PROVE  Places'
    BY <1>12 DEF Hangup, Disconnect, Places, output, relay, failure, task, events, port
  <1>13. ASSUME NEW c \in Clients, Attach(c)
         PROVE  Places'
    <2>1. PICK g \in 1..MaxGen, o \in 0..acked \cup {last[d] : d \in Clients} :
            IF ~NewGeneration(g) \/ lossy \/ ~ValidOffset(o)
            THEN Becomes(c, "gone") /\ UNCHANGED <<generation, failure, link, task, gen, last, faults>>
            ELSE /\ generation' = g /\ gen' = [gen EXCEPT ![c] = g]
                 /\ sent' = StartsAt(o) /\ last' = [last EXCEPT ![c] = o]
                 /\ acking' = FALSE
                 /\ ready' = TRUE /\ acknowledged' = FALSE /\ drained' = FALSE
                 /\ \/ /\ controller' = c /\ open' = (open \ {controller}) \cup {c}
                       /\ Becomes(c, "on") /\ NoFault
                    \/ /\ Fault /\ failed' = TRUE /\ lossy' = TRUE /\ AskStop
                       /\ Disconnect({controller}) /\ Becomes(c, "gone")
      BY <1>13 DEF Attach
    <2>2. o \in Offsets /\ g \in Generations
      BY BoundsAssumption DEF Places, Offsets, Generations
    <2>3. UNCHANGED <<output, acked, watched, serve, waitsOn, toRelay, toClient, pending, seen,
                      taken>>
      BY <1>13 DEF Attach
    <2>4. client' \in [Clients -> {"idle", "on", "closing", "gone"}]
      BY <2>1 DEF Becomes, Places
    <2>5. CASE ~NewGeneration(g) \/ lossy \/ ~ValidOffset(o)
      BY <2>1, <2>3, <2>4, <2>5 DEF Places, output, failure, link, task, events
    <2>6. CASE ~(~NewGeneration(g) \/ lossy \/ ~ValidOffset(o))
      <3>1. faults' \in 0..MaxFaults
        BY <2>1, <2>6, BoundsAssumption DEF Places, NoFault, Fault
      <3>2. stop' \in {"none", "asked", "stopping", "done"}
        BY <2>1, <2>6 DEF Places, NoFault, failure, AskStop
      <3>3. open' \subseteq Clients /\ controller' \in Clients \cup {NoClient}
        BY <2>1, <2>6 DEF Places, Disconnect
      <3>. QED
        BY <2>1, <2>2, <2>3, <2>4, <2>6, <3>1, <3>2, <3>3 DEF Places, StartsAt, output
    <2>. QED  BY <2>5, <2>6
  <1>14. ASSUME NEW c \in Clients, Receive(c)
         PROVE  Places'
    <2>. DEFINE a == Head(toClient[c])
    <2>1. a \in Answers /\ toClient' \in [Clients -> Seq(Answers)]
      BY <1>14 DEF Receive, Places
    <2>. HIDE DEF a
    <2>2. CASE a.op = "frame" /\ last' = [last EXCEPT ![c] = a.offset]
               /\ pending' = pending \cup {c} /\ taken' = taken \cup {a.offset} /\ UNCHANGED seen
      <3>1. a.offset \in Offsets
        BY <2>1, <2>2 DEF Answers
      <3>. QED
        BY <1>14, <2>1, <2>2, <3>1
           DEF Receive, Places, output, relay, failure, link, task, events
    <2>3. CASE Told(c, IF a.op = "exit" THEN "code" ELSE "one") /\ UNCHANGED <<last, pending, taken>>
      BY <1>14, <2>1, <2>3
         DEF Receive, Told, Places, output, relay, failure, link, task, events
    <2>. QED  BY <1>14, <2>2, <2>3 DEF Receive, a
  <1>15. ASSUME NEW c \in Clients, Gone(c), last' \in [Clients -> Offsets],
                toRelay' \in [Clients -> Seq(Requests)]
         PROVE  Places'
    <2>1. <<>> \in Seq(Answers)
      OBVIOUS
    <2>. QED
      BY <1>15, <2>1 DEF Gone, Becomes, Places, output, relay, failure, link, task, events
  <1>16. ASSUME NEW c \in Clients, GoneForGood(c)
         PROVE  Places'
    <2>1. Gone(c) /\ UNCHANGED toRelay /\ last' = [last EXCEPT ![c] = 0]
      BY <1>16 DEF GoneForGood
    <2>2. 0 \in Offsets
      BY BoundsAssumption DEF Offsets
    <2>3. last' \in [Clients -> Offsets] /\ toRelay' \in [Clients -> Seq(Requests)]
      BY <2>1, <2>2 DEF Places
    <2>. QED  BY <1>15, <2>1, <2>3
  <1>17. ASSUME NEW c \in Clients, Acknowledge(c)
         PROVE  Places'
    <2>1. toRelay' \in [Clients -> Seq(Requests)]
      <3>1. [op |-> "stdin"] \in [op : {"stdin", "detach", "stop"}]
        OBVIOUS
      <3>2. AckOf(c) \in Seq(Requests) /\ AckOf(c) \o <<[op |-> "stdin"]>> \in Seq(Requests)
        BY <3>1, AckOfType
      <3>. QED  BY <1>17, <3>2, RequestType DEF Acknowledge
    <2>. QED
      BY <1>17, <2>1 DEF Acknowledge, Places, output, relay, failure, link, task, events
  <1>18. ASSUME NEW c \in Clients, HandOver(c)
         PROVE  Places'
    <2>1. toRelay' \in [Clients -> Seq(Requests)]
      BY <1>18, AckOfType, RequestType DEF HandOver
    <2>. QED  BY <1>15, <1>18, <2>1 DEF HandOver, Places
  <1>19. ASSUME NEW c \in Clients, CloseRelay(c)
         PROVE  Places'
    <2>1. toRelay' \in [Clients -> Seq(Requests)]
      BY <1>19, AckOfType, RequestType DEF CloseRelay
    <2>. QED
      BY <1>19, <2>1
         DEF CloseRelay, Becomes, Places, output, relay, failure, link, task, events
  <1>20. CASE UNCHANGED vars
    BY <1>20 DEF vars, Places, output, relay, failure, link, task, events, port
  <1>. QED
    BY <1>1, <1>2, <1>3, <1>4, <1>5, <1>6, <1>7, <1>8, <1>9, <1>10, <1>11, <1>12, <1>13,
       <1>14, <1>16, <1>17, <1>18, <1>19, <1>20
       DEF Next, Port, SocketClosed, Dies

\* A flag is only ever set, reset or left alone.
LEMMA FlagsStep == Flags /\ [Next]_vars => Flags'
  <1> SUFFICES ASSUME Flags, [Next]_vars PROVE Flags'
    OBVIOUS
  <1>. USE DEF Flags
  <1>1. CASE ProviderExits \/ ReadersEnd
    BY <1>1, Zenon DEF ProviderExits, ReadersEnd, relay, failure, task, events
  <1>2. ASSUME NEW also, FailIo(also)
        PROVE  lossy' \in BOOLEAN /\ failed' \in BOOLEAN
    BY <1>2, Zenon DEF FailIo
  <1>3. ASSUME NoFault
        PROVE  lossy' \in BOOLEAN /\ failed' \in BOOLEAN
    BY <1>3, Zenon DEF NoFault, failure
  <1>4. CASE Read
    <2>1. lossy' \in BOOLEAN /\ failed' \in BOOLEAN
      BY <1>2, <1>3, <1>4, Zenon DEF Read, Journal, Overflow, MarkLossy
    <2>. QED  BY <1>4, <2>1, Zenon DEF Read, Journal, Overflow, relay
  <1>5. CASE Forward
    BY <1>5, Zenon DEF Forward, SendFrame, Rest, output, relay, failure
  <1>6. CASE Stalled
    BY <1>6, Zenon DEF Stalled, output, relay, failure, task, events
  <1>7. CASE Watch
    <2>1. lossy' \in BOOLEAN /\ failed' \in BOOLEAN
      BY <1>2, <1>3, <1>7, Zenon DEF Watch
    <2>. QED  BY <1>7, <2>1, Zenon DEF Watch, Woken, output
  <1>8. CASE StopBegins \/ StopEnds \/ Orphaned \/ Serve
    <2>1. CASE StopBegins
      BY <2>1, Zenon DEF StopBegins, output, relay
    <2>2. CASE StopEnds
      BY <2>2, Zenon DEF StopEnds, output, relay, task, events
    <2>3. CASE Orphaned
      BY <2>3, Zenon DEF Orphaned, output, relay, task, events
    <2>4. CASE Serve
      BY <2>4, Zenon DEF Serve, output, failure, task, events
    <2>. QED  BY <1>8, <2>1, <2>2, <2>3, <2>4, Zenon
  <1>9. ASSUME NEW c \in Clients, Command(c)
        PROVE  Flags'
    <2>1. CASE Refuse(c) \/ Detach(c) \/ StopRequest
      BY <2>1, Zenon DEF Refuse, Detach, StopRequest, output, relay, failure, task, events
    <2>2. ASSUME NEW r, Ack(c, r)
          PROVE  Flags'
      <3>1. lossy' \in BOOLEAN /\ failed' \in BOOLEAN
        BY <1>2, <1>3, <2>2, Zenon DEF Ack, Refuse, failure
      <3>. QED  BY <2>1, <2>2, <3>1, Zenon DEF Ack, output
    <2>3. CASE Stdin(c)
      <3>1. (crossed \/ gen[c] # generation) \in BOOLEAN
        OBVIOUS
      <3>. QED  BY <2>1, <2>3, <3>1, Zenon DEF Stdin, relay, failure, task, events
    <2>. QED  BY <1>9, <2>1, <2>2, <2>3, Zenon DEF Command, Fenced
  <1>10. ASSUME NEW c \in Clients, Hangup(c)
         PROVE  Flags'
    BY <1>10, Zenon DEF Hangup, output, relay, failure, task, events
  <1>11. ASSUME NEW c \in Clients, Attach(c)
         PROVE  Flags'
    <2>1. \/ UNCHANGED <<failure, task>>
          \/ /\ acking' = FALSE /\ ready' = TRUE /\ acknowledged' = FALSE /\ drained' = FALSE
             /\ NoFault \/ (failed' = TRUE /\ lossy' = TRUE)
      BY <1>11, Zenon DEF Attach
    <2>2. UNCHANGED <<output, watched>>
      BY <1>11, Zenon DEF Attach
    <2>. QED  BY <2>1, <2>2, Zenon DEF NoFault, output, failure, task, events
  <1>12. ASSUME NEW c \in Clients, Receive(c) \/ Acknowledge(c) \/ CloseRelay(c) \/ Gone(c)
         PROVE  Flags'
    <2>1. UNCHANGED <<output, relay, failure, task>>
      BY <1>12, Zenon DEF Receive, Acknowledge, CloseRelay, Gone
    <2>. QED  BY <2>1, Zenon DEF output, relay, failure, task, events
  <1>13. CASE UNCHANGED vars
    BY <1>13, Zenon DEF vars, output, relay, failure, task, events
  <1>. QED
    BY <1>1, <1>4, <1>5, <1>6, <1>7, <1>8, <1>9, <1>10, <1>11, <1>12, <1>13, Zenon
       DEF Next, Port, SocketClosed, HandOver, Dies, GoneForGood

\* Every variable keeps its type.
THEOREM TypeCorrect == Spec => []TypeOK
  <1>1. Init => TypeOK
    <2>1. Init => Places
      BY BoundsAssumption DEF Init, Places, None, Offsets, Generations
    <2>2. Init => Flags
      BY Zenon DEF Init, Flags
    <2>. QED  BY <2>1, <2>2, TypeParts
  <1>2. TypeOK /\ [Next]_vars => TypeOK'
    <2>1. (Flags /\ Places)' => TypeOK'
      BY Zenon DEF TypeOK, Flags, Places
    <2>. QED  BY <2>1, TypeParts, PlacesStep, FlagsStep
  <1>. QED  BY <1>1, <1>2, PTL DEF Spec

-----------------------------------------------------------------------------
(* What most steps leave alone, and why that is enough.                    *)

\* Requests are read in order, or thrown away.
RequestsRead ==
    \A c \in Clients :
        \/ toRelay'[c] \in {toRelay[c], <<>>}
        \/ toRelay[c] # <<>> /\ toRelay'[c] = Tail(toRelay[c])

\* Connections are told of errors and closed; the controller's may be one.
LinkLoses ==
    /\ \A c \in Clients :
         \/ toClient'[c] = toClient[c]
         \/ c \in open /\ toClient'[c] = Append(toClient[c], [op |-> "error"])
    /\ open' \subseteq open
    /\ controller' \in {controller, NoClient} /\ (controller' # NoClient => controller' \in open')

StopAdvances == (stop # "none" => stop' # "none") /\ (Stopping => Stopping')

\* The controllers are not touched, nor where the relay is with them; an
\* acknowledgement may arrive and a controller may be lost.
Quiet ==
    /\ UNCHANGED <<client, gen, last, pending, seen, taken, sent, acking, generation>>
    /\ crossed' => crossed
    /\ RequestsRead /\ LinkLoses /\ StopAdvances
    /\ 1..acked' \subseteq taken
    /\ end <= end' /\ end' \in Nat
    /\ provider = "read" => provider' = "read" /\ end' = end
    /\ watched' => provider' = "read"
    /\ acknowledged' =>
          acknowledged \/ Stopping' \/ \A c \in Clients : controller' = c /\ Alive(c) => Settled(c)'

LEMMA QuietRelay ==
  ASSUME Places, RequestsRead, NEW c \in Clients
  PROVE  /\ HasAck(c)' => HasAck(c)
         /\ One(toRelay[c], "ack") => One(toRelay'[c], "ack")
         /\ \A T : Covered(toRelay[c], T) => Covered(toRelay'[c], T)
  <1>1. toRelay[c] \in Seq(Requests)
    BY DEF Places
  <1>2. CASE toRelay'[c] = toRelay[c]
    BY <1>2 DEF HasAck
  <1>3. CASE toRelay'[c] = <<>>
    BY <1>3, EmptyHas DEF HasAck
  <1>4. CASE toRelay[c] # <<>> /\ toRelay'[c] = Tail(toRelay[c])
    <2>1. HasAck(c)' => HasAck(c)
      BY <1>1, <1>4, TailHas DEF HasAck
    <2>2. One(toRelay[c], "ack") => One(toRelay'[c], "ack")
      BY <1>1, <1>4, TailHas
    <2>3. \A T : Covered(toRelay[c], T) => Covered(toRelay'[c], T)
      BY <1>1, <1>4, TailOnly
    <2>. QED  BY <2>1, <2>2, <2>3
  <1>. QED  BY <1>2, <1>3, <1>4 DEF RequestsRead

LEMMA QuietClient ==
  ASSUME Places, LinkLoses, NEW c \in Clients
  PROVE  /\ HasFrame(c)' <=> HasFrame(c)
         /\ One(toClient[c], "frame") => One(toClient'[c], "frame")
         /\ \A o : Only(toClient[c], o) => Only(toClient'[c], o)
         /\ Has(toClient'[c], "exit") <=> Has(toClient[c], "exit")
  <1>1. toClient[c] \in Seq(Answers) /\ [op |-> "error"] \in Answers
    BY DEF Places, Answers
  <1>2. CASE toClient'[c] = toClient[c]
    BY <1>2 DEF HasFrame
  <1>3. CASE toClient'[c] = Append(toClient[c], [op |-> "error"])
    <2>. DEFINE m == [op |-> "error"]
    <2>1. m.op = "error" /\ m \in Answers /\ toClient[c] \in Seq(Answers)
      BY <1>1
    <2>2. toClient'[c] = Append(toClient[c], m)
      BY <1>3
    <2>. HIDE DEF m
    <2>3. \A op : Has(toClient'[c], op) <=> Has(toClient[c], op) \/ m.op = op
      BY <2>1, <2>2, AppendHas
    <2>4. One(toClient[c], "frame") => One(toClient'[c], "frame")
      BY <2>1, <2>2, AppendHas
    <2>5. \A o : Only(toClient[c], o) => Only(toClient'[c], o)
      BY <2>1, <2>2, AppendOnly
    <2>. QED  BY <2>1, <2>3, <2>4, <2>5 DEF HasFrame
  <1>. QED  BY <1>2, <1>3 DEF LinkLoses

LEMMA QuietStep == Places /\ RelayInv /\ Quiet => RelayInv'
  <1> SUFFICES ASSUME Places, RelayInv, Quiet PROVE RelayInv'
    OBVIOUS
  <1>1. Fence' /\ NothingLost'
    BY DEF RelayInv, Fence, InputFenced, NothingLost, Quiet, RequestsRead, LinkLoses
  <1>2. sent' <= end' /\ (watched' => provider' = "read")
    <2>1. sent \in Nat /\ end \in Nat
      BY DEF Places, Offsets
    <2>. QED  BY <2>1 DEF RelayInv, Quiet
  <1>3. ASSUME NEW c \in Clients
        PROVE  At(c)'
    <2>. USE <1>3
    <2>1. At(c) /\ (Alive(c)' <=> Alive(c))
      BY DEF RelayInv, Quiet, Alive
    <2>2. Unused(c)'
      <3>1. ASSUME client[c] = "idle"
            PROVE  c \notin open /\ toRelay[c] = <<>> /\ toClient[c] = <<>> /\ c \notin pending
        BY <2>1, <3>1 DEF At, Unused
      <3>2. ASSUME client[c] = "idle"
            PROVE  toRelay'[c] = <<>> /\ toClient'[c] = <<>> /\ c \notin open'
        BY <3>1, <3>2 DEF Quiet, RequestsRead, LinkLoses
      <3>. QED  BY <3>1, <3>2 DEF Unused, Quiet
    <2>3. Window(c)'
      BY <2>1, QuietRelay, QuietClient DEF At, Window, Quiet
    <2>4. Settled(c) => Settled(c)'
      BY QuietRelay, QuietClient DEF Settled, Quiet
    <2>5. Position(c)'
      <3> SUFFICES ASSUME controller' = c, Alive(c)'
                   PROVE  /\ sent' = last'[c] + (IF HasFrame(c)' THEN 1 ELSE 0)
                          /\ ~Stopping' /\ (acking' => acknowledged') => Settled(c)'
        BY DEF Position
      <3>1. controller = c /\ Alive(c)
        BY <2>1, ClientsAssumption DEF Quiet, LinkLoses
      <3>2. /\ sent = last[c] + (IF HasFrame(c) THEN 1 ELSE 0)
            /\ ~Stopping /\ (acking => acknowledged) => Settled(c)
        BY <2>1, <3>1 DEF At, Position
      <3>3. sent' = last'[c] + (IF HasFrame(c)' THEN 1 ELSE 0)
        BY <3>2, QuietClient DEF Quiet
      <3>4. ~Stopping' /\ (acking' => acknowledged') => Settled(c)'
        BY <2>4, <3>1, <3>2 DEF Quiet, StopAdvances
      <3>. QED  BY <3>3, <3>4
    <2>6. HandedOver(c)'
      BY <2>1, QuietRelay DEF At, HandedOver, Quiet
    <2>7. Finished(c)'
      BY <2>1, QuietClient DEF At, Finished, Quiet, StopAdvances
    <2>. QED  BY <2>2, <2>3, <2>5, <2>6, <2>7 DEF At
  <1>. QED  BY <1>1, <1>2, <1>3 DEF RelayInv

-----------------------------------------------------------------------------
(* The steps that are quiet.                                               *)

LEMMA DisconnectLoses ==
  ASSUME Fence, NEW S, Disconnect(S)
  PROVE  /\ open' \subseteq open
         /\ controller' \in {controller, NoClient} /\ (controller' # NoClient => controller' \in open')
  BY DEF Fence, Disconnect

LEMMA TellsError ==
  ASSUME Places, Fence, NEW c \in Clients,
         UNCHANGED toClient \/ TellController([op |-> "error"]) \/ \E d \in Clients : Tell(d, [op |-> "error"])
  PROVE  \/ toClient'[c] = toClient[c]
         \/ c \in open /\ toClient'[c] = Append(toClient[c], [op |-> "error"])
  BY ClientsAssumption DEF Places, Fence, Tell, TellController

\* The ways a step of the relay leaves its connections.
LEMMA LinkKept ==
  ASSUME Places, Fence, UNCHANGED <<link, toClient>>
  PROVE  LinkLoses
  BY DEF Fence, LinkLoses, link

LEMMA LinkRefused ==
  ASSUME Places, Fence, NEW c \in Clients, Refuse(c)
  PROVE  LinkLoses
  BY TellsError DEF Refuse, Fence, LinkLoses, link

LEMMA LinkClosed ==
  ASSUME Places, Fence, NEW S, Disconnect(S),
         UNCHANGED toClient \/ TellController([op |-> "error"])
  PROVE  LinkLoses
  BY DisconnectLoses, TellsError DEF LinkLoses

LEMMA LinkFails ==
  ASSUME Places, Fence, NEW also, FailIo(also)
  PROVE  LinkLoses /\ StopAdvances
  <1>1. LinkLoses
    BY LinkClosed DEF FailIo
  <1>2. StopAdvances
    BY DEF FailIo, AskStop, StopAdvances, Stopping
  <1>. QED  BY <1>1, <1>2

LEMMA LinkEvicted ==
  ASSUME Places, Fence, MarkLossy
  PROVE  LinkLoses /\ StopAdvances
  <1>1. LinkLoses
    BY TellsError DEF MarkLossy, Evicted, LinkLoses
  <1>2. StopAdvances
    BY DEF MarkLossy, StopAdvances, Stopping
  <1>. QED  BY <1>1, <1>2

\* The parts of Quiet that a step of the relay's tasks leaves alone.
LEMMA TaskQuiet ==
  ASSUME Places, RelayInv,
         UNCHANGED <<port, sent, acking, acked, generation, crossed, toRelay>>,
         LinkLoses, StopAdvances, end <= end', end' \in Nat,
         provider = "read" => provider' = "read" /\ end' = end,
         watched' => watched \/ provider' = "read",
         acknowledged' => acknowledged \/ Stopping'
  PROVE  Quiet
  <1>1. RequestsRead
    BY DEF RequestsRead
  <1>. QED  BY <1>1 DEF Quiet, port, RelayInv, NothingLost

\* The provider, the tasks that read it and wait for it, and serve.
LEMMA TasksAreQuiet ==
  ASSUME Places, RelayInv,
         \/ ProviderExits \/ ReadersEnd \/ Read \/ Stalled \/ Watch
         \/ StopBegins \/ StopEnds \/ Orphaned
  PROVE  Quiet
  <1>. USE DEF RelayInv
  <1>1. end \in Nat
    BY DEF Places, Offsets
  <1>2. UNCHANGED stop => StopAdvances
    BY DEF StopAdvances, Stopping
  <1>3. CASE ProviderExits \/ ReadersEnd
    BY <1>1, <1>2, <1>3, LinkKept, TaskQuiet
       DEF ProviderExits, ReadersEnd, relay, failure, link, task, events
  <1>4. CASE Read
    <2>1. LinkLoses /\ StopAdvances
      BY <1>2, <1>4, LinkKept, LinkFails, LinkEvicted
         DEF Read, Journal, Overflow, NoFault, failure, MarkLossy
    <2>2. end' \in {end, end + 1} /\ provider # "read" /\ UNCHANGED provider
      BY <1>4 DEF Read, Journal, Overflow
    <2>3. UNCHANGED <<port, sent, acking, acknowledged, acked, generation, watched, crossed, toRelay>>
      BY <1>4 DEF Read, relay
    <2>. QED  BY <1>1, <2>1, <2>2, <2>3, TaskQuiet
  <1>5. CASE Stalled
    BY <1>1, <1>2, <1>5, LinkClosed, TaskQuiet
       DEF Stalled, output, relay, failure, task, events
  <1>6. CASE Watch
    <2>1. LinkLoses /\ StopAdvances
      BY <1>2, <1>6, LinkKept, LinkFails DEF Watch, NoFault, failure
    <2>. QED  BY <1>1, <1>6, <2>1, TaskQuiet DEF Watch, OutputRead, output
  <1>7. CASE StopBegins
    <2>1. StopAdvances /\ Stopping'
      BY <1>7 DEF StopBegins, StopAdvances, Stopping
    <2>. QED
      BY <1>1, <1>7, <2>1, LinkKept, TaskQuiet DEF StopBegins, output, relay, link
  <1>8. CASE StopEnds
    <2>1. LinkLoses
      BY <1>8, LinkKept, LinkClosed DEF StopEnds
    <2>2. StopAdvances
      BY <1>8 DEF StopEnds, StopAdvances, Stopping
    <2>. QED
      BY <1>1, <1>8, <2>1, <2>2, TaskQuiet DEF StopEnds, output, relay, task, events
  <1>9. CASE Orphaned
    <2>1. StopAdvances
      BY <1>9 DEF Orphaned, StopAdvances, Stopping
    <2>. QED
      BY <1>1, <1>9, <2>1, LinkKept, TaskQuiet DEF Orphaned, output, relay, link, task, events
  <1>. QED  BY <1>3, <1>4, <1>5, <1>6, <1>7, <1>8, <1>9

LEMMA ServeIsQuiet ==
  ASSUME Places, RelayInv, Serve
  PROVE  Quiet
  <1>. USE DEF RelayInv
  <1>1. end \in Nat
    BY DEF Places, Offsets
  <1>2. LinkLoses
    <2>1. CASE UNCHANGED <<link, toClient>>
      BY <2>1, LinkKept
    <2>2. CASE Close /\ UNCHANGED toClient
      BY <2>2 DEF Close, LinkLoses
    <2>. QED  BY <2>1, <2>2 DEF Serve, link
  <1>3. RequestsRead
    BY DEF Serve, Close, None, RequestsRead, link
  <1>4. StopAdvances
    BY DEF Serve, failure, StopAdvances, Stopping
  <1>5. UNCHANGED <<output, acked, generation, task, port>> /\ watched' = watched
    BY DEF Serve
  <1>. QED
    BY <1>1, <1>2, <1>3, <1>4, <1>5 DEF Quiet, NothingLost, output, task, events, port

LEMMA HangupIsQuiet ==
  ASSUME Places, RelayInv, NEW c \in Clients, Hangup(c)
  PROVE  Quiet
  <1>. USE DEF RelayInv
  <1>1. end \in Nat
    BY DEF Places, Offsets
  <1>2. LinkLoses
    BY LinkClosed DEF Hangup
  <1>3. RequestsRead
    BY DEF Hangup, RequestsRead, Places
  <1>4. StopAdvances
    BY DEF Hangup, failure, StopAdvances, Stopping
  <1>5. UNCHANGED <<output, relay, task, port>>
    BY DEF Hangup
  <1>. QED
    BY <1>1, <1>2, <1>3, <1>4, <1>5 DEF Quiet, NothingLost, output, relay, task, events, port

\* An acknowledgement that counts is the only one, of a frame that was handed
\* over, and nothing is left on its way to the controller or back.
LEMMA AckSettles ==
  ASSUME Places, RelayInv, NEW c \in Clients,
         toRelay[c] # <<>>, Head(toRelay[c]).op = "ack"
  PROVE  /\ 1..Head(toRelay[c]).offset \subseteq taken
         /\ Alive(c) => ~Has(Tail(toRelay[c]), "ack") /\ ~HasFrame(c) /\ c \notin pending
  <1>1. toRelay[c] \in Seq(Requests) /\ At(c)
    BY DEF Places, RelayInv
  <1>2. 1..Head(toRelay[c]).offset \subseteq taken
    BY <1>1, TailOnly DEF At, HandedOver
  <1>3. HasAck(c)
    BY <1>1, TailHas DEF HasAck
  <1>4. One(toRelay[c], "ack") => ~Has(Tail(toRelay[c]), "ack")
    BY <1>1, TailHas
  <1>. QED  BY <1>1, <1>2, <1>3, <1>4 DEF At, Window

LEMMA CommandIsQuiet ==
  ASSUME Places, RelayInv, NEW c \in Clients, Command(c)
  PROVE  Quiet
  <1>. USE DEF RelayInv
  <1>. DEFINE r == Head(toRelay[c])
  <1>1. end \in Nat
    BY DEF Places, Offsets
  <1>2. toRelay[c] # <<>> /\ toRelay'[c] = Tail(toRelay[c]) /\ RequestsRead
    BY DEF Command, Places, RequestsRead
  <1>3. UNCHANGED stop => StopAdvances
    BY DEF StopAdvances, Stopping
  <1>4. \/ Refuse(c)
        \/ IsController(c) /\ r.op = "ack" /\ Ack(c, r) /\ ~Refuse(c)
        \/ IsController(c) /\ Stdin(c) /\ ~Refuse(c)
        \/ Detach(c) \/ StopRequest
    BY DEF Command, Fenced
  <1>5. ASSUME LinkLoses, StopAdvances, UNCHANGED <<provider, end, task, port, relay>>,
               crossed' => crossed
        PROVE  Quiet
    BY <1>1, <1>2, <1>5 DEF Quiet, NothingLost, relay, task, events, port
  <1>6. CASE Refuse(c)
    BY <1>3, <1>5, <1>6, LinkRefused DEF Refuse, output, failure
  <1>7. CASE IsController(c) /\ Stdin(c) /\ ~Refuse(c)
    <2>1. c = controller /\ gen[c] = generation
      BY <1>7, ClientsAssumption DEF IsController, Fence
    <2>2. UNCHANGED <<provider, end, relay, failure, link, task, toClient, port>>
          /\ (crossed' => crossed)
      BY <1>7, <2>1 DEF Stdin
    <2>. QED  BY <1>3, <1>5, <2>2, LinkKept DEF failure
  <1>8. CASE Detach(c)
    BY <1>3, <1>5, <1>8, LinkClosed DEF Detach, output, failure
  <1>9. CASE StopRequest
    <2>1. StopAdvances
      BY <1>9 DEF StopRequest, AskStop, StopAdvances, Stopping
    <2>. QED  BY <1>5, <1>9, <2>1, LinkKept DEF StopRequest, output, link
  <1>10. CASE IsController(c) /\ r.op = "ack" /\ Ack(c, r) /\ ~Refuse(c)
    <2>1. /\ 1..r.offset \subseteq taken
          /\ Alive(c) => ~Has(Tail(toRelay[c]), "ack") /\ ~HasFrame(c) /\ c \notin pending
      BY <1>2, <1>10, AckSettles
    <2>2. /\ acked' = r.offset
          /\ UNCHANGED <<output, generation, watched, serve, waitsOn, sent, acking, ready, drained, port>>
      BY <1>10 DEF Ack, Dropped
    <2>3. CASE FailIo({c}) /\ UNCHANGED acknowledged
      BY <1>1, <1>2, <2>1, <2>2, <2>3, LinkFails DEF Quiet, output, port
    <2>4. CASE acknowledged' = TRUE /\ NoFault /\ UNCHANGED <<link, toClient>>
      <3>1. LinkLoses /\ StopAdvances
        BY <1>3, <2>4, LinkKept DEF NoFault, failure
      <3>2. ASSUME NEW d \in Clients, controller' = d, Alive(d)
            PROVE  Settled(d)'
        <4>1. d = c
          BY <1>10, <2>4, <3>2 DEF IsController, link
        <4>. QED
          BY <1>2, <2>1, <2>2, <2>4, <3>2, <4>1 DEF Settled, HasFrame, HasAck, port
      <3>. QED
        BY <1>1, <1>2, <2>1, <2>2, <3>1, <3>2 DEF Quiet, output, port
    <2>. QED  BY <1>10, <2>3, <2>4 DEF Ack
  <1>. QED  BY <1>4, <1>6, <1>7, <1>8, <1>9, <1>10

-----------------------------------------------------------------------------
(* The steps that touch one controller.                                    *)

\* The others notice nothing of it.
LEMMA OthersKept ==
  ASSUME NEW d \in Clients, At(d),
         client'[d] = client[d], last'[d] = last[d], seen'[d] = seen[d],
         toClient'[d] = toClient[d], toRelay'[d] = toRelay[d],
         (d \in pending') <=> (d \in pending), d \in open' => d \in open,
         taken \subseteq taken', UNCHANGED <<end, provider>>, stop # "none" => stop' # "none",
         controller' # d \/ UNCHANGED <<controller, sent, acking, acknowledged, stop>>
  PROVE  At(d)'
  <1>1. HasFrame(d)' = HasFrame(d) /\ HasAck(d)' = HasAck(d) /\ Alive(d)' = Alive(d)
    BY DEF HasFrame, HasAck, Alive
  <1>2. Unused(d)'
    BY DEF At, Unused
  <1>3. Window(d)'
    BY <1>1 DEF At, Window
  <1>4. Position(d)'
    BY <1>1 DEF At, Position, Settled, Stopping
  <1>5. HandedOver(d)'
    BY DEF At, HandedOver, Covered
  <1>6. Finished(d)'
    BY <1>1 DEF At, Finished
  <1>. QED  BY <1>2, <1>3, <1>4, <1>5, <1>6 DEF At

LEMMA ForwardStep == Places /\ RelayInv /\ Forward => RelayInv'
  <1> SUFFICES ASSUME Places, RelayInv, Forward PROVE RelayInv'
    OBVIOUS
  <1>0. PICK c \in Clients : controller = c
    BY DEF Forward, Places
  <1>1. /\ c \in open /\ At(c) /\ controller = c
        /\ acking => acknowledged
        /\ UNCHANGED <<output, relay, failure, link, toRelay, port, faults>>
    BY <1>0 DEF Forward, Backpressure, RelayInv, Fence
  <1>2. \A d \in Clients : d # c => toClient'[d] = toClient[d]
    BY <1>0 DEF Forward, SendFrame, Rest, Tell, Places
  <1>3. ASSUME NEW d \in Clients, d # c
        PROVE  At(d)'
    BY <1>1, <1>2, <1>3, OthersKept DEF RelayInv, output, failure, link, port
  <1>4. Fence' /\ NothingLost' /\ (watched' => provider' = "read")
    BY <1>1 DEF RelayInv, Fence, InputFenced, NothingLost, output, relay, link, port
  <1>5. client[c] # "idle"
    BY <1>1 DEF At, Unused
  <1>6. /\ toClient[c] \in Seq(Answers) /\ sent \in Nat /\ end \in Nat /\ end <= MaxFrames
        /\ last[c] \in Nat
    BY <1>1, BoundsAssumption DEF Places, Offsets
  <1>7. Unused(c)' /\ HandedOver(c)' /\ HasAck(c)' = HasAck(c) /\ Alive(c)' = Alive(c)
    BY <1>1, <1>5 DEF Unused, HandedOver, HasAck, Alive, At, port
  <1>8. CASE ~Stopping /\ sent < end /\ SendFrame
    <2>. DEFINE m == [op |-> "frame", offset |-> sent + 1]
    <2>1. sent + 1 \in Offsets
      BY <1>6, <1>8, BoundsAssumption DEF Offsets
    <2>2. m \in Answers /\ m.op = "frame" /\ m.offset = sent + 1
      BY <2>1 DEF Answers
    <2>3. toClient'[c] = Append(toClient[c], m)
      BY <1>1, <1>8 DEF SendFrame, Tell, Places
    <2>. HIDE DEF m
    <2>4. HasFrame(c)' /\ (Has(toClient'[c], "exit") <=> Has(toClient[c], "exit"))
      BY <1>6, <2>2, <2>3, AppendHas DEF HasFrame
    <2>5. ASSUME Alive(c)
          PROVE  sent = last[c] /\ Settled(c) /\ One(toClient[c], "frame")
                 /\ Only(toClient[c], last[c] + 1) /\ One(toRelay[c], "ack")
      BY <1>1, <1>6, <1>8, <2>5 DEF At, Position, Settled, Window
    <2>6. Alive(c) => One(toClient'[c], "frame") /\ Only(toClient'[c], last[c] + 1)
      <3>1. One(toClient[c], "frame") /\ ~Has(toClient[c], "frame") => One(toClient'[c], "frame")
        BY <1>6, <2>2, <2>3, AppendHas
      <3>2. Only(toClient[c], sent + 1) => Only(toClient'[c], sent + 1)
        BY <1>6, <2>2, <2>3, AppendOnly
      <3>. QED  BY <2>5, <3>1, <3>2 DEF Settled, HasFrame
    <2>7. Window(c)'
      BY <1>1, <1>7, <2>5, <2>6 DEF Window, Settled, port
    <2>8. Position(c)'
      BY <1>1, <1>6, <1>7, <1>8, <2>4, <2>5 DEF Position, SendFrame, port
    <2>9. Finished(c)'
      BY <1>1, <1>6, <1>7, <1>8, <2>4, <2>5 DEF Finished, At, output, failure, port
    <2>10. sent' <= end'
      BY <1>1, <1>6, <1>8 DEF SendFrame, output
    <2>. QED
      BY <1>3, <1>4, <1>7, <2>7, <2>8, <2>9, <2>10 DEF RelayInv, At
  <1>9. CASE (Stopping \/ sent >= end) /\ Rest
    <2>. DEFINE m == [op |-> "exit"]
    <2>1. m \in Answers /\ m.op = "exit"
      BY DEF Answers
    <2>2. \/ toClient'[c] = toClient[c]
          \/ toClient'[c] = Append(toClient[c], m) /\ Deliverable
      BY <1>1, <1>9 DEF Rest, Tell, Places
    <2>. HIDE DEF m
    <2>3. /\ HasFrame(c)' <=> HasFrame(c)
          /\ One(toClient[c], "frame") => One(toClient'[c], "frame")
          /\ \A o : Only(toClient[c], o) => Only(toClient'[c], o)
      <3>1. CASE toClient'[c] = toClient[c]
        BY <3>1 DEF HasFrame
      <3>2. CASE toClient'[c] = Append(toClient[c], m)
        <4>1. HasFrame(c)' <=> HasFrame(c)
          BY <1>6, <2>1, <3>2, AppendHas DEF HasFrame
        <4>2. One(toClient[c], "frame") => One(toClient'[c], "frame")
          BY <1>6, <2>1, <3>2, AppendHas
        <4>3. \A o : Only(toClient[c], o) => Only(toClient'[c], o)
          BY <1>6, <2>1, <3>2, AppendOnly
        <4>. QED  BY <4>1, <4>2, <4>3
      <3>. QED  BY <2>2, <3>1, <3>2
    <2>4. Alive(c) => One(toClient'[c], "frame") /\ Only(toClient'[c], last[c] + 1)
      BY <1>1, <2>3 DEF At, Window
    <2>5. Window(c)'
      BY <1>1, <1>7, <2>3, <2>4 DEF At, Window, port
    <2>6. Position(c)'
      BY <1>1, <1>7, <1>9, <2>3 DEF At, Position, Settled, Stopping, Rest, failure, link, port
    <2>7. ASSUME Alive(c), Deliverable, stop = "none"
          PROVE  provider = "read" /\ last[c] = end /\ ~HasFrame(c)
      <3>1. watched /\ sent = end
        BY <1>6, <1>9, <2>7 DEF Deliverable, ExitStatus, Stopping, RelayInv
      <3>2. Settled(c) /\ sent = last[c]
        BY <1>1, <1>6, <2>7 DEF At, Position, Stopping, Settled
      <3>. QED  BY <3>1, <3>2 DEF RelayInv, Settled
    <2>8. Finished(c)'
      <3>1. Has(toClient'[c], "exit") => Has(toClient[c], "exit") \/ Deliverable
        BY <2>2
      <3>. QED
        BY <1>1, <1>7, <2>3, <2>7, <3>1 DEF Finished, At, output, failure, port
    <2>9. sent' <= end'
      BY <1>1, <1>9 DEF Rest, RelayInv, output
    <2>. QED  BY <1>3, <1>4, <1>7, <2>5, <2>6, <2>8, <2>9 DEF RelayInv, At
  <1>. QED  BY <1>8, <1>9 DEF Forward

\* A new controller starts with nothing on its way.
LEMMA AttachStep == ASSUME NEW c \in Clients PROVE Places /\ RelayInv /\ Attach(c) => RelayInv'
  <1> SUFFICES ASSUME Places, RelayInv, Attach(c) PROVE RelayInv'
    OBVIOUS
  <1>1. /\ At(c) /\ client[c] = "idle" /\ c \notin open /\ c # controller
        /\ c \notin pending /\ toClient[c] = <<>> /\ toRelay[c] = <<>> /\ seen[c] = "none"
    <2>1. At(c) /\ client[c] = "idle"
      BY DEF Attach, RelayInv
    <2>2. seen[c] = "none"
      BY <2>1 DEF At, Finished, Alive
    <2>3. c \notin open /\ c \notin pending /\ toClient[c] = <<>> /\ toRelay[c] = <<>>
      BY <2>1 DEF At, Unused
    <2>4. c # controller
      BY <2>3, ClientsAssumption DEF RelayInv, Fence
    <2>. QED  BY <2>1, <2>2, <2>3, <2>4
  <1>2. UNCHANGED <<output, acked, watched, serve, waitsOn, toRelay, toClient, pending, seen, taken>>
    BY DEF Attach
  <1>3. NothingLost' /\ InputFenced' /\ (watched' => provider' = "read")
    BY <1>2 DEF RelayInv, Fence, NothingLost, InputFenced, output
  <1>4. ~HasFrame(c)' /\ ~HasAck(c)' /\ One(toClient'[c], "frame") /\ One(toRelay'[c], "ack")
        /\ (\A o : Only(toClient'[c], o)) /\ (\A T : Covered(toRelay'[c], T))
        /\ ~Has(toClient'[c], "exit")
    BY <1>1, <1>2, EmptyHas DEF HasFrame, HasAck
  <1>5. CASE Becomes(c, "gone") /\ UNCHANGED <<generation, failure, link, task, gen, last, faults>>
    <2>1. ~Alive(c)' /\ client'[c] # "idle"
      BY <1>5 DEF Becomes, Alive, Places
    <2>2. At(c)'
      BY <1>1, <1>2, <1>4, <1>5, <2>1
         DEF At, Unused, Window, Position, HandedOver, Finished
    <2>3. ASSUME NEW d \in Clients, d # c PROVE At(d)'
      <3>1. client'[d] = client[d]
        BY <1>5, <2>3 DEF Becomes, Places
      <3>. QED
        BY <1>2, <1>5, <2>3, <3>1, OthersKept DEF RelayInv, output, failure, link, task, events
    <2>4. Fence' /\ sent' <= end'
      BY <1>2, <1>3, <1>5 DEF RelayInv, Fence, link, task, output
    <2>. QED  BY <1>3, <2>2, <2>3, <2>4 DEF RelayInv
  <1>6. CASE ~(Becomes(c, "gone") /\ UNCHANGED <<generation, failure, link, task, gen, last, faults>>)
    <2>1. PICK g \in 1..MaxGen, o \in 0..acked \cup {last[d] : d \in Clients} :
            /\ ValidOffset(o)
            /\ generation' = g /\ gen' = [gen EXCEPT ![c] = g]
            /\ sent' = StartsAt(o) /\ last' = [last EXCEPT ![c] = o]
            /\ acking' = FALSE
            /\ ready' = TRUE /\ acknowledged' = FALSE /\ drained' = FALSE
            /\ \/ /\ controller' = c /\ open' = (open \ {controller}) \cup {c}
                  /\ Becomes(c, "on") /\ NoFault
               \/ /\ Fault /\ failed' = TRUE /\ lossy' = TRUE /\ AskStop
                  /\ Disconnect({controller}) /\ Becomes(c, "gone")
      BY <1>6 DEF Attach
    <2>2. /\ last'[c] = o /\ gen'[c] = generation' /\ sent' = o
          /\ \A d \in Clients : d # c => last'[d] = last[d] /\ client'[d] = client[d]
          /\ client'[c] \in {"on", "gone"} /\ (client'[c] = "on" => controller' = c)
      BY <2>1 DEF StartsAt, Becomes, Places
    <2>3. stop # "none" => stop' # "none"
      BY <2>1 DEF NoFault, failure, AskStop
    <2>4. controller' \in {c, NoClient} /\ (controller' # NoClient => controller' \in open')
          /\ open' \subseteq open \cup {c}
      BY <2>1 DEF Disconnect
    <2>5. 1..o \subseteq taken /\ o <= end
      <3>1. o <= end /\ acked <= o
        BY <2>1 DEF ValidOffset
      <3>2. CASE o \in 0..acked
        BY <3>1, <3>2 DEF RelayInv, NothingLost, Places, Offsets
      <3>3. CASE o \in {last[d] : d \in Clients}
        <4>1. PICK d \in Clients : o = last[d]
          BY <3>3
        <4>2. 1..last[d] \subseteq taken
          BY DEF RelayInv, At, HandedOver
        <4>. QED  BY <3>1, <4>1, <4>2
      <3>. QED  BY <3>1, <3>2, <3>3
    <2>6. Fence' /\ sent' <= end'
      BY <1>2, <1>3, <2>2, <2>4, <2>5 DEF Fence, output
    <2>7. At(c)'
      <3>1. Unused(c)' /\ Window(c)'
        BY <1>1, <1>2, <1>4, <2>2 DEF Unused, Window
      <3>2. o \in Nat
        BY <2>1 DEF Places, Offsets
      <3>3. Position(c)'
        BY <1>1, <1>2, <1>4, <2>2, <3>2 DEF Position, Settled
      <3>4. HandedOver(c)' /\ Finished(c)'
        BY <1>1, <1>2, <1>4, <2>2, <2>5 DEF HandedOver, Finished
      <3>. QED  BY <3>1, <3>3, <3>4 DEF At
    <2>8. ASSUME NEW d \in Clients, d # c PROVE At(d)'
      BY <1>2, <2>2, <2>3, <2>4, <2>8, ClientsAssumption, OthersKept DEF RelayInv, output
    <2>. QED  BY <1>3, <2>6, <2>7, <2>8 DEF RelayInv
  <1>. QED  BY <1>5, <1>6

\* An owner is handed the frame that was on its way, or an exit status.
LEMMA ReceiveStep == ASSUME NEW c \in Clients PROVE Places /\ RelayInv /\ Receive(c) => RelayInv'
  <1> SUFFICES ASSUME Places, RelayInv, Receive(c) PROVE RelayInv'
    OBVIOUS
  <1>. DEFINE a == Head(toClient[c])
  <1>1. /\ At(c) /\ Alive(c) /\ toClient[c] # <<>> /\ c \notin pending
        /\ UNCHANGED <<output, relay, failure, link, task, toRelay, client, gen, faults>>
        /\ toClient' = [toClient EXCEPT ![c] = Tail(@)]
    BY DEF Receive, RelayInv
  <1>2. /\ toClient[c] \in Seq(Answers) /\ a \in Answers /\ toClient'[c] = Tail(toClient[c])
        /\ \A d \in Clients : d # c => toClient'[d] = toClient[d]
    BY <1>1 DEF Places
  <1>3. /\ HasFrame(c)' => HasFrame(c)
        /\ Has(toClient'[c], "exit") => Has(toClient[c], "exit")
    BY <1>1, <1>2, TailHas DEF HasFrame
  <1>4. /\ a.op = "frame" => HasFrame(c)
        /\ a.op = "exit" => Has(toClient[c], "exit")
        /\ One(toClient[c], "frame") => One(toClient'[c], "frame")
        /\ One(toClient[c], "frame") /\ a.op = "frame" => ~HasFrame(c)'
    BY <1>1, <1>2, TailHas DEF HasFrame
  <1>5. Only(toClient[c], last[c] + 1) =>
            Only(toClient'[c], last[c] + 1) /\ (a.op = "frame" => a.offset = last[c] + 1)
    BY <1>1, <1>2, TailOnly
  <1>6. last[c] \in Nat /\ HasAck(c)' = HasAck(c) /\ Alive(c)' = Alive(c) /\ client[c] # "idle"
    BY <1>1 DEF Places, Offsets, HasAck, Alive
  <1>. HIDE DEF a
  <1>7. CASE /\ a.op = "frame" /\ last' = [last EXCEPT ![c] = a.offset]
             /\ pending' = pending \cup {c} /\ taken' = taken \cup {a.offset} /\ UNCHANGED seen
    <2>1. HasFrame(c) /\ ~HasFrame(c)' /\ ~HasAck(c) /\ a.offset = last[c] + 1
          /\ One(toClient[c], "frame") /\ One(toRelay[c], "ack")
      <3>1. HasFrame(c)
        BY <1>4, <1>7
      <3>2. One(toClient[c], "frame") /\ Only(toClient[c], last[c] + 1) /\ One(toRelay[c], "ack")
            /\ ~HasAck(c)
        BY <1>1, <3>1 DEF At, Window
      <3>3. ~HasFrame(c)' /\ a.offset = last[c] + 1
        BY <1>4, <1>5, <1>7, <3>2
      <3>. QED  BY <3>1, <3>2, <3>3
    <2>2. /\ last'[c] = last[c] + 1
          /\ \A d \in Clients : d # c => last'[d] = last[d]
      BY <1>7, <2>1 DEF Places
    <2>3. Window(c)'
      <3>1. One(toClient'[c], "frame") /\ \A o : Only(toClient'[c], o)
        <4>1. \A o : Only(toClient'[c], o)
          BY <2>1 DEF HasFrame, Has, Only
        <4>. QED  BY <1>4, <2>1, <4>1
      <3>. QED  BY <1>1, <1>6, <2>1, <3>1 DEF Window
    <2>4. Position(c)'
      BY <1>1, <1>6, <1>7, <2>1, <2>2
         DEF At, Position, Settled, Stopping, failure, link, task, events
    <2>5. HandedOver(c)'
      <3>1. 1..(last[c] + 1) \subseteq taken'
        BY <1>1, <1>6, <1>7, <2>1 DEF At, HandedOver
      <3>2. Covered(toRelay'[c], taken')
        BY <1>1, <1>7 DEF At, HandedOver, Covered
      <3>. QED  BY <2>2, <3>1, <3>2 DEF HandedOver
    <2>6. Finished(c)'
      BY <1>1, <1>3, <1>6, <1>7, <2>1 DEF At, Finished, failure
    <2>7. Unused(c)'
      BY <1>1, <1>6 DEF Unused
    <2>8. ASSUME NEW d \in Clients, d # c PROVE At(d)'
      BY <1>1, <1>2, <1>7, <2>2, <2>8, OthersKept
         DEF RelayInv, output, failure, link, task, events
    <2>9. Fence' /\ NothingLost' /\ sent' <= end' /\ (watched' => provider' = "read")
      BY <1>1, <1>7
         DEF RelayInv, Fence, InputFenced, NothingLost, output, relay, link, task
    <2>. QED  BY <2>3, <2>4, <2>5, <2>6, <2>7, <2>8, <2>9 DEF RelayInv, At
  <1>8. CASE /\ a.op # "frame" /\ Told(c, IF a.op = "exit" THEN "code" ELSE "one")
             /\ UNCHANGED <<last, pending, taken>>
    <2>1. /\ seen'[c] = "code" => seen[c] = "code" \/ a.op = "exit"
          /\ \A d \in Clients : d # c => seen'[d] = seen[d]
      BY <1>8 DEF Told, Places
    <2>2. HasFrame(c)' <=> HasFrame(c)
      BY <1>1, <1>2, <1>8, TailHas DEF HasFrame, a
    <2>3. Window(c)' /\ HandedOver(c)' /\ Unused(c)'
      <3>1. One(toClient'[c], "frame") /\ Only(toClient'[c], last[c] + 1)
        BY <1>1, <1>4, <1>5 DEF At, Window
      <3>2. Window(c)'
        BY <1>1, <1>6, <1>8, <2>2, <3>1 DEF At, Window
      <3>. QED  BY <1>1, <1>6, <1>8, <3>2 DEF At, HandedOver, Unused
    <2>4. Position(c)'
      BY <1>1, <1>6, <1>8, <2>2 DEF At, Position, Settled, Stopping, failure, link, task, events
    <2>5. Finished(c)'
      BY <1>1, <1>3, <1>4, <1>6, <1>8, <2>1, <2>2 DEF At, Finished, output, failure
    <2>6. ASSUME NEW d \in Clients, d # c PROVE At(d)'
      BY <1>1, <1>2, <1>8, <2>1, <2>6, OthersKept
         DEF RelayInv, output, failure, link, task, events
    <2>7. Fence' /\ NothingLost' /\ sent' <= end' /\ (watched' => provider' = "read")
      BY <1>1, <1>8
         DEF RelayInv, Fence, InputFenced, NothingLost, output, relay, link, task
    <2>. QED  BY <2>3, <2>4, <2>5, <2>6, <2>7 DEF RelayInv, At
  <1>. QED  BY <1>7, <1>8 DEF Receive, a

\* What a controller sends: the acknowledgement it owes, and a request.
LEMMA AckOfHas ==
  ASSUME Places, NEW c \in Clients, NEW m \in [op : {"stdin", "detach", "stop"}],
         NEW rs, rs = AckOf(c) \/ rs = AckOf(c) \o <<m>>
  PROVE  /\ rs \in Seq(Requests)
         /\ Has(rs, "ack") <=> c \in pending
         /\ One(rs, "ack")
         /\ \A T : 1..last[c] \subseteq T => Covered(rs, T)
  <1>. DEFINE a == [op |-> "ack", offset |-> last[c]]
  <1>1. a \in Requests /\ m \in Requests /\ a.op = "ack" /\ a.offset = last[c] /\ m.op # "ack"
    BY DEF Requests, Places
  <1>2. AckOf(c) = IF c \in pending THEN <<a>> ELSE <<>>
    BY DEF AckOf
  <1>. HIDE DEF a
  <1>3. <<a>> \in Seq(Requests) /\ <<m>> \in Seq(Requests) /\ <<>> \in Seq(Requests)
    BY <1>1
  <1>4. Has(<<a>>, "ack") /\ One(<<a>>, "ack") /\ \A T : 1..last[c] \subseteq T => Covered(<<a>>, T)
    BY <1>1 DEF Has, One, Covered
  <1>5. ~Has(<<m>>, "ack") /\ One(<<m>>, "ack") /\ \A T : Covered(<<m>>, T)
    BY <1>1 DEF Has, One, Covered
  <1>6. /\ AckOf(c) \in Seq(Requests) /\ (Has(AckOf(c), "ack") <=> c \in pending)
        /\ One(AckOf(c), "ack") /\ \A T : 1..last[c] \subseteq T => Covered(AckOf(c), T)
    BY <1>2, <1>3, <1>4, EmptyHas
  <1>7. /\ AckOf(c) \o <<m>> \in Seq(Requests) /\ (Has(AckOf(c) \o <<m>>, "ack") <=> c \in pending)
        /\ One(AckOf(c) \o <<m>>, "ack")
        /\ \A T : 1..last[c] \subseteq T => Covered(AckOf(c) \o <<m>>, T)
    <2>1. Has(AckOf(c) \o <<m>>, "ack") <=> c \in pending
      BY <1>3, <1>5, <1>6, ConcatHas
    <2>2. One(AckOf(c) \o <<m>>, "ack")
      BY <1>3, <1>5, <1>6, ConcatHas
    <2>3. \A T : 1..last[c] \subseteq T => Covered(AckOf(c) \o <<m>>, T)
      BY <1>3, <1>5, <1>6, ConcatHas
    <2>. QED  BY <1>3, <1>6, <2>1, <2>2, <2>3
  <1>. QED  BY <1>6, <1>7

\* The requests join those that the relay has not read.
LEMMA RequestKept ==
  ASSUME Places, NEW c \in Clients, NEW rs \in Seq(Requests), Request(c, rs)
  PROVE  /\ \A d \in Clients : d # c => toRelay'[d] = toRelay[d]
         /\ HasAck(c)' => HasAck(c) \/ Has(rs, "ack")
         /\ c \in open => (HasAck(c)' <=> HasAck(c) \/ Has(rs, "ack"))
         /\ One(toRelay[c], "ack") /\ One(rs, "ack") /\ ~(HasAck(c) /\ Has(rs, "ack")) =>
                One(toRelay'[c], "ack")
         /\ \A T : Covered(toRelay[c], T) /\ Covered(rs, T) => Covered(toRelay'[c], T)
         /\ c \notin open => toRelay'[c] = toRelay[c]
  <1>1. toRelay[c] \in Seq(Requests) /\ \A d \in Clients : d # c => toRelay'[d] = toRelay[d]
    BY DEF Places, Request
  <1>2. CASE c \notin open
    <2>1. toRelay'[c] = toRelay[c]
      BY <1>2 DEF Places, Request
    <2>. QED  BY <1>1, <1>2, <2>1 DEF HasAck
  <1>3. CASE c \in open
    <2>1. toRelay'[c] = toRelay[c] \o rs
      BY <1>3 DEF Places, Request
    <2>2. HasAck(c)' <=> HasAck(c) \/ Has(rs, "ack")
      <3>1. Has(toRelay[c] \o rs, "ack") <=> Has(toRelay[c], "ack") \/ Has(rs, "ack")
        BY <1>1, ConcatHas
      <3>. QED  BY <2>1, <3>1 DEF HasAck
    <2>3. One(toRelay[c], "ack") /\ One(rs, "ack") /\ ~(HasAck(c) /\ Has(rs, "ack")) =>
              One(toRelay'[c], "ack")
      <3>1. Has(toRelay[c], "ack") <=> HasAck(c)
        BY DEF HasAck
      <3>2. One(toRelay[c], "ack") /\ One(rs, "ack") /\ ~(Has(toRelay[c], "ack") /\ Has(rs, "ack"))
                => One(toRelay[c] \o rs, "ack")
        BY <1>1, ConcatHas
      <3>. QED  BY <2>1, <3>1, <3>2
    <2>4. \A T : Covered(toRelay[c], T) /\ Covered(rs, T) => Covered(toRelay'[c], T)
      BY <1>1, <2>1, ConcatHas
    <2>. QED  BY <1>1, <1>3, <2>2, <2>3, <2>4
  <1>. QED  BY <1>2, <1>3

\* A controller that acknowledges what it handed over, and goes on or closes.
LEMMA SendStep ==
  ASSUME Places, RelayInv, NEW c \in Clients, Alive(c), Alive(c)',
         NEW m \in [op : {"stdin", "detach", "stop"}],
         NEW rs, rs = AckOf(c) \/ rs = AckOf(c) \o <<m>>, Request(c, rs),
         pending' = pending \ {c}, \A d \in Clients : d # c => client'[d] = client[d],
         UNCHANGED <<output, relay, failure, link, task, toClient, gen, last, seen, taken>>
  PROVE  RelayInv'
  <1>1. /\ rs \in Seq(Requests) /\ (Has(rs, "ack") <=> c \in pending) /\ One(rs, "ack")
        /\ \A T : 1..last[c] \subseteq T => Covered(rs, T)
    BY AckOfHas
  <1>2. At(c) /\ client[c] # "idle" /\ client'[c] # "idle"
    BY DEF RelayInv, Alive
  <1>3. /\ \A d \in Clients : d # c => toRelay'[d] = toRelay[d]
        /\ HasAck(c)' => HasAck(c) \/ c \in pending
        /\ c \in open => (HasAck(c)' <=> HasAck(c) \/ c \in pending)
    BY <1>1, RequestKept
  <1>4. HasFrame(c)' <=> HasFrame(c)
    BY DEF HasFrame
  <1>5. Window(c)'
    <2>1. One(toRelay'[c], "ack")
      BY <1>1, <1>2, RequestKept DEF At, Window
    <2>. QED  BY <1>2, <1>3, <1>4, <2>1 DEF At, Window
  <1>6. Position(c)'
    <2>1. controller = c => c \in open
      BY ClientsAssumption DEF RelayInv, Fence
    <2>. QED
      BY <1>2, <1>3, <1>4, <2>1 DEF At, Position, Settled, Stopping, failure, link, task, events
  <1>7. HandedOver(c)'
    <2>1. Covered(toRelay'[c], taken)
      BY <1>1, <1>2, RequestKept DEF At, HandedOver
    <2>. QED  BY <1>2, <2>1 DEF At, HandedOver
  <1>8. Finished(c)' /\ Unused(c)'
    BY <1>2, <1>4 DEF At, Finished, Unused, output, failure
  <1>9. ASSUME NEW d \in Clients, d # c PROVE At(d)'
    BY <1>3, <1>9, OthersKept DEF RelayInv, output, failure, link, task, events
  <1>10. Fence' /\ NothingLost' /\ sent' <= end' /\ (watched' => provider' = "read")
    BY DEF RelayInv, Fence, InputFenced, NothingLost, output, relay, link, task
  <1>. QED  BY <1>5, <1>6, <1>7, <1>8, <1>9, <1>10 DEF RelayInv, At

\* A controller that is gone has nothing on its way and owes nothing.
LEMMA GoneStep ==
  ASSUME Places, RelayInv, NEW c \in Clients, Gone(c), client[c] # "idle",
         last'[c] \in {0, last[c]}, \A d \in Clients : d # c => last'[d] = last[d],
         \A d \in Clients : d # c => toRelay'[d] = toRelay[d], Covered(toRelay'[c], taken)
  PROVE  RelayInv'
  <1>1. /\ client'[c] = "gone" /\ seen'[c] = "none" /\ toClient'[c] = <<>> /\ ~Alive(c)'
        /\ UNCHANGED <<output, relay, failure, link, task, gen, taken, faults>>
    BY DEF Gone, Becomes, Places, Alive
  <1>2. \A d \in Clients : d # c =>
            /\ client'[d] = client[d] /\ seen'[d] = seen[d] /\ toClient'[d] = toClient[d]
            /\ d \in pending' <=> d \in pending
    BY DEF Gone, Becomes, Places
  <1>3. At(c)'
    <2>1. Unused(c)' /\ Window(c)' /\ Position(c)' /\ Finished(c)'
      BY <1>1 DEF Unused, Window, Position, Finished
    <2>2. HandedOver(c)'
      <3>1. 1..last'[c] \subseteq taken
        BY DEF RelayInv, At, HandedOver
      <3>. QED  BY <1>1, <3>1 DEF HandedOver
    <2>. QED  BY <2>1, <2>2 DEF At
  <1>4. ASSUME NEW d \in Clients, d # c PROVE At(d)'
    BY <1>1, <1>2, <1>4, OthersKept DEF RelayInv, output, failure, link, task, events
  <1>5. Fence' /\ NothingLost' /\ sent' <= end' /\ (watched' => provider' = "read")
    BY <1>1 DEF RelayInv, Fence, InputFenced, NothingLost, output, relay, link, task
  <1>. QED  BY <1>3, <1>4, <1>5 DEF RelayInv

LEMMA PortStep ==
  ASSUME Places, RelayInv, NEW c \in Clients, Port(c)
  PROVE  RelayInv'
  <1>1. CASE Attach(c)
    BY <1>1, AttachStep
  <1>2. CASE Receive(c)
    BY <1>2, ReceiveStep
  <1>3. [op |-> "stdin"] \in [op : {"stdin", "detach", "stop"}]
        /\ [op |-> "detach"] \in [op : {"stdin", "detach", "stop"}]
        /\ [op |-> "stop"] \in [op : {"stdin", "detach", "stop"}]
    OBVIOUS
  <1>4. CASE Acknowledge(c)
    <2>1. Alive(c)' /\ \A d \in Clients : d # c => client'[d] = client[d]
      BY <1>4 DEF Acknowledge, Alive
    <2>. QED  BY <1>3, <1>4, <2>1, SendStep DEF Acknowledge
  <1>5. CASE CloseRelay(c)
    <2>1. Alive(c) /\ Alive(c)' /\ \A d \in Clients : d # c => client'[d] = client[d]
      BY <1>5 DEF CloseRelay, Becomes, Alive, Places
    <2>. QED  BY <1>3, <1>5, <2>1, SendStep DEF CloseRelay
  <1>6. Covered(toRelay[c], taken) /\ 1..last[c] \subseteq taken
    BY DEF RelayInv, At, HandedOver
  <1>7. CASE SocketClosed(c) \/ Dies(c)
    <2>1. GoneForGood(c) /\ client[c] # "idle"
      BY <1>7 DEF SocketClosed, Dies, Alive
    <2>2. last'[c] = 0 /\ \A d \in Clients : d # c => last'[d] = last[d]
      BY <2>1 DEF GoneForGood, Places
    <2>. QED  BY <1>6, <2>1, <2>2, GoneStep DEF GoneForGood
  <1>8. CASE HandOver(c)
    <2>. DEFINE rs == AckOf(c) \o <<[op |-> "detach"]>>
    <2>1. Request(c, rs) /\ Gone(c) /\ last' = last /\ client[c] # "idle"
      BY <1>8 DEF HandOver
    <2>2. rs \in Seq(Requests) /\ Covered(rs, taken)
      BY <1>3, <1>6, AckOfHas
    <2>. HIDE DEF rs
    <2>3. Covered(toRelay'[c], taken) /\ \A d \in Clients : d # c => toRelay'[d] = toRelay[d]
      BY <1>6, <2>1, <2>2, RequestKept
    <2>. QED  BY <2>1, <2>3, GoneStep
  <1>. QED  BY <1>1, <1>2, <1>4, <1>5, <1>7, <1>8 DEF Port

-----------------------------------------------------------------------------
(* The invariant, and what follows from it.                                *)

LEMMA RelayInit == Init => RelayInv
  <1> SUFFICES ASSUME Init PROVE RelayInv
    OBVIOUS
  <1>1. ASSUME NEW c \in Clients PROVE At(c)
    <2>1. client[c] = "idle" /\ toClient[c] = <<>> /\ toRelay[c] = <<>> /\ seen[c] = "none"
          /\ last[c] = 0 /\ c \notin open /\ c \notin pending /\ ~Alive(c)
      BY DEF Init, None, Alive
    <2>2. Covered(toRelay[c], taken)
      BY <2>1, EmptyHas
    <2>. QED
      BY <2>1, <2>2 DEF At, Unused, Window, Position, HandedOver, Finished
  <1>. QED  BY <1>1 DEF Init, RelayInv, Fence, InputFenced, NothingLost

LEMMA RelayStep == Places /\ RelayInv /\ [Next]_vars => RelayInv'
  <1> SUFFICES ASSUME Places, RelayInv, [Next]_vars PROVE RelayInv'
    OBVIOUS
  <1>1. CASE \/ ProviderExits \/ ReadersEnd \/ Read \/ Stalled \/ Watch
             \/ StopBegins \/ StopEnds \/ Orphaned
    BY <1>1, TasksAreQuiet, QuietStep
  <1>2. CASE Forward
    BY <1>2, ForwardStep
  <1>3. CASE Serve
    BY <1>3, ServeIsQuiet, QuietStep
  <1>4. ASSUME NEW c \in Clients, Command(c) \/ Hangup(c) PROVE RelayInv'
    BY <1>4, CommandIsQuiet, HangupIsQuiet, QuietStep
  <1>5. ASSUME NEW c \in Clients, Port(c) PROVE RelayInv'
    BY <1>5, PortStep
  <1>6. CASE UNCHANGED vars
    <2>1. UNCHANGED <<output, relay, failure, link, task, toRelay, toClient, port, faults>>
      BY <1>6 DEF vars
    <2>2. StopAdvances
      BY <2>1 DEF failure, StopAdvances, Stopping
    <2>3. LinkLoses
      BY <2>1, LinkKept DEF RelayInv
    <2>4. end \in Nat
      BY DEF Places, Offsets
    <2>5. Quiet
      BY <2>1, <2>2, <2>3, <2>4, TaskQuiet DEF output, relay, task, events
    <2>. QED  BY <2>5, QuietStep
  <1>. QED  BY <1>1, <1>2, <1>3, <1>4, <1>5, <1>6 DEF Next

\* The inductive invariant: one frame is on its way to a controller, with its
\* owner, or acknowledged on its way back, and the relay knows which.
THEOREM RelayCorrect == Spec => [](Places /\ RelayInv)
  <1>1. Init => Places /\ RelayInv
    <2>1. Init => Places
      BY BoundsAssumption DEF Init, Places, None, Offsets, Generations
    <2>. QED  BY <2>1, RelayInit
  <1>2. Places /\ RelayInv /\ [Next]_vars => (Places /\ RelayInv)'
    BY PlacesStep, RelayStep
  <1>. QED  BY <1>1, <1>2, PTL DEF Spec

\* No frame that nobody took is dropped, through takeovers, lost controllers,
\* acknowledgements that come late and writes that fail.
THEOREM FramesAreSafe == Spec => []NothingLost
  <1>1. RelayInv => NothingLost
    BY DEF RelayInv
  <1>. QED  BY <1>1, RelayCorrect, PTL

\* A former controller's line never reaches the provider.
THEOREM InputIsFenced == Spec => []InputFenced
  <1>1. RelayInv => InputFenced
    BY DEF RelayInv, Fence
  <1>. QED  BY <1>1, RelayCorrect, PTL

\* The exit status of a provider that nobody stopped comes after its output.
THEOREM ExitComesLast == Spec => []ExitIsLast
  <1>1. RelayInv => ExitIsLast
    BY DEF RelayInv, At, Finished, ExitIsLast
  <1>. QED  BY <1>1, RelayCorrect, PTL

\* The next frame goes out when the last one was handed over and acknowledged.
THEOREM OneAtATime == Spec => []OneInFlight
  <1>1. Places /\ RelayInv => OneInFlight
    <2> SUFFICES ASSUME Places, RelayInv, controller # NoClient, Alive(controller)
                 PROVE  sent <= last[controller] + (IF controller \in pending THEN 0 ELSE 1)
      BY DEF OneInFlight
    <2>1. controller \in Clients /\ At(controller)
      BY DEF Places, RelayInv
    <2>2. last[controller] \in Nat
      BY <2>1 DEF Places, Offsets
    <2>. QED  BY <2>1, <2>2 DEF At, Window, Position
  <1>. QED  BY <1>1, RelayCorrect, PTL

\* Frames reach an owner in order, none skipped and none twice.
THEOREM FramesAreContiguous == Spec => Contiguous
  <1>1. Places /\ RelayInv /\ [Next]_vars =>
          [\A c \in Clients :
             Alive(c) /\ client'[c] # "gone" => last'[c] \in {last[c], last[c] + 1}]_last
    <2> SUFFICES ASSUME Places, RelayInv, [Next]_vars,
                        NEW c \in Clients, Alive(c), client'[c] # "gone", last'[c] # last[c]
                 PROVE  last'[c] = last[c] + 1
      OBVIOUS
    <2>1. PICK d \in Clients : Attach(d) \/ Receive(d) \/ SocketClosed(d) \/ Dies(d)
      <3>1. ~(\/ ProviderExits \/ ReadersEnd \/ Read \/ Forward \/ Stalled \/ Watch
              \/ StopBegins \/ StopEnds \/ Orphaned \/ Serve \/ UNCHANGED vars)
        BY DEF ProviderExits, ReadersEnd, Read, Forward, Stalled, Watch, StopBegins,
                    StopEnds, Orphaned, Serve, vars, port
      <3>2. \A d \in Clients : ~(Command(d) \/ Hangup(d))
        BY DEF Command, Fenced, Ack, Refuse, Stdin, Detach, StopRequest, Hangup, port
      <3>3. \A d \in Clients : ~(Acknowledge(d) \/ HandOver(d) \/ CloseRelay(d))
        BY DEF Acknowledge, HandOver, CloseRelay
      <3>. QED  BY <3>1, <3>2, <3>3 DEF Next, Port
    <2>2. d = c
      BY <2>1 DEF Attach, Receive, SocketClosed, Dies, GoneForGood, Places
    <2>3. Receive(c) /\ At(c)
      BY <2>1, <2>2
         DEF RelayInv, Attach, Alive, SocketClosed, Dies, GoneForGood, Gone, Becomes, Places
    <2>4. PICK a \in Answers : a = Head(toClient[c]) /\ a.op = "frame" /\ last' = [last EXCEPT ![c] = a.offset]
      BY <2>3 DEF Receive, Places
    <2>5. a.offset = last[c] + 1
      <3>1. toClient[c] \in Seq(Answers) /\ toClient[c] # <<>>
        BY <2>3 DEF Receive, Places
      <3>2. Only(toClient[c], last[c] + 1)
        BY <2>3 DEF At, Window
      <3>. QED  BY <2>4, <3>1, <3>2, TailOnly
    <2>. QED  BY <2>4, <2>5 DEF Places
  <1>. QED  BY <1>1, RelayCorrect, PTL DEF Spec, Contiguous

=============================================================================
