--------------------------- MODULE StoreConnection ---------------------------
(***************************************************************************)
(* The one connection of Aiur.Instance.LeaseStore to the coordination      *)
(* database: how it is opened, lost, given up and re-opened, and the alert *)
(* (system.instance.ownership_unknown) that tells the operator that shared *)
(* ownership cannot be checked.                                            *)
(*                                                                         *)
(* LeaseStore is one process, so each handler is one action.  A :connect   *)
(* message is pending from the send (or from the arming of its timer) to   *)
(* its handler; the length of the back-off does not matter here.  A        *)
(* connection is the pid of the Postgrex pool.                             *)
(***************************************************************************)
EXTENDS Naturals, FiniteSets

CONSTANTS
    Conns,          \* pids of connection pools
    NoConn,         \* nil
    MaxDropped      \* bound: how many pools may be left behind

ASSUME ConnAssumption == NoConn \notin Conns /\ MaxDropped \in Nat

VARIABLES
    conn,           \* state.conn
    timer,          \* state.retry_timer # nil
    outage,         \* state.outage?
    pending,        \* :connect messages in the mailbox or in a timer
    pools,          \* the pools that are alive, all linked to the LeaseStore
    exits,          \* {:EXIT, pool, reason} messages in the mailbox
    dropped,        \* pools that the LeaseStore forgot without stopping them
    alert,          \* is the operator's alert raised?
    dbUp            \* does the database answer a new connection?

store == <<conn, timer, outage>>
connVars == <<conn, timer, outage, pending, pools, exits, dropped, alert, dbUp>>

ConnTypeOK ==
    /\ conn \in Conns \cup {NoConn}
    /\ timer \in BOOLEAN /\ outage \in BOOLEAN
    /\ pending \in {0, 1}
    /\ pools \subseteq Conns /\ exits \subseteq Conns /\ dropped \subseteq Conns
    /\ alert \in BOOLEAN /\ dbUp \in BOOLEAN

\* init/1 sends itself :connect
Fresh ==
    /\ conn = NoConn /\ timer = FALSE /\ outage = FALSE /\ pending = 1
    /\ pools = {} /\ exits = {} /\ dropped = {}

ConnInit == Fresh /\ alert = FALSE /\ dbUp \in BOOLEAN

-----------------------------------------------------------------------------
(* Plausible slips in the code below, each of which TLC must catch.        *)

\* the failed operation does not schedule
NeverArms(queued) == UNCHANGED timer /\ pending' = queued
\* the flag without the alert, and the alert without the flag
SilentOutage == outage' = TRUE /\ UNCHANGED alert

-----------------------------------------------------------------------------
(* schedule_reconnect: a timer, unless one is believed to be armed.  The   *)
(* argument is the number of :connect messages that stay pending.          *)
ScheduleReconnect(queued) ==
    IF timer THEN UNCHANGED timer /\ pending' = queued
             ELSE timer' = TRUE /\ pending' = queued + 1

\* report_unavailable and report_recovered: one alert for each outage
ReportUnavailable ==
    outage' = TRUE /\ IF outage THEN UNCHANGED alert ELSE alert' = TRUE
ReportRecovered ==
    outage' = FALSE /\ IF outage THEN alert' = FALSE ELSE UNCHANGED alert

\* The EXIT message is the one of the current connection
ExitOfConn(c) == conn = c

ConnectKeepsTimer(c) ==
    /\ pending > 0 /\ dbUp /\ c \notin pools \cup exits
    /\ conn' = c /\ pools' = pools \cup {c}
    /\ UNCHANGED timer /\ pending' = pending - 1 /\ ReportRecovered
    /\ UNCHANGED <<exits, dropped, dbUp>>

-----------------------------------------------------------------------------
\* handle_info(:connect) with a database that answers
ConnectOk(c) ==
    /\ pending > 0 /\ dbUp /\ c \notin pools \cup exits
    /\ conn' = c /\ pools' = pools \cup {c}
    /\ timer' = FALSE /\ pending' = pending - 1
    /\ ReportRecovered
    /\ UNCHANGED <<exits, dropped, dbUp>>

\* create_tables fails; the new pool is stopped and never becomes state.conn
ConnectFails ==
    /\ pending > 0 /\ ~dbUp
    /\ ScheduleReconnect(pending - 1)
    /\ ReportUnavailable
    /\ UNCHANGED <<conn, pools, exits, dropped, dbUp>>

\* reply_with_reconnect: a claim, renew, release or read failed.  The pool is
\* stopped, if it still lives, and its EXIT arrives later.
QueryFails ==
    /\ conn # NoConn
    /\ conn' = NoConn
    /\ pools' = pools \ {conn}
    /\ exits' = exits \cup ({conn} \cap pools)
    /\ ScheduleReconnect(pending)
    /\ ReportUnavailable
    /\ UNCHANGED <<dropped, dbUp>>

\* A shared-state operation failed: the pool is forgotten but not stopped
SharedStateFails ==
    /\ conn # NoConn /\ Cardinality(dropped) < MaxDropped
    /\ conn' = NoConn
    /\ dropped' = dropped \cup ({conn} \cap pools)
    /\ ScheduleReconnect(pending)
    /\ ReportUnavailable
    /\ UNCHANGED <<pools, exits, dbUp>>

\* handle_info({:EXIT, pool, _}): of the current connection, or ignored
HandleExit(c) ==
    /\ c \in exits
    /\ exits' = exits \ {c}
    /\ IF ExitOfConn(c)
         THEN conn' = NoConn /\ ScheduleReconnect(pending) /\ ReportUnavailable
         ELSE UNCHANGED <<store, pending, alert>>
    /\ UNCHANGED <<pools, dropped, dbUp>>

\* A pool stops by itself
PoolDies(c) ==
    /\ c \in pools
    /\ pools' = pools \ {c} /\ dropped' = dropped \ {c}
    /\ exits' = exits \cup {c}
    /\ UNCHANGED <<store, pending, alert, dbUp>>

\* The supervisor restarts the LeaseStore: the linked pools die with it, its
\* timer's message finds nobody, and the operator's alert stays as it was
Restart ==
    /\ conn' = NoConn /\ timer' = FALSE /\ outage' = FALSE /\ pending' = 1
    /\ pools' = {} /\ exits' = {} /\ dropped' = {}
    /\ UNCHANGED <<alert, dbUp>>

DbChanges == dbUp' = ~dbUp /\ UNCHANGED <<store, pending, pools, exits, dropped, alert>>

Connect == (\E c \in Conns : ConnectOk(c)) \/ ConnectFails

ConnNext ==
    \/ Connect \/ QueryFails \/ SharedStateFails
    \/ \E c \in Conns : HandleExit(c) \/ PoolDies(c)
    \/ Restart \/ DbChanges

ConnSpec == ConnInit /\ [][ConnNext]_connVars

\* The mailbox is served
ConnFairness == WF_connVars(Connect) /\ \A c \in Conns : WF_connVars(HandleExit(c))

ConnFairSpec == ConnSpec /\ ConnFairness

-----------------------------------------------------------------------------
(* A connection that is in use is never replaced: no :connect is pending   *)
(* and no timer is believed to be armed while there is one, so a second    *)
(* pool is never opened over a live one.                                   *)
ConnectedIsQuiet == conn # NoConn => pending = 0 /\ ~timer

(* Every live pool is the connection or one that a failed shared-state     *)
(* operation left behind: no other path leaks a pool.                      *)
PoolsAccounted == pools \subseteq {conn} \cup dropped

\* What it rests on: a pool's EXIT arrives after its death
ExitsAreDead == exits \cap pools = {}

(* The operator sees an outage: once the first attempt of a LeaseStore is  *)
(* over, the alert is up as long as there is no connection, and the flag   *)
(* that resolves it is set as long as there is none.                       *)
Booting == conn = NoConn /\ pending = 1 /\ ~timer

OutageShown == (conn = NoConn /\ ~Booting) => (outage /\ alert)

\* What the two rest on: the flag is only up with the alert
OutageAlerted == outage => alert

(* With a connection the flag is clear, so that the next loss raises the   *)
(* alert again.                                                            *)
NextLossIsReported == conn # NoConn => ~outage

(* A query that fails while the database answers new connections costs the *)
(* connection only for a while.                                            *)
TransientErrorHeals == []dbUp => []<>(conn \in pools)

(* The LeaseStore finds the database again after any outage: what the      *)
(* back-off of schedule_reconnect is for.                                  *)
Reconnects == <>[]dbUp => []<>(conn \in pools)
=============================================================================
