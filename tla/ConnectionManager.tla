-------------------------- MODULE ConnectionManager --------------------------
(***************************************************************************)
(* stompman's ConnectionManager (connection_manager.py), the CONNECT part  *)
(* of ConnectionLifespan (connection_lifespan.py) and the order in which   *)
(* Client enters and leaves them (client.py), as the asyncio tasks that    *)
(* share one manager:                                                      *)
(*                                                                         *)
(*   main       the task that runs `async with Client(...)'                *)
(*   listener   Client._listen_to_frames                                   *)
(*   hb1, hb2   heartbeat senders: two, because a sender that reconnects   *)
(*              cancels itself and may live on beside its successor        *)
(*   Users      tasks that call write_frame_reconnecting (send, subscribe, *)
(*              begin) or maybe_write_frame (ack, nack, unsubscribe,       *)
(*              commit, abort)                                             *)
(*                                                                         *)
(* and the no-message monitor, which never reconnects and is one Boolean.  *)
(* A step is the code between two suspension points.  Where a step is cut  *)
(* finer than that (asking for the connection and getting it) the model    *)
(* has more interleavings than the event loop and none fewer.              *)
(***************************************************************************)
EXTENDS Naturals

CONSTANTS
    Users,             \* the tasks of the application
    Servers,           \* how many servers there are to dial
    ConnectAttempts,   \* connect_retry_attempts
    WriteAttempts,     \* write_retry_attempts
    KeepAlive,         \* keep_alive_on_connection_failure
    Monitoring,        \* no_message_restart_interval is not None
    MaxAdverse         \* bound: how often the environment may do harm

Heartbeats == {"hb1", "hb2"}
Background == {"listener"} \cup Heartbeats
Tasks == {"main"} \cup Background \cup Users
NoTask == "none"
NoConn == 0

ASSUME ConstantsAssumption ==
    /\ Users \cap ({"main", NoTask} \cup Background) = {}
    /\ Servers \in Nat \ {0}
    /\ ConnectAttempts \in Nat \ {0}
    /\ WriteAttempts \in Nat \ {0}
    /\ KeepAlive \in BOOLEAN
    /\ Monitoring \in BOOLEAN
    /\ MaxAdverse \in Nat

VARIABLES
    active,      \* _active_connection_state: a connection or NoConn
    count,       \* _reconnection_count
    lock,        \* _reconnect_lock: the task that holds it or NoTask
    attempt,     \* the holder's `attempt', from 1
    opened,      \* connections the manager ever got, numbered 1..opened
    open,        \* those whose close() has not been called
    orphaned,    \* some dial that nobody awaited has opened a connection
    gaveUp,      \* some task was cancelled while it was dialling
    pc, conn,    \* where each task is, and the connection it works with
    writes,      \* write attempts left in a write_*_reconnecting call
    epoch,       \* the listener's local `epoch'
    hbTask,      \* _send_heartbeat_task
    cancelled,   \* tasks with a cancellation that has not been delivered
    monitor,     \* _monitor_no_message_task is running
    aborted,     \* the manager's TaskGroup is shutting down
    adverse      \* how often the environment has done harm

vars == <<active, count, lock, attempt, opened, open, orphaned, gaveUp, pc, conn,
          writes, epoch, hbTask, cancelled, monitor, aborted, adverse>>
slotVars == <<active, count>>
dialVars == <<orphaned, gaveUp>>
taskVars == <<pc, conn>>
groupVars == <<hbTask, cancelled, monitor, aborted>>

-----------------------------------------------------------------------------
(* Where a task can be.  "off": not running, or a user between two calls. *)

Connecting == {"connecting", "handshake", "restoring", "backoff"}
Preparing == {"handshake", "restoring"}
Calling == {"get", "lockwait"} \cup Connecting
Entered == {"body", "leaving", "ending", "closing", "closed", "abandoned"}
Places == Calling \cup Entered \cup {"off", "failed", "sleep", "io", "maybe"}

Move(t, place, c) ==
    /\ pc' = [pc EXCEPT ![t] = place]
    /\ conn' = [conn EXCEPT ![t] = c]

(* The environment does something harmful: the network, the server or the  *)
(* clock, a task of the application that is cancelled or that calls a      *)
(* client that is gone.  Every reconnection takes some harm to start, so   *)
(* bounding harm bounds the model.                                         *)
Harm ==
    /\ adverse < MaxAdverse
    /\ adverse' = adverse + 1

\* I/O on connection c fails: by harm, or because this side closed c.
Breaks(c) == IF c \in open THEN Harm ELSE UNCHANGED adverse

Init ==
    /\ active = NoConn
    /\ count = 0
    /\ lock = NoTask
    /\ attempt = 0
    /\ opened = 0
    /\ open = {}
    /\ orphaned = FALSE
    /\ gaveUp = FALSE
    /\ pc = [t \in Tasks |-> IF t = "main" THEN "get" ELSE "off"]
    /\ conn = [t \in Tasks |-> NoConn]
    /\ writes = [t \in Tasks |-> 0]
    /\ epoch = 0
    /\ hbTask = "hb1"
    /\ cancelled = {}
    /\ monitor = FALSE
    /\ aborted = FALSE
    /\ adverse = 0

-----------------------------------------------------------------------------
(* What a task does with the connection that _get_active_connection_state  *)
(* returns, up to its next suspension point.  A heartbeat sender writes    *)
(* synchronously: it goes back to "get", where it always finds the current *)
(* connection.                                                             *)

Obtain(t, c) ==
    \/ /\ t = "main"
       /\ pc' = [pc EXCEPT !["main"] = "body", !["listener"] = "get"]
       /\ conn' = [conn EXCEPT !["main"] = NoConn]
       /\ UNCHANGED epoch
    \/ /\ t = "listener"
       /\ Move(t, "io", c)
       /\ epoch' = count
    \/ /\ t \in Users
       /\ Move(t, "io", c)
       /\ UNCHANGED epoch
    \/ /\ t \in Heartbeats
       /\ Move(t, "get", NoConn)
       /\ UNCHANGED epoch

(* An exception leaves the call that task t made; `survives' tells whether *)
(* a background task catches it and goes on.  A heartbeat sender that dies *)
(* of it aborts the manager's task group and cancels main; a listener that *)
(* dies of it only cancels main.  Main, if it is already waiting for the   *)
(* listener to end, then skips the rest of its exit ("abandoned").         *)

Raises(t, survives) ==
    \/ /\ t \in Users \cup {"main"}
       /\ Move(t, IF t = "main" THEN "failed" ELSE "off", NoConn)
       /\ UNCHANGED groupVars
    \/ /\ t \in Background
       /\ survives
       /\ Move(t, "sleep", NoConn)
       /\ UNCHANGED groupVars
    \/ /\ t = "listener"
       /\ ~survives
       /\ pc' = [pc EXCEPT ![t] = "off",
                           !["main"] = IF @ = "body" THEN "leaving" ELSE @]
       /\ conn' = [conn EXCEPT ![t] = NoConn]
       /\ UNCHANGED groupVars
    \/ /\ t \in Heartbeats
       /\ ~survives
       /\ pc' = [x \in Tasks |->
                    IF x \in Heartbeats THEN "off"
                    ELSE IF x = "main" /\ pc[x] = "body" THEN "leaving"
                    ELSE IF x = "main" /\ pc[x] = "leaving" THEN "abandoned"
                    ELSE pc[x]]
       /\ conn' = [x \in Tasks |-> IF x \in Heartbeats THEN NoConn ELSE conn[x]]
       /\ cancelled' = (cancelled \ Heartbeats)
                       \cup {x \in {"listener"} : pc["main"] = "body" /\ pc[x] # "off"}
       /\ monitor' = FALSE
       /\ aborted' = TRUE
       /\ UNCHANGED hbTask

\* FailedAllConnectAttemptsError and FailedAllWriteAttemptsError.
RaiseFailedAll(t) == Raises(t, KeepAlive)

(* _discard_failed_connection_state: only the task that still sees its own *)
(* connection in the slot empties it, counts, and closes the connection.   *)

DiscardUncounted(c) ==            \* mutant: the count is not incremented
    IF active = c
      THEN active' = NoConn /\ open' = open \ {c} /\ UNCHANGED count
      ELSE UNCHANGED <<active, count, open>>

DiscardUnchecked(c) ==            \* mutant: whatever is in the slot goes
    /\ active' = NoConn
    /\ count' = count + 1
    /\ open' = open \ {c}

Discard(c) ==
    IF active = c
      THEN /\ active' = NoConn
           /\ count' = count + 1
           /\ open' = open \ {c}
      ELSE UNCHANGED <<active, count, open>>

-----------------------------------------------------------------------------
(* _get_active_connection_state, run by main, listener, heartbeats, users. *)

NotReconnectedUnchecked == TRUE   \* mutant: no second look under the lock

NotReconnected == active = NoConn

MoreAttemptsOffByOne == attempt <= ConnectAttempts            \* mutant

MoreAttempts == attempt < ConnectAttempts

\* The finally clause of _connect_to_any_server: not established, so closed.
CloseUnestablishedNever(t) == UNCHANGED open                  \* mutant

CloseUnestablished(t) == open' = open \ {conn[t]}

\* Leaving `async with self._reconnect_lock', also by an exception.
ReleaseLockForgotten(t) == UNCHANGED lock                     \* mutant

ReleaseLock(t) == lock' = IF lock = t THEN NoTask ELSE lock

GetActive(t) ==
    /\ pc[t] = "get"
    /\ t \notin cancelled
    /\ \/ /\ active # NoConn
          /\ t \notin Heartbeats
          /\ Obtain(t, active)
       \/ /\ active = NoConn
          /\ Move(t, "lockwait", NoConn)
          /\ UNCHANGED epoch
    /\ UNCHANGED <<slotVars, lock, attempt, opened, open, dialVars, writes, groupVars, adverse>>

\* The holder checks again whether somebody else has reconnected meanwhile.
AcquireLock(t) ==
    /\ pc[t] = "lockwait"
    /\ t \notin cancelled
    /\ lock = NoTask
    /\ IF NotReconnected
         THEN /\ lock' = t
              /\ attempt' = 1
              /\ Move(t, "connecting", NoConn)
              /\ UNCHANGED epoch
         ELSE /\ Obtain(t, active)
              /\ UNCHANGED <<lock, attempt>>
    /\ UNCHANGED <<slotVars, opened, open, dialVars, writes, groupVars, adverse>>

(* asyncio.as_completed dials every server in a task of its own, and       *)
(* neither the return nor the cancellation of the task that awaits them    *)
(* stops those tasks.  Any of the n that are left may go on and succeed:   *)
(* its connection is nobody's and is never closed.  Since nobody sees the  *)
(* outcome either, it is decided when the awaiting task goes away.         *)
LeaveDialling(n) ==
    \/ UNCHANGED orphaned
    \/ n > 0 /\ orphaned' = TRUE

\* The first server that answers is taken; none answers, and all have ended.
Connect(t) ==
    /\ pc[t] = "connecting"
    /\ t \notin cancelled
    /\ \/ /\ opened' = opened + 1
          /\ open' = open \cup {opened + 1}
          /\ LeaveDialling(Servers - 1)
          /\ Move(t, "handshake", opened + 1)
          /\ UNCHANGED adverse
       \/ /\ Harm
          /\ Move(t, "backoff", NoConn)
          /\ UNCHANGED <<opened, open, orphaned>>
    /\ UNCHANGED <<slotVars, lock, attempt, gaveUp, writes, epoch, groupVars>>

\* Connection lost, no CONNECTED in time, or the wrong protocol version.
HandshakeFails(t) ==
    /\ pc[t] = "handshake"
    /\ t \notin cancelled
    /\ Harm
    /\ CloseUnestablished(t)
    /\ Move(t, "backoff", NoConn)
    /\ UNCHANGED <<slotVars, lock, attempt, opened, dialVars, writes, epoch, groupVars>>

\* TaskGroup.create_task refuses once the group is done or shutting down.
CanAlwaysCreateTask == TRUE                                   \* mutant

CanCreateTask == ~aborted /\ pc["main"] \notin {"closing", "closed"}

(* _restart_background_tasks: the current sender is cancelled and a new    *)
(* one takes its place.  The old one does not hold the lock and ends.      *)
RestartThenCancelHeartbeat(t) ==  \* mutant: cancels the one just created
    /\ cancelled' = cancelled \cup {hbTask}
    /\ pc' = [pc EXCEPT ![t] = "restoring", ![hbTask] = "get"]
    /\ writes' = [writes EXCEPT ![hbTask] = WriteAttempts]

RestartHeartbeat(t) ==
    /\ cancelled' = cancelled \ {hbTask}
    /\ pc' = [pc EXCEPT ![t] = "restoring", ![hbTask] = "get"]
    /\ writes' = [writes EXCEPT ![hbTask] = WriteAttempts]

HandshakeSucceeds(t) ==
    /\ pc[t] = "handshake"
    /\ t \notin cancelled
    /\ t # hbTask
    /\ IF CanCreateTask
         THEN /\ RestartHeartbeat(t)
              /\ conn' = [conn EXCEPT ![hbTask] = NoConn]
              /\ UNCHANGED <<lock, open>>
         ELSE /\ CloseUnestablished(t)             \* RuntimeError
              /\ ReleaseLock(t)
              /\ Move(t, "off", NoConn)
              /\ UNCHANGED <<writes, cancelled>>
    /\ UNCHANGED <<slotVars, attempt, opened, dialVars, epoch, hbTask, monitor, aborted, adverse>>

(* The same when it is the current sender that reconnects: it cancels      *)
(* itself, and the error waits for its next suspension.  If restoring has  *)
(* to wait for a full transport buffer that is the end of the connection;  *)
(* otherwise the connection becomes active and the old sender writes one   *)
(* heartbeat and ends when it goes to sleep.                               *)
HeartbeatHandshakeSucceeds ==
    LET t == hbTask
        fresh == CHOOSE h \in Heartbeats : h # t
    IN  /\ pc[t] = "handshake"
        /\ t \notin cancelled
        /\ CanCreateTask
        /\ hbTask' = fresh
        /\ writes' = [writes EXCEPT ![fresh] = WriteAttempts]
        /\ \/ /\ Harm
              /\ pc' = [pc EXCEPT ![t] = "restoring", ![fresh] = "get"]
              /\ cancelled' = cancelled \cup {t}
              /\ UNCHANGED <<active, lock, conn, monitor>>
           \/ /\ active' = conn[t]
              /\ ReleaseLock(t)
              /\ pc' = [pc EXCEPT ![t] = "off", ![fresh] = "get"]
              /\ conn' = [conn EXCEPT ![t] = NoConn]
              /\ monitor' = Monitoring
              /\ UNCHANGED <<cancelled, adverse>>
        /\ UNCHANGED <<count, attempt, opened, open, dialVars, epoch, aborted>>

(* Resubscribing or committing loses the connection.  On the first connect *)
(* there is nothing to restore.                                            *)
RestoreFails(t) ==
    /\ pc[t] = "restoring"
    /\ t # "main"
    /\ t \notin cancelled
    /\ Harm
    /\ CloseUnestablished(t)
    /\ Move(t, "backoff", NoConn)
    /\ UNCHANGED <<slotVars, lock, attempt, opened, dialVars, writes, epoch, groupVars>>

(* The replay of the transactions raises RuntimeError: an aborted or a     *)
(* finished transaction changed the size of the set it iterates over.  It  *)
(* is no ConnectionLostError, so nothing is retried and no background task *)
(* survives it.                                                            *)
RestoreRaises(t) ==
    /\ pc[t] = "restoring"
    /\ t # "main"
    /\ t \notin cancelled
    /\ Harm
    /\ CloseUnestablished(t)
    /\ ReleaseLock(t)
    /\ Raises(t, FALSE)
    /\ UNCHANGED <<slotVars, attempt, opened, dialVars, writes, epoch>>

(* The connection becomes active.  The monitor is restarted after that: if *)
(* the task group refuses, the caller gets a RuntimeError and the          *)
(* connection stays active.                                                *)
RestoreSucceeds(t) ==
    /\ pc[t] = "restoring"
    /\ t \notin cancelled
    /\ active' = conn[t]
    /\ ReleaseLock(t)
    /\ IF Monitoring /\ ~CanCreateTask
         THEN /\ Move(t, "off", NoConn)
              /\ UNCHANGED <<epoch, monitor>>
         ELSE /\ Obtain(t, conn[t])
              /\ monitor' = Monitoring
    /\ UNCHANGED <<count, attempt, opened, open, dialVars, writes, hbTask, cancelled, aborted, adverse>>

\* asyncio.sleep between attempts, and after the last one, with the lock held.
Backoff(t) ==
    /\ pc[t] = "backoff"
    /\ t \notin cancelled
    /\ IF MoreAttempts
         THEN /\ attempt' = attempt + 1
              /\ Move(t, "connecting", NoConn)
              /\ UNCHANGED <<lock, groupVars>>
         ELSE /\ ReleaseLock(t)
              /\ RaiseFailedAll(t)
              /\ UNCHANGED attempt
    /\ UNCHANGED <<slotVars, opened, open, dialVars, writes, epoch, adverse>>

-----------------------------------------------------------------------------
(* Calls of the application, the listener's reads and the heartbeats. *)

StartWrite(t) ==
    /\ t \in Users
    /\ pc[t] = "off"
    /\ pc["main"] \in Entered
    /\ Move(t, "get", NoConn)
    /\ writes' = [writes EXCEPT ![t] = WriteAttempts]
    /\ IF CanCreateTask THEN UNCHANGED adverse ELSE Harm
    /\ UNCHANGED <<slotVars, lock, attempt, opened, open, dialVars, epoch, groupVars>>

\* maybe_write_frame; without a connection the frame is dropped at once.
StartMaybeWrite(t) ==
    /\ t \in Users
    /\ pc[t] = "off"
    /\ active # NoConn
    /\ Move(t, "maybe", active)
    /\ UNCHANGED <<slotVars, lock, attempt, opened, open, dialVars, writes, epoch, groupVars, adverse>>

\* drain() returns, which it may also do on a connection closed meanwhile.
WriteSucceeds(t) ==
    /\ t \in Users
    /\ pc[t] \in {"io", "maybe"}
    /\ Move(t, "off", NoConn)
    /\ writes' = [writes EXCEPT ![t] = 0]
    /\ UNCHANGED <<slotVars, lock, attempt, opened, open, dialVars, epoch, groupVars, adverse>>

WriteLost(t) ==
    /\ t \in Users
    /\ pc[t] \in {"io", "maybe"}
    /\ Breaks(conn[t])
    /\ Discard(conn[t])
    /\ IF pc[t] = "io" /\ writes[t] > 1
         THEN /\ Move(t, "get", NoConn)
              /\ writes' = [writes EXCEPT ![t] = @ - 1]
         ELSE /\ Move(t, "off", NoConn)
              /\ writes' = [writes EXCEPT ![t] = 0]
    /\ UNCHANGED <<lock, attempt, opened, dialVars, epoch, groupVars>>

ReadLost ==
    /\ pc["listener"] = "io"
    /\ "listener" \notin cancelled
    /\ Breaks(conn["listener"])
    /\ Discard(conn["listener"])
    /\ Move("listener", "get", NoConn)
    /\ UNCHANGED <<lock, attempt, opened, dialVars, writes, epoch, groupVars>>

HeartbeatSucceeds(t) ==
    /\ t \in Heartbeats
    /\ pc[t] = "get"
    /\ t \notin cancelled
    /\ active # NoConn
    /\ Move(t, "sleep", NoConn)
    /\ UNCHANGED <<slotVars, lock, attempt, opened, open, dialVars, writes, epoch, groupVars, adverse>>

HeartbeatLost(t) ==
    /\ t \in Heartbeats
    /\ pc[t] = "get"
    /\ t \notin cancelled
    /\ active # NoConn
    /\ Harm
    /\ Discard(active)
    /\ writes' = [writes EXCEPT ![t] = @ - 1]
    /\ IF writes[t] > 1
         THEN /\ Move(t, "get", NoConn)
              /\ UNCHANGED groupVars
         ELSE RaiseFailedAll(t)
    /\ UNCHANGED <<lock, attempt, opened, dialVars, epoch>>

\* The heartbeat interval, or connect_retry_interval after a failed cycle.
Wake(t) ==
    /\ pc[t] = "sleep"
    /\ t \notin cancelled
    /\ Move(t, "get", NoConn)
    /\ writes' = [writes EXCEPT ![t] = IF t \in Heartbeats THEN WriteAttempts ELSE 0]
    /\ UNCHANGED <<slotVars, lock, attempt, opened, open, dialVars, epoch, groupVars, adverse>>

\* _monitor_no_message_timeout: nothing was received for the whole interval.
MonitorFires ==
    /\ monitor
    /\ active # NoConn
    /\ Harm
    /\ Discard(active)
    /\ UNCHANGED <<lock, attempt, opened, dialVars, taskVars, writes, epoch, groupVars>>

-----------------------------------------------------------------------------
(* Cancellation and exit. *)

(* CancelledError at a suspension point: the lock is released on the way   *)
(* out and a connection in preparation is closed; dials under way go on.   *)
(* Users are cancelled by the application.                                 *)
Cancel(t) ==
    /\ pc[t] # "off"
    /\ t \in cancelled \cup Users
    /\ IF t \in Users THEN Harm ELSE UNCHANGED adverse
    /\ IF pc[t] \in Preparing THEN CloseUnestablished(t) ELSE UNCHANGED open
    /\ IF pc[t] = "connecting"
         THEN LeaveDialling(Servers) /\ gaveUp' = TRUE
         ELSE UNCHANGED dialVars
    /\ ReleaseLock(t)
    /\ cancelled' = cancelled \ {t}
    /\ Move(t, "off", NoConn)
    /\ writes' = [writes EXCEPT ![t] = 0]
    /\ UNCHANGED <<slotVars, attempt, opened, epoch, hbTask, monitor, aborted>>

\* Client.__aexit__: cancel the listener and wait for it.
Leave ==
    /\ pc["main"] = "body"
    /\ Move("main", "leaving", NoConn)
    /\ cancelled' = cancelled \cup {x \in {"listener"} : pc[x] # "off"}
    /\ UNCHANGED <<slotVars, lock, attempt, opened, open, dialVars, writes, epoch,
                   hbTask, monitor, aborted, adverse>>

CancelOnlyMonitor ==              \* mutant: the sender is not cancelled
    /\ pc["main"] = "leaving"
    /\ pc["listener"] = "off"
    /\ Move("main", "ending", NoConn)
    /\ monitor' = FALSE
    /\ UNCHANGED <<slotVars, lock, attempt, opened, open, dialVars, writes, epoch,
                   hbTask, cancelled, aborted, adverse>>

\* ConnectionManager.__aexit__: cancel the current sender and the monitor.
CancelBackgroundTasks ==
    /\ pc["main"] = "leaving"
    /\ pc["listener"] = "off"
    /\ Move("main", "ending", NoConn)
    /\ cancelled' = cancelled \cup {x \in {hbTask} : pc[x] # "off"}
    /\ monitor' = FALSE
    /\ UNCHANGED <<slotVars, lock, attempt, opened, open, dialVars, writes, epoch,
                   hbTask, aborted, adverse>>

\* The task group waits for every task in it, cancelled or not.
TaskGroupEnds ==
    /\ pc["main"] = "ending"
    /\ \A h \in Heartbeats : pc[h] = "off"
    /\ ~monitor
    /\ Move("main", IF active = NoConn THEN "closed" ELSE "closing", active)
    /\ UNCHANGED <<slotVars, lock, attempt, opened, open, dialVars, writes, epoch, groupVars, adverse>>

\* lifespan.exit: an UNSUBSCRIBE finds the connection lost.
UnsubscribeLost ==
    /\ pc["main"] = "closing"
    /\ Breaks(conn["main"])
    /\ Discard(conn["main"])
    /\ UNCHANGED <<lock, attempt, opened, dialVars, taskVars, writes, epoch, groupVars>>

\* DISCONNECT is answered, times out or finds the connection lost.
CloseActive ==
    /\ pc["main"] = "closing"
    /\ active' = IF active = conn["main"] THEN NoConn ELSE active
    /\ open' = open \ {conn["main"]}
    /\ pc' = [pc EXCEPT !["main"] = "closed"]
    /\ UNCHANGED <<count, lock, attempt, opened, dialVars, conn, writes, epoch, groupVars, adverse>>

\* __aenter__ has raised or __aexit__ has returned: nothing more need happen.
Stopped ==
    /\ pc["main"] \in {"failed", "closed", "abandoned"}
    /\ UNCHANGED vars

-----------------------------------------------------------------------------
Next ==
    \/ \E t \in Tasks :
          \/ GetActive(t) \/ AcquireLock(t) \/ Connect(t)
          \/ HandshakeFails(t) \/ HandshakeSucceeds(t)
          \/ RestoreFails(t) \/ RestoreRaises(t) \/ RestoreSucceeds(t) \/ Backoff(t)
          \/ StartWrite(t) \/ StartMaybeWrite(t) \/ WriteSucceeds(t) \/ WriteLost(t)
          \/ HeartbeatSucceeds(t) \/ HeartbeatLost(t) \/ Wake(t) \/ Cancel(t)
    \/ HeartbeatHandshakeSucceeds \/ ReadLost \/ MonitorFires
    \/ Leave \/ CancelBackgroundTasks \/ TaskGroupEnds \/ UnsubscribeLost \/ CloseActive
    \/ Stopped

Spec == Init /\ [][Next]_vars

(* Fairness.  The event loop runs every ready task, timers fire, sleeps and *)
(* timeouts end, and asyncio.Lock serves its waiters in order, so a waiter  *)
(* is never overtaken for ever (strong fairness).  Nothing obliges the      *)
(* application to call or to leave, or the network to break.                *)
Progress(t) ==
    \/ GetActive(t) \/ Connect(t) \/ HandshakeFails(t) \/ HandshakeSucceeds(t)
    \/ RestoreFails(t) \/ RestoreRaises(t) \/ RestoreSucceeds(t) \/ Backoff(t)
    \/ WriteSucceeds(t) \/ HeartbeatSucceeds(t) \/ Wake(t)
    \/ t = hbTask /\ HeartbeatHandshakeSucceeds
    \/ t \in cancelled /\ Cancel(t)
    \/ t = "listener" /\ conn[t] \notin open /\ ReadLost

Exit == CancelBackgroundTasks \/ TaskGroupEnds \/ CloseActive

FairSpec ==
    /\ Spec
    /\ WF_vars(Exit)
    /\ \A t \in Tasks : WF_vars(Progress(t)) /\ SF_vars(AcquireLock(t))
-----------------------------------------------------------------------------
(* Properties. *)

\* Every variable keeps its type; the retry counters stay in their ranges.
TypeOK ==
    /\ active \in Nat /\ count \in Nat /\ opened \in Nat /\ epoch \in Nat
    /\ lock \in Tasks \cup {NoTask}
    /\ attempt \in 0..ConnectAttempts
    /\ open \subseteq 1..opened
    /\ orphaned \in BOOLEAN /\ gaveUp \in BOOLEAN
    /\ pc \in [Tasks -> Places]
    /\ conn \in [Tasks -> Nat]
    /\ writes \in [Tasks -> 0..WriteAttempts]
    /\ hbTask \in Heartbeats
    /\ cancelled \subseteq Background
    /\ monitor \in BOOLEAN /\ aborted \in BOOLEAN
    /\ adverse \in 0..MaxAdverse

(* Only the holder of the reconnect lock connects, and it does so only     *)
(* while there is no active connection, whoever else found the connection  *)
(* lost and is waiting for the lock.                                       *)
OneConnector ==
    /\ \A t \in Tasks : pc[t] \in Connecting <=> lock = t
    /\ lock # NoTask => active = NoConn

(* What can leak.  Every connection the manager got and has not closed is  *)
(* the active one or is being prepared by the task that holds the lock,    *)
(* across failed handshakes, cancellations, raising replays and refused    *)
(* background tasks.  What nobody will close comes from dials that nobody  *)
(* awaits: the slower servers of a successful round, and all servers of a  *)
(* round whose task was cancelled.                                         *)
OnlyUnawaitedDialsLeak ==
    /\ \A c \in open :
          c = active \/ \E t \in Tasks : pc[t] \in Preparing /\ conn[t] = c
    /\ orphaned => gaveUp \/ (Servers > 1 /\ opened > 0)

(* The epoch that the listener attaches to a frame identifies the          *)
(* connection it reads from: the reconnection count still has that value   *)
(* exactly as long as that connection is the active one.                   *)
EpochNamesConnection ==
    pc["listener"] = "io" => (epoch = count <=> active = conn["listener"])

(* While the application is in the client's context and there is an active *)
(* connection, exactly one heartbeat sender is meant to live (the one the  *)
(* manager knows, not cancelled) and the monitor runs if it is enabled,    *)
(* even when the sender itself reconnected and cancelled itself.           *)
BackgroundTasksAlive ==
    /\ \A h \in Heartbeats : pc[h] # "off" /\ h # hbTask => h \in cancelled
    /\ pc["main"] = "body" /\ active # NoConn =>
          /\ pc[hbTask] # "off"
          /\ hbTask \notin cancelled
          /\ monitor = Monitoring

(* A failure that is noticed late never touches a newer connection: the    *)
(* slot never goes from one connection to another, and the connection that *)
(* leaves it is closed in the same step and counted unless it is exit that *)
(* closes it.                                                              *)
ActiveLeavesClosed ==
    [][active # NoConn /\ active' # active =>
          /\ active' = NoConn
          /\ active \notin open'
          /\ count' = count + 1 \/ pc["main"] = "closing"]_vars

(* The manager implements the connection slot.  A connection is pending    *)
(* while the lock holder prepares it, and the slot is sealed once exit has *)
(* taken the active connection to close it.                                *)
Slot == INSTANCE ConnectionSlot WITH
    pending <- IF lock # NoTask /\ pc[lock] \in Preparing THEN conn[lock] ELSE NoConn,
    sealed <- pc["main"] \in {"closing", "closed"} /\ conn["main"] # NoConn

ImplementsSlot == Slot!Spec

(* Once harm stops, the listener of a client in use reads from the active  *)
(* connection again (read_frames_reconnecting), unless a retry cycle ran   *)
(* out and the client is going down.                                       *)
ListenerReconnects ==
    (pc["main"] = "body") ~>
        \/ pc["main"] # "body"
        \/ pc["listener"] = "io" /\ conn["listener"] = active

(* A call of write_frame_reconnecting returns or raises: nobody waits for  *)
(* the reconnect lock for ever.                                            *)
WritesComplete == \A u \in Users : (pc[u] = "get") ~> (pc[u] = "off")

(* Leaving `async with Client(...)' ends.                                  *)
ExitTerminates == (pc["main"] = "leaving") ~> (pc["main"] \in {"closed", "abandoned"})

(* An exit that ran to its end and found a connection leaves none in the   *)
(* manager for ever, whatever tasks of the application still call it.  An  *)
(* exit that found none may have overtaken a task of the application that  *)
(* was restoring one: that connection becomes active after the exit.  (An  *)
(* abandoned exit closes nothing.)                                         *)
ExitReleasesConnection ==
    pc["main"] = "closed" /\ active # NoConn =>
        conn["main"] = NoConn /\ Users # {}
=============================================================================
