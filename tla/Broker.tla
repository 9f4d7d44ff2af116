------------------------------- MODULE Broker -------------------------------
(***************************************************************************)
(* The life of faststream-stomp's StompBroker (broker.py) with its         *)
(* StompSubscribers (subscriber.py), and how it enters and leaves the      *)
(* stompman Client it was given: one task calls start(), another one       *)
(* connect(), as a start-up hook does, and once start() has returned or    *)
(* raised somebody calls stop().  Leaving the client without an exception  *)
(* waits until no subscription is active (ActiveSubscriptions.event).      *)
(* Meanwhile a health check calls ping(), which asks the client            *)
(* (Aliveness).                                                            *)
(*                                                                         *)
(* The parts of FastStream's BrokerUsecase that StompBroker calls are      *)
(* external: connect() keeps what _connect() returns, super().start()      *)
(* starts the subscribers one after the other.  stop() runs in a task of   *)
(* its own, so a failed listener cancels start() or connect(), never it.   *)
(***************************************************************************)
EXTENDS Aliveness

CONSTANTS Subscribers, NoSubscriber

ASSUME BrokerAssumption == NoSubscriber \notin Subscribers

VARIABLES
    _attempted_to_connect, _stopping, running,
    _connection,      \* BrokerUsecase._connection is set
    client,           \* Client: "new", "entering", "in", "failed" or "out"
    entries,          \* the calls of Client.__aenter__
    active, event,    \* ActiveSubscriptions.subscriptions, .event
    _subscription,    \* the subscribers whose _subscription is set
    pc,               \* where the tasks are
    todo, writing,    \* subscribers to start or stop; the one that subscribes
    exited            \* SystemExit has ended the process

brokerVars == <<_attempted_to_connect, _stopping, running, _connection>>
clientVars == <<client, entries, aliveVars>>
subVars == <<active, event, _subscription>>
vars == <<brokerVars, clientVars, subVars, pc, todo, writing, exited>>

Callers == {"start", "connect"}
Tasks == Callers \cup {"stop", "ping"}

Init ==
    /\ _attempted_to_connect = FALSE /\ _stopping = FALSE
    /\ running = FALSE /\ _connection = FALSE
    /\ client = "new" /\ entries = 0 /\ AliveInit
    /\ active = {} /\ event = TRUE /\ _subscription = {}
    /\ pc = [t \in Tasks |-> "idle"]
    /\ todo = {} /\ writing = NoSubscriber
    /\ exited = FALSE

\* Nothing happens in a process that has ended.
Alive == ~exited /\ UNCHANGED exited

Goto(t, place) == pc' = [pc EXCEPT ![t] = place]

-----------------------------------------------------------------------------
(* connect(), by itself or as the first thing start() does. *)

\* What comes after connect(): super().start() goes through the subscribers.
Connected(t) ==
    /\ _connection' = TRUE
    /\ Goto(t, IF t = "start" THEN "subscribing" ELSE "done")
    /\ todo' = IF t = "start" THEN Subscribers ELSE todo

\* Mutant: the attempt is not remembered before it is made.
AttemptForgotten == UNCHANGED _attempted_to_connect

RememberAttempt == _attempted_to_connect' = TRUE

(* _connect: whoever comes second gets the client as it is, entered or     *)
(* not, and does not wait.                                                 *)
Connect(t) ==
    /\ Alive
    /\ pc[t] = "idle" /\ pc["stop"] = "idle"
    /\ IF _connection \/ _attempted_to_connect
         THEN /\ Connected(t)
              /\ UNCHANGED <<_attempted_to_connect, client, entries>>
         ELSE /\ RememberAttempt
              /\ client' = "entering"
              /\ entries' = entries + 1
              /\ Goto(t, "entering")
              /\ UNCHANGED <<_connection, todo>>
    /\ UNCHANGED <<_stopping, running, aliveVars, subVars, writing>>

\* Client.__aenter__ returns; the callback is added to its listener.
Entered(t) ==
    /\ Alive
    /\ pc[t] = "entering"
    /\ link = "up"
    /\ client' = "in"
    /\ listening' = TRUE
    /\ Connected(t)
    /\ UNCHANGED <<_attempted_to_connect, _stopping, running, entries, link, clockVars, subVars, writing>>

\* FailedAllConnectAttemptsError.
EnterFails(t) ==
    /\ Alive
    /\ pc[t] = "entering"
    /\ link = "down"
    /\ client' = "failed"
    /\ Goto(t, "raised")
    /\ UNCHANGED <<brokerVars, entries, aliveVars, subVars, todo, writing>>

-----------------------------------------------------------------------------
(* BrokerUsecase.start and StompSubscriber.start. *)

SubscriberStarts(s) ==
    /\ Alive
    /\ pc["start"] = "subscribing" /\ writing = NoSubscriber
    /\ s \in todo
    /\ writing' = s
    /\ UNCHANGED <<brokerVars, clientVars, subVars, pc, todo>>

\* subscribe_with_manual_ack has written, ActiveSubscriptions.add, returned.
SubscriberStarted ==
    /\ Alive
    /\ pc["start"] = "subscribing" /\ writing # NoSubscriber
    /\ active' = active \cup {writing}
    /\ event' = FALSE
    /\ _subscription' = _subscription \cup {writing}
    /\ todo' = todo \ {writing}
    /\ writing' = NoSubscriber
    /\ UNCHANGED <<brokerVars, clientVars, pc>>

SubscriberFails ==
    /\ Alive
    /\ pc["start"] = "subscribing" /\ writing # NoSubscriber
    /\ Goto("start", "raised")
    /\ writing' = NoSubscriber
    /\ UNCHANGED <<brokerVars, clientVars, subVars, todo>>

Started ==
    /\ Alive
    /\ pc["start"] = "subscribing" /\ todo = {}
    /\ running' = TRUE
    /\ Goto("start", "done")
    /\ UNCHANGED <<_attempted_to_connect, _stopping, _connection, clientVars, subVars,
                   todo, writing>>

-----------------------------------------------------------------------------
(* StompBroker.stop. *)

Stop ==
    /\ Alive
    /\ pc["stop"] = "idle"
    /\ pc["start"] \in {"done", "raised"}
    /\ _stopping' = TRUE
    /\ todo' = Subscribers
    /\ Goto("stop", "unsubscribing")
    /\ UNCHANGED <<_attempted_to_connect, running, _connection, clientVars, subVars,
                   writing>>

\* Mutant: the event of the last subscription's end is not set.
DeleteSilently(s) == active' = active \ {s} /\ UNCHANGED event

\* ActiveSubscriptions.delete_by_id
delete_by_id(s) ==
    /\ active' = active \ {s}
    /\ event' = (event \/ active' = {})

\* StompSubscriber.stop: _subscription keeps its value.
SubscriberStops(s) ==
    /\ Alive
    /\ pc["stop"] = "unsubscribing"
    /\ s \in todo
    /\ todo' = todo \ {s}
    /\ IF s \in _subscription THEN delete_by_id(s) ELSE UNCHANGED <<active, event>>
    /\ UNCHANGED <<brokerVars, clientVars, _subscription, pc, writing>>

\* Mutant: only a broker that runs leaves its client.
LeavesIfRunning == running

Leaves == _connection

SubscribersStopped ==
    /\ Alive
    /\ pc["stop"] = "unsubscribing" /\ todo = {}
    /\ IF Leaves
         THEN Goto("stop", "leaving") /\ UNCHANGED running
         ELSE Goto("stop", "done") /\ running' = FALSE
    /\ UNCHANGED <<_attempted_to_connect, _stopping, _connection, clientVars, subVars,
                   todo, writing>>

(* Client.__aexit__.  An exception passed to stop() skips the wait.  The   *)
(* exit unsubscribes whatever is still active.  It raises if the client's  *)
(* task group holds a failed listener, if closing fails (which may be      *)
(* before or after the unsubscribing), and with AttributeError if the      *)
(* client has no listener yet.                                             *)
LeaveClient(raising) ==
    /\ Alive
    /\ pc["stop"] = "leaving"
    /\ event \/ raising
    /\ link' = IF client = "in" THEN "down" ELSE link
    /\ \/ /\ client = "in" /\ listening
          /\ client' = "out"
          /\ listening' = FALSE
          /\ active' = {}
          /\ event' = TRUE
          /\ running' = FALSE
          /\ Goto("stop", "done")
       \/ /\ client = "in"
          /\ client' = "out"
          /\ listening' = FALSE
          /\ active' \in {active, {}}
          /\ event' = (event \/ active' = {})
          /\ Goto("stop", "raised")
          /\ UNCHANGED running
       \/ /\ client # "in"
          /\ Goto("stop", "raised")
          /\ UNCHANGED <<client, listening, active, event, running>>
    /\ UNCHANGED <<_attempted_to_connect, _stopping, _connection, entries, clockVars, _subscription,
                   todo, writing>>

(* The listener ends with an exception: _handle_listen_task_done ends the  *)
(* process if its first one is FailedAllConnectAttemptsError, else it logs. *)
ListenerDies ==
    /\ listening /\ ~exited
    /\ listening' = FALSE
    /\ exited' \in BOOLEAN
    /\ UNCHANGED <<brokerVars, client, entries, link, clockVars, subVars, pc, todo, writing>>

-----------------------------------------------------------------------------
(* Health. *)

\* The connection and the clock, while the client is being entered or used.
Communicate(Step) ==
    /\ Alive
    /\ client \in {"entering", "in"} /\ Step
    /\ UNCHANGED <<brokerVars, client, entries, subVars, pc, todo, writing>>

(* The loop of ping().  A client that is not entered has no listener to    *)
(* look at: AttributeError.                                                *)
Ask ==
    Goto("ping", IF client \notin {"in", "out"} THEN "raised"
                 ELSE IF is_alive THEN "true" ELSE "sleeping")

Ping ==
    /\ Alive
    /\ pc["ping"] = "idle"
    /\ IF _stopping \/ ~_connection THEN Goto("ping", "false") ELSE Ask
    /\ UNCHANGED <<brokerVars, clientVars, subVars, todo, writing>>

PingAgain ==
    /\ Alive
    /\ pc["ping"] = "sleeping"
    /\ Ask \/ Goto("ping", "false")    \* the timeout of move_on_after, if there is one
    /\ UNCHANGED <<brokerVars, clientVars, subVars, todo, writing>>

\* Everything was called and has ended.
Finished ==
    /\ exited \/ pc["stop"] \in {"done", "raised"}
    /\ UNCHANGED vars

-----------------------------------------------------------------------------
Working ==
    \/ \E t \in Callers : Entered(t) \/ EnterFails(t)
    \/ \E s \in Subscribers : SubscriberStarts(s) \/ SubscriberStops(s)
    \/ SubscriberStarted \/ SubscriberFails \/ Started
    \/ SubscribersStopped \/ LeaveClient(FALSE)

Next ==
    \/ Working
    \/ \E t \in Callers : Connect(t)
    \/ Stop \/ LeaveClient(TRUE) \/ ListenerDies
    \/ Communicate(Clock) \/ Ping \/ PingAgain
    \/ Finished

Spec == Init /\ [][Next]_vars

(* Calls that are under way go on: their awaits end, one way or the other, *)
(* even if connections come and go meanwhile.  Time passes.                *)
FairSpec ==
    /\ Spec
    /\ SF_vars(Working)
    /\ SF_vars(Communicate(Tick)) /\ WF_vars(Communicate(\E permit \in BOOLEAN : Read(permit)))

-----------------------------------------------------------------------------
(* Properties. *)

(* The client is entered once, however connect() and start() overlap:      *)
(* Client.__aenter__ cannot be called twice (broker.py:143-149).           *)
EntersOnce == entries <= 1

(* stop() ends, also after a start() that raised half way through its      *)
(* subscribers: the client's exit waits for no subscription that nobody    *)
(* ends (broker.py:155-166, subscriber.py:74-77, client.py:109-111).       *)
StopEnds == (pc["stop"] = "unsubscribing") ~> (pc["stop"] \in {"done", "raised"} \/ exited)

(* When stop() has returned, the client was left if it was ever entered,   *)
(* and no subscription is active (broker.py:162-166).                      *)
StopReleases == pc["stop"] = "done" => client \notin {"entering", "in"} /\ active = {}
=============================================================================
