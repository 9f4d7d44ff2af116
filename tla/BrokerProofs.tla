---------------------------- MODULE BrokerProofs ----------------------------
(***************************************************************************)
(* The safety properties of Broker and of Aliveness for any subscribers,   *)
(* any interval and any factor.                                            *)
(***************************************************************************)
EXTENDS Broker, TLAPS

CallerPlaces == {"idle", "entering", "subscribing", "done", "raised"}
StopPlaces == {"idle", "unsubscribing", "leaving", "done", "raised"}
PingPlaces == {"idle", "true", "false", "sleeping", "raised"}

Types ==
    /\ pc \in [Tasks -> CallerPlaces \cup StopPlaces \cup PingPlaces]
    /\ pc["start"] \in CallerPlaces /\ pc["connect"] \in CallerPlaces /\ pc["stop"] \in StopPlaces
    /\ entries \in Nat

\* One attempt to enter the client, made by one of the two callers.
AttemptOK ==
    /\ ~_attempted_to_connect => entries = 0
    /\ entries <= 1
    /\ _connection => _attempted_to_connect
    /\ \A t \in Callers : pc[t] # "idle" => _attempted_to_connect
    /\ \A t \in Callers : pc[t] = "entering" => client = "entering"
    /\ pc["start"] = "entering" => pc["connect"] # "entering"

\* What start() leaves behind when it returns, when it raises, and before.
StartOK ==
    /\ pc["start"] \in {"subscribing", "done"} => _connection
    /\ pc["start"] = "raised" /\ ~_connection => client = "failed"
    /\ ~_connection => active = {}

\* stop() comes after start(), and leaves nothing that could start again.
StopOK ==
    /\ pc["stop"] # "idle" => pc["start"] \in {"done", "raised"}
    /\ pc["stop"] = "leaving" => _connection
    /\ pc["stop"] = "done" => client \in {"failed", "out"} /\ active = {}

\* The server has sent since, or nothing was due yet.
ClockOK ==
    /\ quiet \in Nat /\ gap \in 0..WillSend
    /\ link # "down" /\ ~silent /\ ~unread => quiet <= gap

Inv == Types /\ AttemptOK /\ StartOK /\ StopOK /\ ClockOK

USE BrokerAssumption, AlivenessAssumption
DEF vars, brokerVars, clientVars, subVars, aliveVars, clockVars, Callers, Tasks

-----------------------------------------------------------------------------
LEMMA GotoEffect ==
    ASSUME Types, NEW t \in Tasks, NEW place, Goto(t, place)
    PROVE  pc'[t] = place /\ \A u \in Tasks \ {t} : pc'[u] = pc[u]
BY DEF Types, Goto

LEMMA GotoType ==
    ASSUME Types, NEW t \in Tasks, NEW place \in CallerPlaces \cup StopPlaces \cup PingPlaces, Goto(t, place)
    PROVE  pc' \in [Tasks -> CallerPlaces \cup StopPlaces \cup PingPlaces]
BY DEF Types, Goto

\* Steps that move no task and touch neither the client nor the broker.
LEMMA QuietStep ==
    ASSUME Inv, UNCHANGED <<pc, _attempted_to_connect, _connection, client, entries>>,
           active' = active \/ active' \subseteq active \/ pc["start"] = "subscribing"
    PROVE  Types' /\ AttemptOK' /\ StartOK' /\ StopOK'
BY DEF Inv, Types, AttemptOK, StartOK, StopOK

LEMMA ConnectInv ==
    ASSUME Inv, NEW t \in Callers, Connect(t)
    PROVE  Types' /\ AttemptOK' /\ StartOK' /\ StopOK'
<1>1. /\ pc[t] = "idle" /\ pc["stop"] = "idle" /\ UNCHANGED active
      /\ Types
    BY DEF Connect, Inv, subVars
<1>2. CASE _connection \/ _attempted_to_connect
  <2>1. /\ _connection' = TRUE /\ UNCHANGED <<_attempted_to_connect, client, entries>>
        /\ Goto(t, IF t = "start" THEN "subscribing" ELSE "done")
    BY <1>2 DEF Connect, Connected
  <2>2. pc'[t] = (IF t = "start" THEN "subscribing" ELSE "done") /\ \A u \in Tasks \ {t} : pc'[u] = pc[u]
    BY <1>1, <2>1, GotoEffect
  <2>3. Types'
    BY <1>1, <2>1, <2>2, GotoType DEF Types, CallerPlaces
  <2> QED BY <1>1, <1>2, <2>1, <2>2, <2>3 DEF Inv, AttemptOK, StartOK, StopOK
<1>3. CASE ~(_connection \/ _attempted_to_connect)
  <2>1. /\ _attempted_to_connect' = TRUE /\ client' = "entering" /\ entries' = entries + 1
        /\ Goto(t, "entering") /\ UNCHANGED _connection
    BY <1>3 DEF Connect, RememberAttempt
  <2>2. pc'[t] = "entering" /\ \A u \in Tasks \ {t} : pc'[u] = pc[u]
    BY <1>1, <2>1, GotoEffect
  <2>3. Types'
    BY <1>1, <2>1, <2>2, GotoType DEF Types, CallerPlaces
  <2>4. \A u \in Callers : pc[u] = "idle"
    BY <1>3 DEF Inv, AttemptOK
  <2> QED BY <1>1, <1>3, <2>1, <2>2, <2>3, <2>4 DEF Inv, Types, AttemptOK, StartOK, StopOK
<1> QED BY <1>2, <1>3

\* Both ways out of Client.__aenter__.
LEMMA EnteringInv ==
    ASSUME Inv, NEW t \in Callers, Entered(t) \/ EnterFails(t)
    PROVE  Types' /\ AttemptOK' /\ StartOK' /\ StopOK'
<1>1. /\ pc[t] = "entering" /\ UNCHANGED <<active, _attempted_to_connect, entries>>
      /\ Types /\ client = "entering" /\ _attempted_to_connect
    BY DEF Entered, EnterFails, Inv, AttemptOK
<1>2. CASE Entered(t)
  <2>1. /\ _connection' = TRUE /\ client' = "in"
        /\ Goto(t, IF t = "start" THEN "subscribing" ELSE "done")
    BY <1>2 DEF Entered, Connected
  <2>2. pc'[t] = (IF t = "start" THEN "subscribing" ELSE "done") /\ \A u \in Tasks \ {t} : pc'[u] = pc[u]
    BY <1>1, <2>1, GotoEffect
  <2>3. Types'
    BY <1>1, <2>1, <2>2, GotoType DEF Types, CallerPlaces
  <2> QED BY <1>1, <2>1, <2>2, <2>3 DEF Inv, AttemptOK, StartOK, StopOK
<1>3. CASE EnterFails(t)
  <2>1. client' = "failed" /\ Goto(t, "raised") /\ UNCHANGED _connection
    BY <1>3 DEF EnterFails
  <2>2. pc'[t] = "raised" /\ \A u \in Tasks \ {t} : pc'[u] = pc[u]
    BY <1>1, <2>1, GotoEffect
  <2>3. Types'
    BY <1>1, <2>1, <2>2, GotoType DEF Types, CallerPlaces
  <2> QED BY <1>1, <2>1, <2>2, <2>3 DEF Inv, AttemptOK, StartOK, StopOK
<1> QED BY <1>2, <1>3

\* start() goes through its subscribers and ends.
LEMMA StartingInv ==
    ASSUME Inv, \/ \E s \in Subscribers : SubscriberStarts(s)
                \/ SubscriberStarted \/ SubscriberFails \/ Started
    PROVE  Types' /\ AttemptOK' /\ StartOK' /\ StopOK'
<1>1. CASE \E s \in Subscribers : SubscriberStarts(s)
    BY <1>1, QuietStep DEF SubscriberStarts
<1>2. CASE SubscriberStarted
    BY <1>2, QuietStep DEF SubscriberStarted
<1>3. ASSUME NEW place \in {"done", "raised"}, Goto("start", place), pc["start"] = "subscribing",
             UNCHANGED <<active, _attempted_to_connect, _connection, client, entries>>
      PROVE  Types' /\ AttemptOK' /\ StartOK' /\ StopOK'
  <2>1. pc'["start"] = place /\ \A u \in Tasks \ {"start"} : pc'[u] = pc[u]
    BY <1>3, GotoEffect DEF Inv
  <2>2. Types'
    BY <1>3, <2>1, GotoType DEF Inv, Types, CallerPlaces
  <2> QED BY <1>3, <2>1, <2>2 DEF Inv, AttemptOK, StartOK, StopOK
<1>4. CASE SubscriberFails \/ Started
    BY <1>3, <1>4 DEF SubscriberFails, Started
<1> QED BY <1>1, <1>2, <1>4

LEMMA StoppingInv ==
    ASSUME Inv, \/ Stop \/ SubscribersStopped \/ LeaveClient(TRUE) \/ LeaveClient(FALSE)
                \/ \E s \in Subscribers : SubscriberStops(s)
    PROVE  Types' /\ AttemptOK' /\ StartOK' /\ StopOK'
<1>1. ASSUME NEW place \in StopPlaces, Goto("stop", place)
      PROVE  /\ pc' \in [Tasks -> CallerPlaces \cup StopPlaces \cup PingPlaces]
             /\ pc'["stop"] = place /\ pc'["start"] = pc["start"] /\ pc'["connect"] = pc["connect"]
    BY <1>1, GotoEffect, GotoType DEF Inv
<1>2. CASE Stop
  <2>1. /\ Goto("stop", "unsubscribing") /\ pc["start"] \in {"done", "raised"}
        /\ UNCHANGED <<active, _attempted_to_connect, _connection, client, entries>>
    BY <1>2 DEF Stop
  <2>2. Types'
    BY <1>1, <2>1 DEF Inv, Types, StopPlaces
  <2> QED BY <1>1, <2>1, <2>2 DEF Inv, AttemptOK, StartOK, StopOK, StopPlaces
<1>3. CASE \E s \in Subscribers : SubscriberStops(s)
    BY <1>3, QuietStep DEF SubscriberStops, delete_by_id
<1>4. CASE SubscribersStopped
  <2>1. /\ UNCHANGED <<active, _attempted_to_connect, _connection, client, entries>>
        /\ pc["stop"] = "unsubscribing"
        /\ \/ _connection /\ Goto("stop", "leaving")
           \/ ~_connection /\ Goto("stop", "done")
    BY <1>4 DEF SubscribersStopped, Leaves
  <2>2. Types'
    BY <1>1, <2>1 DEF Inv, Types, StopPlaces
  <2>3. ~_connection => client = "failed" /\ active = {}
    BY <2>1 DEF Inv, StartOK, StopOK
  <2> QED BY <1>1, <2>1, <2>2, <2>3 DEF Inv, AttemptOK, StartOK, StopOK, StopPlaces
<1>5. CASE LeaveClient(TRUE) \/ LeaveClient(FALSE)
  <2>1. /\ UNCHANGED <<_attempted_to_connect, _connection, entries>>
        /\ pc["stop"] = "leaving"
        /\ \/ client = "in" /\ client' = "out" /\ active' = {} /\ Goto("stop", "done")
           \/ client = "in" /\ client' = "out" /\ active' \subseteq active /\ Goto("stop", "raised")
           \/ client' = client /\ active' = active /\ Goto("stop", "raised")
    BY <1>5 DEF LeaveClient
  <2>2. Types'
    BY <1>1, <2>1 DEF Inv, Types, StopPlaces
  <2> QED BY <1>1, <2>1, <2>2 DEF Inv, AttemptOK, StartOK, StopOK, StopPlaces
<1> QED BY <1>2, <1>3, <1>4, <1>5

\* A health check, the listener, the clock.
LEMMA OtherInv ==
    ASSUME Inv, \/ ListenerDies \/ Communicate(Clock) \/ Ping \/ PingAgain \/ UNCHANGED vars
    PROVE  Types' /\ AttemptOK' /\ StartOK' /\ StopOK'
<1>1. CASE ListenerDies \/ Communicate(Clock) \/ UNCHANGED vars
    BY <1>1, QuietStep DEF ListenerDies, Communicate
<1>2. CASE Ping \/ PingAgain
  <2>1. \E place \in PingPlaces : Goto("ping", place)
    BY <1>2 DEF Ping, PingAgain, Ask, PingPlaces
  <2>2. pc'["start"] = pc["start"] /\ pc'["stop"] = pc["stop"] /\ pc'["connect"] = pc["connect"]
    BY <2>1, GotoEffect DEF Inv
  <2>3. pc' \in [Tasks -> CallerPlaces \cup StopPlaces \cup PingPlaces]
    BY <2>1, GotoType DEF Inv
  <2>4. UNCHANGED <<active, _attempted_to_connect, _connection, client, entries>>
    BY <1>2 DEF Ping, PingAgain
  <2> QED BY <2>2, <2>3, <2>4 DEF Inv, Types, AttemptOK, StartOK, StopOK
<1> QED BY <1>1, <1>2

-----------------------------------------------------------------------------
LEMMA ThresholdType == Threshold \in Nat
BY DEF Threshold

\* The factor leaves room for one interval.
LEMMA ThresholdLater == Factor > 1 => WillSend < Threshold
<1>1. ASSUME NEW w \in Nat, NEW f \in Nat, w > 0, f > 1
      PROVE  w < w * f
  <2>1. f - 2 \in Nat /\ f = (f - 2) + 2
    BY <1>1
  <2>2. PICK g \in Nat : f = g + 2
    BY <2>1
  <2>3. w * (g + 2) = w * g + w + w /\ w * g \in Nat
    BY <1>1
  <2> QED BY <1>1, <2>2, <2>3
<1> QED BY <1>1 DEF Threshold

LEMMA NextClockOK ==
    ASSUME Inv, [Next]_vars
    PROVE  ClockOK'
<1>1. CASE Communicate(Clock)
  <2>1. Clock
    BY <1>1 DEF Communicate
  <2> QED BY <2>1, ThresholdType DEF Inv, ClockOK, Clock, Tick, ServerSends, ServerHangs, Acquire, Handshake,
             Establish, Lose, Read, Readable, AtMost
<1>2. CASE UNCHANGED clockVars /\ (link' = link \/ link' = "down")
    BY <1>2 DEF Inv, ClockOK
<1>3. \/ Communicate(Clock)
      \/ UNCHANGED clockVars /\ (link' = link \/ link' = "down")
  <2>1. ASSUME NEW t \in Callers, Connect(t) \/ Entered(t) \/ EnterFails(t)
        PROVE  UNCHANGED clockVars /\ link' = link
    BY <2>1 DEF Connect, Entered, EnterFails
  <2>2. ASSUME NEW s \in Subscribers, SubscriberStarts(s) \/ SubscriberStops(s)
        PROVE  UNCHANGED clockVars /\ link' = link
    BY <2>2 DEF SubscriberStarts, SubscriberStops
  <2>3. ASSUME SubscriberStarted \/ SubscriberFails \/ Started \/ SubscribersStopped \/ Stop \/ ListenerDies
               \/ Ping \/ PingAgain \/ UNCHANGED vars
        PROVE  UNCHANGED clockVars /\ link' = link
    BY <2>3 DEF SubscriberStarted, SubscriberFails, Started, SubscribersStopped, Stop, ListenerDies, Ping,
       PingAgain
  <2>4. ASSUME LeaveClient(TRUE) \/ LeaveClient(FALSE)
        PROVE  UNCHANGED clockVars /\ (link' = link \/ link' = "down")
    BY <2>4 DEF LeaveClient
  <2> QED BY <2>1, <2>2, <2>3, <2>4 DEF Next, Working, Finished
<1> QED BY <1>1, <1>2, <1>3

(* One attempt to enter the client, what start() and stop() have done when *)
(* they return or raise, and how old last_read_time is, in every reachable *)
(* state of StompBroker and its client.                                    *)
THEOREM Invariant == Spec => []Inv
<1>1. Init => Inv
    BY DEF Init, AliveInit, Inv, Types, AttemptOK, StartOK, StopOK, ClockOK, CallerPlaces, StopPlaces
<1>2. ASSUME Inv, [Next]_vars PROVE Inv'
  <2>1. Types' /\ AttemptOK' /\ StartOK' /\ StopOK'
    BY <1>2, ConnectInv, EnteringInv, StartingInv, StoppingInv, OtherInv DEF Next, Working, Finished
  <2> QED BY <1>2, <2>1, NextClockOK DEF Inv
<1> QED BY <1>1, <1>2, PTL DEF Spec

(* Client.__aenter__ is called once at most, however start() and connect() *)
(* overlap (broker.py:143-149).                                            *)
THEOREM EntersOnceAlways == Spec => []EntersOnce
<1>1. Inv => EntersOnce
    BY DEF Inv, AttemptOK, EntersOnce
<1> QED BY <1>1, Invariant, PTL

(* A stop() that has returned has left the client, if it was entered, and  *)
(* no subscription is active, also after a start() that raised.            *)
THEOREM StopReleasesAlways == Spec => []StopReleases
<1>1. Inv => StopReleases
    BY DEF Inv, StopOK, StopReleases
<1> QED BY <1>1, Invariant, PTL

(* With a factor above one is_alive has no false alarm: whatever the       *)
(* interval is, a server that keeps it and is read looks alive.            *)
THEOREM AliveWhileHealthyAlways == Spec => []AliveWhileHealthy
<1>1. ASSUME Inv PROVE AliveWhileHealthy
  <2>1. quiet \in Nat /\ gap \in 0..WillSend /\ Threshold \in Nat
        /\ (link # "down" /\ ~silent /\ ~unread => quiet <= gap)
    BY <1>1, ThresholdType DEF Inv, ClockOK
  <2> QED BY <2>1, ThresholdLater DEF AliveWhileHealthy, is_alive
<1> QED BY <1>1, Invariant, PTL
=============================================================================
