---------------------- MODULE ConnectionManagerProofs ----------------------
(***************************************************************************)
(* The safety properties of ConnectionManager for any number of users, any *)
(* retry limits and any amount of harm, by one inductive invariant.        *)
(***************************************************************************)
EXTENDS ConnectionManager, TLAPS

\* Connections are numbered; the active one is open.
ConnectionsOK ==
    /\ active \in 0..opened
    /\ active # NoConn => active \in open
    /\ \A t \in Tasks : conn[t] \in 0..opened
    /\ \A t \in Tasks : pc[t] \in {"io", "maybe", "closing"} => conn[t] # NoConn

\* The connection in preparation is the newest, and nobody else has it.
PreparingOK ==
    \A t \in Tasks : pc[t] \in Preparing =>
        /\ conn[t] = opened
        /\ conn[t] \in open
        /\ \A u \in Tasks \ {t} : conn[u] < opened

\* The first half of OnlyUnawaitedDialsLeak.
OpenIsHeld ==
    \A c \in open :
        c = active \/ \E t \in Tasks : pc[t] \in Preparing /\ conn[t] = c

\* Before the application's body, main alone is at work.
EnteringOK ==
    pc["main"] \in Calling =>
        /\ active = NoConn
        /\ pc["listener"] = "off"
        /\ \A u \in Users : pc[u] = "off"
        /\ \A h \in Heartbeats :
              pc[h] # "off" => pc["main"] = "restoring" /\ pc[h] \in {"get", "lockwait"}
        /\ cancelled = {}
        /\ ~aborted

\* A sender at work has attempts left; from the first handshake one is alive.
SenderOK ==
    /\ \A h \in Heartbeats : pc[h] \in Calling => writes[h] > 0
    /\ \A h \in Heartbeats :
          pc[h] # "off" /\ h # hbTask => h \in cancelled /\ pc[h] = "restoring"
    /\ \A x \in Tasks : x \in cancelled => pc[x] # "off"
    /\ pc["main"] \in {"restoring", "body"} =>
          pc[hbTask] # "off" /\ hbTask \notin cancelled /\ ~aborted
    /\ pc["main"] = "body" /\ active # NoConn => monitor = Monitoring

\* The listener is gone before exit ends the background tasks.
ListenerOK ==
    /\ pc["main"] \in {"ending", "closing", "closed"} => pc["listener"] = "off"
    /\ epoch <= count
    /\ EpochNamesConnection

\* Once exit has taken the connection, nobody can make a new one active.
SealedOK ==
    pc["main"] \in {"closing", "closed"} /\ conn["main"] # NoConn =>
        \A t \in Tasks : pc[t] # "restoring"

\* Which task can be where.
PlacesOK ==
    /\ \A t \in Tasks : pc[t] \in Entered \cup {"failed"} => t = "main"
    /\ \A u \in Users : pc[u] # "sleep"
    /\ pc["main"] \notin {"off", "sleep", "io", "maybe"}
    /\ pc["listener"] # "maybe"
    /\ \A h \in Heartbeats : pc[h] \notin {"io", "maybe"}

IInv ==
    /\ TypeOK
    /\ PlacesOK
    /\ OneConnector
    /\ ConnectionsOK
    /\ PreparingOK
    /\ OpenIsHeld
    /\ EnteringOK
    /\ SenderOK
    /\ ListenerOK
    /\ SealedOK

-----------------------------------------------------------------------------
LEMMA TaskNames ==
    /\ {"main", "listener", "hb1", "hb2"} \subseteq Tasks
    /\ Users \subseteq Tasks
    /\ Heartbeats \subseteq Tasks
    /\ NoTask \notin Tasks
    /\ \A u \in Users : u \notin {"main", "listener", "hb1", "hb2"}
    /\ \A t \in Tasks : t \in {"main", "listener"} \/ t \in Heartbeats \/ t \in Users
BY ConstantsAssumption DEF Tasks, Background, Heartbeats, NoTask

USE ConstantsAssumption, TaskNames
DEF TypeOK, PlacesOK, OneConnector, ConnectionsOK, PreparingOK, OpenIsHeld,
    EnteringOK, SenderOK, ListenerOK, EpochNamesConnection, SealedOK,
    Places, Calling, Connecting, Preparing, Entered, Heartbeats, Background,
    NoConn, slotVars, dialVars, taskVars, groupVars, Move

LEMMA InitIInv == Init => IInv
<1> SUFFICES ASSUME Init PROVE IInv
    OBVIOUS
<1> USE DEF Init
<1>1. TypeOK
  <2>1. /\ active \in Nat /\ count \in Nat /\ opened \in Nat /\ epoch \in Nat
        /\ lock \in Tasks \cup {NoTask}
        /\ attempt \in 0..ConnectAttempts
        /\ open \subseteq 1..opened
    OBVIOUS
  <2>2. /\ pc \in [Tasks -> Places]
        /\ conn \in [Tasks -> Nat]
        /\ writes \in [Tasks -> 0..WriteAttempts]
    OBVIOUS
  <2>3. /\ hbTask \in Heartbeats
        /\ cancelled \subseteq Background
        /\ adverse \in 0..MaxAdverse
    OBVIOUS
  <2>4. /\ monitor \in BOOLEAN /\ aborted \in BOOLEAN
        /\ orphaned \in BOOLEAN /\ gaveUp \in BOOLEAN
    OBVIOUS
  <2> QED BY <2>1, <2>2, <2>3, <2>4
<1>2. PlacesOK /\ OneConnector /\ ConnectionsOK /\ PreparingOK /\ OpenIsHeld
    OBVIOUS
<1>3. EnteringOK /\ SenderOK /\ ListenerOK /\ SealedOK
    OBVIOUS
<1> QED BY <1>1, <1>2, <1>3 DEF IInv

\* What discarding connection c does, element by element.
Discarded(c) ==
    \/ active # c /\ UNCHANGED <<active, count, open>>
    \/ /\ active = c /\ active' = NoConn /\ count' = count + 1
       /\ \A x : x \in open' <=> x \in open /\ x # c

LEMMA DiscardEffect == ASSUME NEW c, Discard(c) PROVE Discarded(c)
BY DEF Discard, Discarded

LEMMA LeakFree ==
    ASSUME OpenIsHeld,
           \A c \in open' : c \in open \/ \E x \in Tasks : pc'[x] \in Preparing /\ conn'[x] = c,
           active \notin open' \/ active' = active,
           \A x \in Tasks : pc[x] \in Preparing =>
              \/ conn[x] \notin open'
              \/ conn[x] = active'
              \/ pc'[x] \in Preparing /\ conn'[x] = conn[x]
    PROVE  OpenIsHeld'
<1> SUFFICES ASSUME NEW c \in open'
             PROVE  c = active' \/ \E x \in Tasks : pc'[x] \in Preparing /\ conn'[x] = c
    BY Zenon DEF OpenIsHeld
<1>1. CASE c \in open
    BY <1>1
<1>2. CASE c \notin open
    BY <1>2
<1> QED BY <1>1, <1>2

LEMMA GetActiveIInv ==
    ASSUME IInv, NEW t \in Tasks, GetActive(t)
    PROVE  IInv'
<1> USE DEF IInv, GetActive, Obtain
<1>1. TypeOK' /\ PlacesOK' /\ OneConnector'
    OBVIOUS
<1>2. ConnectionsOK' /\ PreparingOK' /\ OpenIsHeld'
    OBVIOUS
<1>3. EnteringOK' /\ SenderOK'
    OBVIOUS
<1>4. ListenerOK' /\ SealedOK'
    OBVIOUS
<1> QED BY <1>1, <1>2, <1>3, <1>4

LEMMA AcquireLockIInv ==
    ASSUME IInv, NEW t \in Tasks, AcquireLock(t)
    PROVE  IInv'
<1> USE DEF IInv, AcquireLock, NotReconnected, Obtain
<1>1. TypeOK' /\ PlacesOK' /\ OneConnector'
    OBVIOUS
<1>2. ConnectionsOK' /\ PreparingOK' /\ OpenIsHeld'
    OBVIOUS
<1>3. EnteringOK' /\ SenderOK'
    OBVIOUS
<1>4. ListenerOK' /\ SealedOK'
    OBVIOUS
<1> QED BY <1>1, <1>2, <1>3, <1>4

LEMMA ConnectIInv ==
    ASSUME IInv, NEW t \in Tasks, Connect(t)
    PROVE  IInv'
<1> USE DEF IInv, Connect
<1>1. adverse' \in 0..MaxAdverse
    BY DEF Harm
<1>2. TypeOK'
  <2>1. /\ pc' \in [Tasks -> Places]
        /\ conn' \in [Tasks -> Nat]
    OBVIOUS
  <2>2. opened' \in Nat /\ opened <= opened'
    OBVIOUS
  <2>3. \A c \in open' : c \in open \/ (c = opened' /\ opened' > 0)
    OBVIOUS
  <2>4. open' \subseteq 1..opened'
    <3> SUFFICES ASSUME NEW c \in open' PROVE c \in 1..opened'
      OBVIOUS
    <3>1. opened \in Nat /\ (c \in open => c \in 1..opened)
      OBVIOUS
    <3> QED BY ONLY <2>2, <2>3, <3>1
  <2>5. orphaned' \in BOOLEAN /\ gaveUp' \in BOOLEAN
    BY DEF LeaveDialling
  <2> QED BY <1>1, <2>1, <2>2, <2>4, <2>5
<1>3. PlacesOK' /\ OneConnector'
    OBVIOUS
<1>4. ConnectionsOK' /\ PreparingOK'
  <2>1. ConnectionsOK'
    OBVIOUS
  <2>2. PreparingOK'
    OBVIOUS
  <2> QED BY <2>1, <2>2
<1>5. OpenIsHeld'
  <2>1. \A c \in open' : c \in open \/ \E x \in Tasks : pc'[x] \in Preparing /\ conn'[x] = c
    OBVIOUS
  <2>2. \A x \in Tasks : pc[x] \in Preparing => pc'[x] \in Preparing /\ conn'[x] = conn[x]
    OBVIOUS
  <2> QED BY <2>1, <2>2, LeakFree
<1>6. EnteringOK' /\ SenderOK'
    OBVIOUS
<1>7. ListenerOK' /\ SealedOK'
    OBVIOUS
<1> QED BY <1>2, <1>3, <1>4, <1>5, <1>6, <1>7

LEMMA HandshakeFailsIInv ==
    ASSUME IInv, NEW t \in Tasks, HandshakeFails(t)
    PROVE  IInv'
<1> USE DEF IInv, HandshakeFails
<1>1. \A x : x \in open' <=> x \in open /\ x # conn[t]
    BY DEF CloseUnestablished
<1>2. adverse' \in 0..MaxAdverse
    BY DEF Harm
<1>3. TypeOK'
  <2>1. open' \subseteq 1..opened'
    BY <1>1
  <2>2. /\ pc' \in [Tasks -> Places]
        /\ conn' \in [Tasks -> Nat]
        /\ writes' \in [Tasks -> 0..WriteAttempts]
    OBVIOUS
  <2> QED BY <1>2, <2>1, <2>2
<1>4. PlacesOK' /\ OneConnector'
    BY <1>1
<1>5. ConnectionsOK' /\ PreparingOK'
    BY <1>1
<1>6. OpenIsHeld'
  <2>0. pc[t] \in Preparing => conn[t] \notin open'
    BY DEF CloseUnestablished
  <2>1. \A x \in Tasks : pc[x] \in Preparing =>
           conn[x] \notin open' \/ (pc'[x] \in Preparing /\ conn'[x] = conn[x])
    <3> TAKE x \in Tasks
    <3>1. CASE x = t
        BY <2>0, <3>1
    <3>2. CASE x # t
        BY <3>2
    <3> QED BY <3>1, <3>2
  <2>2. \A c \in open' : c \in open
    BY <1>1
  <2> QED BY <2>1, <2>2, LeakFree
<1>7. EnteringOK' /\ SenderOK'
    BY <1>1
<1>8. ListenerOK' /\ SealedOK'
    BY <1>1
<1> QED BY <1>3, <1>4, <1>5, <1>6, <1>7, <1>8

LEMMA HandshakeSucceedsIInv ==
    ASSUME IInv, NEW t \in Tasks, HandshakeSucceeds(t)
    PROVE  IInv'
<1> USE DEF IInv, HandshakeSucceeds, RestartHeartbeat, ReleaseLock
<1>1. CASE CanCreateTask
  <2> USE <1>1
  <2>1. TypeOK'
    <3>1. /\ pc' \in [Tasks -> Places]
          /\ conn' \in [Tasks -> Nat]
          /\ writes' \in [Tasks -> 0..WriteAttempts]
      OBVIOUS
    <3>2. cancelled \subseteq Background /\ cancelled' = cancelled \ {hbTask}
      OBVIOUS
    <3>3. cancelled' \subseteq Background
      BY ONLY <3>2
    <3>4. open' \subseteq 1..opened' /\ adverse' \in 0..MaxAdverse
      OBVIOUS
    <3>5. monitor' \in BOOLEAN /\ aborted' \in BOOLEAN
      OBVIOUS
    <3>6. active' \in Nat /\ count' \in Nat /\ opened' \in Nat /\ epoch' \in Nat
      OBVIOUS
    <3>7. attempt' \in 0..ConnectAttempts /\ lock' \in Tasks \cup {NoTask} /\ hbTask' \in Heartbeats
      OBVIOUS
    <3> QED BY <3>1, <3>3, <3>4, <3>5, <3>6, <3>7
  <2>2. PlacesOK' /\ OneConnector'
    OBVIOUS
  <2>3. ConnectionsOK' /\ PreparingOK'
    OBVIOUS
  <2>4. OpenIsHeld'
    <3>1. \A x \in Tasks : pc[x] \in Preparing => pc'[x] \in Preparing /\ conn'[x] = conn[x]
      OBVIOUS
    <3> QED BY <3>1, LeakFree
  <2>5. EnteringOK'
    <3>1. SUFFICES ASSUME pc'["main"] \in Calling PROVE EnteringOK'
      OBVIOUS
    <3>2. pc["main"] \in Calling
      BY <3>1
    <3>3. t = "main"
      BY <3>2
    <3>4. \A h \in Heartbeats : pc'[h] # "off" => pc'["main"] = "restoring" /\ pc'[h] \in {"get", "lockwait"}
      BY <3>2, <3>3
    <3>5. cancelled' = {} /\ ~aborted'
      <4>1. cancelled = {} /\ cancelled' = cancelled \ {hbTask} /\ ~aborted /\ aborted' = aborted
        BY <3>2
      <4> QED BY ONLY <4>1
    <3>6. pc'["listener"] = "off" /\ \A u \in Users : pc'[u] = "off"
      BY <3>2, <3>3
    <3> QED BY <3>2, <3>4, <3>5, <3>6
  <2>6. SenderOK'
    <3>1. \A h \in Heartbeats : pc'[h] \in Calling => writes'[h] > 0
      BY DEF CanCreateTask
    <3>2. \A h \in Heartbeats :
             pc'[h] # "off" /\ h # hbTask' => h \in cancelled' /\ pc'[h] = "restoring"
      BY DEF CanCreateTask
    <3>3. \A x \in Tasks : x \in cancelled' => pc'[x] # "off"
      BY DEF CanCreateTask
    <3>4. pc'["main"] \in {"restoring", "body"} =>
             pc'[hbTask'] # "off" /\ hbTask' \notin cancelled' /\ ~aborted'
      BY DEF CanCreateTask
    <3>5. pc'["main"] = "body" /\ active' # NoConn => monitor' = Monitoring
      BY DEF CanCreateTask
    <3> QED BY <3>1, <3>2, <3>3, <3>4, <3>5
  <2>7. ListenerOK' /\ SealedOK'
    BY DEF CanCreateTask
  <2> QED BY <2>1, <2>2, <2>3, <2>4, <2>5, <2>6, <2>7
<1>2. CASE ~CanCreateTask
  <2> USE <1>2
  <2>1. /\ \A x : x \in open' <=> x \in open /\ x # conn[t]
        /\ pc["main"] \notin Calling
    BY DEF CloseUnestablished, CanCreateTask
  <2>2. TypeOK'
    <3>1. /\ pc' \in [Tasks -> Places]
          /\ conn' \in [Tasks -> Nat]
      OBVIOUS
    <3>2. open' \subseteq 1..opened' /\ lock' \in Tasks \cup {NoTask}
      BY <2>1
    <3>3. monitor' \in BOOLEAN /\ aborted' \in BOOLEAN
      OBVIOUS
    <3>4. cancelled' \subseteq Background
      OBVIOUS
    <3> QED BY <3>1, <3>2, <3>3, <3>4
  <2>3. PlacesOK' /\ OneConnector'
    BY <2>1
  <2>4. ConnectionsOK' /\ PreparingOK'
    BY <2>1
  <2>5. OpenIsHeld'
    <3>1. conn[t] \notin open'
      BY DEF CloseUnestablished
    <3>2. \A x \in Tasks : pc[x] \in Preparing =>
             conn[x] \notin open' \/ (pc'[x] \in Preparing /\ conn'[x] = conn[x])
      BY <3>1
    <3>3. \A c \in open' : c \in open
      BY <2>1
    <3> QED BY <3>2, <3>3, LeakFree
  <2>6. EnteringOK'
    BY <2>1
  <2>7. SenderOK'
    <3>1. \A h \in Heartbeats : pc'[h] \in Calling => writes'[h] > 0
      BY <2>1
    <3>2. \A h \in Heartbeats :
             pc'[h] # "off" /\ h # hbTask' => h \in cancelled' /\ pc'[h] = "restoring"
      BY <2>1
    <3>3. \A x \in Tasks : x \in cancelled' => pc'[x] # "off"
      BY <2>1
    <3>4. pc'["main"] \in {"restoring", "body"} =>
             pc'[hbTask'] # "off" /\ hbTask' \notin cancelled' /\ ~aborted'
      BY <2>1
    <3>5. pc'["main"] = "body" /\ active' # NoConn => monitor' = Monitoring
      BY <2>1
    <3> QED BY <3>1, <3>2, <3>3, <3>4, <3>5
  <2>8. ListenerOK' /\ SealedOK'
    BY <2>1
  <2> QED BY <2>2, <2>3, <2>4, <2>5, <2>6, <2>7, <2>8
<1> QED BY <1>1, <1>2

LEMMA HeartbeatHandshakeSucceedsIInv ==
    ASSUME IInv, HeartbeatHandshakeSucceeds
    PROVE  IInv'
<1> DEFINE fresh == CHOOSE h \in Heartbeats : h # hbTask
<1>1. fresh \in Heartbeats /\ fresh # hbTask
    BY DEF IInv
<1> HIDE DEF fresh
<1>2. /\ pc[hbTask] = "handshake"
      /\ hbTask \notin cancelled
      /\ CanCreateTask
      /\ hbTask' = fresh
      /\ writes' = [writes EXCEPT ![fresh] = WriteAttempts]
      /\ UNCHANGED <<count, attempt, opened, open, dialVars, epoch, aborted>>
      /\ adverse' \in 0..MaxAdverse
    BY DEF HeartbeatHandshakeSucceeds, fresh, Harm, IInv
<1>3. \/ /\ pc' = [pc EXCEPT ![hbTask] = "restoring", ![fresh] = "get"]
         /\ cancelled' = cancelled \cup {hbTask}
         /\ UNCHANGED <<active, lock, conn, monitor>>
      \/ /\ active' = conn[hbTask]
         /\ lock' = NoTask
         /\ pc' = [pc EXCEPT ![hbTask] = "off", ![fresh] = "get"]
         /\ conn' = [conn EXCEPT ![hbTask] = NoConn]
         /\ monitor' = Monitoring
         /\ UNCHANGED cancelled
    BY DEF HeartbeatHandshakeSucceeds, fresh, ReleaseLock, IInv
<1> USE <1>1, <1>2, <1>3 DEF IInv
<1>4. TypeOK'
  <2>1. /\ pc' \in [Tasks -> Places]
        /\ conn' \in [Tasks -> Nat]
        /\ writes' \in [Tasks -> 0..WriteAttempts]
    OBVIOUS
  <2>2. cancelled' \subseteq Background
    <3>1. cancelled' = cancelled \/ cancelled' = cancelled \cup {hbTask}
      OBVIOUS
    <3>2. cancelled \subseteq Background /\ hbTask \in Background
      OBVIOUS
    <3> QED BY ONLY <3>1, <3>2
  <2>3. monitor' \in BOOLEAN
    OBVIOUS
  <2> QED BY <2>1, <2>2, <2>3
<1>5. PlacesOK' /\ OneConnector'
    OBVIOUS
<1>6. ConnectionsOK' /\ PreparingOK'
    OBVIOUS
<1>7. OpenIsHeld'
  <2>1. \A x \in Tasks : pc[x] \in Preparing =>
           conn[x] = active' \/ (pc'[x] \in Preparing /\ conn'[x] = conn[x])
    OBVIOUS
  <2>2. active \notin open' \/ active' = active
    OBVIOUS
  <2> QED BY <2>1, <2>2, LeakFree
<1>8. pc["main"] \notin Calling
    OBVIOUS
<1>9. EnteringOK' /\ SenderOK'
  <2>1. EnteringOK'
    BY <1>8
  <2>2. \A h \in Heartbeats : h = fresh \/ h = hbTask
    OBVIOUS
  <2>3. SenderOK'
    <3>1. pc[fresh] = "off" /\ fresh \notin cancelled
      OBVIOUS
    <3> USE <1>8, <2>2, <3>1 DEF CanCreateTask
    <3>2. \A h \in Heartbeats : pc'[h] \in Calling => writes'[h] > 0
      OBVIOUS
    <3>3. \A h \in Heartbeats :
             pc'[h] # "off" /\ h # hbTask' => h \in cancelled' /\ pc'[h] = "restoring"
      OBVIOUS
    <3>4. \A x \in Tasks : x \in cancelled' => pc'[x] # "off"
      OBVIOUS
    <3>5. pc'["main"] \in {"restoring", "body"} =>
             pc'[hbTask'] # "off" /\ hbTask' \notin cancelled' /\ ~aborted'
      OBVIOUS
    <3>6. pc'["main"] = "body" /\ active' # NoConn => monitor' = Monitoring
      OBVIOUS
    <3> QED BY <3>2, <3>3, <3>4, <3>5, <3>6
  <2> QED BY <2>1, <2>3
<1>10. ListenerOK' /\ SealedOK'
    BY DEF CanCreateTask
<1> QED BY <1>4, <1>5, <1>6, <1>7, <1>9, <1>10

LEMMA RestoreFailsIInv ==
    ASSUME IInv, NEW t \in Tasks, RestoreFails(t)
    PROVE  IInv'
<1> USE DEF IInv, RestoreFails
<1>1. \A x : x \in open' <=> x \in open /\ x # conn[t]
    BY DEF CloseUnestablished
<1>2. adverse' \in 0..MaxAdverse
    BY DEF Harm
<1>3. TypeOK'
  <2>1. open' \subseteq 1..opened'
    BY <1>1
  <2>2. /\ pc' \in [Tasks -> Places]
        /\ conn' \in [Tasks -> Nat]
        /\ writes' \in [Tasks -> 0..WriteAttempts]
    OBVIOUS
  <2> QED BY <1>2, <2>1, <2>2
<1>4. PlacesOK' /\ OneConnector'
    BY <1>1
<1>5. ConnectionsOK' /\ PreparingOK'
    BY <1>1
<1>6. OpenIsHeld'
  <2>0. pc[t] \in Preparing => conn[t] \notin open'
    BY DEF CloseUnestablished
  <2>1. \A x \in Tasks : pc[x] \in Preparing =>
           conn[x] \notin open' \/ (pc'[x] \in Preparing /\ conn'[x] = conn[x])
    <3> TAKE x \in Tasks
    <3>1. CASE x = t
        BY <2>0, <3>1
    <3>2. CASE x # t
        BY <3>2
    <3> QED BY <3>1, <3>2
  <2>2. \A c \in open' : c \in open
    BY <1>1
  <2> QED BY <2>1, <2>2, LeakFree
<1>7. EnteringOK' /\ SenderOK'
    BY <1>1
<1>8. ListenerOK' /\ SealedOK'
    BY <1>1
<1> QED BY <1>3, <1>4, <1>5, <1>6, <1>7, <1>8

LEMMA RestoreRaisesIInv ==
    ASSUME IInv, NEW t \in Tasks, RestoreRaises(t)
    PROVE  IInv'
<1> USE DEF IInv, RestoreRaises, ReleaseLock, Raises
<1>1. \A x : x \in open' <=> x \in open /\ x # conn[t]
    BY DEF CloseUnestablished
<1>2. adverse' \in 0..MaxAdverse
    BY DEF Harm
<1>3. TypeOK'
  <2>1. open' \subseteq 1..opened'
    BY <1>1
  <2>2. /\ pc' \in [Tasks -> Places]
        /\ conn' \in [Tasks -> Nat]
    OBVIOUS
  <2>3. cancelled' \subseteq Background
    <3>1. CASE cancelled' = cancelled
        BY <3>1
    <3>2. CASE cancelled' = (cancelled \ Heartbeats)
                       \cup {x \in {"listener"} : pc["main"] = "body" /\ pc[x] # "off"}
        BY <3>2
    <3> QED BY <3>1, <3>2
  <2>4. monitor' \in BOOLEAN /\ aborted' \in BOOLEAN
    OBVIOUS
  <2> QED BY <1>2, <2>1, <2>2, <2>3, <2>4
<1>4. PlacesOK' /\ OneConnector'
    BY <1>1
<1>5. ConnectionsOK' /\ PreparingOK'
    BY <1>1
<1>6. OpenIsHeld'
  <2>1. pc[t] \in Preparing => conn[t] \notin open'
    BY DEF CloseUnestablished
  <2>2. \A x \in Tasks : pc[x] \in Preparing =>
           conn[x] \notin open' \/ (pc'[x] \in Preparing /\ conn'[x] = conn[x])
    <3> TAKE x \in Tasks
    <3>1. CASE x = t
        BY <2>1, <3>1
    <3>2. CASE x # t
        BY <3>2
    <3> QED BY <3>1, <3>2
  <2>3. \A c \in open' : c \in open
    BY <1>1
  <2> QED BY <2>2, <2>3, LeakFree
<1>7. pc["main"] \notin Calling /\ pc'["main"] \notin Calling
    OBVIOUS
<1>8. EnteringOK'
    BY <1>7
<1>9. SenderOK'
  <2>1. \A h \in Heartbeats : pc'[h] \in Calling => writes'[h] > 0
    OBVIOUS
  <2>2. \A h \in Heartbeats :
           pc'[h] # "off" /\ h # hbTask' => h \in cancelled' /\ pc'[h] = "restoring"
    OBVIOUS
  <2>3. \A x \in Tasks : x \in cancelled' => pc'[x] # "off"
    OBVIOUS
  <2>4. pc'["main"] \in {"restoring", "body"} =>
           pc'[hbTask'] # "off" /\ hbTask' \notin cancelled' /\ ~aborted'
    OBVIOUS
  <2>5. pc'["main"] = "body" /\ active' # NoConn => monitor' = Monitoring
    OBVIOUS
  <2> QED BY <2>1, <2>2, <2>3, <2>4, <2>5
<1>10. ListenerOK' /\ SealedOK'
    BY <1>1
<1> QED BY <1>3, <1>4, <1>5, <1>6, <1>8, <1>9, <1>10

LEMMA RestoreSucceedsIInv ==
    ASSUME IInv, NEW t \in Tasks, RestoreSucceeds(t)
    PROVE  IInv'
<1> USE DEF IInv, RestoreSucceeds, ReleaseLock, Obtain, CanCreateTask
<1>1. TypeOK' /\ PlacesOK' /\ OneConnector'
    OBVIOUS
<1>2. ConnectionsOK' /\ PreparingOK' /\ OpenIsHeld'
    OBVIOUS
<1>3. EnteringOK' /\ SenderOK'
    OBVIOUS
<1>4. ListenerOK' /\ SealedOK'
    OBVIOUS
<1> QED BY <1>1, <1>2, <1>3, <1>4

LEMMA BackoffIInv ==
    ASSUME IInv, NEW t \in Tasks, Backoff(t)
    PROVE  IInv'
<1> USE DEF IInv, Backoff, MoreAttempts, ReleaseLock, RaiseFailedAll, Raises
<1>1. TypeOK'
  <2>1. pc' \in [Tasks -> Places]
    OBVIOUS
  <2>2. conn' \in [Tasks -> Nat]
    OBVIOUS
  <2>3. attempt' \in 0..ConnectAttempts
    OBVIOUS
  <2>4. cancelled' \subseteq Background
    <3>1. CASE cancelled' = cancelled
        BY <3>1
    <3>2. CASE cancelled' = (cancelled \ Heartbeats)
                       \cup {x \in {"listener"} : pc["main"] = "body" /\ pc[x] # "off"}
        BY <3>2
    <3> QED BY <3>1, <3>2
  <2>5. monitor' \in BOOLEAN /\ aborted' \in BOOLEAN
    OBVIOUS
  <2> QED BY <2>1, <2>2, <2>3, <2>4, <2>5
<1>2. PlacesOK' /\ OneConnector'
    OBVIOUS
<1>3. ConnectionsOK' /\ PreparingOK' /\ OpenIsHeld'
    OBVIOUS
<1>4. EnteringOK'
  <2>1. SUFFICES ASSUME pc'["main"] \in Calling PROVE EnteringOK'
    OBVIOUS
  <2>2. pc["main"] \in Calling
    BY <2>1
  <2>3. t = "main" /\ MoreAttempts
    BY <2>1, <2>2
  <2>4. UNCHANGED <<active, cancelled, aborted>>
    BY <2>3
  <2>5. \A x \in Tasks \ {"main"} : pc'[x] = pc[x]
    BY <2>3
  <2>6. \A h \in Heartbeats : pc[h] = "off"
    BY <2>2, <2>3
  <2> QED BY <2>2, <2>4, <2>5, <2>6
<1>5. SenderOK'
  <2>1. \A h \in Heartbeats : pc'[h] \in Calling => writes'[h] > 0
    OBVIOUS
  <2>2. \A h \in Heartbeats :
           pc'[h] # "off" /\ h # hbTask' => h \in cancelled' /\ pc'[h] = "restoring"
    OBVIOUS
  <2>3. \A x \in Tasks : x \in cancelled' => pc'[x] # "off"
    OBVIOUS
  <2>4. pc'["main"] \in {"restoring", "body"} =>
           pc'[hbTask'] # "off" /\ hbTask' \notin cancelled' /\ ~aborted'
    OBVIOUS
  <2>5. pc'["main"] = "body" /\ active' # NoConn => monitor' = Monitoring
    OBVIOUS
  <2> QED BY <2>1, <2>2, <2>3, <2>4, <2>5
<1>6. ListenerOK' /\ SealedOK'
    OBVIOUS
<1> QED BY <1>1, <1>2, <1>3, <1>4, <1>5, <1>6

LEMMA StartWriteIInv ==
    ASSUME IInv, NEW t \in Tasks, StartWrite(t)
    PROVE  IInv'
<1> USE DEF IInv, StartWrite, CanCreateTask, Harm
<1>1. TypeOK' /\ PlacesOK' /\ OneConnector'
    OBVIOUS
<1>2. ConnectionsOK' /\ PreparingOK' /\ OpenIsHeld'
    OBVIOUS
<1>3. EnteringOK' /\ SenderOK'
    OBVIOUS
<1>4. ListenerOK' /\ SealedOK'
    OBVIOUS
<1> QED BY <1>1, <1>2, <1>3, <1>4

LEMMA StartMaybeWriteIInv ==
    ASSUME IInv, NEW t \in Tasks, StartMaybeWrite(t)
    PROVE  IInv'
<1> USE DEF IInv, StartMaybeWrite
<1>1. TypeOK' /\ PlacesOK' /\ OneConnector'
    OBVIOUS
<1>2. ConnectionsOK' /\ PreparingOK' /\ OpenIsHeld'
    OBVIOUS
<1>3. EnteringOK' /\ SenderOK'
    OBVIOUS
<1>4. ListenerOK' /\ SealedOK'
    OBVIOUS
<1> QED BY <1>1, <1>2, <1>3, <1>4

LEMMA WriteSucceedsIInv ==
    ASSUME IInv, NEW t \in Tasks, WriteSucceeds(t)
    PROVE  IInv'
<1> USE DEF IInv, WriteSucceeds
<1>1. TypeOK' /\ PlacesOK' /\ OneConnector'
    OBVIOUS
<1>2. ConnectionsOK' /\ PreparingOK' /\ OpenIsHeld'
    OBVIOUS
<1>3. EnteringOK' /\ SenderOK'
  <2>1. t \notin cancelled /\ t \notin Heartbeats /\ t # "main"
    OBVIOUS
  <2>2. EnteringOK'
    BY <2>1
  <2>3. SenderOK'
    BY <2>1
  <2> QED BY <2>2, <2>3
<1>4. ListenerOK' /\ SealedOK'
    OBVIOUS
<1> QED BY <1>1, <1>2, <1>3, <1>4

LEMMA WriteLostIInv ==
    ASSUME IInv, NEW t \in Tasks, WriteLost(t)
    PROVE  IInv'
<1> USE DEF IInv, WriteLost, Discarded
<1>1. Discarded(conn[t])
    BY DiscardEffect
<1>2. adverse' \in 0..MaxAdverse
    BY DEF Breaks, Harm
<1>3. TypeOK'
  <2>1. open' \subseteq 1..opened'
    BY <1>1
  <2>2. /\ pc' \in [Tasks -> Places]
        /\ conn' \in [Tasks -> Nat]
        /\ writes' \in [Tasks -> 0..WriteAttempts]
    OBVIOUS
  <2>3. active' \in Nat /\ count' \in Nat
    BY <1>1
  <2> QED BY <1>2, <2>1, <2>2, <2>3
<1>4. PlacesOK' /\ OneConnector'
    BY <1>1
<1>5. ConnectionsOK' /\ PreparingOK'
    BY <1>1
<1>6. OpenIsHeld'
  <2>1. active \notin open' \/ active' = active
    BY <1>1
  <2>2. \A x \in Tasks : pc[x] \in Preparing => pc'[x] \in Preparing /\ conn'[x] = conn[x]
    OBVIOUS
  <2>3. \A c \in open' : c \in open
    BY <1>1
  <2> QED BY <2>1, <2>2, <2>3, LeakFree
<1>7. EnteringOK' /\ SenderOK'
  <2>1. t \notin cancelled /\ t \notin Heartbeats /\ t # "main"
    OBVIOUS
  <2>2. EnteringOK'
    BY <1>1, <2>1
  <2>3. SenderOK'
    BY <1>1, <2>1
  <2> QED BY <2>2, <2>3
<1>8. ListenerOK' /\ SealedOK'
    BY <1>1
<1> QED BY <1>3, <1>4, <1>5, <1>6, <1>7, <1>8

LEMMA ReadLostIInv ==
    ASSUME IInv, ReadLost
    PROVE  IInv'
<1> USE DEF IInv, ReadLost, Discarded
<1>1. Discarded(conn["listener"])
    BY DiscardEffect
<1>2. adverse' \in 0..MaxAdverse
    BY DEF Breaks, Harm
<1>3. TypeOK'
  <2>1. open' \subseteq 1..opened'
    BY <1>1
  <2>2. /\ pc' \in [Tasks -> Places]
        /\ conn' \in [Tasks -> Nat]
        /\ writes' \in [Tasks -> 0..WriteAttempts]
    OBVIOUS
  <2>3. active' \in Nat /\ count' \in Nat
    BY <1>1
  <2> QED BY <1>2, <2>1, <2>2, <2>3
<1>4. PlacesOK' /\ OneConnector'
    BY <1>1
<1>5. ConnectionsOK' /\ PreparingOK'
    BY <1>1
<1>6. OpenIsHeld'
  <2>1. active \notin open' \/ active' = active
    BY <1>1
  <2>2. \A x \in Tasks : pc[x] \in Preparing => pc'[x] \in Preparing /\ conn'[x] = conn[x]
    OBVIOUS
  <2>3. \A c \in open' : c \in open
    BY <1>1
  <2> QED BY <2>1, <2>2, <2>3, LeakFree
<1>7. EnteringOK' /\ SenderOK'
    BY <1>1
<1>8. ListenerOK' /\ SealedOK'
    BY <1>1
<1> QED BY <1>3, <1>4, <1>5, <1>6, <1>7, <1>8

LEMMA HeartbeatSucceedsIInv ==
    ASSUME IInv, NEW t \in Tasks, HeartbeatSucceeds(t)
    PROVE  IInv'
<1> USE DEF IInv, HeartbeatSucceeds
<1>1. TypeOK' /\ PlacesOK' /\ OneConnector'
    OBVIOUS
<1>2. ConnectionsOK' /\ PreparingOK' /\ OpenIsHeld'
    OBVIOUS
<1>3. EnteringOK' /\ SenderOK'
    OBVIOUS
<1>4. ListenerOK' /\ SealedOK'
    OBVIOUS
<1> QED BY <1>1, <1>2, <1>3, <1>4

LEMMA HeartbeatLostIInv ==
    ASSUME IInv, NEW t \in Tasks, HeartbeatLost(t)
    PROVE  IInv'
<1> USE DEF IInv, HeartbeatLost, Discarded, RaiseFailedAll, Raises
<1>1. Discarded(active)
    BY DiscardEffect
<1>2. adverse' \in 0..MaxAdverse
    BY DEF Harm
<1>3. TypeOK'
  <2>1. open' \subseteq 1..opened'
    BY <1>1
  <2>2. /\ pc' \in [Tasks -> Places]
        /\ conn' \in [Tasks -> Nat]
        /\ writes' \in [Tasks -> 0..WriteAttempts]
    OBVIOUS
  <2>3. active' \in Nat /\ count' \in Nat
    BY <1>1
  <2>4. cancelled' \subseteq Background
    <3>1. CASE cancelled' = cancelled
        BY <3>1
    <3>2. CASE cancelled' = (cancelled \ Heartbeats)
                       \cup {x \in {"listener"} : pc["main"] = "body" /\ pc[x] # "off"}
        BY <3>2
    <3> QED BY <3>1, <3>2
  <2>5. monitor' \in BOOLEAN /\ aborted' \in BOOLEAN
    OBVIOUS
  <2> QED BY <1>2, <2>1, <2>2, <2>3, <2>4, <2>5
<1>4. PlacesOK' /\ OneConnector'
    BY <1>1
<1>5. ConnectionsOK' /\ PreparingOK'
    BY <1>1
<1>6. OpenIsHeld'
  <2>1. active \notin open' \/ active' = active
    BY <1>1
  <2>2. \A x \in Tasks : pc[x] \in Preparing => pc'[x] \in Preparing /\ conn'[x] = conn[x]
    OBVIOUS
  <2>3. \A c \in open' : c \in open
    BY <1>1
  <2> QED BY <2>1, <2>2, <2>3, LeakFree
<1>7. EnteringOK'
    BY <1>1
<1>8. SenderOK'
  <2>1. \A h \in Heartbeats : pc'[h] \in Calling => writes'[h] > 0
    BY <1>1
  <2>2. \A h \in Heartbeats :
           pc'[h] # "off" /\ h # hbTask' => h \in cancelled' /\ pc'[h] = "restoring"
    BY <1>1
  <2>3. \A x \in Tasks : x \in cancelled' => pc'[x] # "off"
    BY <1>1
  <2>4. pc'["main"] \in {"restoring", "body"} =>
           pc'[hbTask'] # "off" /\ hbTask' \notin cancelled' /\ ~aborted'
    BY <1>1
  <2>5. pc'["main"] = "body" /\ active' # NoConn => monitor' = Monitoring
    BY <1>1
  <2> QED BY <2>1, <2>2, <2>3, <2>4, <2>5
<1>9. ListenerOK' /\ SealedOK'
    BY <1>1
<1> QED BY <1>3, <1>4, <1>5, <1>6, <1>7, <1>8, <1>9

LEMMA WakeIInv ==
    ASSUME IInv, NEW t \in Tasks, Wake(t)
    PROVE  IInv'
<1> USE DEF IInv, Wake
<1>1. TypeOK' /\ PlacesOK' /\ OneConnector'
    OBVIOUS
<1>2. ConnectionsOK' /\ PreparingOK' /\ OpenIsHeld'
    OBVIOUS
<1>3. EnteringOK' /\ SenderOK'
    OBVIOUS
<1>4. ListenerOK' /\ SealedOK'
    OBVIOUS
<1> QED BY <1>1, <1>2, <1>3, <1>4

LEMMA MonitorFiresIInv ==
    ASSUME IInv, MonitorFires
    PROVE  IInv'
<1> USE DEF IInv, MonitorFires, Discarded
<1>1. Discarded(active)
    BY DiscardEffect
<1>2. adverse' \in 0..MaxAdverse
    BY DEF Harm
<1>3. TypeOK'
  <2>1. open' \subseteq 1..opened'
    BY <1>1
  <2>2. /\ pc' \in [Tasks -> Places]
        /\ conn' \in [Tasks -> Nat]
        /\ writes' \in [Tasks -> 0..WriteAttempts]
    OBVIOUS
  <2>3. active' \in Nat /\ count' \in Nat
    BY <1>1
  <2> QED BY <1>2, <2>1, <2>2, <2>3
<1>4. PlacesOK' /\ OneConnector'
    BY <1>1
<1>5. ConnectionsOK' /\ PreparingOK'
    BY <1>1
<1>6. OpenIsHeld'
  <2>1. active \notin open' \/ active' = active
    BY <1>1
  <2>2. \A x \in Tasks : pc[x] \in Preparing => pc'[x] \in Preparing /\ conn'[x] = conn[x]
    OBVIOUS
  <2>3. \A c \in open' : c \in open
    BY <1>1
  <2> QED BY <2>1, <2>2, <2>3, LeakFree
<1>7. EnteringOK' /\ SenderOK'
    BY <1>1
<1>8. ListenerOK' /\ SealedOK'
    BY <1>1
<1> QED BY <1>3, <1>4, <1>5, <1>6, <1>7, <1>8

LEMMA CancelIInv ==
    ASSUME IInv, NEW t \in Tasks, Cancel(t)
    PROVE  IInv'
<1> USE DEF IInv, Cancel, ReleaseLock
<1>1. \A x : x \in open' <=> x \in open /\ ~(pc[t] \in Preparing /\ x = conn[t])
    BY DEF CloseUnestablished
<1>2. adverse' \in 0..MaxAdverse
    BY DEF Harm
<1>3. TypeOK'
  <2>1. open' \subseteq 1..opened'
    BY <1>1
  <2>2. /\ pc' \in [Tasks -> Places]
        /\ conn' \in [Tasks -> Nat]
        /\ writes' \in [Tasks -> 0..WriteAttempts]
    OBVIOUS
  <2>3. orphaned' \in BOOLEAN /\ gaveUp' \in BOOLEAN
    BY DEF LeaveDialling
  <2> QED BY <1>2, <2>1, <2>2, <2>3
<1>4. PlacesOK' /\ OneConnector'
    BY <1>1
<1>5. ConnectionsOK' /\ PreparingOK'
    BY <1>1
<1>6. OpenIsHeld'
  <2>0. pc[t] \in Preparing => conn[t] \notin open'
    BY DEF CloseUnestablished
  <2>1. \A x \in Tasks : pc[x] \in Preparing =>
           conn[x] \notin open' \/ (pc'[x] \in Preparing /\ conn'[x] = conn[x])
    <3> TAKE x \in Tasks
    <3>1. CASE x = t
        BY <2>0, <3>1
    <3>2. CASE x # t
        BY <3>2
    <3> QED BY <3>1, <3>2
  <2>2. \A c \in open' : c \in open
    BY <1>1
  <2> QED BY <2>1, <2>2, LeakFree
<1>7. EnteringOK' /\ SenderOK'
    BY <1>1
<1>8. ListenerOK' /\ SealedOK'
    BY <1>1
<1> QED BY <1>3, <1>4, <1>5, <1>6, <1>7, <1>8

LEMMA LeaveIInv ==
    ASSUME IInv, Leave
    PROVE  IInv'
<1> USE DEF IInv, Leave
<1>1. TypeOK' /\ PlacesOK' /\ OneConnector'
  <2>1. TypeOK'
    OBVIOUS
  <2>2. PlacesOK'
    OBVIOUS
  <2>3. OneConnector'
    OBVIOUS
  <2> QED BY <2>1, <2>2, <2>3
<1>2. ConnectionsOK' /\ PreparingOK' /\ OpenIsHeld'
    OBVIOUS
<1>3. EnteringOK' /\ SenderOK'
    OBVIOUS
<1>4. ListenerOK' /\ SealedOK'
    OBVIOUS
<1> QED BY <1>1, <1>2, <1>3, <1>4

LEMMA CancelBackgroundTasksIInv ==
    ASSUME IInv, CancelBackgroundTasks
    PROVE  IInv'
<1> USE DEF IInv, CancelBackgroundTasks
<1>1. TypeOK' /\ PlacesOK' /\ OneConnector'
  <2>1. TypeOK'
    OBVIOUS
  <2>2. PlacesOK'
    OBVIOUS
  <2>3. OneConnector'
    OBVIOUS
  <2> QED BY <2>1, <2>2, <2>3
<1>2. ConnectionsOK' /\ PreparingOK' /\ OpenIsHeld'
    OBVIOUS
<1>3. EnteringOK' /\ SenderOK'
    OBVIOUS
<1>4. ListenerOK' /\ SealedOK'
    OBVIOUS
<1> QED BY <1>1, <1>2, <1>3, <1>4

LEMMA TaskGroupEndsIInv ==
    ASSUME IInv, TaskGroupEnds
    PROVE  IInv'
<1> USE DEF IInv, TaskGroupEnds
<1>1. TypeOK' /\ PlacesOK' /\ OneConnector'
    OBVIOUS
<1>2. ConnectionsOK' /\ PreparingOK' /\ OpenIsHeld'
    OBVIOUS
<1>3. EnteringOK' /\ SenderOK'
    OBVIOUS
<1>4. ListenerOK' /\ SealedOK'
    OBVIOUS
<1> QED BY <1>1, <1>2, <1>3, <1>4

LEMMA UnsubscribeLostIInv ==
    ASSUME IInv, UnsubscribeLost
    PROVE  IInv'
<1> USE DEF IInv, UnsubscribeLost, Discarded
<1>1. Discarded(conn["main"])
    BY DiscardEffect
<1>2. adverse' \in 0..MaxAdverse
    BY DEF Breaks, Harm
<1>3. TypeOK'
  <2>1. open' \subseteq 1..opened'
    BY <1>1
  <2>2. /\ pc' \in [Tasks -> Places]
        /\ conn' \in [Tasks -> Nat]
        /\ writes' \in [Tasks -> 0..WriteAttempts]
    OBVIOUS
  <2>3. active' \in Nat /\ count' \in Nat
    BY <1>1
  <2> QED BY <1>2, <2>1, <2>2, <2>3
<1>4. PlacesOK' /\ OneConnector'
    BY <1>1
<1>5. ConnectionsOK' /\ PreparingOK'
    BY <1>1
<1>6. OpenIsHeld'
  <2>1. active \notin open' \/ active' = active
    BY <1>1
  <2>2. \A x \in Tasks : pc[x] \in Preparing => pc'[x] \in Preparing /\ conn'[x] = conn[x]
    OBVIOUS
  <2>3. \A c \in open' : c \in open
    BY <1>1
  <2> QED BY <2>1, <2>2, <2>3, LeakFree
<1>7. EnteringOK' /\ SenderOK'
    BY <1>1
<1>8. ListenerOK' /\ SealedOK'
    BY <1>1
<1> QED BY <1>3, <1>4, <1>5, <1>6, <1>7, <1>8

LEMMA CloseActiveIInv ==
    ASSUME IInv, CloseActive
    PROVE  IInv'
<1> USE DEF IInv, CloseActive
<1>1. TypeOK' /\ PlacesOK' /\ OneConnector'
  <2>1. TypeOK'
    OBVIOUS
  <2>2. PlacesOK'
    OBVIOUS
  <2>3. OneConnector'
    OBVIOUS
  <2> QED BY <2>1, <2>2, <2>3
<1>2. ConnectionsOK' /\ PreparingOK' /\ OpenIsHeld'
  <2>1. ConnectionsOK'
    OBVIOUS
  <2>2. PreparingOK'
    OBVIOUS
  <2>3. OpenIsHeld'
    OBVIOUS
  <2> QED BY <2>1, <2>2, <2>3
<1>3. EnteringOK' /\ SenderOK'
    OBVIOUS
<1>4. ListenerOK' /\ SealedOK'
    OBVIOUS
<1> QED BY <1>1, <1>2, <1>3, <1>4

-----------------------------------------------------------------------------
LEMMA NextIInv == IInv /\ [Next]_vars => IInv'
<1> SUFFICES ASSUME IInv, [Next]_vars PROVE IInv'
    OBVIOUS
<1>1. CASE UNCHANGED vars
    BY <1>1 DEF IInv, vars
<1>2. ASSUME NEW t \in Tasks,
             \/ GetActive(t) \/ AcquireLock(t) \/ Connect(t)
             \/ HandshakeFails(t) \/ HandshakeSucceeds(t)
             \/ RestoreFails(t) \/ RestoreRaises(t) \/ RestoreSucceeds(t) \/ Backoff(t)
      PROVE  IInv'
    BY <1>2, GetActiveIInv, AcquireLockIInv, ConnectIInv, HandshakeFailsIInv,
       HandshakeSucceedsIInv, RestoreFailsIInv, RestoreRaisesIInv, RestoreSucceedsIInv,
       BackoffIInv
<1>3. ASSUME NEW t \in Tasks,
             \/ StartWrite(t) \/ StartMaybeWrite(t) \/ WriteSucceeds(t) \/ WriteLost(t)
             \/ HeartbeatSucceeds(t) \/ HeartbeatLost(t) \/ Wake(t) \/ Cancel(t)
      PROVE  IInv'
    BY <1>3, StartWriteIInv, StartMaybeWriteIInv, WriteSucceedsIInv, WriteLostIInv,
       HeartbeatSucceedsIInv, HeartbeatLostIInv, WakeIInv, CancelIInv
<1>4. CASE HeartbeatHandshakeSucceeds \/ ReadLost \/ MonitorFires
    BY <1>4, HeartbeatHandshakeSucceedsIInv, ReadLostIInv, MonitorFiresIInv
<1>5. CASE Leave \/ CancelBackgroundTasks \/ TaskGroupEnds \/ UnsubscribeLost \/ CloseActive
    BY <1>5, LeaveIInv, CancelBackgroundTasksIInv, TaskGroupEndsIInv,
       UnsubscribeLostIInv, CloseActiveIInv
<1>6. CASE Stopped
    BY <1>6 DEF Stopped, IInv, vars
<1> QED BY <1>1, <1>2, <1>3, <1>4, <1>5, <1>6 DEF Next

(* The inductive invariant holds in every reachable state, whatever the    *)
(* number of users, the retry limits and the amount of harm.               *)
THEOREM Invariance == Spec => []IInv
<1>1. Init => IInv
    BY InitIInv
<1>2. IInv /\ [Next]_vars => IInv'
    BY NextIInv
<1> QED BY <1>1, <1>2, PTL DEF Spec

(* Every variable of the manager keeps its type and the retry counters     *)
(* (attempt, writes) stay in their ranges.                                 *)
THEOREM TypeCorrect == Spec => []TypeOK
<1>1. IInv => TypeOK
    BY DEF IInv
<1> QED BY <1>1, Invariance, PTL

(* Only the holder of _reconnect_lock connects, and only while there is no *)
(* active connection.                                                      *)
THEOREM MutualExclusion == Spec => []OneConnector
<1>1. IInv => OneConnector
    BY DEF IInv
<1> QED BY <1>1, Invariance, PTL

(* A connection that is nobody's takes a dial that nobody awaits: one of   *)
(* the slower servers, or any server once its task was cancelled.          *)
DialsOK == orphaned => gaveUp \/ (Servers > 1 /\ opened > 0)

LEMMA NextDialsOK == IInv /\ DialsOK /\ [Next]_vars => DialsOK'
<1> SUFFICES ASSUME IInv, DialsOK, [Next]_vars PROVE DialsOK'
    OBVIOUS
<1> USE DEF DialsOK, dialVars
<1>0. opened \in Nat
    BY DEF IInv
<1>1. ASSUME NEW t \in Tasks, Connect(t)
      PROVE  DialsOK'
  <2>1. \/ UNCHANGED <<dialVars, opened>>
        \/ opened' = opened + 1 /\ gaveUp' = gaveUp
              /\ (orphaned' = orphaned \/ Servers - 1 > 0)
    BY <1>1 DEF Connect, LeaveDialling
  <2>2. opened' = opened + 1 => opened' > 0 /\ (Servers - 1 > 0 => Servers > 1)
    BY <1>0
  <2> QED BY <2>1, <2>2, Zenon
<1>2. ASSUME NEW t \in Tasks, Cancel(t)
      PROVE  DialsOK'
    BY <1>2 DEF Cancel
<1>3. CASE UNCHANGED <<dialVars, opened>>
    BY <1>3
<1>4. ASSUME Next, ~(\E t \in Tasks : Connect(t) \/ Cancel(t))
      PROVE  UNCHANGED <<dialVars, opened>>
  <2>1. ASSUME NEW t \in Tasks,
               \/ GetActive(t) \/ AcquireLock(t) \/ HandshakeFails(t) \/ HandshakeSucceeds(t)
               \/ RestoreFails(t) \/ RestoreRaises(t) \/ RestoreSucceeds(t) \/ Backoff(t)
        PROVE  UNCHANGED <<dialVars, opened>>
    BY <2>1 DEF GetActive, AcquireLock, HandshakeFails, HandshakeSucceeds,
       RestoreFails, RestoreRaises, RestoreSucceeds, Backoff
  <2>2. ASSUME NEW t \in Tasks,
               \/ StartWrite(t) \/ StartMaybeWrite(t) \/ WriteSucceeds(t) \/ WriteLost(t)
               \/ HeartbeatSucceeds(t) \/ HeartbeatLost(t) \/ Wake(t)
        PROVE  UNCHANGED <<dialVars, opened>>
    BY <2>2 DEF StartWrite, StartMaybeWrite, WriteSucceeds, WriteLost,
       HeartbeatSucceeds, HeartbeatLost, Wake
  <2>3. CASE HeartbeatHandshakeSucceeds \/ ReadLost \/ MonitorFires
    BY <2>3 DEF HeartbeatHandshakeSucceeds, ReadLost, MonitorFires
  <2>4. CASE \/ Leave \/ CancelBackgroundTasks \/ TaskGroupEnds
             \/ UnsubscribeLost \/ CloseActive \/ Stopped
    BY <2>4 DEF Leave, CancelBackgroundTasks, TaskGroupEnds, UnsubscribeLost,
       CloseActive, Stopped, vars
  <2> QED BY <1>4, <2>1, <2>2, <2>3, <2>4 DEF Next
<1>5. CASE UNCHANGED vars
    BY <1>5 DEF vars
<1> QED BY <1>1, <1>2, <1>3, <1>4, <1>5

(* Every connection the manager got is closed, active or in preparation,   *)
(* whatever fails, is cancelled or raises; only the dials that nobody      *)
(* awaits (connection_manager.py:167-171) leave connections behind.        *)
THEOREM WhatLeaks == Spec => []OnlyUnawaitedDialsLeak
<1>1. Init => DialsOK
    BY DEF Init, DialsOK
<1>2. IInv /\ DialsOK => OnlyUnawaitedDialsLeak
    BY DEF IInv, DialsOK, OpenIsHeld, OnlyUnawaitedDialsLeak
<1> QED BY <1>1, <1>2, NextDialsOK, Invariance, PTL DEF Spec

(* The epoch that the listener attaches to what it reads equals the        *)
(* reconnection count exactly as long as its connection is the active one. *)
THEOREM EpochIsExact == Spec => []EpochNamesConnection
<1>1. IInv => EpochNamesConnection
    BY DEF IInv
<1> QED BY <1>1, Invariance, PTL

(* In the client's body an active connection always has its heartbeat      *)
(* sender and its monitor, also when the sender cancelled itself.          *)
THEOREM SenderLives == Spec => []BackgroundTasksAlive
<1>1. IInv => BackgroundTasksAlive
    BY DEF IInv, BackgroundTasksAlive
<1> QED BY <1>1, Invariance, PTL

-----------------------------------------------------------------------------
(* Which steps touch the slot, and how.                                    *)

\* The step does not touch the slot.
SlotUntouched == UNCHANGED active

\* The step fails the active connection.
SlotDiscarded == active' = NoConn /\ count' = count + 1 /\ active \notin open'

LEMMA SlotSteps ==
    ASSUME IInv, Next
    PROVE  \/ SlotUntouched
           \/ active # NoConn /\ SlotDiscarded
           \/ active = NoConn
           \/ CloseActive
<1> USE DEF IInv, SlotUntouched, SlotDiscarded
<1>1. ASSUME NEW t \in Tasks,
             \/ GetActive(t) \/ AcquireLock(t) \/ Connect(t)
             \/ HandshakeFails(t) \/ HandshakeSucceeds(t)
             \/ RestoreFails(t) \/ RestoreRaises(t) \/ Backoff(t)
             \/ StartWrite(t) \/ StartMaybeWrite(t) \/ WriteSucceeds(t)
             \/ HeartbeatSucceeds(t) \/ Wake(t) \/ Cancel(t)
      PROVE  SlotUntouched
    BY <1>1 DEF GetActive, AcquireLock, Connect, HandshakeFails, HandshakeSucceeds,
       RestoreFails, RestoreRaises, Backoff, StartWrite, StartMaybeWrite, WriteSucceeds,
       HeartbeatSucceeds, Wake, Cancel
<1>2. CASE Leave \/ CancelBackgroundTasks \/ TaskGroupEnds \/ Stopped
    BY <1>2 DEF Leave, CancelBackgroundTasks, TaskGroupEnds, Stopped, vars
<1>3. ASSUME NEW t \in Tasks, RestoreSucceeds(t)
      PROVE  active = NoConn
    BY <1>3 DEF RestoreSucceeds
<1>4. CASE HeartbeatHandshakeSucceeds
    BY <1>4 DEF HeartbeatHandshakeSucceeds
<1>5. ASSUME NEW t \in Tasks, WriteLost(t) \/ HeartbeatLost(t)
      PROVE  SlotUntouched \/ (active # NoConn /\ SlotDiscarded)
    BY <1>5 DEF WriteLost, HeartbeatLost, Discard
<1>6. CASE ReadLost \/ MonitorFires \/ UnsubscribeLost
    BY <1>6 DEF ReadLost, MonitorFires, UnsubscribeLost, Discard
<1> QED BY <1>1, <1>2, <1>3, <1>4, <1>5, <1>6 DEF Next

(* A connection leaves the slot only by being closed in the same step, and *)
(* is counted unless exit closes it: a failure noticed late never takes    *)
(* away a newer connection.                                                *)
THEOREM LateFailuresHarmless == Spec => ActiveLeavesClosed
<1> DEFINE A == active # NoConn /\ active' # active =>
                  /\ active' = NoConn
                  /\ active \notin open'
                  /\ count' = count + 1 \/ pc["main"] = "closing"
<1>1. IInv /\ [Next]_vars => [A]_vars
  <2> SUFFICES ASSUME IInv, Next, active # NoConn, active' # active
               PROVE  /\ active' = NoConn
                      /\ active \notin open'
                      /\ count' = count + 1 \/ pc["main"] = "closing"
    BY DEF vars
  <2>1. CASE CloseActive
    BY <2>1 DEF CloseActive
  <2>2. CASE ~CloseActive
    BY <2>2, SlotSteps DEF SlotUntouched, SlotDiscarded
  <2> QED BY <2>1, <2>2
<1> QED BY <1>1, Invariance, PTL DEF Spec, ActiveLeavesClosed

-----------------------------------------------------------------------------
(* What exit leaves behind.                                                *)

Exiting == pc["main"] \in {"closing", "closed"}

(* The senders are gone for good.  A connection in the slot is the one     *)
(* exit is about to close, or a task of the application made it after exit *)
(* had found none.                                                         *)
ExitOK ==
    Exiting =>
        /\ \A h \in Heartbeats : pc[h] = "off"
        /\ \/ active = NoConn
           \/ pc["main"] = "closing" /\ active = conn["main"]
           \/ Users # {} /\ conn["main"] = NoConn

\* Main and the senders stay where they are.
ExitSettled ==
    /\ pc'["main"] = pc["main"] /\ conn'["main"] = conn["main"]
    /\ \A h \in Heartbeats : pc'[h] = "off"

\* Only TaskGroupEnds begins the exit of the connection.
LEMMA ExitBegins ==
    ASSUME IInv, Next, ~Exiting, Exiting'
    PROVE  TaskGroupEnds
<1> USE DEF IInv, Exiting
<1>1. ASSUME NEW t \in Tasks, GetActive(t) \/ AcquireLock(t) \/ Connect(t) \/ HandshakeFails(t)
      PROVE  FALSE
    BY <1>1 DEF GetActive, AcquireLock, Connect, HandshakeFails, Obtain
<1>2. ASSUME NEW t \in Tasks, HandshakeSucceeds(t) \/ RestoreFails(t) \/ RestoreSucceeds(t)
      PROVE  FALSE
    BY <1>2 DEF HandshakeSucceeds, RestartHeartbeat, RestoreFails, RestoreSucceeds, Obtain
<1>3. ASSUME NEW t \in Tasks, RestoreRaises(t) \/ Backoff(t) \/ HeartbeatLost(t)
      PROVE  FALSE
    BY <1>3 DEF RestoreRaises, Backoff, HeartbeatLost, RaiseFailedAll, Raises
<1>4. ASSUME NEW t \in Tasks,
             \/ StartWrite(t) \/ StartMaybeWrite(t) \/ WriteSucceeds(t) \/ WriteLost(t)
             \/ HeartbeatSucceeds(t) \/ Wake(t) \/ Cancel(t)
      PROVE  FALSE
    BY <1>4 DEF StartWrite, StartMaybeWrite, WriteSucceeds, WriteLost, HeartbeatSucceeds, Wake, Cancel
<1>5. CASE HeartbeatHandshakeSucceeds \/ ReadLost \/ MonitorFires
    BY <1>5 DEF HeartbeatHandshakeSucceeds, ReadLost, MonitorFires
<1>6. CASE Leave \/ CancelBackgroundTasks \/ UnsubscribeLost \/ CloseActive \/ Stopped
    BY <1>6 DEF Leave, CancelBackgroundTasks, UnsubscribeLost, CloseActive, Stopped, vars
<1> QED BY <1>1, <1>2, <1>3, <1>4, <1>5, <1>6 DEF Next

(* Once it has begun only the application's tasks move, and none of them   *)
(* puts a connection into the slot unless exit had found it empty.         *)
LEMMA ExitContinues ==
    ASSUME IInv, ExitOK, Next, Exiting, ~CloseActive
    PROVE  /\ ExitSettled
           /\ active' \in {NoConn, active} \/ (Users # {} /\ conn["main"] = NoConn)
<1> USE DEF IInv, Exiting, ExitOK, ExitSettled
<1>1. ~CanCreateTask
    BY DEF CanCreateTask
<1>2. ASSUME NEW t \in Tasks, GetActive(t) \/ AcquireLock(t) \/ Connect(t) \/ HandshakeFails(t)
      PROVE  ExitSettled /\ active' = active
    BY <1>2 DEF GetActive, AcquireLock, Connect, HandshakeFails, Obtain
<1>3. ASSUME NEW t \in Tasks, HandshakeSucceeds(t) \/ RestoreFails(t)
      PROVE  ExitSettled /\ active' = active
    BY <1>1, <1>3 DEF HandshakeSucceeds, RestoreFails
<1>4. ASSUME NEW t \in Tasks, RestoreSucceeds(t)
      PROVE  ExitSettled /\ Users # {} /\ conn["main"] = NoConn
    BY <1>4 DEF RestoreSucceeds, Obtain
<1>5. ASSUME NEW t \in Tasks, RestoreRaises(t) \/ Backoff(t)
      PROVE  ExitSettled /\ active' = active
    BY <1>5 DEF RestoreRaises, Backoff, RaiseFailedAll, Raises
<1>6. ASSUME NEW t \in Tasks,
             \/ StartWrite(t) \/ StartMaybeWrite(t) \/ WriteSucceeds(t)
             \/ HeartbeatSucceeds(t) \/ Wake(t) \/ Cancel(t)
      PROVE  ExitSettled /\ active' = active
    BY <1>6 DEF StartWrite, StartMaybeWrite, WriteSucceeds, HeartbeatSucceeds, Wake, Cancel
<1>7. ASSUME NEW t \in Tasks, WriteLost(t) \/ HeartbeatLost(t)
      PROVE  ExitSettled /\ active' \in {NoConn, active}
    BY <1>7 DEF WriteLost, HeartbeatLost, Discard
<1>8. CASE HeartbeatHandshakeSucceeds
    BY <1>1, <1>8 DEF HeartbeatHandshakeSucceeds
<1>9. CASE ReadLost \/ MonitorFires \/ UnsubscribeLost
    BY <1>9 DEF ReadLost, MonitorFires, UnsubscribeLost, Discard
<1>10. CASE Leave \/ CancelBackgroundTasks \/ TaskGroupEnds \/ Stopped
    BY <1>10 DEF Leave, CancelBackgroundTasks, TaskGroupEnds, Stopped, vars
<1> QED BY <1>2, <1>3, <1>4, <1>5, <1>6, <1>7, <1>8, <1>9, <1>10 DEF Next

LEMMA NextExitOK == IInv /\ ExitOK /\ [Next]_vars => ExitOK'
<1> SUFFICES ASSUME IInv, ExitOK, [Next]_vars, Exiting' PROVE ExitOK'
    BY DEF ExitOK
<1>1. CASE UNCHANGED vars
    BY <1>1 DEF ExitOK, Exiting, vars
<1>2. CASE Next /\ ~Exiting
  <2>1. TaskGroupEnds
    BY <1>2, ExitBegins
  <2> QED BY <2>1 DEF TaskGroupEnds, ExitOK, IInv
<1>3. CASE CloseActive
    BY <1>3 DEF CloseActive, ExitOK, Exiting, IInv
<1>4. CASE Next /\ Exiting /\ ~CloseActive
    BY <1>4, ExitContinues DEF ExitOK, ExitSettled, IInv
<1> QED BY <1>1, <1>2, <1>3, <1>4

(* Once ConnectionManager.__aexit__ has closed a connection none is ever   *)
(* in the manager again; after an exit that found none, only a task of the *)
(* application that was in the middle of write_frame_reconnecting can      *)
(* leave one there.                                                        *)
THEOREM ExitReleases == Spec => []ExitReleasesConnection
<1>1. Init => ExitOK
    BY DEF Init, ExitOK, Exiting
<1>2. IInv /\ ExitOK => ExitReleasesConnection
    BY DEF ExitOK, Exiting, ExitReleasesConnection
<1> QED BY <1>1, <1>2, NextExitOK, Invariance, PTL DEF Spec

-----------------------------------------------------------------------------
(* Refinement.  Pending and Sealed are the expressions that the mapping    *)
(* puts for the variables `pending' and `sealed' of ConnectionSlot.        *)

Pending == IF lock # NoTask /\ pc[lock] \in Preparing THEN conn[lock] ELSE NoConn

Sealed == pc["main"] \in {"closing", "closed"} /\ conn["main"] # NoConn

SlotStutters == UNCHANGED <<active, count, opened>> /\ Pending' = Pending /\ Sealed' = Sealed

\* The steps of ConnectionSlot under the mapping.
SlotOpens ==
    /\ active = NoConn /\ Pending = NoConn
    /\ opened' = opened + 1 /\ Pending' = opened + 1
    /\ UNCHANGED <<active, count>> /\ Sealed' = Sealed

SlotGivesUp ==
    /\ Pending # NoConn /\ Pending' = NoConn
    /\ UNCHANGED <<active, count, opened>> /\ Sealed' = Sealed

SlotEstablishes ==
    /\ Pending # NoConn /\ ~Sealed
    /\ active' = Pending /\ Pending' = NoConn
    /\ UNCHANGED <<count, opened>> /\ Sealed' = Sealed

SlotDiscards ==
    /\ active # NoConn /\ active' = NoConn /\ count' = count + 1
    /\ Pending' = Pending /\ UNCHANGED opened /\ Sealed' = Sealed

SlotSeals ==
    /\ active # NoConn /\ Sealed'
    /\ UNCHANGED <<active, count, opened>> /\ Pending' = Pending

SlotCloses ==
    /\ Sealed /\ active # NoConn /\ active' = NoConn
    /\ Pending' = Pending /\ UNCHANGED <<count, opened>> /\ Sealed' = Sealed

\* The pending connection belongs to the one task that prepares a connection.
LEMMA PendingIsPrepared ==
    ASSUME IInv
    PROVE  /\ \A t \in Tasks : pc[t] \in Preparing => Pending = conn[t] /\ conn[t] # NoConn /\ lock = t
           /\ (\A t \in Tasks : pc[t] \notin Preparing) => Pending = NoConn
BY DEF IInv, Pending

\* Nobody starts or ends preparing: the pending connection stays.
LEMMA PendingKept ==
    ASSUME IInv, IInv',
           \A t \in Tasks : pc'[t] \in Preparing <=> pc[t] \in Preparing,
           \A t \in Tasks : pc[t] \in Preparing => conn'[t] = conn[t]
    PROVE  Pending' = Pending
BY DEF IInv, Pending

LEMMA QuietSteps ==
    ASSUME IInv, IInv', NEW t \in Tasks,
           \/ GetActive(t) \/ AcquireLock(t) \/ Backoff(t)
           \/ StartWrite(t) \/ StartMaybeWrite(t) \/ WriteSucceeds(t)
           \/ HeartbeatSucceeds(t) \/ Wake(t)
    PROVE  SlotStutters
<1> USE DEF IInv
<1>1. /\ UNCHANGED <<active, count, opened>>
      /\ \A x \in Tasks : pc'[x] \in Preparing <=> pc[x] \in Preparing
      /\ \A x \in Tasks : pc[x] \in Preparing => conn'[x] = conn[x]
      /\ Sealed' = Sealed
  <2>1. CASE GetActive(t) \/ AcquireLock(t)
    BY <2>1 DEF GetActive, AcquireLock, Obtain, Sealed
  <2>2. CASE Backoff(t)
    BY <2>2 DEF Backoff, RaiseFailedAll, Raises, Sealed
  <2>3. CASE StartWrite(t) \/ StartMaybeWrite(t) \/ WriteSucceeds(t)
    BY <2>3 DEF StartWrite, StartMaybeWrite, WriteSucceeds, Sealed
  <2>4. CASE HeartbeatSucceeds(t) \/ Wake(t)
    BY <2>4 DEF HeartbeatSucceeds, Wake, Sealed
  <2> QED BY <2>1, <2>2, <2>3, <2>4
<1>2. Pending' = Pending
    BY <1>1, PendingKept
<1> QED BY <1>1, <1>2 DEF SlotStutters

LEMMA QuietExitSteps ==
    ASSUME IInv, IInv', Leave \/ CancelBackgroundTasks \/ Stopped
    PROVE  SlotStutters
BY PendingKept DEF IInv, Leave, CancelBackgroundTasks, Stopped, vars, SlotStutters, Sealed, Pending

LEMMA ConnectStep ==
    ASSUME IInv, IInv', NEW t \in Tasks, Connect(t)
    PROVE  SlotOpens \/ SlotStutters
<1> USE DEF IInv, Connect
<1>1. Sealed' = Sealed
    BY DEF Sealed
<1>2. Pending = NoConn /\ active = NoConn
    BY DEF Pending
<1>3. CASE pc'[t] = "handshake"
    BY <1>1, <1>2, <1>3, PendingIsPrepared DEF SlotOpens, Pending
<1>4. CASE pc'[t] = "backoff"
    BY <1>1, <1>2, <1>4 DEF SlotStutters, Pending
<1> QED BY <1>3, <1>4

LEMMA GiveUpSteps ==
    ASSUME IInv, IInv', NEW t \in Tasks,
           \/ HandshakeFails(t) \/ RestoreFails(t) \/ RestoreRaises(t)
           \/ HandshakeSucceeds(t) \/ Cancel(t)
    PROVE  SlotGivesUp \/ SlotStutters
<1> USE DEF IInv
<1>1. CASE HandshakeFails(t) \/ RestoreFails(t)
    BY <1>1 DEF HandshakeFails, RestoreFails, SlotGivesUp, Pending, Sealed
<1>2. CASE HandshakeSucceeds(t)
    BY <1>2 DEF HandshakeSucceeds, RestartHeartbeat, ReleaseLock, SlotGivesUp, SlotStutters, Pending, Sealed
<1>3. CASE Cancel(t)
    BY <1>3 DEF Cancel, ReleaseLock, SlotGivesUp, SlotStutters, Pending, Sealed
<1>4. CASE RestoreRaises(t)
    BY <1>4 DEF RestoreRaises, Raises, ReleaseLock, SlotGivesUp, Pending, Sealed
<1> QED BY <1>1, <1>2, <1>3, <1>4

LEMMA EstablishSteps ==
    ASSUME IInv, IInv', NEW t \in Tasks, RestoreSucceeds(t)
    PROVE  SlotEstablishes
BY DEF IInv, RestoreSucceeds, Obtain, ReleaseLock, SlotEstablishes, Pending, Sealed

LEMMA HeartbeatEstablishStep ==
    ASSUME IInv, IInv', HeartbeatHandshakeSucceeds
    PROVE  SlotEstablishes \/ SlotStutters
<1> USE DEF IInv
<1>1. PICK fresh \in Heartbeats : fresh # hbTask /\ hbTask' = fresh
    BY DEF HeartbeatHandshakeSucceeds
<1>2. /\ pc[hbTask] = "handshake" /\ lock = hbTask /\ lock # NoTask /\ hbTask \in Tasks
      /\ conn[hbTask] = opened /\ opened # NoConn
    BY DEF HeartbeatHandshakeSucceeds
<1>3. Pending = opened /\ UNCHANGED <<count, opened>>
    BY <1>2 DEF HeartbeatHandshakeSucceeds, Pending
<1>4. ~Sealed /\ Sealed' = Sealed
  <2>1. pc["main"] \notin {"closing", "closed"}
    BY DEF HeartbeatHandshakeSucceeds, CanCreateTask
  <2>2. pc'["main"] = pc["main"]
    BY <1>1, <1>2 DEF HeartbeatHandshakeSucceeds
  <2> QED BY ONLY <2>1, <2>2 DEF Sealed
<1>5. \/ pc'[hbTask] = "restoring" /\ UNCHANGED <<active, lock, conn>>
      \/ active' = conn[hbTask] /\ lock' = NoTask
  <2>1. \/ UNCHANGED <<active, lock, conn>> /\ \E f \in Heartbeats : f # hbTask /\ pc' = [pc EXCEPT ![hbTask] = "restoring", ![f] = "get"]
        \/ active' = conn[hbTask] /\ ReleaseLock(hbTask)
    BY <1>1 DEF HeartbeatHandshakeSucceeds
  <2> QED BY <1>2, <2>1 DEF ReleaseLock
<1>6. CASE pc'[hbTask] = "restoring" /\ UNCHANGED <<active, lock, conn>>
  <2>1. Pending' = opened
    BY ONLY <1>2, <1>6 DEF Pending, Preparing
  <2> QED BY ONLY <1>3, <1>4, <1>6, <2>1 DEF SlotStutters
<1>7. CASE active' = conn[hbTask] /\ lock' = NoTask
  <2>1. Pending' = NoConn
    BY ONLY <1>7 DEF Pending
  <2> QED BY ONLY <1>2, <1>3, <1>4, <1>7, <2>1 DEF SlotEstablishes
<1> QED BY <1>5, <1>6, <1>7

LEMMA DiscardSteps ==
    ASSUME IInv, IInv',
           \/ \E t \in Tasks : WriteLost(t) \/ HeartbeatLost(t)
           \/ ReadLost \/ MonitorFires \/ UnsubscribeLost
    PROVE  SlotDiscards \/ SlotStutters
<1> USE DEF IInv, Discard, SlotDiscards, SlotStutters
<1>1. ASSUME NEW t \in Tasks, WriteLost(t)
      PROVE  SlotDiscards \/ SlotStutters
    BY <1>1, PendingKept DEF WriteLost, Sealed
<1>2. ASSUME NEW t \in Tasks, HeartbeatLost(t)
      PROVE  SlotDiscards \/ SlotStutters
    BY <1>2, PendingKept DEF HeartbeatLost, RaiseFailedAll, Raises, Sealed
<1>3. CASE ReadLost
    BY <1>3, PendingKept DEF ReadLost, Sealed
<1>4. CASE MonitorFires \/ UnsubscribeLost
    BY <1>4, PendingKept DEF MonitorFires, UnsubscribeLost, Sealed
<1> QED BY <1>1, <1>2, <1>3, <1>4

LEMMA ExitSteps ==
    ASSUME IInv, IInv', TaskGroupEnds \/ CloseActive
    PROVE  SlotSeals \/ SlotCloses \/ SlotStutters
<1> USE DEF IInv, SlotSeals, SlotCloses, SlotStutters
<1>1. CASE TaskGroupEnds
    BY <1>1, PendingKept DEF TaskGroupEnds, Sealed
<1>2. CASE CloseActive
    BY <1>2, PendingKept DEF CloseActive, Sealed
<1> QED BY <1>1, <1>2

(* The manager, with its tasks, its lock, its retries and its exit,        *)
(* implements the connection slot that the rest of the client relies on.   *)
THEOREM Refinement == Spec => ImplementsSlot
<1>1. Init => Slot!Init
    BY DEF Init, Slot!Init, Slot!NoConn
<1>2. IInv /\ IInv' /\ [Next]_vars => [Slot!Next]_(Slot!vars)
  <2> SUFFICES ASSUME IInv, IInv', [Next]_vars PROVE [Slot!Next]_(Slot!vars)
    OBVIOUS
  <2>1. \/ SlotOpens \/ SlotGivesUp \/ SlotEstablishes \/ SlotDiscards
        \/ SlotSeals \/ SlotCloses \/ SlotStutters
    <3>1. CASE UNCHANGED vars
      BY <3>1 DEF vars, SlotStutters, Pending, Sealed
    <3>2. CASE Next
      BY <3>2, QuietSteps, QuietExitSteps, ConnectStep, GiveUpSteps, EstablishSteps,
         HeartbeatEstablishStep, DiscardSteps, ExitSteps DEF Next
    <3> QED BY <3>1, <3>2
  <2>2. CASE SlotStutters
    BY <2>2 DEF SlotStutters, Slot!vars, Pending, Sealed
  <2>3. CASE SlotOpens
    BY <2>3 DEF SlotOpens, Slot!Next, Slot!Open, Slot!NoConn, Pending, Sealed
  <2>4. CASE SlotGivesUp
    BY <2>4 DEF SlotGivesUp, Slot!Next, Slot!GiveUp, Slot!NoConn, Pending, Sealed
  <2>5. CASE SlotEstablishes
    BY <2>5 DEF SlotEstablishes, Slot!Next, Slot!Establish, Slot!NoConn, Pending, Sealed
  <2>6. CASE SlotDiscards
    BY <2>6 DEF SlotDiscards, Slot!Next, Slot!Discard, Slot!NoConn, Pending, Sealed
  <2>7. CASE SlotSeals
    BY <2>7 DEF SlotSeals, Slot!Next, Slot!Seal, Slot!NoConn, Pending, Sealed
  <2>8. CASE SlotCloses
    BY <2>8 DEF SlotCloses, Slot!Next, Slot!Close, Slot!NoConn, Pending, Sealed
  <2> QED BY <2>1, <2>2, <2>3, <2>4, <2>5, <2>6, <2>7, <2>8
<1> QED BY <1>1, <1>2, Invariance, PTL DEF Spec, ImplementsSlot, Slot!Spec

=============================================================================
