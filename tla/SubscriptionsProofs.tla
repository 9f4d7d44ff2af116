------------------------ MODULE SubscriptionsProofs -------------------------
(***************************************************************************)
(* The safety properties of Subscriptions for any subscriptions, any       *)
(* number of permits, messages and settlements, and any amount of harm.    *)
(* The inductive invariant comes in three layers: the slot and the types,  *)
(* what the server knows of the subscriptions, and the messages.           *)
(***************************************************************************)
EXTENDS Subscriptions, TLAPS, FiniteSets, FiniteSetTheorems, SequenceTheorems

\* The slot: one connection at a time, each but the first paid for by harm.
SlotOK ==
    /\ opened \in Nat /\ count \in Nat
    /\ active \in 0..opened /\ pending \in 0..opened
    /\ active # NoConn => pending = NoConn
    /\ pending # NoConn => pending = opened
    /\ opened <= adverse + 1
    /\ active = NoConn /\ pending = NoConn => opened <= adverse

\* The types, but for the bound of the semaphore, which needs PermitsOK.
SubTypes ==
    /\ subs \subseteq Subs /\ snapshot \subseteq Subs
    /\ at \in [Subs -> {"off", "ask", "drain", "on", "leaving", "gone", "unheard", "failed"}]
    /\ sconn \in [Subs -> 0..opened]
    /\ restoring \in BOOLEAN
    /\ subscribes \in [1..MaxConns -> [Subs -> Nat]]
    /\ known \in [1..MaxConns -> SUBSET Subs]

MessageTypes ==
    /\ listener \in [conn : 0..opened, epoch : 0..count, msg : 0..Len(msgs)]
    /\ msgs \in Seq([conn : 1..opened, sub : Subs, ack : BOOLEAN]) /\ Len(msgs) <= MaxMessages
    /\ handler \in [Messages -> {"none", "dropped", "waiting", "running", "settling", "done", "raised"}]
    /\ tag \in [Messages -> 0..count] /\ hconn \in [Messages -> 0..opened]
    /\ permits \in Int

SettleTypes ==
    /\ \A m \in Messages : settled[m] \in Seq(1..opened)
    /\ settled = [m \in Messages |-> settled[m]]
    /\ committed \in [Messages -> BOOLEAN] /\ overlapped \subseteq Messages

Types ==
    /\ adverse \in 0..MaxAdverse
    /\ SlotOK
    /\ SubTypes
    /\ MessageTypes
    /\ SettleTypes

-----------------------------------------------------------------------------
\* A subscription is active from the end of its subscribe() on.
RegisteredOK ==
    /\ \A s \in Subs : s \in subs <=> at[s] = "on"
    /\ \A s \in Subs : at[s] = "drain" => sconn[s] # NoConn /\ subscribes[sconn[s]][s] > 0
    /\ restoring => pending # NoConn
    /\ ~restoring => snapshot = {}
    /\ \A s \in snapshot : at[s] \in {"on", "unheard"}

\* What was not written yet, and to which connection it therefore may be.
UnwrittenOK ==
    /\ \A c \in 1..MaxConns, s \in Subs : c > opened => subscribes[c][s] = 0
    /\ \A c \in 1..MaxConns, s \in Subs : s \in known[c] => subscribes[c][s] > 0
    /\ active # NoConn =>
          \A s \in Subs : \/ at[s] \in {"off", "ask"}
                          \/ at[s] = "drain" /\ sconn[s] # active
                          => subscribes[active][s] = 0
    /\ pending # NoConn =>
          \A s \in Subs : \/ at[s] \in {"off", "ask", "drain"}
                          \/ ~restoring
                          \/ s \in snapshot
                          => subscribes[pending][s] = 0

\* What the connection in preparation has got already.
RestoredOK ==
    /\ pending # NoConn => \A s \in known[pending] : at[s] \in {"on", "unheard"}
    /\ restoring => \A s \in subs \ LateDrain : s \in snapshot \/ subscribes[pending][s] > 0

ServerInv ==
    /\ RegisteredOK
    /\ UnwrittenOK
    /\ RestoredOK
    /\ SubscribedOnce
    /\ PromptSubscribedOnActive
    /\ NoneForgotten

-----------------------------------------------------------------------------
Handled == {"running", "settling", "done", "raised"}

\* A subscription that was active once; it cannot become so again.
Past == {"on", "leaving", "gone", "unheard"}

\* The listener's epoch names its connection, whose message it holds.
ListenerOK ==
    /\ \A m \in Messages : handler[m] = "none" <=> m > Len(msgs)
    /\ \A m \in Messages : handler[m] = "waiting" <=> listener.msg = m
    /\ listener.conn # NoConn =>
          (listener.epoch = count <=> active = listener.conn) /\ pending # listener.conn
    /\ listener.msg # NoMessage => listener.conn # NoConn /\ msgs[listener.msg].conn = listener.conn

\* So does a message's tag; what its handler has written, by the place it is in.
MessageOK(m) ==
    /\ handler[m] \in Handled =>
          (tag[m] = count <=> active = msgs[m].conn) /\ pending # msgs[m].conn
    /\ handler[m] \in Handled \cup {"waiting"} => at[msgs[m].sub] \in Past
    /\ handler[m] \in {"none", "dropped", "waiting"} => settled[m] = <<>> /\ ~committed[m]
    /\ handler[m] = "settling" => settled[m] # <<>> /\ ~committed[m]
    /\ handler[m] = "running" /\ msgs[m].sub \in AutoAck \cup Stream /\ ~committed[m] =>
          settled[m] = <<>>
    /\ handler[m] = "done" /\ msgs[m].sub \in Stream => committed[m]
    /\ committed[m] => msgs[m].sub \in Stream
    /\ committed[m] /\ MaySettle(m) => settled[m] # <<>>
    /\ \A i \in DOMAIN settled[m] : settled[m][i] = msgs[m].conn
    /\ handler[m] = "done" /\ msgs[m].sub \in AutoAck \cup Stream /\ MaySettle(m) =>
          settled[m] # <<>>
    /\ Len(settled[m]) > 1 => msgs[m].sub \in ManualAck \ Stream \/ m \in overlapped

MessageInv ==
    /\ ListenerOK
    /\ \A m \in Messages : MessageOK(m)

\* A permit is taken by each handler that has not ended.
Busy == {m \in Messages : handler[m] \in {"running", "settling"}}
PermitsOK == permits >= 0 /\ permits + Cardinality(Busy) = MaxHandlers

-----------------------------------------------------------------------------
USE SubscriptionsAssumption
DEF NoConn, Slot!NoConn, NoMessage, MaxConns, slotVars, subVars, restoreVars, serverVars,
    settleVars, messageVars

LEMMA InitTypes == Init => Types
<1> SUFFICES ASSUME Init PROVE Types
    OBVIOUS
<1> USE DEF Init, Slot!Init
<1>1. SlotOK /\ adverse \in 0..MaxAdverse
    BY DEF SlotOK
<1>2. SubTypes
  <2>1. subscribes \in [1..MaxConns -> [Subs -> Nat]]
    OBVIOUS
  <2>2. known \in [1..MaxConns -> SUBSET Subs]
    OBVIOUS
  <2>3. restoring \in BOOLEAN
    OBVIOUS
  <2>4. at \in [Subs -> {"off", "ask", "drain", "on", "leaving", "gone", "unheard", "failed"}]
        /\ sconn \in [Subs -> 0..opened]
    OBVIOUS
  <2> QED BY <2>1, <2>2, <2>3, <2>4 DEF SubTypes
<1>3. MessageTypes
  <2>1. msgs \in Seq([conn : 1..opened, sub : Subs, ack : BOOLEAN]) /\ Len(msgs) = 0
    BY EmptySeq
  <2>2. handler \in [Messages -> {"none", "dropped", "waiting", "running", "settling", "done", "raised"}]
    OBVIOUS
  <2>3. listener \in [conn : 0..opened, epoch : 0..count, msg : 0..Len(msgs)]
    BY <2>1
  <2> QED BY <2>1, <2>2, <2>3 DEF MessageTypes
<1>4. SettleTypes
    BY EmptySeq DEF SettleTypes
<1> QED BY <1>1, <1>2, <1>3, <1>4 DEF Types

LEMMA NextSlotOK ==
    ASSUME Types, [Next]_vars
    PROVE  SlotOK' /\ adverse' \in 0..MaxAdverse
<1> USE DEF Types, SlotOK
<1>1. CASE Connect
    BY <1>1 DEF Connect, Slot!Open
<1>2. CASE Establish
    BY <1>2 DEF Establish, Slot!Establish
<1>3. CASE ConnectFails
    BY <1>3 DEF ConnectFails, Harm, Slot!GiveUp
<1>4. CASE Fail
    BY <1>4 DEF Fail, Harm, Slot!Discard
<1>5. ASSUME NEW c, LoseConnection(c)
      PROVE  SlotOK' /\ adverse' \in 0..MaxAdverse
    BY <1>5 DEF LoseConnection, Harm, Slot!Discard
<1>6. CASE UNCHANGED slotVars /\ (Harm \/ UNCHANGED adverse)
    BY <1>6 DEF Harm
<1>7. ASSUME NEW s \in Subs,
             \/ Subscribe(s) \/ Write(s) \/ Subscribed(s) \/ SubscribeLost(s) \/ SubscribeFails(s)
             \/ Unsubscribe(s) \/ Unsubscribed(s) \/ Receive(s) \/ Resubscribe(s)
      PROVE  SlotOK' /\ adverse' \in 0..MaxAdverse
    BY <1>5, <1>6, <1>7 DEF Subscribe, Write, Subscribed, SubscribeLost, SubscribeFails, Unsubscribe,
       Unsubscribed, Receive, Resubscribe
<1>8. ASSUME NEW m \in Messages, SettleBeside(m) \/ HandlerRaises(m) \/ Handle(m)
      PROVE  SlotOK' /\ adverse' \in 0..MaxAdverse
    BY <1>5, <1>6, <1>8 DEF SettleBeside, HandlerRaises, Handle, Settle, SettleDrained, HandlerEnds
<1>9. CASE Listen \/ ReadLost \/ Acquired \/ ResubscribeNone
    BY <1>5, <1>6, <1>9 DEF Listen, ReadLost, Acquired, ResubscribeNone
<1> QED BY <1>1, <1>2, <1>3, <1>4, <1>6, <1>7, <1>8, <1>9 DEF Next, Restore, vars

\* Every action, for the layers of the invariant that it may disturb.
SubStep ==
    \/ \E s \in Subs :
          \/ Subscribe(s) \/ Write(s) \/ Subscribed(s) \/ SubscribeLost(s) \/ SubscribeFails(s)
          \/ Unsubscribe(s) \/ Unsubscribed(s)
    \/ ConnectFails \/ Restore

MessageStep ==
    \/ Fail
    \/ \E s \in Subs : Receive(s)
    \/ Listen \/ ReadLost \/ Acquired
    \/ \E m \in Messages : SettleBeside(m) \/ HandlerRaises(m) \/ Handle(m)

LEMMA NextSteps == [Next]_vars <=> SubStep \/ MessageStep \/ UNCHANGED vars
BY DEF Next, SubStep, MessageStep

LEMMA SubStepLeavesMessages == ASSUME SubStep PROVE UNCHANGED messageVars
BY DEF SubStep, Subscribe, Write, Subscribed, SubscribeLost, SubscribeFails, Unsubscribe, Unsubscribed,
   ConnectFails, Restore, Connect, ResubscribeNone, Establish, Resubscribe

LEMMA MessageStepLeavesSubs == ASSUME MessageStep PROVE UNCHANGED <<subVars, restoreVars, serverVars>>
BY DEF MessageStep, Fail, Receive, Listen, ReadLost, Acquired, SettleBeside, HandlerRaises, Handle, Settle,
   SettleDrained, HandlerEnds

\* The slot only ever goes forward.
LEMMA SlotForward ==
    ASSUME Types, [Next]_vars
    PROVE  opened <= opened' /\ count <= count'
<1> USE DEF Types, SlotOK
<1>1. ASSUME NEW c, LoseConnection(c)
      PROVE  opened <= opened' /\ count <= count'
    BY <1>1 DEF LoseConnection, Slot!Discard
<1>2. CASE SubStep
    BY <1>1, <1>2 DEF SubStep, Subscribe, Write, Subscribed, SubscribeLost, SubscribeFails, Unsubscribe,
       Unsubscribed, ConnectFails, Restore, Connect, ResubscribeNone, Establish, Resubscribe,
       Slot!Open, Slot!GiveUp, Slot!Establish
<1>3. CASE MessageStep
  <2>1. ASSUME NEW m \in Messages, SettleBeside(m) \/ HandlerRaises(m) \/ Handle(m)
        PROVE  opened <= opened' /\ count <= count'
    BY <1>1, <2>1 DEF SettleBeside, HandlerRaises, Handle, Settle, SettleDrained, HandlerEnds
  <2>2. ASSUME NEW s \in Subs, Receive(s)
        PROVE  opened <= opened' /\ count <= count'
    BY <2>2 DEF Receive
  <2>3. CASE Fail \/ Listen \/ ReadLost \/ Acquired
    BY <1>1, <2>3 DEF Fail, Listen, ReadLost, Acquired, Slot!Discard
  <2> QED BY <1>3, <2>1, <2>2, <2>3 DEF MessageStep
<1> QED BY <1>2, <1>3, NextSteps DEF vars

LEMMA SubTypesKept ==
    ASSUME Types, [Next]_vars, SlotOK'
    PROVE  SubTypes'
<1> USE DEF Types, SlotOK, SubTypes
<1>1. opened <= opened'
    BY SlotForward
<1>2. sconn \in [Subs -> 0..opened']
    BY <1>1
<1>3. ASSUME UNCHANGED <<subVars, restoreVars, serverVars>> PROVE SubTypes'
    BY <1>2, <1>3
<1>4. ASSUME NEW c \in 1..MaxConns, NEW s \in Subs, WriteSubscribe(c, s)
      PROVE  /\ subscribes' \in [1..MaxConns -> [Subs -> Nat]]
             /\ known' \in [1..MaxConns -> SUBSET Subs]
  <2>1. subscribes[c] \in [Subs -> Nat] /\ known[c] \in SUBSET Subs
    OBVIOUS
  <2>2. [subscribes[c] EXCEPT ![s] = @ + 1] \in [Subs -> Nat]
    BY <2>1
  <2>3. subscribes' = [subscribes EXCEPT ![c] = [subscribes[c] EXCEPT ![s] = @ + 1]]
    BY <1>4 DEF WriteSubscribe
  <2>4. subscribes' \in [1..MaxConns -> [Subs -> Nat]]
    BY <2>2, <2>3
  <2>5. known' \in [1..MaxConns -> SUBSET Subs]
    BY <1>4, <2>1 DEF WriteSubscribe
  <2> QED BY <2>4, <2>5
<1>5. opened \in 0..MaxConns /\ active \in 0..MaxConns /\ pending \in 0..MaxConns
    OBVIOUS
<1>6. ASSUME NEW s \in Subs, Subscribe(s) PROVE SubTypes'
    BY <1>2, <1>6 DEF Subscribe
<1>7. ASSUME NEW s \in Subs, Write(s) PROVE SubTypes'
  <2>1. /\ subscribes' \in [1..MaxConns -> [Subs -> Nat]]
        /\ known' \in [1..MaxConns -> SUBSET Subs]
    <3>1. active \in 1..MaxConns /\ WriteSubscribe(active, s)
      BY <1>5, <1>7 DEF Write
    <3> QED BY <1>4, <3>1
  <2> QED BY <1>7, <2>1 DEF Write
<1>8. ASSUME NEW s \in Subs, Subscribed(s) PROVE SubTypes'
    BY <1>8 DEF Subscribed
<1>9. ASSUME NEW s \in Subs, SubscribeLost(s) PROVE SubTypes'
    BY <1>2, <1>9 DEF SubscribeLost
<1>10. ASSUME NEW s \in Subs, SubscribeFails(s) PROVE SubTypes'
    BY <1>10 DEF SubscribeFails
<1>11. ASSUME NEW s \in Subs, Unsubscribe(s) PROVE SubTypes'
    BY <1>5, <1>11 DEF Unsubscribe
<1>12. ASSUME NEW s \in Subs, Unsubscribed(s) PROVE SubTypes'
    BY <1>2, <1>12 DEF Unsubscribed
<1>13. ASSUME NEW s \in Subs, Resubscribe(s) PROVE SubTypes'
  <2>1. /\ pending \in 1..MaxConns /\ WriteSubscribe(pending, s)
        /\ restoring' = TRUE /\ snapshot' = Snapshot \ {s}
        /\ UNCHANGED <<opened, subs, at, sconn>>
    BY <1>5, <1>13 DEF Resubscribe
  <2>2. /\ subscribes' \in [1..MaxConns -> [Subs -> Nat]]
        /\ known' \in [1..MaxConns -> SUBSET Subs]
    BY <1>4, <2>1
  <2>3. snapshot' \subseteq Subs
    BY <2>1 DEF Snapshot
  <2> QED BY <2>1, <2>2, <2>3
<1>14. CASE Connect \/ ResubscribeNone \/ Establish \/ ConnectFails
    BY <1>2, <1>14 DEF Connect, ResubscribeNone, Snapshot, Establish, ConnectFails
<1>15. CASE SubStep
    BY <1>6, <1>7, <1>8, <1>9, <1>10, <1>11, <1>12, <1>13, <1>14, <1>15 DEF SubStep, Restore
<1>16. CASE MessageStep
    BY <1>3, <1>16, MessageStepLeavesSubs
<1> QED BY <1>3, <1>15, <1>16, NextSteps DEF vars

LEMMA StartHandlerTypes ==
    ASSUME MessageTypes, SlotOK, NEW m \in Messages, StartHandler(m)
    PROVE  /\ handler' \in [Messages -> {"none", "dropped", "waiting", "running", "settling", "done", "raised"}]
           /\ tag' \in [Messages -> 0..count]
           /\ permits' \in Int
BY DEF MessageTypes, SlotOK, StartHandler

LEMMA ListenerUpdate ==
    ASSUME NEW C, NEW E, NEW M, NEW l \in [conn : C, epoch : E, msg : M]
    PROVE  /\ \A c \in C : [l EXCEPT !.conn = c] \in [conn : C, epoch : E, msg : M]
           /\ \A c \in C, e \in E : [l EXCEPT !.conn = c, !.epoch = e] \in [conn : C, epoch : E, msg : M]
           /\ \A m \in M : [l EXCEPT !.msg = m] \in [conn : C, epoch : E, msg : M]
OBVIOUS

\* The fields of the listener, and the messages, by their types.
LEMMA ListenerFields ==
    ASSUME Types
    PROVE  /\ listener.conn \in 0..opened /\ listener.epoch \in 0..count /\ listener.msg \in 0..Len(msgs)
           /\ msgs \in Seq([conn : 1..opened, sub : Subs, ack : BOOLEAN])
           /\ Len(msgs) \in Nat /\ Len(msgs) <= MaxMessages
           /\ opened \in Nat /\ count \in Nat
<1>1. listener \in [conn : 0..opened, epoch : 0..count, msg : 0..Len(msgs)]
    BY DEF Types, MessageTypes
<1>2. msgs \in Seq([conn : 1..opened, sub : Subs, ack : BOOLEAN]) /\ Len(msgs) <= MaxMessages
    BY DEF Types, MessageTypes
<1>3. Len(msgs) \in Nat
    BY ONLY <1>2, LenProperties
<1>4. opened \in Nat /\ count \in Nat
    BY DEF Types, SlotOK
<1> QED BY ONLY <1>1, <1>2, <1>3, <1>4

LEMMA MessageTypesKept ==
    ASSUME Types, [Next]_vars, SlotOK'
    PROVE  MessageTypes'
<1> USE DEF Types, SlotOK, MessageTypes
<1>1. opened <= opened' /\ count <= count'
    BY SlotForward
<1>2. msgs \in Seq([conn : 1..opened', sub : Subs, ack : BOOLEAN])
  <2>1. [conn : 1..opened, sub : Subs, ack : BOOLEAN] \subseteq [conn : 1..opened', sub : Subs, ack : BOOLEAN]
    BY <1>1
  <2> QED BY <2>1, SeqMonotonic
<1>3. /\ listener \in [conn : 0..opened', epoch : 0..count', msg : 0..Len(msgs)]
      /\ tag \in [Messages -> 0..count'] /\ hconn \in [Messages -> 0..opened']
  <2>1. 0..opened \subseteq 0..opened' /\ 0..count \subseteq 0..count'
    BY <1>1
  <2>2. listener \in [conn : 0..opened', epoch : 0..count', msg : 0..Len(msgs)]
    BY <2>1
  <2>3. tag \in [Messages -> 0..count'] /\ hconn \in [Messages -> 0..opened']
    BY <2>1
  <2> QED BY ONLY <2>2, <2>3
<1>4. ASSUME UNCHANGED messageVars PROVE MessageTypes'
    BY <1>2, <1>3, <1>4
<1>5. CASE Fail
    BY <1>4, <1>5 DEF Fail
<1>6. ASSUME NEW s \in Subs, Receive(s) PROVE MessageTypes'
  <2> DEFINE m == Len(msgs) + 1
  <2>1. m \in Messages /\ listener.conn \in 1..opened /\ UNCHANGED <<slotVars, hconn>>
    <3>1. listener.conn # NoConn /\ m \in Messages /\ UNCHANGED <<slotVars, hconn>>
      BY ONLY <1>6 DEF Receive, slotVars
    <3>2. listener.conn \in 0..opened
      OBVIOUS
    <3> QED BY ONLY <3>1, <3>2, opened \in Nat DEF NoConn, Slot!NoConn
  <2>2. \E ack \in BOOLEAN : msgs' = Append(msgs, [conn |-> listener.conn, sub |-> s, ack |-> ack])
    BY <1>6 DEF Receive
  <2>3. msgs' \in Seq([conn : 1..opened', sub : Subs, ack : BOOLEAN]) /\ Len(msgs') = m /\ m <= MaxMessages
    BY <2>1, <2>2, AppendProperties DEF Messages
  <2>4. /\ handler' \in [Messages -> {"none", "dropped", "waiting", "running", "settling", "done", "raised"}]
        /\ tag' \in [Messages -> 0..count] /\ permits' \in Int
    <3>1. CASE StartHandler(m)
      BY <2>1, <3>1, StartHandlerTypes
    <3>2. \/ StartHandler(m)
          \/ /\ \E place \in {"dropped", "waiting"} : handler' = [handler EXCEPT ![m] = place]
             /\ UNCHANGED <<tag, permits>>
      BY <1>6 DEF Receive
    <3>3. CASE /\ \E place \in {"dropped", "waiting"} : handler' = [handler EXCEPT ![m] = place]
               /\ UNCHANGED <<tag, permits>>
      BY <3>3
    <3> QED BY <3>1, <3>2, <3>3
  <2>5. listener' \in [conn : 0..opened', epoch : 0..count', msg : 0..Len(msgs')]
    <3>1. listener' = listener \/ listener' = [listener EXCEPT !.msg = m]
      BY <1>6 DEF Receive
    <3>2. listener \in [conn : 0..opened', epoch : 0..count', msg : 0..Len(msgs')] /\ m \in 0..Len(msgs')
      BY <2>1, <2>3
    <3>3. [listener EXCEPT !.msg = m] \in [conn : 0..opened', epoch : 0..count', msg : 0..Len(msgs')]
      BY <3>2, ListenerUpdate, Zenon
    <3> QED BY <3>1, <3>2, <3>3
  <2> QED BY <2>1, <2>3, <2>4, <2>5
<1>7. CASE Listen \/ ReadLost
  <2>1. \/ listener' = [listener EXCEPT !.conn = NoConn]
        \/ listener' = [listener EXCEPT !.conn = active, !.epoch = count] /\ UNCHANGED slotVars
    BY <1>7 DEF Listen, ReadLost
  <2>2. listener' \in [conn : 0..opened', epoch : 0..count', msg : 0..Len(msgs)]
    <3>1. /\ NoConn \in 0..opened'
          /\ UNCHANGED slotVars => active \in 0..opened' /\ count \in 0..count'
      OBVIOUS
    <3>2. [listener EXCEPT !.conn = NoConn] \in [conn : 0..opened', epoch : 0..count', msg : 0..Len(msgs)]
      BY <1>3, <3>1, ListenerUpdate, Zenon
    <3>3. UNCHANGED slotVars =>
             [listener EXCEPT !.conn = active, !.epoch = count]
                \in [conn : 0..opened', epoch : 0..count', msg : 0..Len(msgs)]
      BY <1>3, <3>1, ListenerUpdate, Zenon
    <3> QED BY <2>1, <3>2, <3>3
  <2>3. UNCHANGED <<msgs, handler, tag, hconn, permits>>
    BY <1>7 DEF Listen, ReadLost
  <2> QED BY <1>2, <1>3, <2>2, <2>3
<1>8. CASE Acquired
  <2>1. listener.msg \in Messages
    <3>1. listener.msg # NoMessage
      BY <1>8 DEF Acquired
    <3>2. listener.msg \in 0..Len(msgs) /\ Len(msgs) \in Nat /\ Len(msgs) <= MaxMessages
      BY LenProperties
    <3> QED BY ONLY <3>1, <3>2, SubscriptionsAssumption DEF Messages, NoMessage
  <2>2. listener' \in [conn : 0..opened', epoch : 0..count', msg : 0..Len(msgs)]
    <3>1. listener' = [listener EXCEPT !.msg = NoMessage] /\ NoMessage \in 0..Len(msgs)
      BY <1>8 DEF Acquired
    <3> QED BY <1>3, <3>1, ListenerUpdate, Zenon
  <2> QED BY <1>8, <2>1, <2>2, StartHandlerTypes DEF Acquired
<1>9. ASSUME NEW m \in Messages, Settle(m) PROVE MessageTypes'
    BY <1>9 DEF Settle
<1>10. ASSUME NEW m \in Messages, SettleBeside(m) PROVE MessageTypes'
    BY <1>10 DEF SettleBeside
<1>11. ASSUME NEW m \in Messages, SettleDrained(m) PROVE MessageTypes'
  <2>1. /\ handler' \in [Messages -> {"none", "dropped", "waiting", "running", "settling", "done", "raised"}]
        /\ permits' \in Int
    <3>1. \/ handler' = [handler EXCEPT ![m] = "running"] /\ UNCHANGED permits
          \/ handler' = [handler EXCEPT ![m] = "done"] /\ permits' = permits + 1
      BY <1>11 DEF SettleDrained, Release
    <3>2. permits' \in Int
      BY <3>1
    <3>3. handler' \in [Messages -> {"none", "dropped", "waiting", "running", "settling", "done", "raised"}]
      BY <3>1
    <3> QED BY <3>2, <3>3
  <2>2. hconn' \in [Messages -> 0..opened']
    BY <1>3, <1>11 DEF SettleDrained
  <2> QED BY <1>2, <1>3, <1>11, <2>1, <2>2 DEF SettleDrained
<1>12. ASSUME NEW m \in Messages, HandlerEnds(m) PROVE MessageTypes'
    BY <1>12 DEF HandlerEnds, Release
<1>13. ASSUME NEW m \in Messages, HandlerRaises(m) PROVE MessageTypes'
    BY <1>13 DEF HandlerRaises, Release
<1>14. CASE MessageStep
    BY <1>5, <1>6, <1>7, <1>8, <1>9, <1>10, <1>11, <1>12, <1>13, <1>14 DEF MessageStep, Handle
<1> QED BY <1>4, <1>14, NextSteps, SubStepLeavesMessages DEF vars

LEMMA SettleTypesKept ==
    ASSUME Types, [Next]_vars, SlotOK'
    PROVE  SettleTypes'
<1> USE DEF Types, SlotOK, SettleTypes
<1>1. opened <= opened'
    BY SlotForward
<1>2. \A m \in Messages : settled[m] \in Seq(1..opened')
  <2>1. 1..opened \subseteq 1..opened'
    BY <1>1
  <2> QED BY <2>1, SeqMonotonic
<1>3. ASSUME UNCHANGED settleVars PROVE SettleTypes'
    BY <1>2, <1>3
<1>4. ASSUME NEW m \in Messages, WriteSettle(m), UNCHANGED slotVars
      PROVE  /\ \A k \in Messages : settled'[k] \in Seq(1..opened')
             /\ settled' = [k \in Messages |-> settled'[k]]
  <2>1. settled' = [settled EXCEPT ![m] = Append(settled[m], active)] /\ active \in 1..opened
    BY <1>4 DEF WriteSettle, MaySettle
  <2>2. Append(settled[m], active) \in Seq(1..opened)
    BY <2>1, AppendProperties
  <2> QED BY <1>4, <2>1, <2>2
<1>5. ASSUME NEW m \in Messages, Settle(m) PROVE SettleTypes'
    BY <1>4, <1>5 DEF Settle
<1>6. ASSUME NEW m \in Messages, SettleBeside(m) PROVE SettleTypes'
    BY <1>4, <1>6 DEF SettleBeside
<1>7. ASSUME NEW m \in Messages, Commit(m) PROVE committed' \in [Messages -> BOOLEAN]
    BY <1>7 DEF Commit
<1>8. ASSUME NEW m \in Messages, SettleDrained(m) \/ HandlerEnds(m) PROVE SettleTypes'
    BY <1>2, <1>7, <1>8 DEF SettleDrained, HandlerEnds
<1>9. ASSUME NEW m \in Messages, HandlerRaises(m) PROVE SettleTypes'
    BY <1>3, <1>9 DEF HandlerRaises
<1>10. ASSUME NEW s \in Subs, Receive(s) PROVE SettleTypes'
    BY <1>3, <1>10 DEF Receive
<1>11. CASE Fail \/ Listen \/ ReadLost \/ Acquired
    BY <1>3, <1>11 DEF Fail, Listen, ReadLost, Acquired
<1>12. CASE MessageStep
    BY <1>5, <1>6, <1>8, <1>9, <1>10, <1>11, <1>12 DEF MessageStep, Handle
<1> QED BY <1>3, <1>12, NextSteps, SubStepLeavesMessages DEF vars

(* Subscriptions, messages, tags and settlements stay in their types, and  *)
(* a connection is opened only after the previous one was lost; the bound  *)
(* of the semaphore is left to TypeCorrect.                                *)
THEOREM TypesInvariant == Spec => []Types
<1>1. Types /\ [Next]_vars => Types'
  <2> SUFFICES ASSUME Types, [Next]_vars PROVE Types'
    OBVIOUS
  <2>1. SlotOK' /\ adverse' \in 0..MaxAdverse
    BY NextSlotOK
  <2>2. SubTypes' /\ MessageTypes' /\ SettleTypes'
    BY <2>1, SubTypesKept, MessageTypesKept, SettleTypesKept
  <2> QED BY <2>1, <2>2 DEF Types
<1> QED BY <1>1, InitTypes, PTL DEF Spec

-----------------------------------------------------------------------------
(* The second layer: what the server knows. *)

\* What the first SUBSCRIBE of s on c changes, element by element.
Wrote(c, s) ==
    /\ \A d \in 1..MaxConns, r \in Subs :
          subscribes'[d][r] = IF d = c /\ r = s THEN 1 ELSE subscribes[d][r]
    /\ \A d \in 1..MaxConns : known'[d] = IF d = c THEN known[c] \cup {s} ELSE known[d]

LEMMA WriteSubscribeEffect ==
    ASSUME Types, NEW c \in 1..MaxConns, NEW s \in Subs, WriteSubscribe(c, s),
           subscribes[c][s] = 0
    PROVE  Wrote(c, s)
BY DEF WriteSubscribe, Types, SubTypes, Wrote

LEMMA LoseConnectionEffect ==
    ASSUME NEW c, LoseConnection(c)
    PROVE  /\ UNCHANGED <<pending, opened>>
           /\ \/ active = c /\ active' = NoConn /\ count' = count + 1
              \/ active # c /\ UNCHANGED <<active, count>>
BY DEF LoseConnection, Slot!Discard

LEMMA InitServerInv == Init => ServerInv
BY DEF Init, Slot!Init, ServerInv, RegisteredOK, UnwrittenOK, RestoredOK, SubscribedOnce,
   PromptSubscribedOnActive, NoneForgotten

\* A step that changes at most the slot, and the slot only by a discard.
LEMMA DiscardKeepsServerInv ==
    ASSUME Types, ServerInv,
           UNCHANGED <<subVars, restoreVars, serverVars, pending, opened>>,
           active' = active \/ active' = NoConn
    PROVE  ServerInv'
BY DEF Types, SlotOK, ServerInv, RegisteredOK, UnwrittenOK, RestoredOK, SubscribedOnce,
   PromptSubscribedOnActive, NoneForgotten

LEMMA MessageStepSlot ==
    ASSUME MessageStep
    PROVE  UNCHANGED <<pending, opened>> /\ (active' = active \/ active' = NoConn)
<1>1. ASSUME NEW m \in Messages, SettleBeside(m) \/ HandlerRaises(m) \/ Handle(m)
      PROVE  UNCHANGED <<pending, opened>> /\ (active' = active \/ active' = NoConn)
    BY <1>1, LoseConnectionEffect DEF SettleBeside, HandlerRaises, Handle, Settle, SettleDrained, HandlerEnds
<1>2. ASSUME NEW s \in Subs, Receive(s)
      PROVE  UNCHANGED <<pending, opened>> /\ (active' = active \/ active' = NoConn)
    BY <1>2 DEF Receive
<1>3. CASE Fail \/ Listen \/ ReadLost \/ Acquired
    BY <1>3, LoseConnectionEffect DEF Fail, Listen, ReadLost, Acquired, Slot!Discard
<1> QED BY <1>1, <1>2, <1>3 DEF MessageStep

LEMMA WriteServerInv ==
    ASSUME Types, Types', ServerInv, NEW s \in Subs, Write(s)
    PROVE  ServerInv'
<1>1. /\ active \in 1..MaxConns /\ pending = NoConn /\ restoring = FALSE
      /\ UNCHANGED <<active, pending, opened, subs, snapshot, restoring>>
      /\ at[s] = "ask" /\ s \notin subs
      /\ subscribes[active][s] = 0
    BY DEF Write, Types, SlotOK, SubTypes, ServerInv, RegisteredOK, UnwrittenOK
<1>2. \A r \in Subs : /\ at'[r] = IF r = s THEN "drain" ELSE at[r]
                      /\ sconn'[r] = IF r = s THEN active ELSE sconn[r]
    BY DEF Write, Types, SubTypes
<1>3. WriteSubscribe(active, s)
    BY DEF Write
<1>4. /\ \A d \in 1..MaxConns, r \in Subs :
            subscribes'[d][r] = IF d = active /\ r = s THEN 1 ELSE subscribes[d][r]
      /\ \A d \in 1..MaxConns : known'[d] = IF d = active THEN known[active] \cup {s} ELSE known[d]
  <2>1. active \in 1..MaxConns /\ subscribes[active][s] = 0
    BY <1>1
  <2>2. Wrote(active, s)
    BY <1>3, <2>1, WriteSubscribeEffect
  <2> QED BY ONLY <2>2 DEF Wrote
<1>5. opened \in 0..MaxConns /\ active <= opened /\ \A r \in Subs : sconn[r] \in 0..MaxConns
  <2>1. opened \in 0..MaxConns /\ active <= opened
    BY DEF Types, SlotOK
  <2>2. \A r \in Subs : sconn[r] \in 0..opened
    BY DEF Types, SubTypes
  <2> QED BY <2>1, <2>2
<1>6. subs \subseteq Subs /\ snapshot \subseteq Subs /\ \A d \in 1..MaxConns : known[d] \subseteq Subs
    BY DEF Types, SubTypes
<1>7. RegisteredOK'
    BY <1>1, <1>2, <1>4, <1>5, <1>6 DEF ServerInv, RegisteredOK
<1>8. UnwrittenOK'
    BY <1>1, <1>2, <1>4, <1>5, <1>6 DEF ServerInv, UnwrittenOK
<1>9. SubscribedOnce'
    BY <1>4 DEF ServerInv, SubscribedOnce
<1>10. RestoredOK' /\ PromptSubscribedOnActive' /\ NoneForgotten'
    BY <1>1, <1>2, <1>4, <1>6 DEF ServerInv, RestoredOK, PromptSubscribedOnActive, NoneForgotten
<1> QED BY <1>7, <1>8, <1>9, <1>10 DEF ServerInv

LEMMA ResubscribeServerInv ==
    ASSUME Types, Types', ServerInv, NEW s \in Subs, Resubscribe(s)
    PROVE  ServerInv'
<1>1. /\ pending \in 1..MaxConns /\ pending = opened /\ active = NoConn
      /\ UNCHANGED <<active, pending, opened, subs, at, sconn>>
      /\ restoring' = TRUE /\ s \in Snapshot /\ snapshot' = Snapshot \ {s}
    BY DEF Resubscribe, Types, SlotOK
<1>2. /\ Snapshot \subseteq Subs
      /\ \A r \in Snapshot : at[r] \in {"on", "unheard"} /\ subscribes[pending][r] = 0
      /\ ~restoring => Snapshot = subs
      /\ restoring => Snapshot = snapshot
  <2>1. subs \subseteq Subs /\ snapshot \subseteq Subs
    BY DEF Types, SubTypes
  <2>2. (~restoring => Snapshot = subs) /\ (restoring => Snapshot = snapshot)
    BY DEF Snapshot
  <2>3. \A r \in Snapshot : at[r] \in {"on", "unheard"}
    BY <2>1, <2>2 DEF ServerInv, RegisteredOK
  <2>4. \A r \in Snapshot : subscribes[pending][r] = 0
    BY <1>1, <2>1, <2>2 DEF ServerInv, UnwrittenOK
  <2> QED BY <2>1, <2>2, <2>3, <2>4
<1>3. /\ \A d \in 1..MaxConns, r \in Subs :
            subscribes'[d][r] = IF d = pending /\ r = s THEN 1 ELSE subscribes[d][r]
      /\ \A d \in 1..MaxConns : known'[d] = IF d = pending THEN known[pending] \cup {s} ELSE known[d]
  <2>1. WriteSubscribe(pending, s)
    BY DEF Resubscribe
  <2>2. Wrote(pending, s)
    BY <1>1, <1>2, <2>1, WriteSubscribeEffect
  <2> QED BY ONLY <2>2 DEF Wrote
<1>4. \A r \in Subs : sconn[r] \in 0..MaxConns
    BY DEF Types, SlotOK, SubTypes
<1>5. subs \subseteq Subs /\ \A d \in 1..MaxConns : known[d] \subseteq Subs
    BY DEF Types, SubTypes
<1>6. RegisteredOK'
    BY <1>1, <1>2, <1>3, <1>4, <1>5 DEF ServerInv, RegisteredOK
<1>7. UnwrittenOK'
    BY <1>1, <1>2, <1>3, <1>5 DEF ServerInv, UnwrittenOK
<1>8. SubscribedOnce'
    BY <1>3 DEF ServerInv, SubscribedOnce
<1>9. RestoredOK'
    BY <1>1, <1>2, <1>3, <1>5 DEF ServerInv, RestoredOK
<1>10. PromptSubscribedOnActive' /\ NoneForgotten'
    BY <1>1 DEF PromptSubscribedOnActive, NoneForgotten
<1> QED BY <1>6, <1>7, <1>8, <1>9, <1>10 DEF ServerInv

LEMMA NextServerInv ==
    ASSUME Types, Types', ServerInv, [Next]_vars
    PROVE  ServerInv'
<1> USE DEF Types, SlotOK, SubTypes, ServerInv, RegisteredOK, UnwrittenOK, RestoredOK, SubscribedOnce,
        PromptSubscribedOnActive, NoneForgotten
<1>1. active \in 0..MaxConns /\ pending \in 0..MaxConns /\ opened \in 0..MaxConns
    OBVIOUS
<1>2. ASSUME NEW s \in Subs, Subscribe(s) PROVE ServerInv'
    BY <1>2 DEF Subscribe
<1>3. ASSUME NEW s \in Subs, Write(s) PROVE ServerInv'
    BY <1>3, WriteServerInv
<1>4. ASSUME NEW s \in Subs, Subscribed(s) PROVE ServerInv'
  <2>1. RegisteredOK' /\ UnwrittenOK' /\ SubscribedOnce'
    BY <1>1, <1>4 DEF Subscribed
  <2>2. RestoredOK' /\ PromptSubscribedOnActive' /\ NoneForgotten'
    BY <1>1, <1>4 DEF Subscribed
  <2> QED BY <2>1, <2>2
<1>5. ASSUME NEW s \in Subs, SubscribeLost(s) PROVE ServerInv'
  <2>1. /\ UNCHANGED <<subs, restoreVars, serverVars, pending, opened>>
        /\ active' = active \/ active' = NoConn
        /\ active' = active => active # sconn[s]
    BY <1>5, LoseConnectionEffect DEF SubscribeLost
  <2>2. /\ \A r \in Subs \ {s} : at'[r] = at[r] /\ sconn'[r] = sconn[r]
        /\ at[s] = "drain" /\ at'[s] \in {"ask", "failed"}
    BY <1>5 DEF SubscribeLost
  <2> HIDE DEF Types, SubTypes, ServerInv, RegisteredOK, UnwrittenOK, RestoredOK, SubscribedOnce,
        PromptSubscribedOnActive, NoneForgotten
  <2>3. /\ active \in 0..opened /\ subs \subseteq Subs /\ snapshot \subseteq Subs
        /\ \A c \in 1..MaxConns : known[c] \subseteq Subs
    BY DEF Types, SubTypes
  <2>4. RegisteredOK' /\ SubscribedOnce'
    BY <2>1, <2>2, <2>3 DEF ServerInv, RegisteredOK, SubscribedOnce
  <2>5. UnwrittenOK'
    BY <1>1, <2>1, <2>2 DEF ServerInv, UnwrittenOK
  <2>6. RestoredOK'
    BY <1>1, <2>1, <2>2, <2>3 DEF ServerInv, RestoredOK
  <2>7. PromptSubscribedOnActive'
    BY <2>1, <2>2, <2>3 DEF ServerInv, PromptSubscribedOnActive
  <2>8. NoneForgotten'
    <3>1. active' # NoConn => active' = active /\ active \in 1..MaxConns /\ s \notin known[active]
      BY <1>1, <2>1, <2>2 DEF ServerInv, UnwrittenOK
    <3> QED BY <2>1, <2>2, <2>3, <3>1 DEF ServerInv, NoneForgotten
  <2> QED BY <2>4, <2>5, <2>6, <2>7, <2>8 DEF ServerInv
<1>6. ASSUME NEW s \in Subs, SubscribeFails(s) PROVE ServerInv'
  <2>1. UNCHANGED <<subs, restoreVars, serverVars, active, pending, opened>>
    BY <1>6 DEF SubscribeFails
  <2>2. /\ \A r \in Subs \ {s} : at'[r] = at[r] /\ sconn'[r] = sconn[r]
        /\ at[s] \in {"ask", "drain"} /\ at'[s] = "failed"
    BY <1>6 DEF SubscribeFails
  <2> HIDE DEF Types, SubTypes, ServerInv, RegisteredOK, UnwrittenOK, RestoredOK, SubscribedOnce,
        PromptSubscribedOnActive, NoneForgotten
  <2>3. /\ active \in 0..opened /\ subs \subseteq Subs /\ snapshot \subseteq Subs
        /\ \A c \in 1..MaxConns : known[c] \subseteq Subs
    BY DEF Types, SubTypes
  <2>4. RegisteredOK' /\ SubscribedOnce'
    BY <1>1, <2>1, <2>2, <2>3 DEF ServerInv, RegisteredOK, SubscribedOnce
  <2>5. UnwrittenOK'
    BY <1>1, <2>1, <2>2 DEF ServerInv, UnwrittenOK
  <2>6. RestoredOK'
    BY <1>1, <2>1, <2>2, <2>3 DEF ServerInv, RestoredOK
  <2>7. PromptSubscribedOnActive'
    BY <1>1, <2>1, <2>2, <2>3 DEF ServerInv, PromptSubscribedOnActive
  <2>8. NoneForgotten'
    BY <1>1, <2>1, <2>2, <2>3 DEF ServerInv, NoneForgotten
  <2> QED BY <2>4, <2>5, <2>6, <2>7, <2>8 DEF ServerInv
<1>7. ASSUME NEW s \in Subs, Unsubscribe(s) PROVE ServerInv'
  <2>1. /\ UNCHANGED <<restoreVars, subscribes, active, pending, opened>>
        /\ subs' = subs \ {s}
        /\ known' = IF active = NoConn THEN known ELSE [known EXCEPT ![active] = @ \ {s}]
    BY ONLY <1>7 DEF Unsubscribe, slotVars, restoreVars
  <2>2. /\ \A r \in Subs \ {s} : at'[r] = at[r] /\ sconn'[r] = sconn[r]
        /\ at[s] = "on" /\ at'[s] \in {"leaving", "unheard", "gone"}
        /\ active = NoConn /\ restoring => at'[s] = "unheard"
    BY <1>7 DEF Unsubscribe
  <2> HIDE DEF Types, SubTypes, ServerInv, RegisteredOK, UnwrittenOK, RestoredOK, SubscribedOnce,
        PromptSubscribedOnActive, NoneForgotten
  <2>3. /\ active \in 0..opened /\ subs \subseteq Subs /\ snapshot \subseteq Subs
        /\ known \in [1..MaxConns -> SUBSET Subs] /\ restoring \in BOOLEAN
        /\ pending # NoConn => active = NoConn
    BY DEF Types, SubTypes
  <2>4. \A c \in 1..MaxConns : /\ known'[c] = IF c = active THEN known[c] \ {s} ELSE known[c]
                               /\ known[c] \subseteq Subs
    <3>1. CASE active = NoConn
      BY <2>1, <2>3, <3>1
    <3>2. CASE active # NoConn
      BY <2>1, <2>3, <3>2
    <3> QED BY <3>1, <3>2
  <2>5. RegisteredOK'
    BY <2>1, <2>2, <2>3 DEF ServerInv, RegisteredOK
  <2>6. UnwrittenOK'
    BY <1>1, <2>1, <2>2, <2>4 DEF ServerInv, UnwrittenOK
  <2>7. SubscribedOnce' /\ PromptSubscribedOnActive'
    BY <2>1 DEF ServerInv, SubscribedOnce, PromptSubscribedOnActive
  <2>8. RestoredOK'
    <3>1. pending # NoConn => known'[pending] = known[pending] /\ known[pending] \subseteq Subs
      <4>1. pending # NoConn => pending \in 1..MaxConns /\ pending # active
        BY <1>1, <2>3
      <4> QED BY <2>4, <4>1
    <3>2. pending # NoConn => \A r \in known[pending] : at'[r] \in {"on", "unheard"}
      <4>1. pending # NoConn /\ s \in known[pending] => restoring
        BY <1>1, <2>2 DEF ServerInv, UnwrittenOK
      <4> QED BY <2>2, <2>3, <3>1, <4>1 DEF ServerInv, RestoredOK
    <3> QED BY <2>1, <3>1, <3>2 DEF ServerInv, RestoredOK
  <2>9. NoneForgotten'
    <3>1. active # NoConn => known'[active] = known[active] \ {s} /\ known[active] \subseteq Subs
      <4>1. active # NoConn => active \in 1..MaxConns
        BY <1>1
      <4> QED BY <2>4, <4>1
    <3> QED BY <2>1, <2>2, <3>1 DEF ServerInv, NoneForgotten
  <2> QED BY <2>5, <2>6, <2>7, <2>8, <2>9 DEF ServerInv
<1>8. ASSUME NEW s \in Subs, Unsubscribed(s) PROVE ServerInv'
  <2>1. /\ UNCHANGED <<subs, restoreVars, serverVars, pending, opened>>
        /\ active' = active \/ active' = NoConn
    BY <1>8, LoseConnectionEffect DEF Unsubscribed
  <2>2. /\ \A r \in Subs \ {s} : at'[r] = at[r] /\ sconn'[r] = sconn[r]
        /\ at[s] = "leaving" /\ at'[s] = "gone"
    BY <1>8 DEF Unsubscribed
  <2> HIDE DEF Types, SubTypes, ServerInv, RegisteredOK, UnwrittenOK, RestoredOK, SubscribedOnce,
        PromptSubscribedOnActive, NoneForgotten
  <2>3. /\ active \in 0..opened /\ subs \subseteq Subs /\ snapshot \subseteq Subs
        /\ \A c \in 1..MaxConns : known[c] \subseteq Subs
    BY DEF Types, SubTypes
  <2>4. RegisteredOK' /\ SubscribedOnce'
    BY <2>1, <2>2, <2>3 DEF ServerInv, RegisteredOK, SubscribedOnce
  <2>5. UnwrittenOK'
    BY <1>1, <2>1, <2>2 DEF ServerInv, UnwrittenOK
  <2>6. RestoredOK'
    BY <1>1, <2>1, <2>2, <2>3 DEF ServerInv, RestoredOK
  <2>7. PromptSubscribedOnActive'
    BY <2>1, <2>2, <2>3 DEF ServerInv, PromptSubscribedOnActive
  <2>8. NoneForgotten'
    BY <1>1, <2>1, <2>2, <2>3 DEF ServerInv, NoneForgotten
  <2> QED BY <2>4, <2>5, <2>6, <2>7, <2>8 DEF ServerInv
<1>9. CASE Connect
    BY <1>1, <1>9 DEF Connect, Slot!Open
<1>10. CASE ResubscribeNone
    BY <1>1, <1>10 DEF ResubscribeNone, Snapshot
<1>11. ASSUME NEW s \in Subs, Resubscribe(s) PROVE ServerInv'
    BY <1>11, ResubscribeServerInv
<1>12. CASE Establish
    BY <1>1, <1>12 DEF Establish, Slot!Establish
<1>13. CASE ConnectFails
    BY <1>1, <1>13 DEF ConnectFails, Slot!GiveUp
<1>14. CASE SubStep
    BY <1>2, <1>3, <1>4, <1>5, <1>6, <1>7, <1>8, <1>9, <1>10, <1>11, <1>12, <1>13, <1>14 DEF SubStep, Restore
<1>15. CASE MessageStep
    BY <1>15, MessageStepLeavesSubs, MessageStepSlot, DiscardKeepsServerInv
<1>16. CASE UNCHANGED vars
    BY <1>16, DiscardKeepsServerInv DEF vars
<1> QED BY <1>14, <1>15, <1>16, NextSteps

-----------------------------------------------------------------------------
(* The third layer: the messages. *)

\* The connection stays, or a new one becomes active, or the old one is discarded.
Stays ==
    /\ UNCHANGED <<active, count>>
    /\ pending' = pending \/ pending' = NoConn \/ pending' = opened + 1
Enters == active = NoConn /\ pending # NoConn /\ active' = pending /\ pending' = NoConn /\ count' = count
Leaves == active # NoConn /\ active' = NoConn /\ count' = count + 1 /\ pending' = pending

LEMMA SlotMoves ==
    ASSUME Types, [Next]_vars
    PROVE  Stays \/ Enters \/ Leaves
<1> USE DEF Types, SlotOK, Stays, Leaves
<1>1. ASSUME NEW c, LoseConnection(c) PROVE Stays \/ Leaves
    BY <1>1 DEF LoseConnection, Slot!Discard
<1>2. ASSUME NEW m \in Messages, SettleBeside(m) \/ HandlerRaises(m) \/ Handle(m)
      PROVE  Stays \/ Leaves
    BY <1>1, <1>2 DEF SettleBeside, HandlerRaises, Handle, Settle, SettleDrained, HandlerEnds
<1>3. ASSUME NEW s \in Subs, Receive(s) PROVE Stays
    BY <1>3 DEF Receive
<1>4. ASSUME Fail \/ Listen \/ ReadLost \/ Acquired PROVE Stays \/ Leaves
    BY <1>1, <1>4 DEF Fail, Listen, ReadLost, Acquired, Slot!Discard
<1>5. ASSUME NEW s \in Subs,
             \/ Subscribe(s) \/ Write(s) \/ Subscribed(s) \/ SubscribeLost(s) \/ SubscribeFails(s)
             \/ Unsubscribe(s) \/ Unsubscribed(s) \/ Resubscribe(s)
      PROVE  Stays \/ Leaves
    BY <1>1, <1>5 DEF Subscribe, Write, Subscribed, SubscribeLost, SubscribeFails,
       Unsubscribe, Unsubscribed, Resubscribe
<1>6. CASE Connect \/ ConnectFails \/ ResubscribeNone
    BY <1>6 DEF Connect, ConnectFails, ResubscribeNone, Slot!Open, Slot!GiveUp
<1>7. CASE Establish
    BY <1>7 DEF Establish, Slot!Establish, Enters
<1> QED BY <1>2, <1>3, <1>4, <1>5, <1>6, <1>7 DEF Next, Restore, vars

\* A tag that names the active connection c, by the epoch e, goes on doing so.
LEMMA EpochStable ==
    ASSUME Types, [Next]_vars, NEW c \in 1..opened, NEW e \in 0..count,
           e = count <=> active = c, pending # c
    PROVE  (e = count' <=> active' = c) /\ pending' # c
<1>1. count \in Nat /\ opened \in Nat
    BY DEF Types, SlotOK
<1> QED BY <1>1, SlotMoves DEF Stays, Enters, Leaves

LEMMA PastStays ==
    ASSUME Types, ServerInv, [Next]_vars, NEW s \in Subs, at[s] \in Past
    PROVE  at'[s] \in Past /\ (s \in subs' => s \in subs)
<1> USE DEF Types, SubTypes, Past, ServerInv, RegisteredOK
<1>1. CASE SubStep
  <2>1. ASSUME NEW r \in Subs, Subscribe(r) \/ Write(r) \/ Subscribed(r) \/ SubscribeLost(r) \/ SubscribeFails(r)
        PROVE  at'[s] \in Past /\ (s \in subs' => s \in subs)
    BY <2>1 DEF Subscribe, Write, Subscribed, SubscribeLost, SubscribeFails
  <2>2. ASSUME NEW r \in Subs, Unsubscribe(r) \/ Unsubscribed(r)
        PROVE  at'[s] \in Past /\ (s \in subs' => s \in subs)
    BY <2>2 DEF Unsubscribe, Unsubscribed
  <2>3. CASE ConnectFails \/ Restore
    BY <2>3 DEF ConnectFails, Restore, Connect, ResubscribeNone, Establish, Resubscribe
  <2> QED BY <1>1, <2>1, <2>2, <2>3 DEF SubStep
<1>2. CASE MessageStep
    BY <1>2, MessageStepLeavesSubs
<1> QED BY <1>1, <1>2, NextSteps DEF vars

LEMMA MessageRecord ==
    ASSUME Types, NEW m \in 1..Len(msgs)
    PROVE  msgs[m].conn \in 1..opened /\ msgs[m].sub \in Subs
<1>1. msgs \in Seq([conn : 1..opened, sub : Subs, ack : BOOLEAN])
    BY DEF Types, MessageTypes
<1>2. msgs[m] \in [conn : 1..opened, sub : Subs, ack : BOOLEAN]
    BY <1>1, ElementOfSeq
<1> QED BY <1>2

LEMMA HandledRecord ==
    ASSUME Types, ListenerOK, NEW m \in Messages, handler[m] # "none"
    PROVE  m \in 1..Len(msgs) /\ msgs[m].conn \in 1..opened /\ msgs[m].sub \in Subs /\ msgs[m].conn # NoConn
<1>1. msgs \in Seq([conn : 1..opened, sub : Subs, ack : BOOLEAN]) /\ opened \in Nat
    BY DEF Types, MessageTypes, SlotOK
<1>2. Len(msgs) \in Nat
    BY <1>1, LenProperties
<1>3. m \in 1..Len(msgs)
    BY <1>2 DEF ListenerOK, Messages
<1> QED BY <1>1, <1>3, MessageRecord

\* What could not be settled at some time cannot be settled later.
LEMMA MaySettleStable ==
    ASSUME Types, ServerInv, ListenerOK, [Next]_vars,
           NEW m \in Messages, MessageOK(m), handler[m] \in Handled,
           tag'[m] = tag[m], msgs'[m] = msgs[m], MaySettle(m)'
    PROVE  MaySettle(m)
<1>1. msgs[m].conn # NoConn /\ msgs[m].sub \in Subs
    BY HandledRecord DEF Handled
<1>2. msgs[m].sub \in subs
    BY <1>1, PastStays DEF MaySettle, MessageOK
<1>3. /\ tag[m] \in 0..count /\ msgs[m].conn \in 1..opened
      /\ tag[m] = count <=> active = msgs[m].conn
      /\ pending # msgs[m].conn
  <2>1. tag[m] \in 0..count
    BY DEF Types, MessageTypes
  <2> QED BY <2>1, HandledRecord DEF Handled, MessageOK
<1>4. tag[m] = count' /\ active' # NoConn
    BY DEF MaySettle
<1>5. tag[m] = count
  <2>1. count \in Nat
    BY DEF Types, SlotOK
  <2> QED BY <1>1, <1>3, <1>4, <2>1, SlotMoves DEF Stays, Enters, Leaves
<1>6. active = msgs[m].conn
    BY <1>3, <1>5
<1> QED BY <1>1, <1>2, <1>5, <1>6 DEF MaySettle

LEMMA InitMessageInv == Init => MessageInv
<1> SUFFICES ASSUME Init PROVE MessageInv
    OBVIOUS
<1>1. \A m \in Messages : handler[m] = "none" /\ settled[m] = <<>> /\ committed[m] = FALSE
    BY DEF Init
<1>2. msgs = <<>> /\ listener = [conn |-> NoConn, epoch |-> 0, msg |-> NoMessage] /\ Len(msgs) = 0
    BY DEF Init
<1>3. ListenerOK
    BY <1>1, <1>2 DEF ListenerOK, Messages
<1>4. ASSUME NEW m \in Messages PROVE MessageOK(m)
    BY <1>1, EmptySeq DEF MessageOK, Handled
<1> QED BY <1>3, <1>4 DEF MessageInv

\* A message's tag goes on naming its connection, and its subscription stays.
LEMMA TagStable ==
    ASSUME Types, ServerInv, ListenerOK, [Next]_vars,
           NEW m \in Messages, MessageOK(m), handler[m] \in Handled,
           tag'[m] = tag[m], msgs'[m] = msgs[m]
    PROVE  /\ tag'[m] = count' <=> active' = msgs'[m].conn
           /\ pending' # msgs'[m].conn
           /\ at'[msgs'[m].sub] \in Past
<1>1. msgs[m].conn \in 1..opened /\ msgs[m].sub \in Subs
    BY HandledRecord DEF Handled
<1>2. at'[msgs[m].sub] \in Past
    BY <1>1, PastStays DEF MessageOK
<1>3. tag[m] \in 0..count
    BY DEF Types, MessageTypes
<1>4. (tag[m] = count' <=> active' = msgs[m].conn) /\ pending' # msgs[m].conn
    BY <1>1, <1>3, EpochStable DEF MessageOK
<1> QED BY <1>2, <1>4

\* A message that a step leaves alone.
LEMMA QuietMessage ==
    ASSUME Types, ServerInv, ListenerOK, [Next]_vars,
           NEW m \in Messages, MessageOK(m),
           handler'[m] = handler[m], tag'[m] = tag[m], settled'[m] = settled[m], committed'[m] = committed[m],
           handler[m] = "none" \/ msgs'[m] = msgs[m],
           m \in overlapped => m \in overlapped'
    PROVE  MessageOK(m)'
<1>1. CASE handler[m] = "none"
    BY <1>1, EmptySeq DEF MessageOK, Handled
<1>2. CASE handler[m] \in Handled
  <2>1. msgs'[m] = msgs[m]
    BY <1>2 DEF Handled
  <2>2. MaySettle(m)' => MaySettle(m)
    BY <1>2, <2>1, MaySettleStable
  <2>3. /\ tag'[m] = count' <=> active' = msgs'[m].conn
        /\ pending' # msgs'[m].conn
        /\ at'[msgs'[m].sub] \in Past
    BY <1>2, <2>1, TagStable
  <2> QED BY <2>1, <2>2, <2>3 DEF MessageOK
<1>3. CASE handler[m] = "waiting"
  <2>1. msgs'[m] = msgs[m] /\ msgs[m].sub \in Subs
    BY <1>3, HandledRecord
  <2>2. at'[msgs[m].sub] \in Past
    BY <1>3, <2>1, PastStays DEF MessageOK
  <2> QED BY <1>3, <2>1, <2>2, EmptySeq DEF MessageOK, Handled
<1>4. CASE handler[m] = "dropped"
    BY <1>4, EmptySeq DEF MessageOK, Handled
<1> QED BY <1>1, <1>2, <1>3, <1>4 DEF Handled, Types, MessageTypes

\* A step that neither reads a message nor changes which connection is listened to.
LEMMA QuietListener ==
    ASSUME Types, ListenerOK, [Next]_vars, UNCHANGED <<listener, msgs>>,
           \A m \in Messages : /\ handler'[m] = "none" <=> handler[m] = "none"
                               /\ handler'[m] = "waiting" <=> handler[m] = "waiting"
    PROVE  ListenerOK'
<1>1. listener.conn \in 0..opened /\ listener.epoch \in 0..count /\ opened \in Nat
    BY ListenerFields
<1>2. listener.conn # NoConn => (listener.epoch = count' <=> active' = listener.conn) /\ pending' # listener.conn
    BY <1>1, EpochStable DEF ListenerOK
<1> QED BY <1>2 DEF ListenerOK

\* The message that a step of a handler is about, the others being left alone.
LEMMA HandlerStep ==
    ASSUME Types, Types', ServerInv, MessageInv, [Next]_vars, UNCHANGED <<listener, msgs, tag>>,
           NEW m \in Messages, handler[m] \in Handled, handler'[m] \in Handled, MessageOK(m)',
           \A k \in Messages \ {m} : handler'[k] = handler[k] /\ settled'[k] = settled[k]
                                     /\ committed'[k] = committed[k],
           overlapped \subseteq overlapped'
    PROVE  MessageInv'
<1>1. ListenerOK'
    BY QuietListener DEF MessageInv, Handled
<1>2. ASSUME NEW k \in Messages \ {m} PROVE MessageOK(k)'
    BY <1>2, QuietMessage DEF MessageInv
<1> QED BY <1>1, <1>2 DEF MessageInv

LEMMA WriteSettleEffect ==
    ASSUME Types, ListenerOK, NEW m \in Messages, MessageOK(m), handler[m] \in Handled, WriteSettle(m)
    PROVE  /\ ~committed[m] /\ MaySettle(m) /\ active = msgs[m].conn
           /\ settled'[m] # <<>> /\ Len(settled'[m]) = Len(settled[m]) + 1 /\ Len(settled[m]) \in Nat
           /\ \A i \in DOMAIN settled'[m] : settled'[m][i] = msgs[m].conn
           /\ \A k \in Messages \ {m} : settled'[k] = settled[k]
<1>1. ~committed[m] /\ MaySettle(m) /\ active = msgs[m].conn
    BY DEF WriteSettle, MaySettle, MessageOK
<1>2. settled'[m] = Append(settled[m], active) /\ \A k \in Messages \ {m} : settled'[k] = settled[k]
    BY DEF WriteSettle, Types, SettleTypes
<1>3. settled[m] \in Seq(1..opened) /\ active \in 1..opened
    BY <1>1 DEF Types, SettleTypes, SlotOK, MaySettle
<1>4. /\ Len(settled'[m]) = Len(settled[m]) + 1 /\ Len(settled[m]) \in Nat
      /\ \A i \in 1..Len(settled[m]) : settled'[m][i] = settled[m][i]
      /\ settled'[m][Len(settled[m]) + 1] = active
      /\ settled'[m] \in Seq(1..opened)
    BY <1>2, <1>3, AppendProperties, LenProperties
<1>5. DOMAIN settled'[m] = 1..(Len(settled[m]) + 1) /\ DOMAIN settled[m] = 1..Len(settled[m])
    BY <1>3, <1>4, LenProperties
<1>6. \A i \in DOMAIN settled'[m] : settled'[m][i] = msgs[m].conn
    BY <1>1, <1>4, <1>5 DEF MessageOK
<1>7. settled'[m] # <<>>
    BY <1>4, EmptySeq
<1> QED BY <1>1, <1>2, <1>4, <1>6, <1>7

LEMMA SettleMessageInv ==
    ASSUME Types, Types', ServerInv, MessageInv, NEW m \in Messages, Settle(m)
    PROVE  MessageInv'
<1>1. [Next]_vars /\ UNCHANGED <<listener, msgs, tag, active, pending, count, at, subs, committed, overlapped>>
    BY DEF Settle, Next, Handle
<1>2. handler[m] = "running" /\ handler'[m] = "settling" /\ \A k \in Messages \ {m} : handler'[k] = handler[k]
    BY DEF Settle, Types, MessageTypes
<1>3. MessageOK(m) /\ handler[m] \in Handled /\ handler'[m] \in Handled
    BY <1>2 DEF MessageInv, Handled
<1>4. /\ ~committed[m] /\ active = msgs[m].conn
      /\ settled'[m] # <<>> /\ Len(settled'[m]) = Len(settled[m]) + 1 /\ Len(settled[m]) \in Nat
      /\ \A i \in DOMAIN settled'[m] : settled'[m][i] = msgs[m].conn
      /\ \A k \in Messages \ {m} : settled'[k] = settled[k]
    BY <1>3, WriteSettleEffect DEF Settle, MessageInv
<1>5. msgs[m].sub \in Subs
    BY <1>2, HandledRecord DEF MessageInv
<1>6. Len(settled'[m]) > 1 => msgs[m].sub \in ManualAck \ Stream
    BY <1>2, <1>3, <1>4, <1>5, EmptySeq DEF MessageOK, Subs
<1>7. MessageOK(m)'
    BY <1>1, <1>2, <1>3, <1>4, <1>6 DEF MessageOK, Handled
<1> QED BY <1>1, <1>2, <1>3, <1>4, <1>7, HandlerStep

LEMMA SettleBesideMessageInv ==
    ASSUME Types, Types', ServerInv, MessageInv, NEW m \in Messages, SettleBeside(m)
    PROVE  MessageInv'
<1>1. [Next]_vars /\ UNCHANGED <<listener, msgs, tag, handler, active, pending, count, at, subs, committed>>
    BY DEF SettleBeside, Next
<1>2. /\ handler[m] \in {"settling", "done"} /\ msgs[m].sub \in ManualAck
      /\ overlapped \subseteq overlapped' /\ (handler[m] = "settling" => m \in overlapped')
    BY DEF SettleBeside
<1>3. MessageOK(m) /\ handler[m] \in Handled
    BY <1>2 DEF MessageInv, Handled
<1>4. /\ ~committed[m] /\ active = msgs[m].conn
      /\ settled'[m] # <<>>
      /\ \A i \in DOMAIN settled'[m] : settled'[m][i] = msgs[m].conn
      /\ \A k \in Messages \ {m} : settled'[k] = settled[k]
    BY <1>3, WriteSettleEffect DEF SettleBeside, MessageInv
<1>5. msgs[m].sub \in ManualAck \ Stream \/ m \in overlapped'
    BY <1>2, <1>3, <1>4 DEF MessageOK
<1>6. MessageOK(m)'
    BY <1>1, <1>2, <1>3, <1>4, <1>5 DEF MessageOK, Handled
<1> QED BY <1>1, <1>2, <1>3, <1>4, <1>6, HandlerStep

LEMMA CommitEffect ==
    ASSUME Types, NEW m \in Messages, Commit(m)
    PROVE  /\ committed'[m] = (msgs[m].sub \in Stream)
           /\ \A k \in Messages \ {m} : committed'[k] = committed[k]
BY DEF Commit, Types, SettleTypes

LEMMA SettleDrainedMessageInv ==
    ASSUME Types, Types', ServerInv, MessageInv, NEW m \in Messages, SettleDrained(m)
    PROVE  MessageInv'
<1>1. [Next]_vars /\ UNCHANGED <<listener, msgs, tag, at, subs, settled, overlapped>>
    BY DEF SettleDrained, Next, Handle
<1>2. /\ handler[m] = "settling" /\ \A k \in Messages \ {m} : handler'[k] = handler[k]
      /\ handler'[m] = IF msgs[m].sub \in ManualAck THEN "running" ELSE "done"
    BY DEF SettleDrained, Types, MessageTypes
<1>3. MessageOK(m) /\ handler[m] \in Handled /\ handler'[m] \in Handled
    BY <1>2 DEF MessageInv, Handled
<1>4. committed'[m] = (msgs[m].sub \in Stream) /\ \A k \in Messages \ {m} : committed'[k] = committed[k]
    BY CommitEffect DEF SettleDrained
<1>5. /\ tag'[m] = count' <=> active' = msgs'[m].conn
      /\ pending' # msgs'[m].conn
      /\ at'[msgs'[m].sub] \in Past
    BY <1>1, <1>3, TagStable DEF MessageInv
<1>6. settled[m] # <<>> /\ msgs[m].sub \in Subs
    BY <1>2, <1>3, HandledRecord DEF MessageOK, MessageInv
<1>7. MessageOK(m)'
    BY <1>1, <1>2, <1>3, <1>4, <1>5, <1>6 DEF MessageOK, Handled, Subs
<1> QED BY <1>1, <1>2, <1>3, <1>4, <1>7, HandlerStep

LEMMA HandlerEndsMessageInv ==
    ASSUME Types, Types', ServerInv, MessageInv, NEW m \in Messages, HandlerEnds(m)
    PROVE  MessageInv'
<1>1. [Next]_vars /\ UNCHANGED <<listener, msgs, tag, active, pending, count, at, subs, settled, overlapped>>
    BY DEF HandlerEnds, Next, Handle
<1>2. /\ handler[m] = "running" /\ handler'[m] = "done" /\ \A k \in Messages \ {m} : handler'[k] = handler[k]
      /\ ~Settles(m)
    BY DEF HandlerEnds, Types, MessageTypes
<1>3. MessageOK(m) /\ handler[m] \in Handled /\ handler'[m] \in Handled
    BY <1>2 DEF MessageInv, Handled
<1>4. committed'[m] = (msgs[m].sub \in Stream) /\ \A k \in Messages \ {m} : committed'[k] = committed[k]
    BY CommitEffect DEF HandlerEnds
<1>5. msgs[m].sub \in AutoAck \cup Stream /\ MaySettle(m) => settled[m] # <<>>
    BY <1>2, <1>3 DEF Settles, MessageOK
<1>6. MaySettle(m)' <=> MaySettle(m)
    BY <1>1 DEF MaySettle
<1>7. MessageOK(m)'
    BY <1>1, <1>2, <1>3, <1>4, <1>5, <1>6 DEF MessageOK, Handled
<1> QED BY <1>1, <1>2, <1>3, <1>4, <1>7, HandlerStep

LEMMA HandlerRaisesMessageInv ==
    ASSUME Types, Types', ServerInv, MessageInv, NEW m \in Messages, HandlerRaises(m)
    PROVE  MessageInv'
<1>1. [Next]_vars /\ UNCHANGED <<listener, msgs, tag, active, pending, count, at, subs, settled, committed, overlapped>>
    BY DEF HandlerRaises, Next
<1>2. handler[m] = "running" /\ handler'[m] = "raised" /\ \A k \in Messages \ {m} : handler'[k] = handler[k]
    BY DEF HandlerRaises, Types, MessageTypes
<1>3. MessageOK(m) /\ handler[m] \in Handled /\ handler'[m] \in Handled
    BY <1>2 DEF MessageInv, Handled
<1>4. MaySettle(m)' <=> MaySettle(m)
    BY <1>1 DEF MaySettle
<1>5. MessageOK(m)'
    BY <1>1, <1>2, <1>3, <1>4 DEF MessageOK, Handled
<1> QED BY <1>1, <1>2, <1>3, <1>5, HandlerStep

\* The message gets its handler while the listener still listens to its connection.
LEMMA AcquiredMessageInv ==
    ASSUME Types, Types', ServerInv, MessageInv, Acquired
    PROVE  MessageInv'
<1>1. [Next]_vars /\ UNCHANGED <<msgs, active, pending, count, at, subs, settled, committed, overlapped>>
    BY DEF Acquired, Next
<1>2. PICK m \in Messages : m = listener.msg /\ m # NoMessage
  <2>1. listener.msg # NoMessage
    BY DEF Acquired
  <2>2. listener.msg \in Messages
    BY ONLY <2>1, Types, ListenerFields, SubscriptionsAssumption DEF NoMessage, Messages
  <2> QED BY <2>1, <2>2
<1>3. handler[m] = "waiting" /\ MessageOK(m) /\ ListenerOK
    BY <1>2 DEF MessageInv, ListenerOK
<1>4. /\ handler'[m] = "running" /\ tag'[m] = listener.epoch
      /\ \A k \in Messages \ {m} : handler'[k] = handler[k] /\ tag'[k] = tag[k]
    BY <1>2 DEF Acquired, StartHandler, Types, MessageTypes
<1>5. listener'.conn = listener.conn /\ listener'.epoch = listener.epoch /\ listener'.msg = NoMessage
    BY DEF Acquired, Types, MessageTypes
<1>6. ListenerOK'
    BY <1>1, <1>2, <1>3, <1>4, <1>5 DEF ListenerOK, Messages
<1>7. MessageOK(m)'
    BY <1>1, <1>2, <1>3, <1>4, EmptySeq DEF MessageOK, ListenerOK, Handled
<1>8. ASSUME NEW k \in Messages \ {m} PROVE MessageOK(k)'
    BY <1>1, <1>3, <1>4, <1>8, QuietMessage DEF MessageInv
<1> QED BY <1>2, <1>6, <1>7, <1>8 DEF MessageInv

\* A message is read: dropped, held, or given to a handler.
LEMMA ReceiveMessageInv ==
    ASSUME Types, Types', ServerInv, MessageInv, NEW s \in Subs, Receive(s)
    PROVE  MessageInv'
<1>1. /\ [Next]_vars /\ UNCHANGED <<active, pending, count, at, subs, settled, committed, overlapped>>
      /\ listener.conn # NoConn /\ listener.msg = NoMessage
    BY DEF Receive, Next
<1>2. msgs \in Seq([conn : 1..opened, sub : Subs, ack : BOOLEAN]) /\ Len(msgs) \in Nat
      /\ listener.conn \in 1..opened
    BY ONLY <1>1, Types, ListenerFields DEF NoConn, Slot!NoConn
<1>3. PICK m \in Messages : m = Len(msgs) + 1
    BY DEF Receive
<1>4. PICK ack \in BOOLEAN : msgs' = Append(msgs, [conn |-> listener.conn, sub |-> s, ack |-> ack])
    BY DEF Receive
<1>5. /\ Len(msgs') = m
      /\ \A k \in 1..Len(msgs) : msgs'[k] = msgs[k]
      /\ msgs'[m] = [conn |-> listener.conn, sub |-> s, ack |-> ack]
    BY <1>2, <1>3, <1>4, AppendProperties
<1>6. msgs'[m].conn = listener.conn /\ msgs'[m].sub = s
    BY <1>5
<1>7. handler[m] = "none" /\ MessageOK(m) /\ ListenerOK
    BY <1>2, <1>3 DEF MessageInv, ListenerOK
<1>8. \/ s \notin subs /\ handler'[m] = "dropped" /\ listener' = listener /\ tag'[m] = tag[m]
      \/ s \in subs /\ handler'[m] = "waiting" /\ tag'[m] = tag[m]
         /\ listener'.conn = listener.conn /\ listener'.epoch = listener.epoch /\ listener'.msg = m
      \/ s \in subs /\ handler'[m] = "running" /\ tag'[m] = listener.epoch /\ listener' = listener
    BY <1>3 DEF Receive, StartHandler, Types, MessageTypes
<1>9. \A k \in Messages \ {m} : handler'[k] = handler[k] /\ tag'[k] = tag[k]
  <2>1. /\ \E h \in {"dropped", "waiting", "running"} : handler' = [handler EXCEPT ![m] = h]
        /\ tag' = tag \/ tag' = [tag EXCEPT ![m] = listener.epoch]
    BY <1>3 DEF Receive, StartHandler
  <2> QED BY <2>1 DEF Types, MessageTypes
<1>10. s \in subs => at[s] = "on"
    BY DEF ServerInv, RegisteredOK
<1>11. ListenerOK'
  <2>1. \A k \in Messages : handler'[k] = "none" <=> k > Len(msgs')
    BY <1>2, <1>3, <1>5, <1>7, <1>8, <1>9 DEF ListenerOK, Messages
  <2>2. \A k \in Messages : handler'[k] = "waiting" <=> listener'.msg = k
    BY <1>1, <1>7, <1>8, <1>9 DEF ListenerOK, Messages
  <2>3. listener'.conn # NoConn =>
           (listener'.epoch = count' <=> active' = listener'.conn) /\ pending' # listener'.conn
    BY <1>1, <1>7, <1>8 DEF ListenerOK
  <2>4. listener'.msg # NoMessage => listener'.conn # NoConn /\ msgs'[listener'.msg].conn = listener'.conn
    BY <1>1, <1>6, <1>8
  <2> QED BY <2>1, <2>2, <2>3, <2>4 DEF ListenerOK
<1>12. MessageOK(m)'
  <2>1. settled'[m] = <<>> /\ committed'[m] = FALSE
    BY <1>1, <1>7 DEF MessageOK, Types, SettleTypes
  <2>2. handler'[m] = "running" =>
           (tag'[m] = count' <=> active' = msgs'[m].conn) /\ pending' # msgs'[m].conn
    BY <1>1, <1>6, <1>7, <1>8 DEF ListenerOK
  <2>3. handler'[m] \in {"running", "waiting"} => at'[msgs'[m].sub] \in Past
    BY <1>1, <1>6, <1>8, <1>10 DEF Past
  <2>4. handler'[m] \in {"dropped", "running", "waiting"}
    BY <1>8
  <2> QED BY <2>1, <2>2, <2>3, <2>4, EmptySeq DEF MessageOK, Handled
<1>13. ASSUME NEW k \in Messages \ {m} PROVE MessageOK(k)'
  <2>1. handler[k] = "none" \/ msgs'[k] = msgs[k]
    BY <1>2, <1>5, <1>7 DEF ListenerOK, Messages
  <2> QED BY <1>1, <1>7, <1>9, <2>1, QuietMessage DEF MessageInv
<1> QED BY <1>11, <1>12, <1>13 DEF MessageInv

LEMMA NextMessageInv ==
    ASSUME Types, Types', ServerInv, MessageInv, [Next]_vars
    PROVE  MessageInv'
<1>1. ASSUME UNCHANGED <<msgs, handler, tag, settleVars>>, ListenerOK' PROVE MessageInv'
    BY <1>1, QuietMessage DEF MessageInv
<1>2. ASSUME UNCHANGED messageVars PROVE MessageInv'
    BY <1>1, <1>2, QuietListener DEF MessageInv
<1>3. CASE SubStep \/ Fail \/ UNCHANGED vars
    BY <1>2, <1>3, SubStepLeavesMessages DEF Fail, vars
<1>4. CASE Listen
  <2>1. listener'.conn = active /\ listener'.epoch = count /\ listener'.msg = listener.msg
    BY <1>4 DEF Listen, Types, MessageTypes
  <2>2. /\ listener.conn = NoConn /\ active # NoConn /\ pending = NoConn
        /\ UNCHANGED <<active, pending, count, msgs, handler, tag, settleVars>>
    BY <1>4 DEF Listen, Types, SlotOK
  <2>3. ListenerOK'
    BY <2>1, <2>2 DEF ListenerOK, MessageInv
  <2> QED BY <1>1, <2>2, <2>3
<1>5. CASE ReadLost
  <2>1. listener'.conn = NoConn /\ listener'.msg = listener.msg
    BY <1>5 DEF ReadLost, Types, MessageTypes
  <2>2. listener.msg = NoMessage /\ UNCHANGED <<msgs, handler, tag, settleVars>>
    BY <1>5 DEF ReadLost
  <2>3. ListenerOK'
    BY <2>1, <2>2 DEF ListenerOK, MessageInv
  <2> QED BY <1>1, <2>2, <2>3
<1>6. CASE MessageStep
    BY <1>3, <1>4, <1>5, <1>6, AcquiredMessageInv, ReceiveMessageInv, SettleMessageInv, SettleBesideMessageInv,
       SettleDrainedMessageInv, HandlerEndsMessageInv, HandlerRaisesMessageInv DEF MessageStep, Handle
<1> QED BY <1>3, <1>6, NextSteps

-----------------------------------------------------------------------------
(* The semaphore. *)

LEMMA BusyFinite == IsFiniteSet(Busy) /\ Cardinality(Busy) \in Nat /\ Busy \subseteq Messages
<1>1. IsFiniteSet(Messages)
    BY FS_Interval DEF Messages
<1> QED BY <1>1, FS_Subset, FS_CardinalityType DEF Busy

LEMMA InitPermitsOK == Init => PermitsOK
<1> SUFFICES ASSUME Init PROVE PermitsOK
    OBVIOUS
<1>1. Busy = {} /\ permits = MaxHandlers
    BY DEF Init, Busy
<1> QED BY <1>1, FS_EmptySet DEF PermitsOK

LEMMA HandlerStarts ==
    ASSUME PermitsOK, permits \in Int, permits > 0, NEW m \in Messages \ Busy, Busy' = Busy \cup {m},
           permits' = permits - 1
    PROVE  PermitsOK'
<1>1. Cardinality(Busy') = Cardinality(Busy) + 1
    BY BusyFinite, FS_AddElement
<1> QED BY <1>1, BusyFinite DEF PermitsOK

LEMMA HandlerStops ==
    ASSUME PermitsOK, permits \in Int, NEW m \in Busy, Busy' = Busy \ {m}, Release(m)
    PROVE  PermitsOK'
<1>1. Cardinality(Busy') = Cardinality(Busy) - 1
    BY BusyFinite, FS_RemoveElement
<1> QED BY <1>1, BusyFinite DEF PermitsOK, Release

LEMMA NextPermitsOK ==
    ASSUME Types, MessageInv, PermitsOK, [Next]_vars
    PROVE  PermitsOK'
<1>1. permits \in Int /\ handler = [m \in Messages |-> handler[m]]
    BY DEF Types, MessageTypes
<1>2. ASSUME UNCHANGED permits, Busy' = Busy PROVE PermitsOK'
    BY <1>2 DEF PermitsOK
<1>3. CASE SubStep \/ Fail \/ UNCHANGED vars \/ Listen \/ ReadLost
    BY <1>2, <1>3, SubStepLeavesMessages DEF Fail, vars, Listen, ReadLost, Busy
<1>4. ASSUME NEW s \in Subs, Receive(s) PROVE PermitsOK'
  <2>1. PICK m \in Messages : m = Len(msgs) + 1
    BY <1>4 DEF Receive
  <2>2. Len(msgs) \in Nat
    BY LenProperties DEF Types, MessageTypes
  <2>3. handler[m] = "none"
    BY <2>1, <2>2 DEF MessageInv, ListenerOK
  <2>4. CASE UNCHANGED permits
    <3>1. handler' = [handler EXCEPT ![m] = "dropped"] \/ handler' = [handler EXCEPT ![m] = "waiting"]
      BY <1>1, <1>4, <2>1, <2>4 DEF Receive, StartHandler
    <3>2. Busy' = Busy
      BY <1>1, <2>3, <3>1 DEF Busy
    <3> QED BY <1>2, <2>4, <3>2
  <2>5. CASE StartHandler(m) /\ permits > 0
    <3>1. Busy' = Busy \cup {m} /\ m \notin Busy
      BY <1>1, <2>3, <2>5 DEF StartHandler, Busy
    <3> QED BY <1>1, <2>5, <3>1, HandlerStarts DEF StartHandler
  <2> QED BY <1>4, <2>1, <2>4, <2>5 DEF Receive
<1>5. CASE Acquired
  <2>1. PICK m \in Messages : m = listener.msg
    BY <1>5 DEF Acquired, Types, MessageTypes, Messages
  <2>2. handler[m] = "waiting" /\ StartHandler(m)
    BY <1>5, <2>1 DEF Acquired, MessageInv, ListenerOK
  <2>3. Busy' = Busy \cup {m} /\ m \notin Busy
    BY <1>1, <2>2 DEF StartHandler, Busy
  <2> QED BY <1>1, <1>5, <2>2, <2>3, HandlerStarts DEF StartHandler, Acquired
<1>6. ASSUME NEW m \in Messages, Settle(m) \/ SettleBeside(m) PROVE PermitsOK'
    BY <1>1, <1>2, <1>6 DEF Settle, SettleBeside, Busy
<1>7. ASSUME NEW m \in Messages, handler[m] \in {"running", "settling"}, Release(m),
             handler' = [handler EXCEPT ![m] = "done"] \/ handler' = [handler EXCEPT ![m] = "raised"]
      PROVE  PermitsOK'
  <2>1. m \in Busy /\ Busy' = Busy \ {m}
    BY <1>1, <1>7 DEF Busy
  <2> QED BY <1>1, <1>7, <2>1, HandlerStops
<1>8. ASSUME NEW m \in Messages, HandlerEnds(m) \/ HandlerRaises(m) PROVE PermitsOK'
    BY <1>7, <1>8 DEF HandlerEnds, HandlerRaises
<1>9. ASSUME NEW m \in Messages, SettleDrained(m) PROVE PermitsOK'
  <2>1. CASE handler' = [handler EXCEPT ![m] = "running"] /\ UNCHANGED permits
    <3>1. Busy' = Busy
      BY <1>1, <1>9, <2>1 DEF SettleDrained, Busy
    <3> QED BY <1>2, <2>1, <3>1
  <2>2. CASE handler' = [handler EXCEPT ![m] = "done"] /\ Release(m)
    BY <1>7, <1>9, <2>2 DEF SettleDrained
  <2> QED BY <1>9, <2>1, <2>2 DEF SettleDrained
<1>10. CASE MessageStep
    BY <1>3, <1>4, <1>5, <1>6, <1>8, <1>9, <1>10 DEF MessageStep, Handle
<1> QED BY <1>3, <1>10, NextSteps

-----------------------------------------------------------------------------
Inv == Types /\ ServerInv /\ MessageInv /\ PermitsOK

(* The types, what the server knows of each subscription while they are    *)
(* made, ended and restored, what each message's handler has written, and  *)
(* the permits of _handler_semaphore, in every reachable state.            *)
THEOREM Invariant == Spec => []Inv
<1>1. Init => Inv
    BY InitTypes, InitServerInv, InitMessageInv, InitPermitsOK DEF Inv
<1>2. ASSUME Inv, [Next]_vars PROVE Inv'
  <2>1. Types'
    BY <1>2, NextSlotOK, SubTypesKept, MessageTypesKept, SettleTypesKept DEF Inv, Types
  <2>2. ServerInv' /\ MessageInv' /\ PermitsOK'
    BY <1>2, <2>1, NextServerInv, NextMessageInv, NextPermitsOK DEF Inv
  <2> QED BY <2>1, <2>2 DEF Inv
<1> QED BY <1>1, <1>2, PTL DEF Spec

(* Every variable keeps its type, and the semaphore of the handlers never  *)
(* gets a permit more than it was made with (client.py:54, 117-135).       *)
THEOREM TypeCorrect == Spec => []TypeOK
<1>1. ASSUME Inv PROVE TypeOK
  <2>1. permits \in 0..MaxHandlers
    BY <1>1, BusyFinite DEF Inv, PermitsOK, Types, MessageTypes
  <2> QED BY <1>1, <2>1 DEF Inv, Types, SlotOK, SubTypes, MessageTypes, SettleTypes, TypeOK
<1> QED BY <1>1, Invariant, PTL

(* An ACK or NACK goes to the connection its message came from or to none. *)
THEOREM SettledWhereReceivedAlways == Spec => []SettledWhereReceived
<1>1. Inv => SettledWhereReceived
    BY DEF Inv, MessageInv, MessageOK, SettledWhereReceived
<1> QED BY <1>1, Invariant, PTL

(* On the active connection every message of an active subscription that  *)
(* asks for an ACK or NACK has got one when its handler has ended, but for *)
(* a handler that raised what is not suppressed.                           *)
THEOREM HandledIsSettledAlways == Spec => []HandledIsSettled
<1>1. ASSUME Inv, NEW m \in Messages, handler[m] = "done",
             msgs[m].sub \in subs \cap (AutoAck \cup Stream), msgs[m].ack, msgs[m].conn = active
      PROVE  settled[m] # <<>>
  <2>1. MessageOK(m) /\ ListenerOK /\ Types
    BY <1>1 DEF Inv, MessageInv
  <2>2. active # NoConn
    BY <1>1, <2>1, HandledRecord
  <2>3. MaySettle(m)
    BY <1>1, <2>1, <2>2 DEF MessageOK, MaySettle, Handled
  <2> QED BY <1>1, <2>1, <2>3 DEF MessageOK
<1>2. Inv => HandledIsSettled
    BY <1>1 DEF HandledIsSettled
<1> QED BY <1>2, Invariant, PTL

(* A message gets one ACK or NACK, but for a plain manual subscription or  *)
(* calls of ack() and nack() that overlap.                                 *)
THEOREM SettledOnceAlways == Spec => []SettledOnce
<1>1. Inv => SettledOnce
    BY DEF Inv, MessageInv, MessageOK, SettledOnce
<1> QED BY <1>1, Invariant, PTL

(* No connection gets the SUBSCRIBE of a subscription twice.               *)
THEOREM SubscribedOnceAlways == Spec => []SubscribedOnce
<1>1. Inv => SubscribedOnce
    BY DEF Inv, ServerInv
<1> QED BY <1>1, Invariant, PTL

(* Every active subscription whose SUBSCRIBE does not drain late is        *)
(* subscribed on the active connection.                                    *)
THEOREM PromptSubscribedAlways == Spec => []PromptSubscribedOnActive
<1>1. Inv => PromptSubscribedOnActive
    BY DEF Inv, ServerInv
<1> QED BY <1>1, Invariant, PTL

(* The server has no subscription on the active connection that the client *)
(* has forgotten, but for the two cases that NoneForgotten names.          *)
THEOREM NoneForgottenAlways == Spec => []NoneForgotten
<1>1. Inv => NoneForgotten
    BY DEF Inv, ServerInv
<1> QED BY <1>1, Invariant, PTL

=============================================================================
