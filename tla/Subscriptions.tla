--------------------------- MODULE Subscriptions ----------------------------
(***************************************************************************)
(* stompman's subscriptions (subscription.py) and the dispatch of messages *)
(* to their handlers (Client._listen_to_frames in client.py): subscribing, *)
(* unsubscribing and resubscribing on a new connection, the semaphore that *)
(* caps the handlers, and the ACK and NACK frames, which carry the epoch   *)
(* of the connection on which the message arrived.  The connection is the  *)
(* slot of ConnectionSlot, which ConnectionManager implements.             *)
(*                                                                         *)
(* A step is the code between two suspension points.  A frame is written   *)
(* when it has been given to the transport; the call that gave it then     *)
(* waits for drain(), which may fail, and which may also return normally   *)
(* on a connection that was closed in the meantime (LateDrain): a full     *)
(* transport buffer that is flushed after close() ends drain() so.         *)
(***************************************************************************)
EXTENDS Naturals, Sequences

CONSTANTS
    AutoAck,        \* subscriptions: subscribe()
    ManualAck,      \* subscriptions: subscribe_with_manual_ack()
    Stream,         \* the manual ones that are FastStream's: StompStreamMessage
    LateDrain,      \* those whose drain() may return on a connection closed meanwhile
    MaxHandlers,    \* max_concurrent_handlers
    MaxMessages,    \* bound: how many messages the server sends
    MaxSettles,     \* bound: how many ACK and NACK frames a manual handler writes
    MaxAdverse      \* bound: how often the environment may do harm

Subs == AutoAck \cup ManualAck
Messages == 1..MaxMessages
MaxConns == MaxAdverse + 1
NoMessage == 0

ASSUME SubscriptionsAssumption ==
    /\ AutoAck \cap ManualAck = {}
    /\ Stream \subseteq ManualAck
    /\ LateDrain \subseteq Subs
    /\ MaxHandlers \in Nat \ {0}
    /\ MaxMessages \in Nat /\ MaxSettles \in Nat
    /\ MaxAdverse \in Nat

VARIABLES
    active, pending, count, opened, sealed,   \* the connection slot
    subs,        \* ActiveSubscriptions.subscriptions
    at, sconn,   \* where each subscription's task is, the connection it writes to
    snapshot,    \* what resubscribe_to_active_subscriptions has still to write
    restoring,   \* it has started on the pending connection
    subscribes,  \* how often SUBSCRIBE was written, per connection and subscription
    known,       \* what the server has seen SUBSCRIBE and no UNSUBSCRIBE of, likewise
    listener,    \* the listener's connection, its epoch, the message it holds
    msgs,        \* the messages read: connection, subscription, an "ack" header or none
    handler,     \* where each message's handler is
    tag, hconn,  \* its received_at_reconnection_count; the connection it settles on
    permits,     \* the value of the handler semaphore
    settled,     \* per message, the connections its ACK and NACK frames went to
    committed,   \* StreamMessage.committed is set
    overlapped,  \* history: messages with a second ack() or nack() during the first
    adverse      \* how often the environment has done harm

Slot == INSTANCE ConnectionSlot

NoConn == Slot!NoConn

slotVars == <<active, pending, count, opened, sealed>>
subVars == <<subs, at, sconn>>
restoreVars == <<snapshot, restoring>>
serverVars == <<subscribes, known>>
settleVars == <<settled, committed, overlapped>>
messageVars == <<listener, msgs, handler, tag, hconn, permits, settleVars>>
vars == <<slotVars, subVars, restoreVars, serverVars, messageVars, adverse>>

Harm ==
    /\ adverse < MaxAdverse
    /\ adverse' = adverse + 1

\* A write to connection c fails; the connection is discarded if it is active.
LoseConnection(c) ==
    IF active = c THEN Harm /\ Slot!Discard ELSE UNCHANGED <<slotVars, adverse>>

Init ==
    /\ Slot!Init
    /\ subs = {}
    /\ at = [s \in Subs |-> "off"]
    /\ sconn = [s \in Subs |-> NoConn]
    /\ snapshot = {}
    /\ restoring = FALSE
    /\ subscribes = [c \in 1..MaxConns |-> [s \in Subs |-> 0]]
    /\ known = [c \in 1..MaxConns |-> {}]
    /\ listener = [conn |-> NoConn, epoch |-> 0, msg |-> NoMessage]
    /\ msgs = <<>>
    /\ handler = [m \in Messages |-> "none"]
    /\ tag = [m \in Messages |-> 0]
    /\ hconn = [m \in Messages |-> NoConn]
    /\ permits = MaxHandlers
    /\ settled = [m \in Messages |-> <<>>]
    /\ committed = [m \in Messages |-> FALSE]
    /\ overlapped = {}
    /\ adverse = 0

WriteSubscribe(c, s) ==
    /\ subscribes' = [subscribes EXCEPT ![c][s] = @ + 1]
    /\ known' = [known EXCEPT ![c] = @ \cup {s}]

-----------------------------------------------------------------------------
(* Subscribing and unsubscribing. *)

\* subscribe() and subscribe_with_manual_ack(), in a client that has connected.
SubscribeRegisters(s) ==          \* mutant: registered before it is written
    /\ at[s] = "off"
    /\ active # NoConn \/ count > 0
    /\ at' = [at EXCEPT ![s] = "ask"]
    /\ subs' = subs \cup {s}
    /\ UNCHANGED <<slotVars, sconn, restoreVars, serverVars, messageVars, adverse>>

Subscribe(s) ==
    /\ at[s] = "off"
    /\ active # NoConn \/ count > 0
    /\ at' = [at EXCEPT ![s] = "ask"]
    /\ UNCHANGED <<slotVars, subs, sconn, restoreVars, serverVars, messageVars, adverse>>

\* write_frame_reconnecting has a connection and gives it the SUBSCRIBE.
Write(s) ==
    /\ at[s] = "ask"
    /\ active # NoConn
    /\ at' = [at EXCEPT ![s] = "drain"]
    /\ sconn' = [sconn EXCEPT ![s] = active]
    /\ WriteSubscribe(active, s)
    /\ UNCHANGED <<slotVars, subs, restoreVars, messageVars, adverse>>

\* ActiveSubscriptions.add, after the write.
Subscribed(s) ==
    /\ at[s] = "drain"
    /\ s \in LateDrain \/ active = sconn[s]
    /\ at' = [at EXCEPT ![s] = "on"]
    /\ subs' = subs \cup {s}
    /\ sconn' = [sconn EXCEPT ![s] = NoConn]
    /\ UNCHANGED <<slotVars, restoreVars, serverVars, messageVars, adverse>>

\* The write fails: another attempt, or FailedAllWriteAttemptsError.
SubscribeLost(s) ==
    /\ at[s] = "drain"
    /\ LoseConnection(sconn[s])
    /\ \E place \in {"ask", "failed"} : at' = [at EXCEPT ![s] = place]
    /\ sconn' = [sconn EXCEPT ![s] = NoConn]
    /\ UNCHANGED <<subs, restoreVars, serverVars, messageVars>>

\* FailedAllConnectAttemptsError, or the application cancels the call.
SubscribeFails(s) ==
    /\ at[s] \in {"ask", "drain"}
    /\ Harm
    /\ at' = [at EXCEPT ![s] = "failed"]
    /\ sconn' = [sconn EXCEPT ![s] = NoConn]
    /\ UNCHANGED <<slotVars, subs, restoreVars, serverVars, messageVars>>

(* unsubscribe: the subscription is deleted, and UNSUBSCRIBE written by    *)
(* maybe_write_frame, which drops it without a connection.  "unheard" is a *)
(* dropped one that overlaps a resubscription.                             *)
Unsubscribe(s) ==
    /\ at[s] = "on"
    /\ subs' = subs \ {s}
    /\ at' = [at EXCEPT ![s] = IF active # NoConn THEN "leaving"
                               ELSE IF restoring THEN "unheard" ELSE "gone"]
    /\ sconn' = [sconn EXCEPT ![s] = active]
    /\ known' = IF active = NoConn THEN known ELSE [known EXCEPT ![active] = @ \ {s}]
    /\ UNCHANGED <<slotVars, restoreVars, subscribes, messageVars, adverse>>

Unsubscribed(s) ==
    /\ at[s] = "leaving"
    /\ at' = [at EXCEPT ![s] = "gone"]
    /\ \/ UNCHANGED <<slotVars, adverse>>
       \/ active = sconn[s] /\ LoseConnection(sconn[s])
    /\ sconn' = [sconn EXCEPT ![s] = NoConn]
    /\ UNCHANGED <<subs, restoreVars, serverVars, messageVars>>

-----------------------------------------------------------------------------
(* Reconnecting, by whichever task needs a connection. *)

Fail ==
    /\ Harm
    /\ Slot!Discard
    /\ UNCHANGED <<subVars, restoreVars, serverVars, messageVars>>

Connect ==
    /\ Slot!Open
    /\ UNCHANGED <<subVars, restoreVars, serverVars, messageVars, adverse>>

(* CONNECTED has arrived: get_all() copies the active subscriptions, and   *)
(* they are written one by one.  The transactions are replayed after that  *)
(* (Transactions), so a restore takes time even if there are none.         *)
SnapshotStale ==                  \* mutant: deleted only when UNSUBSCRIBE has drained
    IF restoring THEN snapshot ELSE {s \in Subs : at[s] \in {"on", "leaving"}}

Snapshot == IF restoring THEN snapshot ELSE subs

ResubscribeNone ==
    /\ pending # NoConn
    /\ ~restoring
    /\ Snapshot = {}
    /\ restoring' = TRUE
    /\ snapshot' = Snapshot
    /\ UNCHANGED <<slotVars, subVars, serverVars, messageVars, adverse>>

Resubscribe(s) ==
    /\ pending # NoConn
    /\ s \in Snapshot
    /\ restoring' = TRUE
    /\ snapshot' = Snapshot \ {s}
    /\ WriteSubscribe(pending, s)
    /\ UNCHANGED <<slotVars, subVars, messageVars, adverse>>

EstablishEarly ==                 \* mutant: not everything is resubscribed
    /\ restoring
    /\ restoring' = FALSE
    /\ snapshot' = {}
    /\ Slot!Establish
    /\ UNCHANGED <<subVars, serverVars, messageVars, adverse>>

Establish ==
    /\ restoring
    /\ snapshot = {}
    /\ restoring' = FALSE
    /\ Slot!Establish
    /\ UNCHANGED <<subVars, snapshot, serverVars, messageVars, adverse>>

\* The new connection is lost during the handshake or while resubscribing.
ConnectFails ==
    /\ Harm
    /\ Slot!GiveUp
    /\ restoring' = FALSE
    /\ snapshot' = {}
    /\ UNCHANGED <<subVars, serverVars, messageVars>>

-----------------------------------------------------------------------------
(* The listener and the handlers. *)

\* read_frames_reconnecting takes the connection and the epoch together.
Listen ==
    /\ listener.conn = NoConn
    /\ active # NoConn
    /\ listener' = [listener EXCEPT !.conn = active, !.epoch = count]
    /\ UNCHANGED <<slotVars, subVars, restoreVars, serverVars,
                   msgs, handler, tag, hconn, permits, settleVars, adverse>>

ReadLost ==
    /\ listener.conn # NoConn
    /\ listener.msg = NoMessage
    /\ LoseConnection(listener.conn)
    /\ listener' = [listener EXCEPT !.conn = NoConn]
    /\ UNCHANGED <<subVars, restoreVars, serverVars,
                   msgs, handler, tag, hconn, permits, settleVars>>

\* The handler's task is created with the epoch of the listener.
StartHandlerRetagged(m) ==        \* mutant: tagged when it starts, not when read
    /\ handler' = [handler EXCEPT ![m] = "running"]
    /\ tag' = [tag EXCEPT ![m] = count]
    /\ permits' = permits - 1

StartHandler(m) ==
    /\ handler' = [handler EXCEPT ![m] = "running"]
    /\ tag' = [tag EXCEPT ![m] = listener.epoch]
    /\ permits' = permits - 1

(* A MESSAGE that the server sent because of a SUBSCRIBE on this           *)
(* connection is read; that it lacks an "ack" header counts as harm, which *)
(* bounds how often.  Without an active subscription it is dropped;        *)
(* without a permit the listener holds it and reads nothing more.          *)
Receive(s) ==
    LET m == Len(msgs) + 1
    IN  /\ listener.conn # NoConn
        /\ listener.msg = NoMessage
        /\ m \in Messages
        /\ subscribes[listener.conn][s] > 0
        /\ \E ack \in BOOLEAN :
              /\ IF ack THEN UNCHANGED adverse ELSE Harm
              /\ msgs' = Append(msgs, [conn |-> listener.conn, sub |-> s, ack |-> ack])
        /\ \/ /\ s \notin subs
              /\ handler' = [handler EXCEPT ![m] = "dropped"]
              /\ UNCHANGED <<listener, tag, permits>>
           \/ /\ s \in subs /\ permits = 0
              /\ handler' = [handler EXCEPT ![m] = "waiting"]
              /\ listener' = [listener EXCEPT !.msg = m]
              /\ UNCHANGED <<tag, permits>>
           \/ /\ s \in subs /\ permits > 0
              /\ StartHandler(m)
              /\ UNCHANGED listener
        /\ UNCHANGED <<slotVars, subVars, restoreVars, serverVars, hconn, settleVars>>

\* _handler_semaphore.acquire() returns.
Acquired ==
    /\ listener.msg # NoMessage
    /\ permits > 0
    /\ StartHandler(listener.msg)
    /\ listener' = [listener EXCEPT !.msg = NoMessage]
    /\ UNCHANGED <<slotVars, subVars, restoreVars, serverVars, msgs, hconn, settleVars, adverse>>

\* _ack and _nack: three checks, and maybe_write_frame's own.
MaySettle(m) ==
    /\ msgs[m].sub \in subs
    /\ msgs[m].ack
    /\ tag[m] = count
    /\ active # NoConn

(* An ACK or NACK is given to the transport: an automatic subscription's   *)
(* handler has returned or raised a suppressed exception; a manual one     *)
(* calls ack() or nack(), once, several times, or after it has returned;   *)
(* FastStream's middleware does it when the handler ends.  StompStream-    *)
(* Message does nothing once `committed' is set.                           *)
WriteSettle(m) ==
    /\ ~committed[m] /\ MaySettle(m)
    /\ Len(settled[m]) < MaxSettles
    /\ settled' = [settled EXCEPT ![m] = Append(@, active)]

Settle(m) ==
    /\ handler[m] = "running"
    /\ WriteSettle(m)
    /\ handler' = [handler EXCEPT ![m] = "settling"]
    /\ hconn' = [hconn EXCEPT ![m] = active]
    /\ UNCHANGED <<slotVars, subVars, restoreVars, serverVars, listener, msgs, tag, permits,
                   committed, overlapped, adverse>>

(* A task that a manual handler left behind settles, or one that runs      *)
(* beside it while its own call drains.                                    *)
SettleBeside(m) ==
    /\ handler[m] \in {"settling", "done"} /\ msgs[m].sub \in ManualAck
    /\ WriteSettle(m)
    /\ overlapped' = IF handler[m] = "settling" THEN overlapped \cup {m} ELSE overlapped
    /\ UNCHANGED <<slotVars, subVars, restoreVars, serverVars, listener, msgs, handler, tag,
                   hconn, permits, committed, adverse>>

\* StreamMessage.ack, nack and reject, after the frame or without one.
CommitForgotten(m) == UNCHANGED committed                     \* mutant

Commit(m) == committed' = [committed EXCEPT ![m] = msgs[m].sub \in Stream]

\* The semaphore is released in the done callback of the handler's task.
ReleaseTwice(m) == permits' = permits + 2                     \* mutant

ReleaseForgotten(m) == UNCHANGED permits                      \* mutant

Release(m) == permits' = permits + 1

\* drain() of the ACK or NACK returns or raises.
SettleDrained(m) ==
    /\ handler[m] = "settling"
    /\ \/ UNCHANGED <<slotVars, adverse>>
       \/ active = hconn[m] /\ LoseConnection(hconn[m])
    /\ IF msgs[m].sub \in ManualAck
         THEN /\ handler' = [handler EXCEPT ![m] = "running"]
              /\ UNCHANGED permits
         ELSE /\ handler' = [handler EXCEPT ![m] = "done"]
              /\ Release(m)
    /\ Commit(m)
    /\ hconn' = [hconn EXCEPT ![m] = NoConn]
    /\ UNCHANGED <<subVars, restoreVars, serverVars, listener, msgs, tag, settled, overlapped>>

(* Whether the end of a handler has to be told to the server.  In mode     *)
(* `auto' nothing is (_should_handle_ack_nack, ack_policy): such a         *)
(* subscription is a manual one that never settles.                        *)
SettlesUnlessStream(m) == msgs[m].sub \in AutoAck /\ MaySettle(m)   \* mutant: policy MANUAL

Settles(m) == msgs[m].sub \in AutoAck \cup Stream /\ ~committed[m] /\ MaySettle(m)

\* The handler ends, and there is nothing to write, or not any more.
HandlerEnds(m) ==
    /\ handler[m] = "running" /\ ~Settles(m)
    /\ handler' = [handler EXCEPT ![m] = "done"]
    /\ Commit(m)
    /\ Release(m)
    /\ UNCHANGED <<slotVars, subVars, restoreVars, serverVars,
                   listener, msgs, tag, hconn, settled, overlapped, adverse>>

\* It raises what is not suppressed, which the safety net logs.
HandlerRaises(m) ==
    /\ handler[m] = "running" /\ msgs[m].sub \in AutoAck
    /\ Harm
    /\ handler' = [handler EXCEPT ![m] = "raised"]
    /\ Release(m)
    /\ UNCHANGED <<slotVars, subVars, restoreVars, serverVars,
                   listener, msgs, tag, hconn, settleVars>>

-----------------------------------------------------------------------------
Restore == Connect \/ ResubscribeNone \/ Establish \/ \E s \in Subs : Resubscribe(s)

Handle(m) == Settle(m) \/ SettleDrained(m) \/ HandlerEnds(m)

Next ==
    \/ \E s \in Subs :
          \/ Subscribe(s) \/ Write(s) \/ Subscribed(s) \/ SubscribeLost(s) \/ SubscribeFails(s)
          \/ Unsubscribe(s) \/ Unsubscribed(s) \/ Receive(s)
    \/ Fail \/ ConnectFails \/ Restore
    \/ Listen \/ ReadLost \/ Acquired
    \/ \E m \in Messages : SettleBeside(m) \/ HandlerRaises(m) \/ Handle(m)

Spec == Init /\ [][Next]_vars

(* The event loop runs what is ready, and the application's handlers do    *)
(* not all go on for ever: if handlers can end again and again, one does,  *)
(* or begins to settle because it is about to.                             *)
FairSpec ==
    /\ Spec
    /\ WF_vars(Acquired)
    /\ WF_vars(\E m \in Messages : SettleDrained(m))
    /\ SF_vars(\E m \in Messages : (Settle(m) /\ Settles(m)) \/ HandlerEnds(m))

-----------------------------------------------------------------------------
(* Properties. *)

\* Every variable keeps its type; the semaphore never exceeds its capacity.
TypeOK ==
    /\ subs \subseteq Subs /\ snapshot \subseteq Subs
    /\ at \in [Subs -> {"off", "ask", "drain", "on", "leaving", "gone", "unheard", "failed"}]
    /\ sconn \in [Subs -> 0..opened]
    /\ restoring \in BOOLEAN
    /\ subscribes \in [1..MaxConns -> [Subs -> Nat]]
    /\ known \in [1..MaxConns -> SUBSET Subs]
    /\ listener \in [conn : 0..opened, epoch : 0..count, msg : 0..Len(msgs)]
    /\ msgs \in Seq([conn : 1..opened, sub : Subs, ack : BOOLEAN])
    /\ handler \in [Messages -> {"none", "dropped", "waiting", "running", "settling", "done", "raised"}]
    /\ tag \in [Messages -> 0..count] /\ hconn \in [Messages -> 0..opened]
    /\ permits \in 0..MaxHandlers
    /\ \A m \in Messages : settled[m] \in Seq(1..opened)
    /\ committed \in [Messages -> BOOLEAN] /\ overlapped \subseteq Messages
    /\ adverse \in 0..MaxAdverse

(* An ACK or NACK is written only to the connection on which its message   *)
(* arrived, whatever happened between reading the message, getting a       *)
(* permit, running the handler and settling.                               *)
SettledWhereReceived ==
    \A m \in Messages : \A i \in DOMAIN settled[m] : settled[m][i] = msgs[m].conn

(* Nobody forgets a message: while the connection that brought it is       *)
(* active and its subscription is, a message with an "ack" header whose    *)
(* handler has ended, be it of subscribe() or of a FastStream subscriber,  *)
(* has got its ACK or NACK (models.py:18-32, subscription.py:150-160).     *)
(* Else the server would wait for it and, once enough are missing, send    *)
(* nothing more.  README.md:105 promises it of every handler, but one that *)
(* raises what suppressed_exception_classes leaves out gets neither.       *)
HandledIsSettled ==
    \A m \in Messages :
        /\ handler[m] \in {"done", "raised"}
        /\ msgs[m].sub \in subs \cap (AutoAck \cup Stream) /\ msgs[m].ack
        /\ msgs[m].conn = active
        => settled[m] # <<>> \/ handler[m] = "raised"

(* And not twice, whether the handler or the middleware settles, unless    *)
(* ack() and nack() of one FastStream message overlap: `committed' is      *)
(* looked at before the write and set after it.                            *)
SettledOnce ==
    \A m \in Messages :
        Len(settled[m]) > 1 => msgs[m].sub \in ManualAck \ Stream \/ m \in overlapped

(* The server gets at most one SUBSCRIBE per subscription and connection,  *)
(* however a subscribe() that is retried overlaps a resubscription.        *)
SubscribedOnce == \A c \in 1..MaxConns, s \in Subs : subscribes[c][s] <= 1

(* Every active subscription is subscribed on the active connection, also  *)
(* after any number of reconnections.                                      *)
SubscribedOnActive == active # NoConn => \A s \in subs : subscribes[active][s] > 0

(* The same for the subscriptions whose SUBSCRIBE does not drain late.     *)
PromptSubscribedOnActive ==
    active # NoConn => \A s \in subs \ LateDrain : subscribes[active][s] > 0

(* The server keeps no subscription that the client has forgotten on the   *)
(* active connection, whose messages would be dropped without ACK or NACK, *)
(* but two: one whose subscribe() was given up while it drained, and one   *)
(* unsubscribed while a resubscription, which had copied it, was under way *)
(* (subscription.py:71-73, 183-194).                                       *)
NoneForgotten ==
    active # NoConn =>
        \A s \in known[active] \ subs : at[s] \in {"drain", "failed", "unheard"}

(* A message that waits for the handler semaphore gets its handler: no     *)
(* permit is lost, so the listener never stops reading for ever.           *)
MessageHandled == (listener.msg # NoMessage) ~> (listener.msg = NoMessage)
=============================================================================
