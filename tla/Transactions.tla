---------------------------- MODULE Transactions ----------------------------
(***************************************************************************)
(* stompman's transactions (transaction.py): the life of each              *)
(* `async with client.begin()' block, the set _active_transactions that    *)
(* the blocks share, and commit_pending_transactions, which replays and    *)
(* commits every transaction of that set on a new connection before the    *)
(* connection becomes active, and the exit of the client, which commits    *)
(* nothing by itself.  The connection is the slot of ConnectionSlot, which *)
(* ConnectionManager implements.                                           *)
(*                                                                         *)
(* A step is the code between two suspension points.  A frame is on the    *)
(* wire when it has been given to the transport; the call that gave it     *)
(* then waits for drain(), which may fail, and which may also return       *)
(* normally on a connection that was closed in the meantime.               *)
(***************************************************************************)
EXTENDS Naturals, FiniteSets

CONSTANTS
    Txns,        \* the transactions the application makes, one task each
    MaxSends,    \* bound: SEND frames in one transaction
    MaxAdverse   \* bound: how often the environment may do harm

NoTxn == "none"

ASSUME TransactionsAssumption ==
    /\ IsFiniteSet(Txns) /\ NoTxn \notin Txns
    /\ MaxSends \in Nat
    /\ MaxAdverse \in Nat

VARIABLES
    active, pending, count, opened, sealed,   \* the connection slot
    actives,     \* _active_transactions
    sent,        \* the length of each transaction's sent_frames
    at, op,      \* where each transaction is, and the frame it is writing
    tconn,       \* the connection it writes that frame to
    replay,      \* where commit_pending_transactions is, on `pending'
    wire,        \* the frames given to a transport, with their connection
    crashed,     \* a restore has raised in a background task of the client
    out,         \* the application has left the client
    late,        \* history: transactions registered while the set was replayed
    restored,    \* history: transactions replayed on a connection that became active
    adverse      \* how often the environment has done harm

Slot == INSTANCE ConnectionSlot

NoConn == Slot!NoConn

slotVars == <<active, pending, count, opened, sealed>>
background == <<crashed, out, late, restored>>
vars == <<slotVars, actives, sent, at, op, tconn, replay, wire, background, adverse>>

(* "off" before begin(), "ask" while write_frame_reconnecting waits for a  *)
(* connection, "drain" while a frame drains, "body" in the block.  Then    *)
(* "left" after __aexit__, "error" if it raised KeyError, "cut" if it was  *)
(* cancelled, "failed" if __aenter__ raised.                               *)
Ended == {"left", "error", "cut"}
Places == {"off", "ask", "drain", "body", "failed"} \cup Ended

(* `start' and `size' are what the set iterator remembers of actives, done *)
(* and cur the transactions it has yielded, pos the frames replayed.       *)
NoReplay == [on |-> FALSE, start |-> {}, size |-> 0, done |-> {}, cur |-> NoTxn, pos |-> 0]

Ends == {"COMMIT", "ABORT"}

Frame(c, t, f) == [conn |-> c, txn |-> t, op |-> f, n |-> 0]
SendFrame(c, t, n) == [conn |-> c, txn |-> t, op |-> "SEND", n |-> n]

(* The ends of a transaction on one connection are numbered from 0, so     *)
(* that the wire shows a repeated one; from number 2 on they are alike.    *)
EndWritten(c, t, k) == \E e \in Ends : [conn |-> c, txn |-> t, op |-> e, n |-> k] \in wire

EndNumber(c, t) ==
    IF ~EndWritten(c, t, 0) THEN 0 ELSE IF ~EndWritten(c, t, 1) THEN 1 ELSE 2

EndFrame(c, t, e) == [conn |-> c, txn |-> t, op |-> e, n |-> EndNumber(c, t)]

Harm ==
    /\ adverse < MaxAdverse
    /\ adverse' = adverse + 1

Init ==
    /\ Slot!Init
    /\ actives = {}
    /\ sent = [t \in Txns |-> 0]
    /\ at = [t \in Txns |-> "off"]
    /\ op = [t \in Txns |-> "BEGIN"]
    /\ tconn = [t \in Txns |-> NoConn]
    /\ replay = NoReplay
    /\ wire = {}
    /\ crashed = FALSE /\ out = FALSE
    /\ late = {} /\ restored = {}
    /\ adverse = 0

-----------------------------------------------------------------------------
(* The block of one transaction. *)

\* The client has connected once, and the application has not left it.
Entered == (active # NoConn \/ count > 0) /\ ~out

\* Transaction.__aenter__, in a client that has connected once.
BeginRegisters(t) ==              \* mutant: registered before BEGIN is written
    /\ at[t] = "off"
    /\ Entered
    /\ at' = [at EXCEPT ![t] = "ask"]
    /\ op' = [op EXCEPT ![t] = "BEGIN"]
    /\ actives' = actives \cup {t}
    /\ UNCHANGED <<slotVars, sent, tconn, replay, wire, background, adverse>>

Begin(t) ==
    /\ at[t] = "off"
    /\ Entered
    /\ at' = [at EXCEPT ![t] = "ask"]
    /\ op' = [op EXCEPT ![t] = "BEGIN"]
    /\ UNCHANGED <<slotVars, actives, sent, tconn, replay, wire, background, adverse>>

\* Transaction.send: the frame is remembered before it is written.
Send(t) ==
    /\ at[t] = "body"
    /\ sent[t] < MaxSends
    /\ sent' = [sent EXCEPT ![t] = @ + 1]
    /\ at' = [at EXCEPT ![t] = "ask"]
    /\ op' = [op EXCEPT ![t] = "SEND"]
    /\ UNCHANGED <<slotVars, actives, tconn, replay, wire, background, adverse>>

\* write_frame_reconnecting has a connection and gives it the frame.
Write(t) ==
    /\ at[t] = "ask"
    /\ active # NoConn
    /\ at' = [at EXCEPT ![t] = "drain"]
    /\ tconn' = [tconn EXCEPT ![t] = active]
    /\ wire' = wire \cup {IF op[t] = "SEND" THEN SendFrame(active, t, sent[t])
                                            ELSE Frame(active, t, op[t])}
    /\ UNCHANGED <<slotVars, actives, sent, op, replay, background, adverse>>

(* write_frame_reconnecting raises, out of connect or of write attempts.   *)
(* The body may handle what a send raises, or let it leave the block.      *)
Raise(t) == at' = [at EXCEPT ![t] = IF op[t] = "BEGIN" THEN "failed" ELSE "body"]

NoConnection(t) ==
    /\ at[t] = "ask"
    /\ active = NoConn
    /\ Harm
    /\ Raise(t)
    /\ UNCHANGED <<slotVars, actives, sent, op, tconn, replay, wire, background>>

(* Transaction.__aexit__: COMMIT or ABORT by maybe_write_frame, which      *)
(* without a connection drops the frame at once.  An aborted transaction   *)
(* leaves the set in any case, a committed one if its frame was written;   *)
(* `remove' raises KeyError if a restore has cleared the set meanwhile.    *)
RemovesAlways(t, written) == TRUE                             \* mutant

RemovesIfWritten(t, written) == written                       \* mutant

Removes(t, written) == written \/ op'[t] = "ABORT"

EndBlock(t, written) ==
    /\ actives' = IF Removes(t, written) THEN actives \ {t} ELSE actives
    /\ at' = [at EXCEPT ![t] = IF Removes(t, written) /\ t \notin actives THEN "error" ELSE "left"]

Leave(t, raising) ==
    /\ at[t] = "body"
    /\ op' = [op EXCEPT ![t] = IF raising THEN "ABORT" ELSE "COMMIT"]
    /\ IF active = NoConn
         THEN /\ EndBlock(t, FALSE)
              /\ UNCHANGED <<tconn, wire>>
         ELSE /\ at' = [at EXCEPT ![t] = "drain"]
              /\ tconn' = [tconn EXCEPT ![t] = active]
              /\ wire' = wire \cup {EndFrame(active, t, op'[t])}
              /\ UNCHANGED actives
    /\ UNCHANGED <<slotVars, sent, replay, background, adverse>>

\* drain() of a BEGIN returns: the transaction is registered.
RegisterForgotten(t) == UNCHANGED actives                     \* mutant

Register(t) == actives' = actives \cup {t}

Begun(t) ==
    /\ at[t] = "drain" /\ op[t] = "BEGIN"
    /\ at' = [at EXCEPT ![t] = "body"]
    /\ Register(t)
    /\ late' = IF replay.on THEN late \cup {t} ELSE late
    /\ UNCHANGED <<slotVars, sent, op, tconn, replay, wire, crashed, out, restored, adverse>>

\* drain() of another frame returns.
Drained(t) ==
    /\ at[t] = "drain" /\ op[t] # "BEGIN"
    /\ UNCHANGED op
    /\ IF op[t] = "SEND"
         THEN at' = [at EXCEPT ![t] = "body"] /\ UNCHANGED actives
         ELSE EndBlock(t, TRUE)
    /\ UNCHANGED <<slotVars, sent, tconn, replay, wire, background, adverse>>

\* drain() raises: the connection is discarded if it is still in the slot.
Lost(t) ==
    /\ at[t] = "drain"
    /\ UNCHANGED op
    /\ IF active = tconn[t]
         THEN Harm /\ Slot!Discard
         ELSE UNCHANGED <<slotVars, adverse>>
    /\ IF op[t] \in {"BEGIN", "SEND"}
         THEN /\ Raise(t) \/ at' = [at EXCEPT ![t] = "ask"]
              /\ UNCHANGED actives
         ELSE EndBlock(t, FALSE)
    /\ UNCHANGED <<sent, tconn, replay, wire, background>>

\* The application cancels the task while it waits; a cancelled __aexit__ does
\* not touch the set.
Cancel(t) ==
    /\ at[t] \in {"ask", "drain"}
    /\ Harm
    /\ IF op[t] \in {"BEGIN", "SEND"} THEN Raise(t) ELSE at' = [at EXCEPT ![t] = "cut"]
    /\ UNCHANGED <<slotVars, actives, sent, op, tconn, replay, wire, background>>

-----------------------------------------------------------------------------
(* Reconnecting: the connection fails under some other task of the client; *)
(* whoever needs a connection then opens one, and ConnectionLifespan.enter *)
(* replays the pending transactions on it.                                 *)

Fail ==
    /\ Harm
    /\ Slot!Discard
    /\ UNCHANGED <<actives, sent, at, op, tconn, replay, wire, background>>

Connect ==
    /\ ~crashed /\ ~out
    /\ Slot!Open
    /\ UNCHANGED <<actives, sent, at, op, tconn, replay, wire, background, adverse>>

(* `for transaction in active_transactions' starts in the step in which    *)
(* resubscribing ends, with its first frame.                               *)
Iterator ==
    IF replay.on THEN replay
    ELSE [NoReplay EXCEPT !.on = TRUE, !.start = actives, !.size = Cardinality(actives)]

\* The next frame of transaction t: SEND number n + 1, or COMMIT after the last.
ReplayFrameEager(t, n) ==         \* mutant: COMMIT before the last SEND
    IF n + 1 < sent[t]
      THEN /\ wire' = wire \cup {SendFrame(pending, t, n + 1)}
           /\ replay' = [Iterator EXCEPT !.cur = t, !.pos = n + 1]
      ELSE /\ wire' = wire \cup {EndFrame(pending, t, "COMMIT")}
           /\ replay' = [Iterator EXCEPT !.cur = NoTxn, !.done = @ \cup {t}]

ReplayFrameOffByOne(t, n) ==      \* mutant: one SEND too many
    IF n <= sent[t]
      THEN /\ wire' = wire \cup {SendFrame(pending, t, n + 1)}
           /\ replay' = [Iterator EXCEPT !.cur = t, !.pos = n + 1]
      ELSE /\ wire' = wire \cup {EndFrame(pending, t, "COMMIT")}
           /\ replay' = [Iterator EXCEPT !.cur = NoTxn, !.done = @ \cup {t}]

ReplayFrameSkipsEmpty(t, n) ==    \* mutant: nothing sent, nothing committed
    IF n < sent[t]
      THEN /\ wire' = wire \cup {SendFrame(pending, t, n + 1)}
           /\ replay' = [Iterator EXCEPT !.cur = t, !.pos = n + 1]
      ELSE /\ wire' = IF sent[t] = 0 THEN wire ELSE wire \cup {EndFrame(pending, t, "COMMIT")}
           /\ replay' = [Iterator EXCEPT !.cur = NoTxn, !.done = @ \cup {t}]

ReplayFrame(t, n) ==
    IF n < sent[t]
      THEN /\ wire' = wire \cup {SendFrame(pending, t, n + 1)}
           /\ replay' = [Iterator EXCEPT !.cur = t, !.pos = n + 1]
      ELSE /\ wire' = wire \cup {EndFrame(pending, t, "COMMIT")}
           /\ replay' = [Iterator EXCEPT !.cur = NoTxn, !.done = @ \cup {t}]

ReplayContinues ==
    /\ replay.cur # NoTxn
    /\ ReplayFrame(replay.cur, replay.pos)
    /\ UNCHANGED <<slotVars, actives, sent, at, op, tconn, background, adverse>>

\* The set iterator notices that the set has grown or shrunk, nothing else.
SizeUnchanged == Cardinality(actives) = Iterator.size

\* The iterator yields what it found at the start; what came later, perhaps.
ReplayNext(t) ==
    /\ pending # NoConn
    /\ replay.cur = NoTxn
    /\ SizeUnchanged
    /\ t \in actives \ replay.done
    /\ ReplayFrame(t, 0)
    /\ UNCHANGED <<slotVars, actives, sent, at, op, tconn, background, adverse>>

\* The end of the loop: the set is cleared and the connection becomes active.
ClearForgotten == UNCHANGED actives                           \* mutant

Clear == actives' = {}

Establish ==
    /\ replay.cur = NoTxn
    /\ SizeUnchanged
    /\ (actives \cap Iterator.start) \subseteq replay.done
    /\ Clear
    /\ Slot!Establish
    /\ replay' = NoReplay
    /\ restored' = restored \cup replay.done
    /\ UNCHANGED <<sent, at, op, tconn, wire, crashed, out, late, adverse>>

\* RuntimeError: Set changed size during iteration.  It leaves the call that
\* reconnected, which may have been the listener's or the heartbeat sender's.
ReplayCrashes ==
    /\ replay.cur = NoTxn
    /\ ~SizeUnchanged
    /\ Slot!GiveUp
    /\ replay' = NoReplay
    /\ crashed' \in BOOLEAN
    /\ UNCHANGED <<actives, sent, at, op, tconn, wire, out, late, restored, adverse>>

\* The new connection is lost during the handshake or the replay.
ConnectFails ==
    /\ Harm
    /\ Slot!GiveUp
    /\ replay' = NoReplay
    /\ UNCHANGED <<actives, sent, at, op, tconn, wire, background>>

-----------------------------------------------------------------------------
(* Client.__aexit__, in an application that ends its blocks first.  The    *)
(* listener and the sender are cancelled, whatever connection they prepare *)
(* is closed, and the active one, if there is any, gets DISCONNECT.        *)
Exit ==
    /\ Entered
    /\ \A t \in Txns : at[t] \in Ended \cup {"off", "failed"}
    /\ out' = TRUE
    /\ CASE active # NoConn -> Slot!Seal
         [] pending # NoConn -> Slot!GiveUp
         [] OTHER -> UNCHANGED slotVars
    /\ replay' = NoReplay
    /\ UNCHANGED <<actives, sent, at, op, tconn, wire, crashed, late, restored, adverse>>

Close ==
    /\ Slot!Close
    /\ UNCHANGED <<actives, sent, at, op, tconn, replay, wire, background, adverse>>

\* Every block has ended, or waits for a client that is gone.
Finished ==
    /\ \A t \in Txns : at[t] \in Ended \cup {"off", "failed"} \/ crashed
    /\ UNCHANGED vars

-----------------------------------------------------------------------------
Restore ==
    \/ Connect \/ ReplayContinues \/ Establish \/ ReplayCrashes
    \/ \E t \in Txns : ReplayNext(t)

Next ==
    \/ \E t \in Txns :
          \/ Begin(t) \/ Send(t) \/ Write(t) \/ NoConnection(t)
          \/ Leave(t, TRUE) \/ Leave(t, FALSE)
          \/ Begun(t) \/ Drained(t) \/ Lost(t) \/ Cancel(t)
    \/ Fail \/ ConnectFails \/ Exit \/ Close
    \/ Restore
    \/ Finished

Spec == Init /\ [][Next]_vars

\* The listener reconnects whenever there is no connection (ConnectionManager).
FairSpec == Spec /\ WF_vars(Restore)

-----------------------------------------------------------------------------
(* Properties. *)

Ops == {"BEGIN", "SEND", "COMMIT", "ABORT"}

\* Every variable keeps its type; a replay never runs past sent_frames.
TypeOK ==
    /\ actives \subseteq Txns /\ late \subseteq Txns /\ restored \subseteq Txns
    /\ sent \in [Txns -> 0..MaxSends]
    /\ at \in [Txns -> Places]
    /\ op \in [Txns -> Ops]
    /\ tconn \in [Txns -> 0..opened]
    /\ replay \in [on : BOOLEAN, start : SUBSET Txns, size : 0..Cardinality(Txns), done : SUBSET Txns,
                   cur : Txns \cup {NoTxn}, pos : 0..MaxSends]
    /\ wire \subseteq [conn : 1..opened, txn : Txns, op : Ops, n : 0..(MaxSends + 2)]
    /\ crashed \in BOOLEAN /\ out \in BOOLEAN
    /\ adverse \in 0..MaxAdverse

\* The block of t has ended without an exception of its own.
Completed(t) == at[t] \in Ended /\ op[t] = "COMMIT"

CommitWritten(t) == \E f \in wire : f.txn = t /\ f.op = "COMMIT"

(* No commit is lost: when a block has ended normally, its COMMIT has been *)
(* given to a connection or the transaction is still in                    *)
(* _active_transactions, which the next reconnection commits, however      *)
(* restores, late writes and failures overlap.                             *)
CommitNotLost == \A t \in Txns : Completed(t) => t \in actives \/ CommitWritten(t)

(* The same, unless the transaction was registered while a restore was     *)
(* iterating over the set (transaction.py:22 against 64-68).               *)
CommitKept == \A t \in Txns \ late : Completed(t) => t \in actives \/ CommitWritten(t)

(* While there is a connection no finished transaction waits for its       *)
(* COMMIT: a client that is left while connected owes the server nothing,  *)
(* though its exit looks at no transaction (client.py:106-115).            *)
NoneWaitsWhileConnected ==
    active # NoConn => \A t \in Txns \ late : Completed(t) => CommitWritten(t)

(* __aexit__ raises KeyError only for a transaction that a restore has     *)
(* ended, or dropped, while its block was running (transaction.py:30, 34). *)
KeyErrorExplained == \A t \in Txns : at[t] = "error" => t \in restored \cup late

(* Where a transaction has begun it is ended once, by COMMIT or ABORT, and *)
(* nothing new of it follows.  Only on a connection that a restore has     *)
(* prepared, with no BEGIN, does anything follow an end: after the COMMIT  *)
(* of the restore (transaction.py:67) a block that is still running sends  *)
(* on, and ends once more itself (29, 32), which is the last end there.    *)
EndsOnce ==
    [][\A f \in wire' \ wire :
          (\E e \in wire : e.conn = f.conn /\ e.txn = f.txn /\ e.op \in Ends) =>
             /\ Frame(f.conn, f.txn, "BEGIN") \notin wire'
             /\ f.txn \in restored /\ f.conn # pending
             /\ f.op \in Ends => f.n = 1]_vars

(* commit_pending_transactions commits a transaction only after it has     *)
(* replayed every frame sent in it so far, those that the block sends      *)
(* while the replay is under way included.                                 *)
ReplayIsComplete ==
    [][\A f \in wire' \ wire : f.conn = pending /\ f.op = "COMMIT" =>
          \A n \in 1..sent[f.txn] : SendFrame(f.conn, f.txn, n) \in wire]_vars

(* What was replayed on a connection that became active is never replayed  *)
(* again: only a restore that failed half way is repeated                  *)
(* (transaction.py:68).                                                    *)
ReplayedOnce == [][\A f \in wire' \ wire : f.conn = pending => f.txn \notin restored]_vars

(* A transaction whose block has raised, and was not cancelled while it    *)
(* wrote its ABORT, is not committed any more, except by a restore that is *)
(* already in the middle of it (transaction.py:28-30 against 64-67).       *)
AbortedStaysAborted ==
    [][\A f \in wire' \ wire :
          f.op = "COMMIT" /\ op[f.txn] = "ABORT" /\ at[f.txn] \in {"left", "error"} => replay.cur = f.txn]_vars

(* A commit that could not be sent when the block ended is sent once the   *)
(* client has a connection again, unless the client goes down or is left.  *)
PendingCommitted ==
    \A t \in Txns : (at[t] = "left" /\ t \in actives /\ active = NoConn)
                        ~> (t \notin actives \/ crashed \/ out)
=============================================================================
