------------------------- MODULE TransactionsProofs -------------------------
(***************************************************************************)
(* The safety properties of Transactions for any transactions, any number  *)
(* of frames in them and any amount of harm.  The inductive invariant says *)
(* of each transaction what its place allows (TxnOK), and of the replay    *)
(* what the new connection has got already (ReplayOK).                     *)
(***************************************************************************)
EXTENDS Transactions, TLAPS, FiniteSetTheorems

SlotOK ==
    /\ opened \in Nat /\ count \in Nat
    /\ active \in 0..opened /\ pending \in 0..opened
    /\ active # NoConn => pending = NoConn
    /\ pending # NoConn => pending = opened

Replays == [on : BOOLEAN, start : SUBSET Txns, size : 0..Cardinality(Txns), done : SUBSET Txns,
            cur : Txns \cup {NoTxn}, pos : 0..MaxSends]
Frames == [conn : 1..opened, txn : Txns, op : Ops, n : 0..(MaxSends + 2)]

Types == SlotOK /\ TypeOK

-----------------------------------------------------------------------------
\* __aenter__ has not been called, has not returned, or has raised.
Starting(t) == op[t] = "BEGIN" /\ at[t] # "body"

\* Where a transaction is tells what it may be writing.
PlaceOK(t) ==
    /\ at[t] \in {"ask", "body"} => op[t] \in {"BEGIN", "SEND"}
    /\ at[t] \in {"off", "failed"} => op[t] = "BEGIN"
    /\ at[t] \in Ended => op[t] \in {"COMMIT", "ABORT"}

\* Nobody knows of a transaction whose block has not begun.
StartingOK(t) ==
    Starting(t) =>
        /\ t \notin actives \cup restored \cup replay.done
        /\ replay.cur # t
        /\ \A f \in wire : f.txn = t => f.op = "BEGIN"

\* Its COMMIT is on the wire, or a restore will put it there.
CommitOK(t) ==
    /\ at[t] = "drain" /\ op[t] = "COMMIT" => CommitWritten(t)
    /\ ~Starting(t) /\ op[t] # "ABORT" /\ t \notin late => t \in actives \/ CommitWritten(t)
    /\ active # NoConn /\ t \notin late /\ Completed(t) => CommitWritten(t)

\* It is in the set until a restore or its own end takes it away.
MemberOK(t) ==
    /\ ~Starting(t) /\ at[t] \notin Ended => t \in actives \cup restored \cup late
    /\ at[t] = "error" => t \in restored \cup late
    /\ at[t] \in {"left", "error"} /\ op[t] = "ABORT" => t \notin actives

\* Until its block ends, only restores end it: once per connection, not where
\* it has begun, and on the active connection only if it counts as restored.
OpenOK(t) ==
    op[t] \in {"BEGIN", "SEND"} =>
        \A f \in wire : f.txn = t /\ f.op \in Ends =>
            /\ f.n = 0
            /\ Frame(f.conn, t, "BEGIN") \notin wire
            /\ f.conn = active => t \in restored

TxnOK(t) == PlaceOK(t) /\ StartingOK(t) /\ CommitOK(t) /\ MemberOK(t) /\ OpenOK(t)

\* The connection in preparation, and what the loop has written to it.
ReplayOK ==
    /\ ~replay.on => replay = NoReplay
    /\ replay.on => pending # NoConn /\ actives \subseteq replay.start \cup late
    /\ \A t \in replay.done : CommitWritten(t)
    /\ replay.cur # NoTxn =>
          /\ replay.cur \notin restored \cup replay.done
          /\ \A n \in 1..replay.pos : SendFrame(pending, replay.cur, n) \in wire
    /\ actives \cap restored = {}
    /\ pending # NoConn =>
          \A f \in wire : f.conn = pending => f.op # "BEGIN" /\ (f.op \in Ends => f.txn \in replay.done)

Inv ==
    /\ Types
    /\ ReplayOK
    /\ \A t \in Txns : TxnOK(t)

-----------------------------------------------------------------------------
USE TransactionsAssumption
DEF NoConn, Slot!NoConn, slotVars, background, vars

\* The steps of one transaction's block, and those of the client.
BlockStep(t) ==
    \/ Begin(t) \/ Send(t) \/ Write(t) \/ NoConnection(t)
    \/ Leave(t, TRUE) \/ Leave(t, FALSE)
    \/ Begun(t) \/ Drained(t) \/ Lost(t) \/ Cancel(t)

LEMMA NextSteps ==
    [Next]_vars <=> \/ \E t \in Txns : BlockStep(t) \/ ReplayNext(t)
                    \/ ReplayContinues \/ Establish \/ ReplayCrashes \/ ConnectFails
                    \/ Fail \/ Exit \/ Close \/ Connect
                    \/ UNCHANGED vars
BY DEF Next, BlockStep, Restore, Finished

LEMMA FrameTypes ==
    ASSUME NEW c \in 1..opened, NEW t \in Txns
    PROVE  /\ \A f \in Ops : Frame(c, t, f) \in Frames /\ EndFrame(c, t, f) \in Frames
           /\ \A n \in 0..MaxSends : SendFrame(c, t, n) \in Frames
<1>1. EndNumber(c, t) \in 0..(MaxSends + 2) /\ 0 \in 0..(MaxSends + 2)
    BY DEF EndNumber
<1>2. \A n \in 0..MaxSends : n \in 0..(MaxSends + 2)
    OBVIOUS
<1> QED BY <1>1, <1>2 DEF Frame, EndFrame, SendFrame, Frames, Ops

LEMMA BlockStepSlot ==
    ASSUME Types, NEW t \in Txns, BlockStep(t)
    PROVE  /\ UNCHANGED <<pending, opened, sealed>>
           /\ UNCHANGED <<active, count>> \/ (active' = NoConn /\ count' = count + 1)
           /\ adverse' \in 0..MaxAdverse
<1>1. adverse \in 0..MaxAdverse
    BY DEF Types, TypeOK
<1>2. CASE Lost(t)
    BY <1>1, <1>2 DEF Lost, Harm, Slot!Discard
<1>3. CASE Cancel(t) \/ NoConnection(t)
    BY <1>1, <1>3 DEF Cancel, NoConnection, Harm
<1>4. CASE Begin(t) \/ Send(t) \/ Write(t) \/ Leave(t, TRUE) \/ Leave(t, FALSE) \/ Begun(t) \/ Drained(t)
    BY <1>1, <1>4 DEF Begin, Send, Write, Leave, Begun, Drained
<1> QED BY <1>2, <1>3, <1>4 DEF BlockStep

LEMMA SlotKept ==
    ASSUME Types, [Next]_vars
    PROVE  SlotOK' /\ opened <= opened' /\ adverse' \in 0..MaxAdverse
<1> USE DEF Types, SlotOK, TypeOK
<1>1. ASSUME NEW t \in Txns, BlockStep(t)
      PROVE  SlotOK' /\ opened <= opened' /\ adverse' \in 0..MaxAdverse
    BY <1>1, BlockStepSlot
<1>2. ASSUME NEW t \in Txns, ReplayNext(t)
      PROVE  SlotOK' /\ opened <= opened' /\ adverse' \in 0..MaxAdverse
    BY <1>2 DEF ReplayNext
<1>3. CASE Establish
    BY <1>3 DEF Establish, Slot!Establish
<1>4. CASE ReplayCrashes \/ ConnectFails
    BY <1>4 DEF ReplayCrashes, ConnectFails, Slot!GiveUp, Harm
<1>5. CASE Fail
    BY <1>5 DEF Fail, Harm, Slot!Discard
<1>6. CASE Exit
    BY <1>6 DEF Exit, Slot!Seal, Slot!GiveUp
<1>7. CASE Close
    BY <1>7 DEF Close, Slot!Close
<1>8. CASE Connect
    BY <1>8 DEF Connect, Slot!Open
<1>9. CASE ReplayContinues \/ UNCHANGED vars
    BY <1>9 DEF ReplayContinues
<1> QED BY <1>1, <1>2, <1>3, <1>4, <1>5, <1>6, <1>7, <1>8, <1>9, NextSteps

LEMMA InitTypes == Init => Types
<1> SUFFICES ASSUME Init PROVE Types
    OBVIOUS
<1>1. Cardinality(Txns) \in Nat
    BY FS_CardinalityType
<1>2. replay \in Replays
    BY <1>1 DEF Init, NoReplay, Replays
<1>3. at \in [Txns -> Places] /\ op \in [Txns -> Ops] /\ sent \in [Txns -> 0..MaxSends]
    BY DEF Init, Places, Ops
<1>4. crashed \in BOOLEAN /\ out \in BOOLEAN
    BY DEF Init
<1> QED BY <1>2, <1>3, <1>4 DEF Init, Slot!Init, Types, SlotOK, TypeOK, Replays

\* Writing frames to connections, in steps that change at most the block of t.
LEMMA BlockTypes ==
    ASSUME Types, SlotOK', NEW t \in Txns, BlockStep(t)
    PROVE  TypeOK'
<1>1. /\ UNCHANGED <<replay, crashed, out, restored>> /\ opened' = opened /\ adverse' \in 0..MaxAdverse
      /\ late' \subseteq late \cup {t} /\ actives' \subseteq actives \cup {t}
  <2>1. UNCHANGED <<replay, crashed, out, restored>> /\ late' \subseteq late \cup {t}
    BY DEF BlockStep, Begin, Send, Write, NoConnection, Leave, Begun, Drained, Lost, Cancel
  <2>2. actives' \subseteq actives \cup {t}
    BY DEF BlockStep, Begin, Send, Write, NoConnection, Leave, Begun, Drained, Lost, Cancel, EndBlock, Register
  <2> QED BY <2>1, <2>2, BlockStepSlot
<1>2. \E p \in Places : at' = [at EXCEPT ![t] = p]
  <2>1. ASSUME NEW b, EndBlock(t, b) PROVE \E p \in Places : at' = [at EXCEPT ![t] = p]
    BY <2>1 DEF EndBlock, Places, Ended
  <2>2. ASSUME Raise(t) PROVE \E p \in Places : at' = [at EXCEPT ![t] = p]
    BY <2>2 DEF Raise, Places
  <2>3. CASE Begin(t) \/ Send(t) \/ Write(t) \/ NoConnection(t) \/ Begun(t)
    BY <2>2, <2>3 DEF Begin, Send, Write, NoConnection, Begun, Places
  <2>4. CASE Leave(t, TRUE) \/ Leave(t, FALSE)
    BY <2>1, <2>4 DEF Leave, Places
  <2>5. CASE Drained(t) \/ Lost(t) \/ Cancel(t)
    BY <2>1, <2>2, <2>5 DEF Drained, Lost, Cancel, Places, Ended
  <2> QED BY <2>3, <2>4, <2>5 DEF BlockStep
<1>3. op' = op \/ \E o \in Ops : op' = [op EXCEPT ![t] = o]
    BY DEF BlockStep, Begin, Send, Write, NoConnection, Leave, Begun, Drained, Lost, Cancel, Ops
<1>4. op' \in [Txns -> Ops] /\ at' \in [Txns -> Places]
    BY <1>2, <1>3 DEF Types, TypeOK
<1>5. sent' = sent \/ (sent[t] < MaxSends /\ sent' = [sent EXCEPT ![t] = @ + 1])
    BY DEF BlockStep, Begin, Send, Write, NoConnection, Leave, Begun, Drained, Lost, Cancel
<1>6. sent' \in [Txns -> 0..MaxSends]
    BY <1>5 DEF Types, TypeOK
<1>7. tconn' = tconn \/ tconn' = [tconn EXCEPT ![t] = active]
    BY DEF BlockStep, Begin, Send, Write, NoConnection, Leave, Begun, Drained, Lost, Cancel
<1>8. tconn' \in [Txns -> 0..opened]
    BY <1>7 DEF Types, TypeOK, SlotOK
<1>9. wire' \subseteq Frames
  <2>1. wire \subseteq Frames
    BY DEF Types, TypeOK, Frames
  <2>2. wire' = wire \/ /\ active # NoConn
                        /\ \/ wire' = wire \cup {SendFrame(active, t, sent[t])}
                           \/ wire' = wire \cup {Frame(active, t, op[t])}
                           \/ wire' = wire \cup {EndFrame(active, t, op'[t])}
    <3>1. CASE Write(t)
      BY <3>1 DEF Write
    <3>2. CASE Leave(t, TRUE) \/ Leave(t, FALSE)
      BY <3>2 DEF Leave
    <3>3. CASE Begin(t) \/ Send(t) \/ NoConnection(t) \/ Begun(t) \/ Drained(t) \/ Lost(t) \/ Cancel(t)
      BY <3>3 DEF Begin, Send, NoConnection, Begun, Drained, Lost, Cancel
    <3> QED BY <3>1, <3>2, <3>3 DEF BlockStep
  <2>3. op[t] \in Ops /\ op'[t] \in Ops /\ sent[t] \in 0..MaxSends /\ active \in 0..opened
    BY <1>4 DEF Types, TypeOK, SlotOK
  <2> QED BY <2>1, <2>2, <2>3, FrameTypes
<1>10. wire' \subseteq [conn : 1..opened', txn : Txns, op : Ops, n : 0..(MaxSends + 2)]
    BY <1>1, <1>9 DEF Frames
<1>11. replay' \in Replays /\ crashed' \in BOOLEAN /\ out' \in BOOLEAN
    BY <1>1 DEF Types, TypeOK, Replays
<1>12. actives' \subseteq Txns /\ late' \subseteq Txns /\ restored' \subseteq Txns
    BY <1>1 DEF Types, TypeOK
<1> QED BY <1>1, <1>4, <1>6, <1>8, <1>10, <1>11, <1>12 DEF TypeOK, Replays

\* The iterator: what there is of it, or a fresh one over the set as it is.
LEMMA IteratorFields ==
    ASSUME Types, ReplayOK
    PROVE  /\ Iterator \in Replays
           /\ Iterator.on /\ Iterator.done = replay.done
           /\ replay.on => Iterator = replay
           /\ ~replay.on => Iterator.start = actives /\ Iterator.cur = NoTxn
<1>1. IsFiniteSet(actives) /\ Cardinality(actives) \in 0..Cardinality(Txns)
  <2>1. actives \subseteq Txns
    BY DEF Types, TypeOK
  <2> QED BY <2>1, FS_Subset, FS_CardinalityType
<1>2. replay \in Replays
    BY DEF Types, TypeOK, Replays
<1>3. CASE replay.on
    BY <1>2, <1>3 DEF Iterator
<1>4. CASE ~replay.on
  <2>1. Iterator = [on |-> TRUE, start |-> actives, size |-> Cardinality(actives), done |-> {},
                    cur |-> NoTxn, pos |-> 0]
    BY <1>4 DEF Iterator, NoReplay
  <2>2. replay.done = {}
    BY <1>4 DEF ReplayOK, NoReplay
  <2>3. actives \in SUBSET Txns
    BY DEF Types, TypeOK
  <2>4. Iterator \in Replays
    BY <1>1, <2>1, <2>3 DEF Replays
  <2> QED BY <1>4, <2>1, <2>2, <2>4
<1> QED BY <1>3, <1>4

LEMMA ReplayUpdate ==
    ASSUME NEW r \in Replays, NEW t \in Txns, NEW n \in 0..MaxSends
    PROVE  /\ [r EXCEPT !.cur = t, !.pos = n] \in Replays
           /\ [r EXCEPT !.cur = NoTxn, !.done = @ \cup {t}] \in Replays
BY DEF Replays

\* One frame of the replay, and where the loop is after it.
LEMMA ReplayFrameEffect ==
    ASSUME Types, ReplayOK, NEW t \in Txns, NEW n \in 0..MaxSends, ReplayFrame(t, n)
    PROVE  /\ replay' \in Replays /\ replay'.on /\ replay'.start = Iterator.start
           /\ \/ /\ n < sent[t] /\ n + 1 \in 0..MaxSends
                 /\ wire' = wire \cup {SendFrame(pending, t, n + 1)}
                 /\ replay'.cur = t /\ replay'.pos = n + 1 /\ replay'.done = replay.done
              \/ /\ sent[t] <= n
                 /\ wire' = wire \cup {EndFrame(pending, t, "COMMIT")}
                 /\ replay'.cur = NoTxn /\ replay'.done = replay.done \cup {t}
<1>1. sent[t] \in 0..MaxSends
    BY DEF Types, TypeOK
<1>2. Iterator \in Replays /\ Iterator.on /\ Iterator.done = replay.done
    BY IteratorFields
<1>3. CASE n < sent[t]
  <2>1. n + 1 \in 0..MaxSends
    BY <1>1, <1>3
  <2>2. replay' = [Iterator EXCEPT !.cur = t, !.pos = n + 1] /\ wire' = wire \cup {SendFrame(pending, t, n + 1)}
    BY <1>3 DEF ReplayFrame
  <2>3. replay' \in Replays
    BY <1>2, <2>1, <2>2, ReplayUpdate
  <2>4. replay'.on /\ replay'.start = Iterator.start /\ replay'.cur = t /\ replay'.pos = n + 1
        /\ replay'.done = replay.done
    BY <1>2, <2>2 DEF Replays
  <2> QED BY <1>3, <2>1, <2>2, <2>3, <2>4
<1>4. CASE ~(n < sent[t])
  <2>1. replay' = [Iterator EXCEPT !.cur = NoTxn, !.done = @ \cup {t}]
        /\ wire' = wire \cup {EndFrame(pending, t, "COMMIT")}
    BY <1>4 DEF ReplayFrame
  <2>2. replay' \in Replays
    BY <1>2, <2>1, ReplayUpdate
  <2>3. replay'.on /\ replay'.start = Iterator.start /\ replay'.cur = NoTxn
        /\ replay'.done = replay.done \cup {t}
    BY <1>2, <2>1 DEF Replays
  <2> QED BY <1>1, <1>4, <2>1, <2>2, <2>3
<1> QED BY <1>3, <1>4

\* Either action of the replay writes the next frame of some transaction.
LEMMA ReplaySteps ==
    ASSUME Types, ReplayOK, ReplayContinues \/ \E t \in Txns : ReplayNext(t)
    PROVE  /\ UNCHANGED <<slotVars, actives, sent, at, op, tconn, background, adverse>>
           /\ pending \in 1..opened /\ active = NoConn
           /\ \E t \in Txns, n \in 0..MaxSends :
                 /\ ReplayFrame(t, n)
                 /\ \/ replay.cur = t /\ n = replay.pos /\ replay.on
                    \/ replay.cur = NoTxn /\ n = 0 /\ t \in actives \ replay.done
<1>1. replay \in Replays
    BY DEF Types, TypeOK, Replays
<1>2. CASE ReplayContinues
  <2>1. replay.on /\ pending # NoConn
    BY <1>2 DEF ReplayContinues, ReplayOK, NoReplay
  <2>2. replay.cur \in Txns /\ replay.pos \in 0..MaxSends
    BY <1>1, <1>2 DEF Replays, ReplayContinues
  <2> QED BY <1>2, <2>1, <2>2 DEF ReplayContinues, Types, SlotOK
<1>3. CASE \E t \in Txns : ReplayNext(t)
  <2>1. pending # NoConn /\ 0 \in 0..MaxSends
    BY <1>3 DEF ReplayNext
  <2> QED BY <1>3, <2>1 DEF ReplayNext, Types, SlotOK
<1> QED BY <1>2, <1>3

LEMMA NextTypes ==
    ASSUME Types, ReplayOK, [Next]_vars
    PROVE  Types'
<1>1. SlotOK' /\ opened <= opened' /\ adverse' \in 0..MaxAdverse /\ opened \in Nat /\ opened' \in Nat
    BY SlotKept DEF Types, SlotOK
<1> SUFFICES TypeOK'
    BY <1>1 DEF Types
<1>2. wire \subseteq [conn : 1..opened', txn : Txns, op : Ops, n : 0..(MaxSends + 2)] /\ tconn \in [Txns -> 0..opened']
    BY <1>1 DEF Types, TypeOK
<1>3. NoReplay \in Replays
    BY FS_CardinalityType DEF NoReplay, Replays
<1>4. ASSUME UNCHANGED <<sent, at, op, tconn, wire, late>>,
             actives' \subseteq Txns, restored' \subseteq Txns, replay' \in Replays,
             crashed' \in BOOLEAN, out' \in BOOLEAN
      PROVE  TypeOK'
    BY <1>1, <1>2, <1>4 DEF Types, TypeOK, Replays
<1>5. replay \in Replays /\ replay.done \subseteq Txns
    BY DEF Types, TypeOK, Replays
<1>6. crashed \in BOOLEAN /\ out \in BOOLEAN /\ actives \subseteq Txns /\ restored \subseteq Txns
    BY DEF Types, TypeOK
<1>7. CASE Establish
    BY <1>3, <1>4, <1>5, <1>6, <1>7 DEF Establish, Clear
<1>8. CASE ReplayCrashes \/ ConnectFails \/ Exit
    BY <1>3, <1>4, <1>6, <1>8 DEF ReplayCrashes, ConnectFails, Exit
<1>9. CASE Fail \/ Close \/ Connect \/ UNCHANGED vars
    BY <1>4, <1>5, <1>6, <1>9 DEF Fail, Close, Connect
<1>10. CASE ReplayContinues \/ \E t \in Txns : ReplayNext(t)
  <2>1. UNCHANGED <<slotVars, actives, sent, at, op, tconn, background, adverse>> /\ pending \in 1..opened
    BY <1>10, ReplaySteps
  <2>2. PICK t \in Txns, n \in 0..MaxSends : ReplayFrame(t, n)
    BY <1>10, ReplaySteps
  <2>3. replay' \in Replays
    BY <2>2, ReplayFrameEffect
  <2>4. wire' \subseteq Frames
    <3>1. wire \subseteq Frames /\ "COMMIT" \in Ops
      BY DEF Types, TypeOK, Frames, Ops
    <3> QED BY <2>1, <2>2, <3>1, ReplayFrameEffect, FrameTypes
  <2> QED BY <2>1, <2>3, <2>4 DEF Types, TypeOK, Frames, Replays
<1>11. ASSUME NEW t \in Txns, BlockStep(t) PROVE TypeOK'
    BY <1>1, <1>11, BlockTypes
<1> QED BY <1>7, <1>8, <1>9, <1>10, <1>11, NextSteps

-----------------------------------------------------------------------------
(* What a step leaves alone. *)

LEMMA FrameFields ==
    ASSUME NEW c, NEW t, NEW f
    PROVE  /\ Frame(c, t, f).conn = c /\ Frame(c, t, f).txn = t /\ Frame(c, t, f).op = f
           /\ SendFrame(c, t, f).conn = c /\ SendFrame(c, t, f).txn = t /\ SendFrame(c, t, f).op = "SEND"
           /\ EndFrame(c, t, f).conn = c /\ EndFrame(c, t, f).txn = t /\ EndFrame(c, t, f).op = f
           /\ EndFrame(c, t, f).n = EndNumber(c, t)
BY DEF Frame, EndFrame, SendFrame

\* The number of the first end on a connection, and of the second.
LEMMA EndNumbers ==
    ASSUME Types, NEW c, NEW t
    PROVE  /\ (\A f \in wire : f.conn = c /\ f.txn = t => f.op \notin Ends) => EndNumber(c, t) = 0
           /\ (/\ \E f \in wire : f.conn = c /\ f.txn = t /\ f.op \in Ends
               /\ \A f \in wire : f.conn = c /\ f.txn = t /\ f.op \in Ends => f.n = 0) => EndNumber(c, t) = 1
<1> DEFINE F(e, k) == [conn |-> c, txn |-> t, op |-> e, n |-> k]
<1>1. \A e, k : F(e, k).conn = c /\ F(e, k).txn = t /\ F(e, k).op = e /\ F(e, k).n = k
    OBVIOUS
<1>2. \A f \in wire : f.conn = c /\ f.txn = t => f = F(f.op, f.n)
    BY DEF Types, TypeOK
<1>3. \A k : EndWritten(c, t, k) <=> \E e \in Ends : F(e, k) \in wire
    BY DEF EndWritten
<1> HIDE DEF F
<1>4. ASSUME \A f \in wire : f.conn = c /\ f.txn = t => f.op \notin Ends PROVE EndNumber(c, t) = 0
  <2>1. ~EndWritten(c, t, 0)
    BY <1>1, <1>3, <1>4
  <2> QED BY <2>1 DEF EndNumber
<1>5. ASSUME NEW f \in wire, f.conn = c, f.txn = t, f.op \in Ends,
             \A g \in wire : g.conn = c /\ g.txn = t /\ g.op \in Ends => g.n = 0
      PROVE  EndNumber(c, t) = 1
  <2>1. EndWritten(c, t, 0)
    BY <1>2, <1>3, <1>5
  <2>2. ~EndWritten(c, t, 1)
    BY <1>1, <1>3, <1>5
  <2> QED BY <2>1, <2>2 DEF EndNumber
<1> QED BY <1>4, <1>5

LEMMA WireConn ==
    ASSUME Types, NEW f \in wire
    PROVE  f.conn \in 1..opened /\ f.txn \in Txns
BY DEF Types, TypeOK

\* Nothing that was written is taken back.
LEMMA CommitWrittenStable ==
    ASSUME Types, [Next]_vars, wire \subseteq wire', NEW t \in Txns, CommitWritten(t)
    PROVE  CommitWritten(t)'
BY DEF CommitWritten

\* A transaction that a step leaves alone.
LEMMA OtherTxn ==
    ASSUME Types, Types', [Next]_vars, NEW u \in Txns, TxnOK(u),
           at'[u] = at[u], op'[u] = op[u],
           u \in actives' <=> u \in actives, u \in late' <=> u \in late, u \in restored' <=> u \in restored,
           u \in replay'.done => u \in replay.done, replay'.cur = u => replay.cur = u,
           wire \subseteq wire', \A f \in wire' \ wire : f.txn # u,
           active' # NoConn => active' = active
    PROVE  TxnOK(u)'
<1>1. PlaceOK(u)' /\ MemberOK(u)'
    BY DEF TxnOK, PlaceOK, MemberOK, Starting
<1>2. StartingOK(u)'
    BY DEF TxnOK, StartingOK, Starting
<1>3. CommitOK(u)'
    BY CommitWrittenStable DEF TxnOK, CommitOK, Starting, Completed
<1>4. OpenOK(u)'
  <2>1. \A f \in wire' : f.txn = u => f \in wire /\ f.conn # NoConn
    BY WireConn
  <2>2. \A c : Frame(c, u, "BEGIN") \in wire' => Frame(c, u, "BEGIN") \in wire
    BY <2>1, FrameFields
  <2> QED BY <2>1, <2>2 DEF TxnOK, OpenOK
<1> QED BY <1>1, <1>2, <1>3, <1>4 DEF TxnOK

\* What the steps of a block change, beyond the transaction itself.
LEMMA BlockEffect ==
    ASSUME Types, NEW t \in Txns, BlockStep(t)
    PROVE  /\ UNCHANGED <<replay, restored, pending, opened>>
           /\ active' = active \/ active' = NoConn
           /\ \A u \in Txns \ {t} : at'[u] = at[u] /\ op'[u] = op[u]
           /\ \/ actives' = actives \/ actives' = actives \ {t}
              \/ Starting(t) /\ actives' = actives \cup {t} /\ (replay.on => t \in late')
           /\ late' = late \/ late' = late \cup {t}
           /\ wire \subseteq wire'
           /\ \A f \in wire' \ wire : f.txn = t /\ f.conn = active /\ active # NoConn
           /\ active' # NoConn => active' = active
<1>1. at = [u \in Txns |-> at[u]] /\ op = [u \in Txns |-> op[u]]
    BY DEF Types, TypeOK
<1>2. UNCHANGED <<pending, opened>> /\ (active' = active \/ active' = NoConn)
    BY BlockStepSlot
<1>3. UNCHANGED <<replay, restored>> /\ (late' = late \/ late' = late \cup {t})
    BY DEF BlockStep, Begin, Send, Write, NoConnection, Leave, Begun, Drained, Lost, Cancel
<1>4. \/ actives' = actives \/ actives' = actives \ {t}
      \/ Starting(t) /\ actives' = actives \cup {t} /\ (replay.on => t \in late')
    BY DEF BlockStep, Begin, Send, Write, NoConnection, Leave, Begun, Drained, Lost, Cancel, EndBlock, Register,
       Starting
<1>5. \A u \in Txns \ {t} : op'[u] = op[u]
    BY <1>1 DEF BlockStep, Begin, Send, Write, NoConnection, Leave, Begun, Drained, Lost, Cancel
<1>6. \A u \in Txns \ {t} : at'[u] = at[u]
  <2>1. \E p : at' = [at EXCEPT ![t] = p]
    BY DEF BlockStep, Begin, Send, Write, NoConnection, Leave, Begun, Drained, Lost, Cancel, EndBlock, Raise
  <2> QED BY <1>1, <2>1
<1>7. wire' = wire \/ \E o : /\ active # NoConn
                             /\ \/ wire' = wire \cup {SendFrame(active, t, o)}
                                \/ wire' = wire \cup {Frame(active, t, o)}
                                \/ wire' = wire \cup {EndFrame(active, t, o)}
  <2>1. CASE Write(t)
    BY <2>1 DEF Write
  <2>2. CASE Leave(t, TRUE) \/ Leave(t, FALSE)
    BY <2>2 DEF Leave
  <2>3. CASE Begin(t) \/ Send(t) \/ NoConnection(t) \/ Begun(t) \/ Drained(t) \/ Lost(t) \/ Cancel(t)
    BY <2>3 DEF Begin, Send, NoConnection, Begun, Drained, Lost, Cancel
  <2> QED BY <2>1, <2>2, <2>3 DEF BlockStep
<1>8. wire \subseteq wire' /\ \A f \in wire' \ wire : f.txn = t /\ f.conn = active /\ active # NoConn
    BY <1>7, FrameFields
<1> QED BY <1>2, <1>3, <1>4, <1>5, <1>6, <1>8

LEMMA BlockReplayOK ==
    ASSUME Inv, NEW t \in Txns, BlockStep(t)
    PROVE  ReplayOK'
<1>1. /\ UNCHANGED <<replay, restored, pending>>
      /\ actives' \subseteq actives \cup {t}
      /\ t \in actives' /\ t \notin actives => Starting(t) /\ (replay.on => t \in late')
      /\ late \subseteq late' /\ wire \subseteq wire'
      /\ \A f \in wire' \ wire : f.conn = active /\ active # NoConn
    BY BlockEffect DEF Inv
<1>2. Starting(t) => t \notin restored
    BY DEF Inv, TxnOK, StartingOK
<1>3. actives' \cap restored' = {}
    BY <1>1, <1>2 DEF Inv, ReplayOK
<1>4. pending' # NoConn =>
         \A f \in wire' : f.conn = pending' => f.op # "BEGIN" /\ (f.op \in Ends => f.txn \in replay'.done)
    BY <1>1 DEF Inv, ReplayOK, Types, SlotOK
<1>5. replay'.on => actives' \subseteq replay'.start \cup late'
    BY <1>1 DEF Inv, ReplayOK
<1>6. \A u \in replay'.done : CommitWritten(u)'
    BY <1>1 DEF Inv, ReplayOK, CommitWritten
<1> QED BY <1>1, <1>3, <1>4, <1>5, <1>6 DEF Inv, ReplayOK

-----------------------------------------------------------------------------
(* The transaction that a step is about. *)

\* A block that goes on, or fails to begin: nothing is written, nothing removed.
LEMMA GoesOnTxnOK ==
    ASSUME Types, Types', [Next]_vars, NEW t \in Txns, TxnOK(t),
           UNCHANGED <<actives, late, restored, replay, wire>>, active' # NoConn => active' = active,
           \/ at[t] \in {"off", "ask", "drain"} /\ op[t] = "BEGIN"
              /\ at'[t] \in {"ask", "drain", "failed"} /\ op'[t] = "BEGIN"
           \/ at[t] \in {"ask", "body", "drain"} /\ ~Starting(t) /\ op[t] \in {"BEGIN", "SEND"}
              /\ at'[t] \in {"ask", "body"} /\ op'[t] = "SEND"
    PROVE  TxnOK(t)'
<1>2. PlaceOK(t)' /\ MemberOK(t)' /\ StartingOK(t)'
    BY DEF TxnOK, PlaceOK, MemberOK, StartingOK, Starting, Ended
<1>3. CommitOK(t)'
    BY CommitWrittenStable DEF TxnOK, CommitOK, Starting, Completed, Ended
<1>4. OpenOK(t)'
  <2>1. \A f \in wire : f.conn # NoConn
    BY WireConn
  <2> QED BY <2>1 DEF TxnOK, OpenOK
<1> QED BY <1>2, <1>3, <1>4 DEF TxnOK

LEMMA WriteTxnOK ==
    ASSUME Types, Types', [Next]_vars, NEW t \in Txns, TxnOK(t), Write(t)
    PROVE  TxnOK(t)'
<1>1. /\ at[t] = "ask" /\ at'[t] = "drain" /\ op'[t] = op[t] /\ op[t] \in {"BEGIN", "SEND"}
      /\ UNCHANGED <<actives, late, restored, replay, opened, active>>
    BY DEF Write, Types, TypeOK, TxnOK, PlaceOK
<1>2. \E f : /\ wire' = wire \cup {f}
             /\ f.op = op[t] /\ f.txn = t
    BY <1>1, FrameFields DEF Write
<1>3. PlaceOK(t)' /\ MemberOK(t)'
    BY <1>1 DEF TxnOK, PlaceOK, MemberOK, Starting, Ended
<1>4. StartingOK(t)'
    BY <1>1, <1>2 DEF TxnOK, StartingOK, Starting
<1>5. CommitOK(t)'
    BY <1>1, <1>2, CommitWrittenStable DEF TxnOK, CommitOK, Starting, Completed, Ended
<1>6. OpenOK(t)'
  <2>1. \A f \in wire' : f.txn = t /\ f.op \in Ends => f \in wire
    BY <1>1, <1>2 DEF Ends
  <2>2. CASE op[t] = "BEGIN"
    BY <1>1, <2>1, <2>2 DEF TxnOK, StartingOK, Starting, OpenOK, Ends
  <2>3. CASE op[t] = "SEND"
    <3>1. \A c : Frame(c, t, "BEGIN") \in wire' => Frame(c, t, "BEGIN") \in wire
      BY <1>2, <2>3, FrameFields
    <3> QED BY <1>1, <2>1, <2>3, <3>1 DEF TxnOK, OpenOK
  <2> QED BY <1>1, <2>2, <2>3
<1> QED BY <1>3, <1>4, <1>5, <1>6 DEF TxnOK

LEMMA BegunTxnOK ==
    ASSUME Types, Types', [Next]_vars, NEW t \in Txns, TxnOK(t), Begun(t)
    PROVE  TxnOK(t)'
<1>1. /\ at[t] = "drain" /\ at'[t] = "body" /\ op[t] = "BEGIN" /\ op'[t] = "BEGIN"
      /\ UNCHANGED <<restored, replay, opened, active, wire>>
      /\ t \in actives'
    BY DEF Begun, Register, Types, TypeOK
<1>2. PlaceOK(t)' /\ MemberOK(t)' /\ StartingOK(t)' /\ CommitOK(t)'
    BY <1>1 DEF PlaceOK, MemberOK, StartingOK, CommitOK, Starting, Completed, Ended
<1>3. OpenOK(t)'
    BY <1>1 DEF TxnOK, OpenOK
<1> QED BY <1>2, <1>3 DEF TxnOK

\* __aexit__ writes its frame.
LEMMA EndingTxnOK ==
    ASSUME Types, Types', [Next]_vars, NEW t \in Txns, TxnOK(t), at[t] = "body", active # NoConn,
           NEW o \in {"COMMIT", "ABORT"}, at'[t] = "drain", op'[t] = o,
           wire' = wire \cup {EndFrame(active, t, o)},
           UNCHANGED <<actives, late, restored, replay, opened, active>>
    PROVE  TxnOK(t)'
<1>1. ~Starting(t) /\ op[t] \in {"BEGIN", "SEND"}
    BY DEF TxnOK, PlaceOK, Starting
<1>2. o = "COMMIT" => CommitWritten(t)'
    BY FrameFields DEF CommitWritten
<1>3. PlaceOK(t)' /\ MemberOK(t)' /\ StartingOK(t)'
    BY <1>1 DEF TxnOK, PlaceOK, MemberOK, StartingOK, Starting, Ended
<1>4. CommitOK(t)'
    BY <1>2 DEF CommitOK, Starting, Completed, Ended
<1>5. OpenOK(t)'
    BY DEF OpenOK
<1> QED BY <1>3, <1>4, <1>5 DEF TxnOK

\* The block ends.
LEMMA EndBlockTxnOK ==
    ASSUME Types, Types', [Next]_vars, NEW t \in Txns, TxnOK(t), NEW written \in BOOLEAN, EndBlock(t, written),
           at[t] \in {"body", "drain"}, ~Starting(t), op[t] # "ABORT" \/ op'[t] = "ABORT",
           op'[t] \in {"COMMIT", "ABORT"},
           op'[t] = "COMMIT" => CommitWritten(t) \/ (active' = NoConn /\ ~written),
           UNCHANGED <<late, restored, replay, opened, wire>>
    PROVE  TxnOK(t)'
<1>1. /\ written \/ op'[t] = "ABORT" => t \notin actives' /\ at'[t] = IF t \in actives THEN "left" ELSE "error"
      /\ ~(written \/ op'[t] = "ABORT") => actives' = actives /\ at'[t] = "left"
    BY DEF EndBlock, Removes, Types, TypeOK
<1>2. at'[t] \in {"left", "error"}
    BY <1>1
<1>3. t \in actives \cup restored \cup late
    BY DEF TxnOK, MemberOK, Ended
<1>4. PlaceOK(t)' /\ MemberOK(t)'
    BY <1>1, <1>2, <1>3 DEF PlaceOK, MemberOK, Starting, Ended
<1>5. StartingOK(t)' /\ OpenOK(t)'
    BY <1>2 DEF StartingOK, OpenOK, Starting
<1>6. CommitWritten(t) => CommitWritten(t)'
    BY CommitWrittenStable
<1>7. CommitOK(t)'
    BY <1>1, <1>2, <1>6 DEF TxnOK, CommitOK, Starting, Completed
<1> QED BY <1>4, <1>5, <1>7 DEF TxnOK

\* The application cancels __aexit__: the set keeps the transaction.
LEMMA CutTxnOK ==
    ASSUME Types, Types', [Next]_vars, NEW t \in Txns, TxnOK(t), at[t] = "drain", at'[t] = "cut",
           op[t] \in {"COMMIT", "ABORT"}, op'[t] = op[t],
           UNCHANGED <<actives, late, restored, replay, opened, active, wire>>
    PROVE  TxnOK(t)'
<1>1. CommitWritten(t) => CommitWritten(t)'
    BY CommitWrittenStable
<1>2. PlaceOK(t)' /\ MemberOK(t)' /\ StartingOK(t)' /\ OpenOK(t)'
    BY DEF TxnOK, PlaceOK, MemberOK, StartingOK, OpenOK, Starting, Ended
<1>3. CommitOK(t)'
    BY <1>1 DEF TxnOK, CommitOK, Starting, Completed
<1> QED BY <1>2, <1>3 DEF TxnOK

LEMMA BlockTxnOK ==
    ASSUME Types, Types', NEW t \in Txns, TxnOK(t), BlockStep(t)
    PROVE  TxnOK(t)'
<1>1. [Next]_vars /\ UNCHANGED <<restored, replay, opened>> /\ (active' = active \/ active' = NoConn)
    BY NextSteps, BlockEffect
<1>2. /\ at \in [Txns -> Places] /\ op \in [Txns -> Ops]
      /\ PlaceOK(t)
    BY DEF Types, TypeOK, TxnOK
<1>3. CASE Begin(t) \/ Send(t)
  <2>1. UNCHANGED <<actives, late, wire>>
    BY <1>3 DEF Begin, Send
  <2>2. \/ at[t] = "off" /\ op[t] = "BEGIN" /\ at'[t] = "ask" /\ op'[t] = "BEGIN"
        \/ at[t] = "body" /\ op[t] \in {"BEGIN", "SEND"} /\ at'[t] = "ask" /\ op'[t] = "SEND"
    BY <1>2, <1>3 DEF Begin, Send, PlaceOK
  <2> QED BY <1>1, <2>1, <2>2, GoesOnTxnOK DEF Starting
<1>4. ASSUME at[t] \in {"ask", "drain"}, op[t] \in {"BEGIN", "SEND"}, Raise(t) \/ at' = [at EXCEPT ![t] = "ask"],
             UNCHANGED <<actives, late, wire, op>>
      PROVE  TxnOK(t)'
  <2>1. at'[t] = IF at' = [at EXCEPT ![t] = "ask"] THEN "ask" ELSE IF op[t] = "BEGIN" THEN "failed" ELSE "body"
    BY <1>2, <1>4 DEF Raise
  <2> QED BY <1>1, <1>4, <2>1, GoesOnTxnOK DEF Starting
<1>5. CASE NoConnection(t)
    BY <1>2, <1>4, <1>5 DEF NoConnection, PlaceOK
<1>6. CASE Write(t)
    BY <1>1, <1>6, WriteTxnOK
<1>7. CASE Begun(t)
    BY <1>1, <1>7, BegunTxnOK
<1>8. ASSUME NEW raising \in BOOLEAN, Leave(t, raising) PROVE TxnOK(t)'
  <2>1. PICK o \in {"COMMIT", "ABORT"} : op'[t] = o
    BY <1>2, <1>8 DEF Leave
  <2>2. at[t] = "body" /\ UNCHANGED <<late, active>> /\ op[t] \in {"BEGIN", "SEND"}
    BY <1>2, <1>8 DEF Leave, PlaceOK
  <2>3. CASE active = NoConn
    <3>1. EndBlock(t, FALSE) /\ UNCHANGED wire
      BY <1>8, <2>3 DEF Leave
    <3> QED BY <1>1, <2>1, <2>2, <2>3, <3>1, EndBlockTxnOK DEF Starting
  <2>4. CASE active # NoConn
    <3>1. at'[t] = "drain" /\ UNCHANGED actives /\ wire' = wire \cup {EndFrame(active, t, o)}
      BY <1>2, <1>8, <2>1, <2>4 DEF Leave
    <3> QED BY <1>1, <2>1, <2>2, <2>4, <3>1, EndingTxnOK
  <2> QED BY <2>3, <2>4
<1>9. ASSUME at[t] = "drain", op[t] \in {"COMMIT", "ABORT"}, UNCHANGED <<late, wire, op>>,
             NEW written \in BOOLEAN, EndBlock(t, written)
      PROVE  TxnOK(t)'
  <2>1. op[t] = "COMMIT" => CommitWritten(t)
    BY <1>9 DEF TxnOK, CommitOK
  <2> QED BY <1>1, <1>9, <2>1, EndBlockTxnOK DEF Starting
<1>10. CASE Drained(t)
  <2>1. CASE op[t] = "SEND"
    <3>1. at[t] = "drain" /\ at'[t] = "body" /\ op'[t] = op[t] /\ UNCHANGED <<actives, late, wire>>
      BY <1>2, <1>10, <2>1 DEF Drained
    <3> QED BY <1>1, <2>1, <3>1, GoesOnTxnOK DEF Starting
  <2>2. CASE op[t] # "SEND"
    <3>1. at[t] = "drain" /\ op[t] \in {"COMMIT", "ABORT"} /\ UNCHANGED <<late, wire, op>> /\ EndBlock(t, TRUE)
      BY <1>2, <1>10, <2>2 DEF Drained, Ops
    <3> QED BY <1>9, <3>1
  <2> QED BY <2>1, <2>2
<1>11. CASE Lost(t)
  <2>1. at[t] = "drain" /\ UNCHANGED <<late, wire, op>> /\ op[t] \in Ops
    BY <1>2, <1>11 DEF Lost
  <2>2. CASE op[t] \in {"BEGIN", "SEND"}
    BY <1>4, <1>11, <2>1, <2>2 DEF Lost
  <2>3. CASE op[t] \notin {"BEGIN", "SEND"}
    BY <1>9, <1>11, <2>1, <2>3 DEF Lost, Ops
  <2> QED BY <2>2, <2>3
<1>12. CASE Cancel(t)
  <2>1. at[t] \in {"ask", "drain"} /\ UNCHANGED <<actives, late, wire, op, active>> /\ op[t] \in Ops
    BY <1>2, <1>12 DEF Cancel
  <2>2. CASE op[t] \in {"BEGIN", "SEND"}
    BY <1>4, <1>12, <2>1, <2>2 DEF Cancel
  <2>3. CASE op[t] \notin {"BEGIN", "SEND"}
    <3>1. at[t] = "drain" /\ at'[t] = "cut" /\ op[t] \in {"COMMIT", "ABORT"} /\ op'[t] = op[t]
      BY <1>2, <1>12, <2>1, <2>3 DEF Cancel, PlaceOK, Ops
    <3> QED BY <1>1, <2>1, <3>1, CutTxnOK
  <2> QED BY <2>2, <2>3
<1> QED BY <1>3, <1>5, <1>6, <1>7, <1>8, <1>10, <1>11, <1>12 DEF BlockStep

-----------------------------------------------------------------------------
(* The restore. *)

\* The replay writes to a connection on which nothing has begun, and only
\* frames of transactions whose blocks have.
LEMMA ReplayInv ==
    ASSUME Inv, Types', ReplayContinues \/ \E t \in Txns : ReplayNext(t)
    PROVE  ReplayOK' /\ \A u \in Txns : TxnOK(u)'
<1>1. /\ UNCHANGED <<slotVars, actives, sent, at, op, tconn, background, adverse>>
      /\ pending \in 1..opened /\ active = NoConn /\ pending # NoConn
      /\ Types /\ ReplayOK /\ [Next]_vars
    BY ReplaySteps, NextSteps DEF Inv
<1>2. PICK t \in Txns, n \in 0..MaxSends :
         /\ ReplayFrame(t, n)
         /\ \/ replay.cur = t /\ n = replay.pos /\ replay.on
            \/ replay.cur = NoTxn /\ n = 0 /\ t \in actives \ replay.done
    BY <1>1, ReplaySteps
<1>3. /\ replay' \in Replays /\ replay'.on /\ replay'.start = Iterator.start
      /\ \/ /\ n < sent[t]
            /\ wire' = wire \cup {SendFrame(pending, t, n + 1)}
            /\ replay'.cur = t /\ replay'.pos = n + 1 /\ replay'.done = replay.done
         \/ /\ wire' = wire \cup {EndFrame(pending, t, "COMMIT")}
            /\ replay'.cur = NoTxn /\ replay'.done = replay.done \cup {t}
    BY <1>1, <1>2, ReplayFrameEffect
<1>4. ~Starting(t) /\ t # NoTxn /\ t \notin restored \cup replay.done
    BY <1>1, <1>2 DEF Inv, TxnOK, StartingOK, ReplayOK
<1>5. /\ wire \subseteq wire'
      /\ \A f \in wire' \ wire : f.txn = t /\ f.conn = pending /\ f.op \in {"SEND", "COMMIT"}
    BY <1>3, FrameFields
<1>6. ReplayOK'
  <2>1. actives' \subseteq replay'.start \cup late'
    BY <1>1, <1>3, IteratorFields DEF ReplayOK
  <2>2. \A u \in replay'.done : CommitWritten(u)'
    BY <1>1, <1>3, FrameFields DEF ReplayOK, CommitWritten
  <2>3. replay'.cur # NoTxn => /\ replay'.cur \notin restored' \cup replay'.done
                               /\ \A k \in 1..replay'.pos : SendFrame(pending', replay'.cur, k) \in wire'
    <3>1. \A k \in 1..n : SendFrame(pending, t, k) \in wire
      BY <1>1, <1>2, <1>4 DEF ReplayOK
    <3> QED BY <1>1, <1>3, <1>4, <3>1
  <2>4. \A f \in wire' : f.conn = pending' => f.op # "BEGIN" /\ (f.op \in Ends => f.txn \in replay'.done)
    BY <1>1, <1>3, <1>5, FrameFields DEF ReplayOK, Ends
  <2> QED BY <1>1, <1>3, <2>1, <2>2, <2>3, <2>4 DEF ReplayOK
<1>7. ASSUME NEW u \in Txns \ {t} PROVE TxnOK(u)'
  <2>1. (u \in replay'.done => u \in replay.done) /\ (replay'.cur = u => replay.cur = u)
    BY <1>3
  <2> QED BY <1>1, <1>5, <2>1, OtherTxn DEF Inv
<1>8. TxnOK(t)'
  <2>1. TxnOK(t)
    BY DEF Inv
  <2>2. PlaceOK(t)' /\ MemberOK(t)' /\ StartingOK(t)'
    BY <1>1, <1>4, <2>1 DEF TxnOK, PlaceOK, MemberOK, StartingOK, Starting
  <2>3. CommitOK(t)'
    BY <1>1, <1>5, <2>1, CommitWrittenStable DEF TxnOK, CommitOK, Starting, Completed
  <2>4. OpenOK(t)'
    <3>1. ASSUME NEW c, Frame(c, t, "BEGIN") \in wire' PROVE Frame(c, t, "BEGIN") \in wire /\ c # pending
      BY <1>1, <1>5, <3>1, FrameFields DEF ReplayOK
    <3>2. ASSUME NEW f \in wire' \ wire, f.op \in Ends PROVE f.n = 0 /\ f.conn = pending
      <4>1. f = EndFrame(pending, t, "COMMIT")
        BY <1>3, <3>2, FrameFields DEF Ends
      <4>2. \A g \in wire : g.conn = pending /\ g.txn = t => g.op \notin Ends
        BY <1>1, <1>4 DEF ReplayOK
      <4> QED BY <1>1, <4>1, <4>2, FrameFields, EndNumbers
    <3>3. ASSUME NEW f \in wire', f.txn = t, f.op \in Ends, op[t] \in {"BEGIN", "SEND"}
          PROVE  f.n = 0 /\ Frame(f.conn, t, "BEGIN") \notin wire' /\ f.conn # active
      <4>1. CASE f \in wire
        BY <1>1, <2>1, <3>1, <3>3, <4>1, WireConn DEF TxnOK, OpenOK
      <4>2. CASE f \notin wire
        BY <1>1, <3>1, <3>2, <3>3, <4>2
      <4> QED BY <4>1, <4>2
    <3> QED BY <1>1, <3>3 DEF OpenOK
  <2> QED BY <2>2, <2>3, <2>4 DEF TxnOK
<1> QED BY <1>6, <1>7, <1>8

\* Whatever the set held has been committed on the connection, or came late.
LEMMA EstablishInv ==
    ASSUME Inv, Types', Establish
    PROVE  ReplayOK' /\ \A u \in Txns : TxnOK(u)'
<1>1. /\ UNCHANGED <<at, op, wire, late, opened>> /\ actives' = {} /\ replay' = NoReplay
      /\ restored' = restored \cup replay.done /\ pending' = NoConn /\ active' = pending
      /\ pending # NoConn
      /\ Types /\ ReplayOK /\ [Next]_vars
    BY NextSteps DEF Establish, Clear, Slot!Establish, Inv
<1>2. actives \subseteq replay.done \cup late
  <2>1. actives \cap Iterator.start \subseteq replay.done
    BY DEF Establish
  <2>2. actives \subseteq Iterator.start \cup late
    BY <1>1, IteratorFields DEF ReplayOK
  <2> QED BY <2>1, <2>2
<1>3. \A u \in replay.done : CommitWritten(u)
    BY <1>1 DEF ReplayOK
<1>4. ReplayOK'
    BY <1>1 DEF ReplayOK, NoReplay
<1>5. ASSUME NEW u \in Txns PROVE TxnOK(u)'
  <2>1. TxnOK(u) /\ u # NoTxn
    BY DEF Inv
  <2>2. PlaceOK(u)'
    BY <1>1, <2>1 DEF TxnOK, PlaceOK
  <2>3. StartingOK(u)'
    BY <1>1, <2>1 DEF TxnOK, StartingOK, Starting, NoReplay
  <2>4. MemberOK(u)'
    BY <1>1, <1>2, <2>1 DEF TxnOK, MemberOK, Starting
  <2>5. CommitWritten(u)' <=> CommitWritten(u)
    BY <1>1 DEF CommitWritten
  <2>6. CommitOK(u)'
    BY <1>1, <1>2, <1>3, <2>1, <2>5 DEF TxnOK, CommitOK, PlaceOK, Starting, Completed, Ended
  <2>7. OpenOK(u)'
    BY <1>1, <2>1 DEF TxnOK, OpenOK, ReplayOK
  <2> QED BY <2>2, <2>3, <2>4, <2>6, <2>7 DEF TxnOK
<1> QED BY <1>4, <1>5

\* The other steps of the client change the slot, and end the replay with it.
LEMMA ClientInv ==
    ASSUME Inv, Types', \/ ReplayCrashes \/ ConnectFails \/ Fail \/ Exit \/ Close \/ Connect \/ UNCHANGED vars
    PROVE  ReplayOK' /\ \A u \in Txns : TxnOK(u)'
<1>1. Types /\ ReplayOK /\ [Next]_vars /\ UNCHANGED <<at, op, wire, late, actives, restored>>
    BY NextSteps DEF Inv, ReplayCrashes, ConnectFails, Fail, Exit, Close, Connect
<1>2. active' # NoConn => active' = active
    BY DEF ReplayCrashes, ConnectFails, Fail, Exit, Close, Connect, Slot!GiveUp, Slot!Discard, Slot!Seal, Slot!Close,
       Slot!Open
<1>3. \/ replay' = NoReplay /\ pending' = NoConn
      \/ UNCHANGED <<replay, pending>>
      \/ replay' = replay /\ pending = NoConn /\ pending' = opened + 1
  <2>1. CASE ReplayCrashes \/ ConnectFails
    BY <2>1 DEF ReplayCrashes, ConnectFails, Slot!GiveUp
  <2>2. CASE Exit
    BY <2>2 DEF Exit, Slot!Seal, Slot!GiveUp, Types, SlotOK, Inv
  <2>3. CASE Fail \/ Close \/ Connect \/ UNCHANGED vars
    BY <2>3 DEF Fail, Close, Connect, Slot!Discard, Slot!Close, Slot!Open
  <2> QED BY <2>1, <2>2, <2>3
<1>4. ReplayOK'
  <2>1. CASE replay' = NoReplay /\ pending' = NoConn
    BY <1>1, <2>1 DEF ReplayOK, NoReplay
  <2>2. CASE UNCHANGED <<replay, pending>>
    BY <1>1, <2>2 DEF ReplayOK, CommitWritten
  <2>3. CASE replay' = replay /\ pending = NoConn /\ pending' = opened + 1
    <3>1. replay = NoReplay
      BY <1>1, <2>3 DEF ReplayOK
    <3>2. \A f \in wire : f.conn # opened + 1
      BY <1>1, WireConn DEF Types, SlotOK
    <3> QED BY <1>1, <2>3, <3>1, <3>2 DEF ReplayOK, NoReplay
  <2> QED BY <1>3, <2>1, <2>2, <2>3
<1>5. ASSUME NEW u \in Txns PROVE TxnOK(u)'
  <2>1. (u \in replay'.done => u \in replay.done) /\ (replay'.cur = u => replay.cur = u)
    BY <1>3 DEF NoReplay
  <2> QED BY <1>1, <1>2, <2>1, OtherTxn DEF Inv
<1> QED BY <1>4, <1>5

LEMMA InitInv == Init => Inv
<1> SUFFICES ASSUME Init PROVE Inv
    OBVIOUS
<1>1. ReplayOK
    BY DEF Init, Slot!Init, ReplayOK, NoReplay
<1>2. ASSUME NEW t \in Txns PROVE TxnOK(t)
  <2>1. at[t] = "off" /\ op[t] = "BEGIN" /\ wire = {} /\ actives = {} /\ restored = {} /\ replay = NoReplay
    BY DEF Init
  <2> QED BY <2>1 DEF TxnOK, PlaceOK, StartingOK, CommitOK, MemberOK, OpenOK, Starting, Completed, Ended, NoReplay
<1> QED BY <1>1, <1>2, InitTypes DEF Inv

LEMMA NextInv ==
    ASSUME Inv, [Next]_vars
    PROVE  Inv'
<1>1. Types'
    BY NextTypes DEF Inv
<1>2. ASSUME NEW t \in Txns, BlockStep(t) PROVE ReplayOK' /\ \A u \in Txns : TxnOK(u)'
  <2>1. ReplayOK'
    BY <1>2, BlockReplayOK
  <2>2. TxnOK(t)'
    BY <1>1, <1>2, BlockTxnOK DEF Inv
  <2>3. ASSUME NEW u \in Txns \ {t} PROVE TxnOK(u)'
    <3>1. /\ at'[u] = at[u] /\ op'[u] = op[u]
          /\ (u \in actives' <=> u \in actives) /\ (u \in late' <=> u \in late)
          /\ UNCHANGED <<restored, replay>> /\ wire \subseteq wire' /\ \A f \in wire' \ wire : f.txn # u
          /\ active' # NoConn => active' = active
      BY <1>2, BlockEffect DEF Inv
    <3> QED BY <1>1, <3>1, OtherTxn DEF Inv
  <2> QED BY <2>1, <2>2, <2>3
<1>3. ReplayOK' /\ \A u \in Txns : TxnOK(u)'
    BY <1>1, <1>2, ReplayInv, EstablishInv, ClientInv, NextSteps
<1> QED BY <1>1, <1>3 DEF Inv

(* Where each transaction's block is tells, in every reachable state, what *)
(* of it is on the wire and whether it is in _active_transactions, also    *)
(* while commit_pending_transactions iterates over the set.                *)
THEOREM Invariant == Spec => []Inv
BY InitInv, NextInv, PTL DEF Spec

-----------------------------------------------------------------------------
(* The invariants of the runs. *)

(* Every variable keeps its type, and a replay stays within sent_frames.   *)
THEOREM TypeCorrect == Spec => []TypeOK
<1>1. Inv => TypeOK
    BY DEF Inv, Types
<1> QED BY <1>1, Invariant, PTL

(* A block that has ended normally has its COMMIT on some connection or is *)
(* still in _active_transactions, unless it was registered while a restore *)
(* went through the set.                                                   *)
THEOREM CommitKeptAlways == Spec => []CommitKept
<1>1. Inv => CommitKept
    BY DEF Inv, TxnOK, CommitOK, CommitKept, Completed, Starting
<1> QED BY <1>1, Invariant, PTL

(* While the client has a connection no finished block waits for COMMIT.   *)
THEOREM NoneWaits == Spec => []NoneWaitsWhileConnected
<1>1. Inv => NoneWaitsWhileConnected
    BY DEF Inv, TxnOK, CommitOK, NoneWaitsWhileConnected
<1> QED BY <1>1, Invariant, PTL

(* __aexit__ raises KeyError only after a restore has ended or dropped the *)
(* transaction.                                                            *)
THEOREM KeyErrorExplainedAlways == Spec => []KeyErrorExplained
<1>1. Inv => KeyErrorExplained
    BY DEF Inv, TxnOK, MemberOK, KeyErrorExplained
<1> QED BY <1>1, Invariant, PTL

-----------------------------------------------------------------------------
(* The action properties: what a step may write. *)

WrittenByBlock(f) ==
    /\ f.conn = active /\ active # NoConn
    /\ \/ at[f.txn] = "ask" /\ op[f.txn] = f.op /\ f.op \in {"BEGIN", "SEND"}
       \/ /\ at[f.txn] = "body" /\ f.op \in Ends
          /\ f.n = EndNumber(active, f.txn)

WrittenByReplay(f) ==
    /\ f.conn = pending /\ pending # NoConn
    /\ replay.cur = f.txn \/ f.txn \in actives
    /\ f.txn \notin replay.done
    /\ \/ f.op = "SEND"
       \/ /\ f.op = "COMMIT"
          /\ replay.cur = f.txn \/ replay.cur = NoTxn
          /\ \A k \in 1..sent[f.txn] : SendFrame(pending, f.txn, k) \in wire

LEMMA NewFrames ==
    ASSUME Inv, [Next]_vars, NEW f \in wire' \ wire
    PROVE  f.txn \in Txns /\ (WrittenByBlock(f) \/ WrittenByReplay(f))
<1>1. ASSUME NEW t \in Txns, BlockStep(t) PROVE f.txn \in Txns /\ WrittenByBlock(f)
  <2>1. TxnOK(t)
    BY DEF Inv
  <2>2. CASE Write(t)
    <3>1. at[t] = "ask" /\ active # NoConn /\ op[t] \in {"BEGIN", "SEND"}
      BY <2>1, <2>2 DEF Write, TxnOK, PlaceOK
    <3>2. f = IF op[t] = "SEND" THEN SendFrame(active, t, sent[t]) ELSE Frame(active, t, op[t])
      BY <2>2 DEF Write
    <3> QED BY <3>1, <3>2, FrameFields DEF WrittenByBlock
  <2>3. ASSUME NEW raising \in BOOLEAN, Leave(t, raising) PROVE f.txn \in Txns /\ WrittenByBlock(f)
    <3>1. at[t] = "body" /\ active # NoConn /\ f = EndFrame(active, t, op'[t])
      BY <2>3 DEF Leave
    <3>2. op'[t] \in Ends
      BY <2>3 DEF Leave, Inv, Types, TypeOK, Ends
    <3> QED BY <3>1, <3>2, FrameFields DEF WrittenByBlock
  <2>4. CASE Begin(t) \/ Send(t) \/ NoConnection(t) \/ Begun(t) \/ Drained(t) \/ Lost(t) \/ Cancel(t)
    BY <2>4 DEF Begin, Send, NoConnection, Begun, Drained, Lost, Cancel
  <2> QED BY <1>1, <2>2, <2>3, <2>4 DEF BlockStep
<1>2. ASSUME ReplayContinues \/ \E t \in Txns : ReplayNext(t) PROVE f.txn \in Txns /\ WrittenByReplay(f)
  <2>1. pending # NoConn /\ Types /\ ReplayOK
    BY <1>2, ReplaySteps DEF Inv
  <2>2. PICK t \in Txns, n \in 0..MaxSends :
           /\ ReplayFrame(t, n)
           /\ \/ replay.cur = t /\ n = replay.pos /\ replay.on
              \/ replay.cur = NoTxn /\ n = 0 /\ t \in actives \ replay.done
    BY <1>2, <2>1, ReplaySteps
  <2>3. \/ f = SendFrame(pending, t, n + 1)
        \/ f = EndFrame(pending, t, "COMMIT") /\ sent[t] <= n
    BY <2>1, <2>2, ReplayFrameEffect
  <2>4. \A k \in 1..n : SendFrame(pending, t, k) \in wire
    BY <2>1, <2>2 DEF ReplayOK
  <2>5. sent[t] \in Nat
    BY <2>1 DEF Types, TypeOK
  <2>6. sent[t] <= n => \A k \in 1..sent[t] : SendFrame(pending, t, k) \in wire
    BY <2>4, <2>5
  <2>7. t \notin replay.done
    BY <2>1, <2>2 DEF ReplayOK
  <2> QED BY <2>1, <2>2, <2>3, <2>6, <2>7, FrameFields DEF WrittenByReplay
<1>3. ASSUME \/ Establish \/ ReplayCrashes \/ ConnectFails \/ Fail \/ Exit \/ Close \/ Connect \/ UNCHANGED vars
      PROVE  FALSE
    BY <1>3 DEF Establish, ReplayCrashes, ConnectFails, Fail, Exit, Close, Connect
<1> QED BY <1>1, <1>2, <1>3, NextSteps

(* Where a transaction has begun it is ended once and nothing new of it    *)
(* follows.  Only on a connection that a restore prepared (no BEGIN there) *)
(* can the running block go on after the restore's COMMIT, and then its    *)
(* own end is the second and last one there.                               *)
THEOREM EndsOnceAlways == Spec => EndsOnce
<1> DEFINE A == \A f \in wire' \ wire :
                   (\E e \in wire : e.conn = f.conn /\ e.txn = f.txn /\ e.op \in Ends) =>
                      /\ Frame(f.conn, f.txn, "BEGIN") \notin wire'
                      /\ f.txn \in restored /\ f.conn # pending
                      /\ f.op \in Ends => f.n = 1
<1>1. Inv /\ [Next]_vars => [A]_vars
  <2> SUFFICES ASSUME Inv, [Next]_vars, NEW f \in wire' \ wire,
                      NEW e \in wire, e.conn = f.conn, e.txn = f.txn, e.op \in Ends
               PROVE  /\ Frame(f.conn, f.txn, "BEGIN") \notin wire'
                      /\ f.txn \in restored /\ f.conn # pending
                      /\ f.op \in Ends => f.n = 1
    OBVIOUS
  <2>1. f.txn \in Txns /\ TxnOK(f.txn) /\ Types /\ ReplayOK
    BY NewFrames DEF Inv
  <2>2. ~WrittenByReplay(f)
    BY <2>1 DEF WrittenByReplay, ReplayOK
  <2>3. WrittenByBlock(f) /\ f.conn = active /\ active # NoConn /\ pending = NoConn
    BY <2>1, <2>2, NewFrames DEF WrittenByBlock, Types, SlotOK
  <2>4. op[f.txn] \in {"BEGIN", "SEND"}
    BY <2>1, <2>3 DEF WrittenByBlock, TxnOK, PlaceOK
  <2>5. f.txn \in restored /\ Frame(f.conn, f.txn, "BEGIN") \notin wire
    BY <2>1, <2>3, <2>4 DEF TxnOK, OpenOK
  <2>6. Frame(f.conn, f.txn, "BEGIN") \notin wire'
    <3> SUFFICES ASSUME Frame(f.conn, f.txn, "BEGIN") \in wire' PROVE FALSE
      OBVIOUS
    <3>1. WrittenByBlock(Frame(f.conn, f.txn, "BEGIN")) \/ WrittenByReplay(Frame(f.conn, f.txn, "BEGIN"))
      BY <2>5, NewFrames
    <3>2. at[f.txn] = "ask" /\ op[f.txn] = "BEGIN"
      BY <3>1, FrameFields DEF WrittenByBlock, WrittenByReplay, Ends
    <3> QED BY <2>1, <3>2 DEF TxnOK, StartingOK, Starting, Ends
  <2>7. f.op \in Ends => f.n = 1
    <3>1. \A g \in wire : g.conn = active /\ g.txn = f.txn /\ g.op \in Ends => g.n = 0
      BY <2>1, <2>4 DEF TxnOK, OpenOK
    <3>2. EndNumber(active, f.txn) = 1
      BY <2>1, <2>3, <3>1, EndNumbers
    <3> QED BY <2>3, <3>2 DEF WrittenByBlock, Ends
  <2> QED BY <2>3, <2>5, <2>6, <2>7
<1> QED BY <1>1, Invariant, PTL DEF Spec, EndsOnce

(* A restore commits a transaction only after all frames sent in it so far *)
(* are on the new connection.                                              *)
THEOREM ReplayIsCompleteAlways == Spec => ReplayIsComplete
<1> DEFINE A == \A f \in wire' \ wire : f.conn = pending /\ f.op = "COMMIT" =>
                   \A n \in 1..sent[f.txn] : SendFrame(f.conn, f.txn, n) \in wire
<1>1. Inv /\ [Next]_vars => [A]_vars
    BY NewFrames DEF WrittenByBlock, WrittenByReplay, Inv, Types, SlotOK
<1> QED BY <1>1, Invariant, PTL DEF Spec, ReplayIsComplete

(* What was replayed on a connection that became active is not replayed    *)
(* again.                                                                  *)
THEOREM ReplayedOnceAlways == Spec => ReplayedOnce
<1> DEFINE A == \A f \in wire' \ wire : f.conn = pending => f.txn \notin restored
<1>1. Inv /\ [Next]_vars => [A]_vars
  <2> SUFFICES ASSUME Inv, [Next]_vars, NEW f \in wire' \ wire, f.conn = pending
               PROVE  f.txn \notin restored
    OBVIOUS
  <2>1. WrittenByReplay(f) /\ f.txn # NoTxn
    BY NewFrames DEF WrittenByBlock, Inv, Types, SlotOK
  <2> QED BY <2>1 DEF WrittenByReplay, Inv, ReplayOK
<1> QED BY <1>1, Invariant, PTL DEF Spec, ReplayedOnce

(* A transaction whose block has raised is not committed any more, but by  *)
(* a restore that is in the middle of it.                                  *)
THEOREM AbortedStaysAbortedAlways == Spec => AbortedStaysAborted
<1> DEFINE A == \A f \in wire' \ wire :
                   f.op = "COMMIT" /\ op[f.txn] = "ABORT" /\ at[f.txn] \in {"left", "error"} => replay.cur = f.txn
<1>1. Inv /\ [Next]_vars => [A]_vars
  <2> SUFFICES ASSUME Inv, [Next]_vars, NEW f \in wire' \ wire,
                      f.op = "COMMIT", op[f.txn] = "ABORT", at[f.txn] \in {"left", "error"}
               PROVE  replay.cur = f.txn
    OBVIOUS
  <2>1. f.txn \in Txns /\ WrittenByReplay(f)
    BY NewFrames DEF WrittenByBlock
  <2>2. f.txn \notin actives
    BY <2>1 DEF Inv, TxnOK, MemberOK
  <2> QED BY <2>1, <2>2 DEF WrittenByReplay
<1> QED BY <1>1, Invariant, PTL DEF Spec, AbortedStaysAborted
=============================================================================
