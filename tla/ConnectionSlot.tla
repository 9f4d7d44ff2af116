--------------------------- MODULE ConnectionSlot ---------------------------
(***************************************************************************)
(* What the connection manager promises to the rest of the client, without *)
(* tasks, locks, retries or cancellation.  There is one slot.  It is empty *)
(* or holds the active connection; at most one new connection at a time is *)
(* being prepared for it, and only while the slot is empty.  Emptying the  *)
(* slot because its connection failed bumps the reconnection count, the    *)
(* tag that ACK and NACK use to tell one connection from the next; emptying *)
(* it on exit does not, but no connection enters the slot after that.      *)
(***************************************************************************)
EXTENDS Naturals

VARIABLES
    active,    \* the connection in the slot; NoConn if the slot is empty
    pending,   \* the connection being prepared; NoConn if there is none
    count,     \* how many connections were discarded as failed
    opened,    \* how many connections were ever opened; the newest is `opened'
    sealed     \* the client's exit has taken the connection to close it

vars == <<active, pending, count, opened, sealed>>

\* Connections are numbered from 1 in the order in which they are opened.
NoConn == 0

Init ==
    /\ active = NoConn
    /\ pending = NoConn
    /\ count = 0
    /\ opened = 0
    /\ sealed = FALSE

Open ==
    /\ active = NoConn
    /\ pending = NoConn
    /\ opened' = opened + 1
    /\ pending' = opened + 1
    /\ UNCHANGED <<active, count, sealed>>

GiveUp ==
    /\ pending # NoConn
    /\ pending' = NoConn
    /\ UNCHANGED <<active, count, opened, sealed>>

Establish ==
    /\ pending # NoConn
    /\ ~sealed
    /\ active' = pending
    /\ pending' = NoConn
    /\ UNCHANGED <<count, opened, sealed>>

Discard ==
    /\ active # NoConn
    /\ active' = NoConn
    /\ count' = count + 1
    /\ UNCHANGED <<pending, opened, sealed>>

Seal ==
    /\ active # NoConn
    /\ sealed' = TRUE
    /\ UNCHANGED <<active, pending, count, opened>>

Close ==
    /\ sealed
    /\ active # NoConn
    /\ active' = NoConn
    /\ UNCHANGED <<pending, count, opened, sealed>>

Next == Open \/ GiveUp \/ Establish \/ Discard \/ Seal \/ Close

Spec == Init /\ [][Next]_vars
=============================================================================
