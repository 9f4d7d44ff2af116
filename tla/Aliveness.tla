----------------------------- MODULE Aliveness ------------------------------
(***************************************************************************)
(* How stompman tells that its server is there: Client.is_alive in         *)
(* client.py compares the clock with the last_read_time of the connection  *)
(* (connection.py) and the interval at which the server promised to send   *)
(* (Heartbeat in config.py, ActiveConnectionState in                       *)
(* connection_manager.py).  Time is counted in ticks; reading takes none.  *)
(*                                                                         *)
(* This is a component that Broker composes: it has actions and no         *)
(* specification of its own.  The server is external: it sends, a          *)
(* heartbeat at least, every WillSend ticks, until it hangs.               *)
(***************************************************************************)
EXTENDS Naturals

CONSTANTS
    WillSend,    \* server_heartbeat.will_send_interval_ms
    Factor       \* check_server_alive_interval_factor

ASSUME AlivenessAssumption == WillSend \in Nat \ {0} /\ Factor \in Nat \ {0}

Threshold == WillSend * Factor

VARIABLES
    listening,   \* Client._listen_task is not done
    link,        \* "down", "restoring" after CONNECTED, "up" when it is active
    quiet,       \* now - last_read_time, as far as Threshold
    gap,         \* how long ago the server has sent, as far as WillSend
    unread,      \* bytes have arrived that nobody has read
    blocked,     \* the listener waits for the handler semaphore
    silent       \* the server hangs

clockVars == <<quiet, gap, unread, blocked, silent>>
aliveVars == <<listening, link, clockVars>>

AliveInit ==
    /\ listening = FALSE /\ link = "down"
    /\ quiet = 0 /\ gap = 0
    /\ unread = FALSE /\ blocked = FALSE /\ silent = FALSE

(* Client.is_alive.  last_read_time is set when CONNECTED is read, so the  *)
(* time spent on restoring counts, and connected_at is never looked at.    *)
IsAliveUnscaled == listening /\ link = "up" /\ quiet < WillSend         \* mutant

IsAliveConnected == listening /\ link = "up"                            \* mutant

is_alive == listening /\ link = "up" /\ quiet < Threshold

-----------------------------------------------------------------------------
\* The bytes that the listener is about to read.
Readable == listening /\ link = "up" /\ unread /\ ~blocked

AtMost(n, bound) == IF n < bound THEN n ELSE bound

Tick ==
    /\ link # "down" /\ ~Readable
    /\ silent \/ gap < WillSend
    /\ quiet' = AtMost(quiet + 1, Threshold)
    /\ gap' = AtMost(gap + 1, WillSend)
    /\ UNCHANGED <<listening, link, unread, blocked, silent>>

ServerSends ==
    /\ link # "down" /\ ~silent
    /\ gap > 0 \/ ~unread
    /\ gap' = 0 /\ unread' = TRUE
    /\ UNCHANGED <<listening, link, quiet, blocked, silent>>

ServerHangs ==
    /\ link # "down" /\ ~silent
    /\ silent' = TRUE
    /\ UNCHANGED <<listening, link, quiet, gap, unread, blocked>>

\* read_frames has a chunk, and perhaps a MESSAGE that gets no permit.
Read(permit) ==
    /\ Readable
    /\ quiet' = 0 /\ unread' = FALSE
    /\ blocked' = ~permit
    /\ UNCHANGED <<listening, link, gap, silent>>

\* _handler_semaphore.acquire returns.
Acquire ==
    /\ blocked
    /\ blocked' = FALSE
    /\ UNCHANGED <<listening, link, quiet, gap, unread, silent>>

(* A task reconnects.  Whatever the server sends once it has answered with *)
(* CONNECTED waits until the listener reads from the new connection.       *)
Handshake ==
    /\ link = "down"
    /\ link' = "restoring"
    /\ quiet' = 0 /\ gap' = 0
    /\ unread' = FALSE /\ silent' = FALSE
    /\ UNCHANGED <<listening, blocked>>

Establish ==
    /\ link = "restoring"
    /\ link' = "up"
    /\ UNCHANGED <<listening, clockVars>>

\* The connection is lost, or discarded by the monitor.
Lose ==
    /\ link # "down"
    /\ link' = "down"
    /\ UNCHANGED <<listening, clockVars>>

Clock ==
    \/ Tick \/ ServerSends \/ ServerHangs \/ Acquire
    \/ Handshake \/ Establish \/ Lose
    \/ \E permit \in BOOLEAN : Read(permit)

-----------------------------------------------------------------------------
(* Properties, of the composition. *)

(* is_alive has no false alarms: it is True whenever the server keeps its  *)
(* interval and the listener has read what there is and waits for no       *)
(* permit, also after a restore that took longer than the threshold        *)
(* (client.py:225-230, connection_manager.py:33-39).  A listener without   *)
(* permits reads nothing, and the client then looks dead.                  *)
AliveWhileHealthy ==
    listening /\ link = "up" /\ Factor > 1 /\ ~silent /\ ~blocked /\ ~unread => is_alive

(* A server that hangs is noticed, whatever the listener had left unread:  *)
(* README.md says that is_alive is "`False` if server is not responding".  *)
DeadNoticed == silent ~> (~is_alive \/ ~silent)
=============================================================================
