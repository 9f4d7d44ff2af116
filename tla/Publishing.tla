----------------------------- MODULE Publishing -----------------------------
(***************************************************************************)
(* From a call that publishes to the SEND frame on the wire.  A call is    *)
(* made on stompman (Client.send in client.py, Transaction.send in         *)
(* transaction.py) or through faststream-stomp (broker.py, publisher.py,   *)
(* the response publishers of subscriber.py, and testing.py's producer).   *)
(*                                                                         *)
(* What is hard here is who owns the headers.  SendFrame.build writes into *)
(* the dictionary the caller passed, the frame refers to it, and a frame   *)
(* is dumped later than it was built: when there is a connection, again    *)
(* when a write is retried, and once more when a transaction is replayed.  *)
(* An application may pass one dictionary to several calls.  The           *)
(* connection is not modelled: a frame that waits for it is written at any *)
(* time, and a write may be repeated.                                      *)
(***************************************************************************)
EXTENDS Naturals, Sequences

CONSTANTS
    Calls,       \* the calls, one task each
    Dicts,       \* the dictionaries the application passes as headers
    MaxBodies    \* bound: the bodies of one batch or transaction

ASSUME PublishingAssumption == MaxBodies \in Nat \ {0}

None == "none"

VARIABLES
    dict,      \* what is in each dictionary of the application
    builds,    \* how often SendFrame.build has written into it
    call,      \* the arguments of each call
    pc,        \* "idle", "building", "waiting", "done" or "raised"
    frames,    \* the frames each call has built; for a transaction, sent_frames
    wire,      \* the frames as they were dumped: call, number, headers
    received,  \* the messages the test broker's handlers got
    testing    \* TestStompBroker has replaced the producer

vars == <<dict, builds, call, pc, frames, wire, received, testing>>

Bodies == {"text", "raw"}

\* encode_message: a str has a content type, bytes have none.
ContentType(body) == IF body = "text" THEN "text/plain" ELSE None

(* "send" is Client.send and "block" Transaction.send, by the application. *)
(* "publish" stands for publish() of the broker or of a publisher and      *)
(* "batch" for publish_batch() of either; "response" publishes what a      *)
(* handler returned; "request" is not supported.                           *)
Direct == {"send", "block"}
Routes == Direct \cup {"publish", "batch", "response", "request"}
InTransaction == {"block", "batch"}

Keys == {"user", "destination", "content-length", "content-type", "transaction", "correlation-id"}

Empty == [k \in Keys |-> IF k = "destination" THEN <<>> ELSE None]

\* A dictionary as the application has filled it.
Fresh == [Empty EXCEPT !["user"] = "set"]

NoCall == [route |-> None, on |-> None, bodies |-> <<>>, counted |-> TRUE, correlation |-> None]

Init ==
    /\ dict = [d \in Dicts |-> Fresh]
    /\ builds = [d \in Dicts |-> 0]
    /\ call = [c \in Calls |-> NoCall]
    /\ pc = [c \in Calls |-> "idle"]
    /\ frames = [c \in Calls |-> <<>>]
    /\ wire = {} /\ received = {}
    /\ testing \in BOOLEAN

-----------------------------------------------------------------------------
(* The calls. *)

(* The destination: each call has one of its own, each send of a block too. *)
(* A publisher's is its full_destination and that of a reply is reply_to,  *)
(* whatever the command said before.                                       *)
Destination(c, i) == IF call[c].route = "block" THEN <<c, i>> ELSE <<c, 1>>

\* The arguments that send() gives SendFrame.build for body number i.
Request(c, i) ==
    [destination |-> Destination(c, i),
     body |-> call[c].bodies[i],
     transaction |-> IF call[c].route \in InTransaction THEN c ELSE None,
     counted |-> call[c].counted]

\* SendFrame.build: what it leaves in the dictionary it was given.
build(headers, r) ==
    LET Put(old, value) == IF value = None THEN old ELSE value
    IN  [headers EXCEPT !["destination"] = r.destination,
                        !["content-length"] = Put(@, IF r.counted THEN r.body ELSE None),
                        !["content-type"] = Put(@, ContentType(r.body)),
                        !["transaction"] = Put(@, r.transaction)]

WithCorrelation(headers, id) ==
    IF id = None THEN headers ELSE [headers EXCEPT !["correlation-id"] = id]

\* The headers of a call: without a dictionary, or with an empty one, a new {}.
Passed(c) == IF call[c].on = None THEN Empty ELSE dict[call[c].on]

(* The application calls, with a dictionary or without.  FastStream makes  *)
(* a command that refers to the dictionary.                                *)
Call(c, d, route, counted) ==
    /\ pc[c] = "idle"
    /\ route \notin Direct => counted
    /\ testing => route \notin Direct
    /\ \E n \in 1..MaxBodies : \E bodies \in [1..n -> Bodies], id \in {None, "id"} :
          /\ route \notin InTransaction => n = 1
          /\ route \in Direct => id = None
          /\ call' = [call EXCEPT ![c] = [route |-> route, on |-> d, bodies |-> bodies,
                                          counted |-> counted, correlation |-> id]]
    /\ pc' = [pc EXCEPT ![c] = IF route = "request" THEN "raised" ELSE "building"]
    /\ UNCHANGED <<dict, builds, frames, wire, received, testing>>

\* Another body of the call is to be built.
Building(c) == pc[c] = "building" /\ Len(frames[c]) < Len(call[c].bodies)

\* The call builds a frame and asks for a connection.
Built(c, frame) ==
    /\ frames' = [frames EXCEPT ![c] = Append(@, frame)]
    /\ pc' = [pc EXCEPT ![c] = "waiting"]

(* Client.send and Transaction.send: the frame refers to the dictionary of *)
(* the caller and has changed it.                                          *)
DirectBuild(c) ==
    LET d == call[c].on
        r == Request(c, Len(frames[c]) + 1)
    IN  /\ Building(c) /\ call[c].route \in Direct
        /\ dict' = [e \in Dicts |-> IF e = d THEN build(dict[e], r) ELSE dict[e]]
        /\ builds' = [e \in Dicts |-> IF e = d THEN builds[e] + 1 ELSE builds[e]]
        /\ Built(c, [shared |-> d # None, own |-> build(Empty, r)])
        /\ UNCHANGED <<call, wire, received, testing>>

\* _make_headers_for_publish gives every frame a dictionary of its own.
HeadersUncopied(c) == [shared |-> call[c].on # None, own |-> Empty]     \* mutant

_make_headers_for_publish(c) ==
    [shared |-> FALSE,
     own |-> build(WithCorrelation(Passed(c), call[c].correlation),
                   Request(c, Len(frames[c]) + 1))]

StreamBuild(c) ==
    LET frame == _make_headers_for_publish(c)
        d == call[c].on
    IN  /\ ~testing
        /\ Building(c) /\ call[c].route \notin Direct
        /\ dict' = IF frame.shared
                     THEN [dict EXCEPT ![d] = build(@, Request(c, Len(frames[c]) + 1))]
                     ELSE dict
        /\ Built(c, frame)
        /\ UNCHANGED <<builds, call, wire, received, testing>>

-----------------------------------------------------------------------------
(* Writing, retrying, replaying. *)

\* dump_frame reads the headers as they are at this moment.
Dumped(c, i) ==
    [call |-> c, number |-> i,
     headers |-> IF frames[c][i].shared THEN dict[call[c].on] ELSE frames[c][i].own]

\* write_frame_reconnecting writes the newest frame, perhaps not for the last time.
Write(c, again) ==
    LET n == Len(frames[c])
    IN  /\ pc[c] = "waiting"
        /\ wire' = wire \cup {Dumped(c, n)}
        /\ pc' = [pc EXCEPT ![c] = IF again THEN "waiting"
                                   ELSE IF n < Len(call[c].bodies) THEN "building" ELSE "done"]
        /\ UNCHANGED <<dict, builds, call, frames, received, testing>>

\* FailedAllConnectAttemptsError or FailedAllWriteAttemptsError; a block ends.
WriteFails(c) ==
    /\ pc[c] = "waiting"
    /\ pc' = [pc EXCEPT ![c] = "raised"]
    /\ UNCHANGED <<dict, builds, call, frames, wire, received, testing>>

\* A reconnection replays the sent_frames of a transaction, ended or not.
Replay(c) ==
    /\ ~testing
    /\ call[c].route \in InTransaction
    /\ frames[c] # <<>>
    /\ wire' = wire \cup {Dumped(c, i) : i \in DOMAIN frames[c]}
    /\ UNCHANGED <<dict, builds, call, pc, frames, received, testing>>

-----------------------------------------------------------------------------
(* TestStompBroker: FakeStompProducer hands the message to the handlers of *)
(* its destination.  It builds a SEND frame too, to see that it can be     *)
(* dumped, in the command's own dictionary; publish_batch copies the       *)
(* command for each body.                                                  *)

\* The headers of FakeAckableMessageFrame that a SEND frame has too.
FakeHeadersUntyped(c, i) ==       \* mutant: the content type is forgotten
    [WithCorrelation(Passed(c), call[c].correlation) EXCEPT
        !["destination"] = Request(c, i).destination]

FakeHeaders(c, i) ==
    [WithCorrelation(Passed(c), call[c].correlation) EXCEPT
        !["destination"] = Request(c, i).destination,
        !["content-type"] = IF ContentType(call[c].bodies[i]) = None THEN @
                            ELSE ContentType(call[c].bodies[i])]

TestPublish(c) ==
    LET i == Len(frames[c]) + 1
        d == call[c].on
        r == [Request(c, i) EXCEPT !.transaction = None, !.counted = FALSE]
        copied == call[c].route = "batch"
    IN  /\ testing
        /\ Building(c)
        /\ received' = received \cup {[call |-> c, number |-> i, headers |-> FakeHeaders(c, i)]}
        /\ dict' = IF copied \/ d = None THEN dict ELSE [dict EXCEPT ![d] = build(@, r)]
        /\ builds' = IF copied \/ d = None THEN builds ELSE [builds EXCEPT ![d] = @ + 1]
        /\ frames' = [frames EXCEPT ![c] = Append(@, [shared |-> FALSE, own |-> build(Empty, r)])]
        /\ pc' = [pc EXCEPT ![c] = IF i < Len(call[c].bodies) THEN "building" ELSE "done"]
        /\ UNCHANGED <<call, wire, testing>>

-----------------------------------------------------------------------------
Next ==
    \E c \in Calls :
        \/ \E d \in Dicts \cup {None}, route \in Routes, counted \in BOOLEAN : Call(c, d, route, counted)
        \/ DirectBuild(c) \/ StreamBuild(c) \/ TestPublish(c)
        \/ Write(c, TRUE) \/ Write(c, FALSE) \/ WriteFails(c) \/ Replay(c)

Spec == Init /\ [][Next]_vars

-----------------------------------------------------------------------------
(* Properties. *)

\* What the call asked for: its own arguments on the application's headers.
Asked(c, i) ==
    build(WithCorrelation(IF call[c].on = None THEN Empty ELSE Fresh, call[c].correlation), Request(c, i))

(* No other frame was built in the dictionary of c's frames: c has built   *)
(* its only frame there, or FastStream has copied it.                      *)
Unshared(c) ==
    call[c].on # None => builds[call[c].on] = (IF call[c].route \in Direct THEN 1 ELSE 0)

(* Whatever is written, retried or replayed carries the destination, the   *)
(* transaction, the content type and length of the call that made it, and  *)
(* nothing of another call, unless stompman itself was given the same      *)
(* dictionary twice (frames.py:155, publisher.py:50-54).                   *)
DeliveredAsAsked == \A f \in wire : Unshared(f.call) => f.headers = Asked(f.call, f.number)

(* A handler under TestStompBroker gets the headers that the SEND frame    *)
(* would have carried, if the dictionary was not passed before             *)
(* (testing.py:71-104): content-length and transaction are the wire's own. *)
TestBrokerAgrees ==
    \A f \in received :
        (call[f.call].on # None =>
            builds[call[f.call].on] <= (IF call[f.call].route = "batch" THEN 0 ELSE 1)) =>
            \A k \in Keys \ {"content-length", "transaction"} :
                f.headers[k] = Asked(f.call, f.number)[k]
=============================================================================
