---------------------------- MODULE FrameParser ----------------------------
(***************************************************************************)
(* How frames are cut out of the byte stream of one connection.            *)
(*                                                                         *)
(* FrameParser (stompman/serde.py) consumes the stream byte by byte.  But  *)
(* Connection.read_frames makes a new parser on each call, and three       *)
(* readers follow each other on one connection: _establish_connection      *)
(* reads up to CONNECTED, the client's listener reads until it is          *)
(* cancelled, and ConnectionLifespan.exit reads up to RECEIPT.  A reader   *)
(* that stops drops its parser, with whatever it has half read, and the    *)
(* rest of the chunk it was in the middle of; the next reader starts       *)
(* wherever the socket then is, possibly inside a frame.  The same holds   *)
(* of connection_ws.py, where a chunk is one message of the WebSocket.     *)
(*                                                                         *)
(* A command and a header line stand for the bytes they are made of (the   *)
(* inside of a header line is module HeaderCodec); a body is a sequence    *)
(* of single bytes.                                                        *)
(***************************************************************************)
EXTENDS Integers, Sequences, SequencesExt

CONSTANTS
    BodyBytes,           \* the bytes a body may hold
    ContentLengthLines,  \* the header lines "content-length:0", "content-length:1"
                         \* and so on, up to that of the longest body
    NegativeLines,       \* header lines like "content-length:-1"
    JunkLines,           \* ... and those whose value is no number for int
    read_max_chunk_size,
    MaxFrames,           \* bound on the MESSAGE frames the server sends
    MaxHeartbeats        \* bound on the heartbeats the server sends

NEWLINE == "LF"
CARRIAGE == "CR"
NULL == "NUL"
None == "none"

COMMANDS_TO_FRAMES ==
    {"SEND", "SUBSCRIBE", "UNSUBSCRIBE", "BEGIN", "COMMIT", "ABORT", "ACK", "NACK",
     "DISCONNECT", "CONNECT", "STOMP", "CONNECTED", "MESSAGE", "RECEIPT", "ERROR"}

(* The line that announces n bytes, and int of the value of a line.  Of a  *)
(* negative number it only matters that no body has that length.           *)
Lengths == 0 .. Len(ContentLengthLines) - 1
ContentLengthLine(n) == ContentLengthLines[n + 1]
ContentLength(l) == IF l \in NegativeLines THEN -1
                    ELSE CHOOSE n \in Lengths : ContentLengthLine(n) = l
LengthLines == ToSet(ContentLengthLines) \cup NegativeLines \cup JunkLines

ASSUME ParserAssumption ==
    /\ ContentLengthLines \in Seq(STRING) /\ ContentLengthLines # <<>>
    /\ \A m, n \in Lengths : ContentLengthLine(m) = ContentLengthLine(n) => m = n
    /\ NegativeLines \subseteq STRING /\ JunkLines \subseteq STRING
    /\ ToSet(ContentLengthLines) \cap (NegativeLines \cup JunkLines) = {}
    /\ NegativeLines \cap JunkLines = {}
    /\ LengthLines \cap ({NEWLINE, CARRIAGE, NULL, None} \cup COMMANDS_TO_FRAMES) = {}
    /\ read_max_chunk_size \in Nat \ {0}
    /\ MaxFrames \in Nat /\ MaxHeartbeats \in Nat

Frame(command, headers, body) ==
    [command |-> command, headers |-> headers, body |-> body]

(* What a server sends to a subscriber.  A body with null bytes has its    *)
(* content-length; without them it may have none, or one that is too       *)
(* small or no number; of a repeated header the first one counts.  Any     *)
(* message may have a negative one.                                        *)
Bodies == UNION {[1 .. n -> BodyBytes] : n \in Lengths}
Headers(body) ==
    {<<l>> : l \in {ContentLengthLine(Len(body))} \cup NegativeLines}
    \cup (IF Contains(body, NULL) THEN {}
          ELSE {<<>>} \cup {<<ContentLengthLine(n)>> : n \in 0 .. Len(body)}
                     \cup {<<l>> : l \in JunkLines})
    \cup (IF Len(body) = 1 THEN {<<ContentLengthLine(1), ContentLengthLine(0)>>} ELSE {})
Messages == UNION {{Frame("MESSAGE", h, b) : h \in Headers(b)} : b \in Bodies}
Error == Frame("ERROR", <<>>, <<>>)

(* A frame as the parser is to yield it: headers is a dictionary, and the  *)
(* body is cut at its content-length, if that is a number.                 *)
Counted(frame) == frame.headers # <<>> /\ Head(frame.headers) \notin JunkLines
Yielded(frame) ==
    [frame EXCEPT
        !.headers = IF @ = <<>> THEN {} ELSE {Head(@)},
        !.body = IF Counted(frame) THEN SubSeq(@, 1, ContentLength(Head(frame.headers)))
                                   ELSE @]

(* The parser never finds the end of such a frame. *)
Negative(frame) == frame.headers # <<>> /\ Head(frame.headers) \in NegativeLines

(* A frame as a server writes it, its lines ended by end. *)
Encoded(frame, end) ==
    <<frame.command>> \o end
        \o FlattenSeq([i \in DOMAIN frame.headers |-> <<frame.headers[i]>> \o end])
        \o end \o frame.body \o <<NULL>>

EndsOfLine == {<<NEWLINE>>, <<CARRIAGE, NEWLINE>>}

-----------------------------------------------------------------------------
VARIABLES
    eol,          \* how the server ends its lines
    wire,         \* bytes the server wrote and the client has not read
    ws, packets,  \* it is a WebSocket; the lengths of its messages in wire
    connected,    \* the server sent CONNECTED
    sent,         \* the MESSAGE and ERROR frames it sent, in order
    heartbeats,   \* how many heartbeats it sent
    receipt,      \* it sent RECEIPT
    reader,       \* who iterates read_frames: "connecting", "listening",
                  \* "closing", or "done"
    chunk,        \* raw_frames: what is left of the chunk that was read
    received,     \* the frames the listener has dispatched
    errorDropped, \* an ERROR began in the chunk that CONNECTED was found in
    _current_buf, _previous_byte, _headers_processed, _command, _headers,
    _content_length

transport == <<wire, ws, packets>>
server == <<eol, connected, sent, heartbeats, receipt>>
lines == <<_headers_processed, _command, _headers, _content_length>>
parser == <<_current_buf, _previous_byte, lines>>
heard == <<received, errorDropped>>
vars == <<transport, server, reader, chunk, heard, parser>>

(* FrameParser._reset: _previous_byte stays. *)
_reset ==
    /\ _current_buf' = <<>>
    /\ _headers_processed' = FALSE
    /\ _command' = None
    /\ _headers' = {}
    /\ _content_length' = None

Init ==
    /\ eol \in EndsOfLine
    /\ wire = <<>> /\ chunk = <<>>
    /\ ws \in BOOLEAN /\ packets = <<>>
    /\ connected = FALSE /\ sent = <<>> /\ heartbeats = 0 /\ receipt = FALSE
    /\ reader = "connecting"
    /\ received = <<>> /\ errorDropped = FALSE
    /\ _current_buf = <<>> /\ _previous_byte = None
    /\ _headers_processed = FALSE /\ _command = None
    /\ _headers = {} /\ _content_length = None

(* The next reader calls read_frames: FrameParser(), and the chunk of the  *)
(* generator that was left is gone.                                        *)
NewParser(next) ==
    /\ reader' = next
    /\ chunk' = <<>>
    /\ _previous_byte' = None
    /\ _reset

-----------------------------------------------------------------------------
(* The server. *)

Writes(bytes) == /\ wire' = wire \o bytes
                 /\ packets' = IF ws THEN Append(packets, Len(bytes)) ELSE packets
                 /\ UNCHANGED <<ws, reader, chunk, heard, parser>>

Errored == sent # <<>> /\ Last(sent) = Error

ServerConnects ==
    /\ ~connected /\ ~Errored
    /\ connected' = TRUE
    /\ Writes(Encoded(Frame("CONNECTED", <<>>, <<>>), eol))
    /\ UNCHANGED <<eol, sent, heartbeats, receipt>>

ServerHeartbeat ==
    /\ connected /\ ~receipt /\ ~Errored /\ heartbeats < MaxHeartbeats
    /\ heartbeats' = heartbeats + 1
    /\ Writes(eol)
    /\ UNCHANGED <<eol, connected, sent, receipt>>

(* Messages answer a SUBSCRIBE, which is written after CONNECTED was read. *)
(* An ERROR comes at any time, in place of CONNECTED and right behind it   *)
(* too; after it a server sends nothing more.                              *)
ServerSends(frame) ==
    /\ frame = Error \/ reader \in {"listening", "closing"}
    /\ ~receipt /\ ~Errored /\ Len(sent) < MaxFrames
    /\ sent' = Append(sent, frame)
    /\ Writes(Encoded(frame, eol))
    /\ UNCHANGED <<eol, connected, heartbeats, receipt>>

(* The answer to DISCONNECT is the last thing a server sends. *)
ServerReceipt ==
    /\ reader = "closing" /\ ~receipt /\ ~Errored
    /\ receipt' = TRUE
    /\ Writes(Encoded(Frame("RECEIPT", <<>>, <<>>), eol))
    /\ UNCHANGED <<eol, connected, sent, heartbeats>>

-----------------------------------------------------------------------------
Take(n) ==
    /\ reader # "done" /\ chunk = <<>>
    /\ n <= Len(wire)
    /\ chunk' = SubSeq(wire, 1, n)
    /\ wire' = SubSeq(wire, n + 1, Len(wire))
    /\ UNCHANGED <<ws, server, reader, heard, parser>>

(* Connection.read_frames: a chunk of any size up to read_max_chunk_size.  *)
Read(n) ==
    /\ ~ws
    /\ Take(n)
    /\ UNCHANGED packets

\* WebSocketConnection.read_frames
Recv ==
    /\ packets # <<>>
    /\ Take(Head(packets))
    /\ packets' = Tail(packets)

(* Client.__aexit__ cancels the listener, which then either waits for a    *)
(* chunk or handles a frame it was just given.                             *)
Disconnect ==
    /\ reader = "listening"
    /\ chunk = <<>> \/ (_command = None /\ _current_buf = <<>>)
    /\ NewParser("closing")
    /\ UNCHANGED <<transport, server, heard>>

Byte == Head(chunk)
NextByte == chunk # <<>> /\ UNCHANGED <<transport, server>>

(* The loop of parse_frames_from_chunk goes on to the next byte. *)
Consume == /\ chunk' = Tail(chunk)
           /\ _previous_byte' = Byte
           /\ UNCHANGED reader

(* The reader gets a frame: CONNECTED ends _establish_connection's, and    *)
(* RECEIPT ends _take_receipt_frame's; they collect or skip the others.    *)
Yield(frame) ==
    \/ /\ reader = "connecting" /\ frame.command = "CONNECTED"
       /\ NewParser("listening")
       /\ errorDropped' = Contains(Tail(chunk), "ERROR")
       /\ UNCHANGED received
    \/ /\ reader = "closing" /\ frame.command = "RECEIPT"
       /\ NewParser("done")
       /\ UNCHANGED heard
    \/ /\ <<reader, frame.command>> \notin
              {<<"connecting", "CONNECTED">>, <<"closing", "RECEIPT">>}
       /\ Consume
       /\ _reset
       /\ received' = IF reader = "listening" THEN Append(received, frame)
                                              ELSE received
       /\ UNCHANGED errorDropped

(* Mutant: a null byte outside of a frame is skipped. *)
NullIgnored ==
    /\ NextByte /\ Byte = NULL
    /\ _command = None \/ ~_headers_processed
    /\ Consume
    /\ UNCHANGED <<_current_buf, lines, heard>>

(* _handle_null_byte, in three parts.  Outside of a frame's body: *)
NullResets ==
    /\ NextByte /\ Byte = NULL
    /\ _command = None \/ ~_headers_processed
    /\ _reset
    /\ Consume
    /\ UNCHANGED heard

(* Mutant: the first null byte ends the body, whatever its length. *)
NullEndsAnyBody == TRUE

(* content_length is absent or reached: the null byte ends the body. *)
NullEndsBody ==
    _content_length # None => ContentLength(_content_length) = Len(_current_buf)

NullInBody ==
    /\ NextByte /\ Byte = NULL
    /\ _command # None /\ _headers_processed
    /\ ~NullEndsBody
    /\ _current_buf' = Append(_current_buf, NULL)
    /\ Consume
    /\ UNCHANGED <<lines, heard>>

NullYields ==
    /\ NextByte /\ Byte = NULL
    /\ _command # None /\ _headers_processed
    /\ NullEndsBody
    /\ Yield(Frame(_command, _headers, _current_buf))

BodyTakes ==
    _content_length # None => ContentLength(_content_length) # Len(_current_buf)

_handle_body_byte ==
    /\ NextByte
    /\ Byte # NULL
    /\ _headers_processed
    /\ _current_buf' = IF BodyTakes THEN Append(_current_buf, Byte)
                                    ELSE _current_buf
    /\ Consume
    /\ UNCHANGED <<lines, heard>>

AtNewline == NextByte /\ Byte = NEWLINE /\ ~_headers_processed

(* _handle_newline_byte, first part: no frame has begun. *)
HeartbeatYields ==
    /\ AtNewline
    /\ _current_buf = <<>> /\ _command = None
    /\ Consume
    /\ UNCHANGED <<_current_buf, lines, heard>>

(* The line a newline ends.  bytearray.pop fails on an empty buffer. *)
Line == IF _previous_byte = CARRIAGE THEN Front(_current_buf) ELSE _current_buf

_process_command ==
    /\ AtNewline
    /\ _command = None /\ _current_buf # <<>>
    /\ IF Line \in {<<c>> : c \in COMMANDS_TO_FRAMES}
       THEN /\ _command' = Head(Line)
            /\ _current_buf' = <<>>
            /\ UNCHANGED <<_headers_processed, _headers, _content_length>>
       ELSE _reset
    /\ Consume
    /\ UNCHANGED heard

_process_header ==
    /\ AtNewline
    /\ _command # None
    /\ _headers_processed' = (Line = <<>>)
    /\ _current_buf' = <<>>
    /\ IF Line \in {<<l>> : l \in LengthLines} /\ _headers = {}
       THEN /\ _headers' = {Head(Line)}
            /\ _content_length' = IF Head(Line) \in JunkLines THEN None ELSE Head(Line)
       ELSE UNCHANGED <<_headers, _content_length>>
    /\ Consume
    /\ UNCHANGED <<_command, heard>>

(* Mutant: a carriage return is not kept, but still popped. *)
LineByteNoCarriage(byte) ==
    _current_buf' = IF byte = CARRIAGE THEN _current_buf
                                       ELSE Append(_current_buf, byte)

LineByte(byte) == _current_buf' = Append(_current_buf, byte)

ReadLineByte ==
    /\ NextByte
    /\ Byte \notin {NULL, NEWLINE}
    /\ ~_headers_processed
    /\ LineByte(Byte)
    /\ Consume
    /\ UNCHANGED <<lines, heard>>

Server ==
    \/ ServerConnects
    \/ ServerHeartbeat
    \/ \E frame \in Messages \cup {Error} : ServerSends(frame)
    \/ ServerReceipt

parse_frames_from_chunk ==
    \/ NullResets \/ NullInBody \/ NullYields
    \/ _handle_body_byte
    \/ HeartbeatYields \/ _process_command \/ _process_header
    \/ ReadLineByte

Next ==
    \/ Server
    \/ \E n \in 1 .. read_max_chunk_size : Read(n)
    \/ Recv
    \/ Disconnect
    \/ parse_frames_from_chunk

Spec == Init /\ [][Next]_vars

-----------------------------------------------------------------------------
(* The listener gets exactly the messages the server sent, in their order  *)
(* and with their headers and bodies, whatever the bodies hold and however *)
(* the stream is cut into chunks; when it has read everything, it got      *)
(* everything (serde.py:163-222, connection.py:97-106,                     *)
(* connection_lifespan.py:66-72).  Two things are lost, and no others: an  *)
(* ERROR that began in the chunk thrown away behind CONNECTED, and, since  *)
(* the parser compares lengths with # only (serde.py:167, 208), a message  *)
(* with a negative content-length and whatever follows it.                 *)
Readable ==
    {i \in DOMAIN sent : ~errorDropped /\ \A j \in 1 .. i : ~Negative(sent[j])}
FramesInOrder ==
    /\ DOMAIN received \subseteq Readable
    /\ \A i \in DOMAIN received : received[i] = Yielded(sent[i])
    /\ reader = "listening" /\ wire = <<>> /\ chunk = <<>> => DOMAIN received = Readable

(* A reader that starts inside a frame finds its way: when everything is   *)
(* read, the RECEIPT that answers DISCONNECT was found, and it is never    *)
(* found before it was sent (connection_lifespan.py:98-108).  This is so   *)
(* unless a body spells a command on a line of its own, where such a       *)
(* reader may begin, or a negative content-length swallows the RECEIPT.    *)
ReceiptFound ==
    /\ reader = "done" => receipt
    /\ receipt /\ wire = <<>> /\ chunk = <<>> =>
           reader = "done" \/ \E i \in DOMAIN sent : Negative(sent[i])

(* The buffer that the carriage return of a line's end is popped from ends *)
(* with that carriage return: the pop takes nothing else, and never raises *)
(* IndexError in the listener, although _reset empties the buffer and      *)
(* keeps _previous_byte (serde.py:156-161, 177-178).                       *)
PopsCarriage ==
    _previous_byte = CARRIAGE /\ ~_headers_processed =>
        _current_buf # <<>> /\ Last(_current_buf) = CARRIAGE
============================================================================
