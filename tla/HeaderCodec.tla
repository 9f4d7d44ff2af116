---------------------------- MODULE HeaderCodec ----------------------------
(***************************************************************************)
(* One header of a STOMP frame on its way over the wire, byte by byte:     *)
(* stompman/serde.py writes it (dump_header, and dump_frame for a CONNECT  *)
(* frame) and reads it back (parse_header, unescape_byte).  The line       *)
(* reaches parse_header without its newline, which FrameParser consumes.   *)
(*                                                                         *)
(* parse_header keeps two flags from byte to byte, previous_byte and       *)
(* just_escaped_line, and the second one is set after every byte that      *)
(* unescape_byte returns, escaped or not.  Whether the two together        *)
(* invert the escaping is what this module is about.                       *)
(***************************************************************************)
EXTENDS Integers, Sequences, SequencesExt

CONSTANTS
    Commands,     \* the kinds of frame the header may belong to
    Plain,        \* bytes that have no meaning of their own in a header
    MaxLength     \* bound on the length of a key and of a value

NEWLINE == "\n"
CARRIAGE == "\r"
BACKSLASH == "\\"
COLON == ":"

Characters == {NEWLINE, CARRIAGE, BACKSLASH, COLON} \cup Plain

ASSUME CodecAssumption ==
    /\ MaxLength \in Nat
    /\ {"n", "c"} \subseteq Plain
    /\ Plain \cap {NEWLINE, CARRIAGE, BACKSLASH, COLON} = {}
    /\ Commands \subseteq {"CONNECT", "SEND", "CONNECTED", "MESSAGE"}

(* previous_byte before the first byte, and the result of a rejected line. *)
None == <<>>

Strings == UNION {[1 .. n -> Characters] : n \in 0 .. MaxLength}

-----------------------------------------------------------------------------
(* HEADER_ESCAPE_CHARS.get(char, char): a carriage return is dropped. *)
HEADER_ESCAPE_CHARS(char) ==
    CASE char = NEWLINE   -> <<BACKSLASH, "n">>
      [] char = COLON     -> <<BACKSLASH, "c">>
      [] char = BACKSLASH -> <<BACKSLASH, BACKSLASH>>
      [] char = CARRIAGE  -> <<>>
      [] OTHER            -> <<char>>

(* "".join(HEADER_ESCAPE_CHARS.get(char, char) for char in text) *)
Escaped(text) == FlattenSeq([i \in DOMAIN text |-> HEADER_ESCAPE_CHARS(text[i])])

(* What is left of a text when carriage returns are dropped. *)
WithoutCarriage(text) ==
    FlattenSeq([i \in DOMAIN text |-> IF text[i] = CARRIAGE THEN <<>> ELSE <<text[i]>>])

(* The line, without its newline, that dump_frame writes for a header:     *)
(* the headers of a CONNECT frame are written as they are.                 *)
dump_frame(command, key, value) ==
    IF command = "CONNECT" THEN key \o <<COLON>> \o value
                           ELSE Escaped(key) \o <<COLON>> \o Escaped(value)

(* FrameParser cuts its input at newlines and drops a carriage return      *)
(* before one: only such texts come to parse_header as they were written.  *)
OneLine(text) == /\ \A i \in DOMAIN text : text[i] # NEWLINE
                 /\ text[Len(text)] # CARRIAGE

(* HEADER_UNESCAPE_CHARS.get(byte): None for a byte nothing is escaped to. *)
HEADER_UNESCAPE_CHARS(byte) ==
    CASE byte = "n"       -> <<NEWLINE>>
      [] byte = "c"       -> <<COLON>>
      [] byte = BACKSLASH -> <<BACKSLASH>>
      [] OTHER            -> None

unescape_byte(byte, previous) ==
    IF previous = <<BACKSLASH>> THEN HEADER_UNESCAPE_CHARS(byte)
    ELSE IF byte = BACKSLASH THEN None
    ELSE <<byte>>

-----------------------------------------------------------------------------
VARIABLES
    command, key, value,   \* the header that was written
    line,                  \* buffer: what parse_header has still to read
    key_buffer, value_buffer, key_parsed, previous_byte, just_escaped_line,
    result                 \* "reading", or what parse_header returned

written == <<command, key, value>>
vars == <<written, line, key_buffer, value_buffer, key_parsed,
          previous_byte, just_escaped_line, result>>

Init ==
    /\ command \in Commands
    /\ key \in Strings
    /\ value \in Strings
    /\ line = dump_frame(command, key, value)
    /\ OneLine(line)
    /\ key_buffer = <<>> /\ value_buffer = <<>>
    /\ key_parsed = FALSE
    /\ previous_byte = None
    /\ just_escaped_line = FALSE
    /\ result = "reading"

(* (value_buffer if key_parsed else key_buffer).extend(bytes) *)
Extend(bytes) ==
    IF key_parsed
    THEN value_buffer' = value_buffer \o bytes /\ UNCHANGED key_buffer
    ELSE key_buffer' = key_buffer \o bytes /\ UNCHANGED value_buffer

NextByte == /\ result = "reading" /\ line # <<>>
            /\ line' = Tail(line)
            /\ previous_byte' = <<Head(line)>>
            /\ UNCHANGED written

(* The first colon ends the key.  just_escaped_line keeps its value. *)
EndOfKey ==
    /\ NextByte
    /\ Head(line) = COLON
    /\ ~key_parsed
    /\ key_parsed' = TRUE
    /\ UNCHANGED <<key_buffer, value_buffer, just_escaped_line, result>>

(* A second colon: return None. *)
SecondColon ==
    /\ NextByte
    /\ Head(line) = COLON
    /\ key_parsed
    /\ result' = "rejected"
    /\ UNCHANGED <<key_buffer, value_buffer, key_parsed, just_escaped_line>>

(* Mutant: the flag is never consulted, so the n of an escaped backslash   *)
(* followed by n is taken for the end of a second escape.                  *)
JustEscapedUnchecked ==
    /\ NextByte
    /\ Head(line) # COLON
    /\ just_escaped_line
    /\ just_escaped_line' = FALSE
    /\ Extend(unescape_byte(Head(line), previous_byte))
    /\ UNCHANGED <<key_parsed, result>>

(* The byte after one that unescape_byte returned: taken as it is, unless  *)
(* it starts an escape.                                                    *)
JustEscaped ==
    /\ NextByte
    /\ Head(line) # COLON
    /\ just_escaped_line
    /\ just_escaped_line' = FALSE
    /\ Extend(IF Head(line) = BACKSLASH THEN <<>> ELSE <<Head(line)>>)
    /\ UNCHANGED <<key_parsed, result>>

(* Any other byte goes through unescape_byte; None is skipped. *)
Unescape ==
    /\ NextByte
    /\ Head(line) # COLON
    /\ ~just_escaped_line
    /\ LET unescaped == unescape_byte(Head(line), previous_byte)
       IN  /\ just_escaped_line' = (unescaped # None)
           /\ Extend(unescaped)
    /\ UNCHANGED <<key_parsed, result>>

(* The end of the line.  Texts are decoded as UTF-8, which every text that *)
(* was encoded from a string is.                                           *)
EndOfLine ==
    /\ result = "reading" /\ line = <<>>
    /\ result' = IF key_parsed THEN "parsed" ELSE "rejected"
    /\ UNCHANGED <<written, line, key_buffer, value_buffer, key_parsed,
                   previous_byte, just_escaped_line>>

Next == EndOfKey \/ SecondColon \/ JustEscaped \/ Unescape \/ EndOfLine

Spec == Init /\ [][Next]_vars

-----------------------------------------------------------------------------
(* Whether a header is escaped, or has nothing that would have to be: the  *)
(* headers of a CONNECT frame are not escaped.                             *)
Readable ==
    command = "CONNECT" => \A i \in DOMAIN (key \o value) : (key \o value)[i] \in Plain

(* What stands between the two ends of a header is exactly what was        *)
(* written, carriage returns aside: a header that dump_header escaped is   *)
(* never rejected, and when parse_header returns, key and value are the    *)
(* ones of the frame (serde.py:75-78 and 107-134).                         *)
RoundTrip ==
    Readable =>
        /\ result # "rejected"
        /\ result = "parsed" =>
              /\ key_buffer = WithoutCarriage(key)
              /\ value_buffer = WithoutCarriage(value)
============================================================================
