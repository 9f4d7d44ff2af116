------------------------- MODULE FrameParserProofs --------------------------
(***************************************************************************)
(* The safety properties of FrameParser, for bodies of any bytes and any   *)
(* length, any number of messages and heartbeats, and chunks of any size.  *)
(*                                                                         *)
(* One follows from an invariant of the parser alone, whatever bytes it is *)
(* given: the carriage return that is popped is there.  The other two are  *)
(* about the stream: the listener gets the messages that were sent, and    *)
(* the last reader finds the RECEIPT.  Their invariant says that the bytes *)
(* nobody has parsed are what is left of a server's writing from some      *)
(* place on, and that the state of the parser fits that place: between     *)
(* frames, inside the line or the body that is being read, or, after a new *)
(* parser was made in the middle of a frame, lost in it until its null     *)
(* byte.  A lost parser takes lines of a body for commands, so that part   *)
(* needs bodies without them.  Two states know no place: after the header  *)
(* of a message with a negative content-length the parser swallows         *)
(* everything, and after the beginning of an ERROR was thrown away there   *)
(* is nothing left to find.                                                *)
(***************************************************************************)
EXTENDS FrameParser, SequenceFacts

USE DEF vars, transport, server, heard, parser, lines, NEWLINE, CARRIAGE, NULL, None

-----------------------------------------------------------------------------
(* Places in the stream. *)

(* The symbols of a stream, and those that may stand inside a frame. *)
Symbols == COMMANDS_TO_FRAMES \cup BodyBytes \cup LengthLines
               \cup {NEWLINE, CARRIAGE, NULL}
Inner == BodyBytes \cup LengthLines \cup {NEWLINE, CARRIAGE, NULL}

(* A place in the stream of a server that sends the frames of script, and  *)
(* heartbeats between them: how many frames lie behind it, what is left of *)
(* the frame or heartbeat it is in, and how many frames that is, 0 or 1.   *)
Places == [done : Nat, rest : Seq(Symbols), frames : {0, 1}]

Place(done, rest, frames) ==
    IF rest = <<>> THEN [done |-> done + frames, rest |-> <<>>, frames |-> 0]
                   ELSE [done |-> done, rest |-> rest, frames |-> frames]

Sound(script, p) ==
    /\ p \in Places
    /\ p.done <= Len(script)
    /\ p.rest \in Seq(Inner)
    /\ p.frames = 1 => p.done < Len(script) /\ p.rest # <<>> /\ Last(p.rest) = NULL
    /\ p.frames = 0 => p.rest \in {<<>>, <<NEWLINE>>}

(* What the server may be writing at p: the rest of what it is writing, a  *)
(* heartbeat, or the next frame.                                           *)
Writing(script, end, p, unit, frames) ==
    \/ p.rest # <<>> /\ unit = p.rest /\ frames = p.frames
    \/ p.rest = <<>> /\ unit = end /\ frames = 0
    \/ /\ p.rest = <<>> /\ p.done < Len(script)
       /\ unit = Encoded(script[p.done + 1], end) /\ frames = 1

(* The stream goes from p to q with one byte. *)
Emits(script, end, p, byte, q) ==
    \E unit \in Seq(Symbols), frames \in {0, 1} :
        /\ Writing(script, end, p, unit, frames)
        /\ byte = Head(unit)
        /\ q = Place(p.done, Tail(unit), frames)

(* at are the places before, between and after the bytes of stream, which  *)
(* ends where script ends.                                                 *)
Traces(script, end, stream, at) ==
    /\ at \in [0 .. Len(stream) -> Places]
    /\ at[Len(stream)] = [done |-> Len(script), rest |-> <<>>, frames |-> 0]
    /\ \A i \in 0 .. Len(stream) : Sound(script, at[i])
    /\ \A i \in 1 .. Len(stream) : Emits(script, end, at[i - 1], stream[i], at[i])
    /\ \A i, j \in 0 .. Len(stream) : i <= j => at[i].done <= at[j].done

Leads(script, end, stream, p) == \E at : Traces(script, end, stream, at) /\ p = at[0]

\* At the end of the stream the whole script is written.
LEMMA NoMore ==
    ASSUME NEW script, NEW end, NEW p, Leads(script, end, <<>>, p)
    PROVE  p = [done |-> Len(script), rest |-> <<>>, frames |-> 0]
<1>1. Len(<<>>) = 0
    BY EmptySeq
<1> QED BY <1>1, Zenon DEF Leads, Traces

\* Every place of a stream makes sense in its script.
LEMMA LeadsSound ==
    ASSUME NEW script, NEW end, NEW p, NEW stream \in Seq(Symbols), Leads(script, end, stream, p)
    PROVE  Sound(script, p)
<1>1. 0 \in 0 .. Len(stream)
    BY LenProperties
<1> QED BY <1>1, Zenon DEF Leads, Traces

\* The trace of what is left when the first bytes are taken away.
LEMMA TraceRest ==
    ASSUME NEW script, NEW end, NEW a \in Seq(Symbols), NEW b \in Seq(Symbols),
           NEW at, Traces(script, end, a \o b, at)
    PROVE  /\ Leads(script, end, b, at[Len(a)])
           /\ at[0].done <= at[Len(a)].done
<1> DEFINE m == Len(a)
           n == Len(b)
           s == a \o b
           rest == [i \in 0 .. n |-> at[i + m]]
<1>1. m \in Nat /\ n \in Nat /\ Len(s) = m + n /\ \A i \in 1 .. n : s[i + m] = b[i]
  <2>1. m \in Nat /\ n \in Nat
    BY LenProperties
  <2>2. Len(s) = m + n /\ \A i \in 1 .. m + n : s[i] = IF i <= m THEN a[i] ELSE b[i - m]
    BY ConcatProperties
  <2> HIDE DEF s, m, n
  <2>3. ASSUME NEW i \in 1 .. n PROVE i + m \in 1 .. m + n /\ ~(i + m <= m) /\ (i + m) - m = i
    BY <2>1
  <2> QED BY <2>1, <2>2, <2>3
<1> HIDE DEF m, n, s
<1>2. Traces(script, end, s, at)
    BY DEF s
<1>3. \A i \in 0 .. n : i + m \in 0 .. m + n /\ rest[i] = at[i + m]
    BY <1>1
<1>4. rest \in [0 .. n -> Places]
    BY <1>1, <1>2, <1>3 DEF Traces
<1>5. rest[n] = [done |-> Len(script), rest |-> <<>>, frames |-> 0]
  <2>1. n \in 0 .. n /\ n + m = m + n
    BY <1>1
  <2> QED BY <1>1, <1>2, <1>3, <2>1 DEF Traces
<1>6. \A i \in 0 .. n : Sound(script, rest[i])
    BY <1>1, <1>2, <1>3 DEF Traces
<1> HIDE DEF rest
<1>7. ASSUME NEW i \in 1 .. n PROVE Emits(script, end, rest[i - 1], b[i], rest[i])
  <2>1. i - 1 \in 0 .. n /\ i \in 0 .. n /\ i + m \in 1 .. m + n /\ (i + m) - 1 = (i - 1) + m
    BY <1>1
  <2>2. Emits(script, end, at[(i + m) - 1], s[i + m], at[i + m])
    BY <1>1, <1>2, <2>1 DEF Traces
  <2> QED BY <1>1, <1>3, <2>1, <2>2
<1>8. ASSUME NEW i \in 0 .. n, NEW j \in 0 .. n, i <= j PROVE rest[i].done <= rest[j].done
  <2>1. i + m <= j + m /\ i + m \in 0 .. m + n /\ j + m \in 0 .. m + n
    BY <1>1, <1>8
  <2>2. at[i + m].done <= at[j + m].done
    BY <1>1, <1>2, <2>1 DEF Traces
  <2> QED BY <1>3, <2>2
<1>9. Traces(script, end, b, rest)
    BY <1>4, <1>5, <1>6, <1>7, <1>8 DEF Traces, n
<1>10. rest[0] = at[m]
  <2>1. 0 \in 0 .. n /\ 0 + m = m
    BY <1>1
  <2> QED BY <1>3, <2>1
<1>11. at[0].done <= at[m].done
  <2>1. 0 \in 0 .. m + n /\ m \in 0 .. m + n /\ 0 <= m
    BY <1>1
  <2> QED BY <1>1, <1>2, <2>1 DEF Traces
<1> QED BY <1>9, <1>10, <1>11, Zenon DEF Leads, m

\* Bytes that nobody parses.
LEMMA Dropped ==
    ASSUME NEW script, NEW end, NEW a \in Seq(Symbols), NEW b \in Seq(Symbols),
           NEW p, Leads(script, end, a \o b, p)
    PROVE  \E q : Leads(script, end, b, q) /\ p.done <= q.done
<1>1. PICK at : Traces(script, end, a \o b, at) /\ p = at[0]
    BY Zenon DEF Leads
<1> QED BY <1>1, TraceRest

\* The byte that is parsed next.
LEMMA Parsed ==
    ASSUME NEW script, NEW end, NEW a \in Symbols, NEW b \in Seq(Symbols),
           NEW p, Leads(script, end, <<a>> \o b, p)
    PROVE  \E q : Leads(script, end, b, q) /\ Emits(script, end, p, a, q)
<1>1. PICK at : Traces(script, end, <<a>> \o b, at) /\ p = at[0]
    BY Zenon DEF Leads
<1>2. <<a>> \in Seq(Symbols) /\ Len(<<a>>) = 1 /\ <<a>>[1] = a
    OBVIOUS
<1>3. Leads(script, end, b, at[1])
    BY <1>1, <1>2, TraceRest
<1> DEFINE s == <<a>> \o b
<1>4. 1 \in 1 .. Len(s) /\ s[1] = a /\ 1 - 1 = 0
    BY <1>2, ConcatProperties, LenProperties
<1> HIDE DEF s
<1>5. Emits(script, end, at[1 - 1], s[1], at[1])
    BY <1>1, <1>4 DEF Traces, s
<1> QED BY <1>1, <1>3, <1>4, <1>5

(* A heartbeat, or a frame, as it is written. *)
IsUnit(unit, frames) ==
    /\ unit \in Seq(Symbols) /\ unit # <<>>
    /\ Tail(unit) \in Seq(Inner)
    /\ frames = 0 => Tail(unit) \in {<<>>, <<NEWLINE>>}
    /\ frames = 1 => Len(unit) > 1 /\ Last(unit) = NULL

\* What is left of a unit after its first j bytes.
LEMMA UnitRest ==
    ASSUME NEW unit, NEW frames, IsUnit(unit, frames), NEW j \in 1 .. Len(unit), NEW script, NEW more,
           Len(script) \in Nat, frames \in {0, 1}, Len(more) = Len(script) + frames
    PROVE  LET q == Place(Len(script), SubSeq(unit, j + 1, Len(unit)), frames)
           IN  /\ Sound(more, q)
               /\ Len(script) <= q.done
               /\ j < Len(unit) => q.done = Len(script)
               /\ j = Len(unit) => q = [done |-> Len(more), rest |-> <<>>, frames |-> 0]
<1> DEFINE n == Len(unit)
           rest == SubSeq(unit, j + 1, n)
           q == Place(Len(script), rest, frames)
<1>1. n \in Nat \ {0} /\ Tail(unit) = SubSeq(unit, 2, n) /\ unit \in Seq(Symbols)
    BY EmptySeq, TailIsSubSeq DEF IsUnit
<1>2. CASE j = n
  <2>1. rest = <<>>
    BY <1>1, <1>2, SubSeqEmpty
  <2>2. <<>> \in Seq(Inner) /\ <<>> \in Seq(Symbols)
    BY EmptySeq
  <2> HIDE DEF rest
  <2>3. q = [done |-> Len(more), rest |-> <<>>, frames |-> 0]
    BY <2>1 DEF Place
  <2>4. Sound(more, q)
    BY <2>2, <2>3 DEF Sound, Places
  <2> HIDE DEF q
  <2>5. q.done = Len(more)
    BY <2>3
  <2> QED BY <1>2, <2>3, <2>4, <2>5 DEF q, rest
<1>3. CASE j # n
  <2>1. j < n /\ j \in 1 .. n - 1 /\ j + 1 \in 2 .. n
    BY <1>1, <1>3
  <2>2. \A i \in 2 .. n : unit[i] \in Inner
    <3>1. Len(Tail(unit)) = n - 1 /\ \A i \in 1 .. n - 1 : Tail(unit)[i] = unit[i + 1]
      BY <1>1, HeadTailProperties DEF IsUnit
    <3>2. \A i \in 1 .. n - 1 : Tail(unit)[i] \in Inner
      BY <3>1, ElementOfSeq DEF IsUnit
    <3>3. ASSUME NEW i \in 2 .. n PROVE i - 1 \in 1 .. n - 1 /\ (i - 1) + 1 = i
      BY <1>1
    <3> QED BY <3>1, <3>2, <3>3
  <2>3. /\ rest \in Seq(Inner) /\ Len(rest) = n - j
        /\ \A i \in 1 .. n - j : rest[i] = unit[j + i]
    <3>1. \A i \in j + 1 .. n : unit[i] \in Inner
      BY <1>1, <2>1, <2>2
    <3>2. /\ rest \in Seq(Inner) /\ Len(rest) = n - (j + 1) + 1
          /\ \A i \in 1 .. n - (j + 1) + 1 : rest[i] = unit[(j + 1) + i - 1]
      BY <1>1, <2>1, <3>1, SubSeqProperties
    <3> HIDE DEF rest
    <3>3. n - (j + 1) + 1 = n - j /\ \A i \in 1 .. n - j : (j + 1) + i - 1 = j + i
      BY <1>1
    <3> QED BY <3>2, <3>3
  <2>4. rest \in Seq(Symbols)
    BY <2>3, SeqMonotonic DEF Inner, Symbols
  <2>5. frames = 0 => rest = <<NEWLINE>>
    <3> SUFFICES ASSUME frames = 0 PROVE rest = <<NEWLINE>>
      OBVIOUS
    <3>0. Len(Tail(unit)) = n - 1 /\ Len(<<>>) = 0 /\ Len(<<NEWLINE>>) = 1
      BY <1>1, HeadTailProperties, EmptySeq DEF IsUnit
    <3>1. Tail(unit) # <<>>
      <4>1. n - 1 # 0
        <5> HIDE DEF n, rest
        <5> QED BY <1>1, <2>1
      <4> QED BY <3>0, <4>1, Zenon
    <3>2. Tail(unit) = <<NEWLINE>>
      BY <3>1 DEF IsUnit
    <3>3. n = 2
      <4>1. n - 1 = 1
        BY <3>0, <3>2
      <4> QED BY <1>1, <4>1
    <3>4. j + 1 = 2
      BY <2>1, <3>3
    <3> QED BY <1>1, <3>2, <3>4
  <2>6. frames = 1 => Last(rest) = NULL
    <3>1. n - j \in 1 .. n - j /\ j + (n - j) = n
      BY <1>1, <2>1
    <3> HIDE DEF rest
    <3> QED BY <2>3, <3>1 DEF IsUnit, Last
  <2> HIDE DEF rest
  <2>7. rest # <<>>
    BY <1>1, <2>1, <2>3, EmptySeq
  <2>8. q = [done |-> Len(script), rest |-> rest, frames |-> frames]
    BY <2>7 DEF Place
  <2>9. Sound(more, q) /\ q.done = Len(script)
    BY <2>3, <2>4, <2>5, <2>6, <2>7, <2>8 DEF Sound, Places
  <2> HIDE DEF q
  <2> QED BY <1>3, <2>9 DEF q, rest
<1> QED BY <1>2, <1>3

\* The server writes a heartbeat, or the next frame of the script.
LEMMA Written ==
    ASSUME NEW script, NEW more, NEW end, NEW unit, NEW frames \in {0, 1}, NEW stream \in Seq(Symbols),
           NEW p, Leads(script, end, stream, p),
           Len(script) \in Nat, Len(more) = Len(script) + frames,
           \A i \in 1 .. Len(script) : more[i] = script[i],
           IsUnit(unit, frames),
           frames = 0 => unit = end,
           frames = 1 => unit = Encoded(more[Len(more)], end)
    PROVE  Leads(more, end, stream \o unit, p)
<1>1. PICK at : Traces(script, end, stream, at) /\ p = at[0]
    BY Zenon DEF Leads
<1> DEFINE m == Len(stream)
           n == Len(unit)
           s == stream \o unit
           Next_(j) == Place(Len(script), SubSeq(unit, j + 1, n), frames)
           all == [i \in 0 .. m + n |-> IF i <= m THEN at[i] ELSE Next_(i - m)]
           gap == [done |-> Len(script), rest |-> <<>>, frames |-> 0]
<1>2. /\ m \in Nat /\ n \in Nat \ {0} /\ Len(s) = m + n
      /\ \A i \in 1 .. m : s[i] = stream[i]
      /\ \A j \in 1 .. n : s[m + j] = unit[j]
  <2>1. m \in Nat /\ n \in Nat \ {0}
    BY EmptySeq, LenProperties DEF IsUnit
  <2>2. Len(s) = m + n /\ \A i \in 1 .. m + n : s[i] = IF i <= m THEN stream[i] ELSE unit[i - m]
    BY ConcatProperties DEF IsUnit
  <2> HIDE DEF s, m, n
  <2>3. ASSUME NEW j \in 1 .. n PROVE m + j \in 1 .. m + n /\ ~(m + j <= m) /\ (m + j) - m = j
    BY <2>1
  <2>4. ASSUME NEW i \in 1 .. m PROVE i \in 1 .. m + n /\ i <= m
    BY <2>1
  <2> QED BY <2>1, <2>2, <2>3, <2>4
<1>3. ASSUME NEW j \in 1 .. n
      PROVE  /\ Sound(more, Next_(j))
             /\ Len(script) <= Next_(j).done
             /\ j < n => Next_(j).done = Len(script)
             /\ j = n => Next_(j) = [done |-> Len(more), rest |-> <<>>, frames |-> 0]
    BY UnitRest
<1>4. unit \in Seq(Symbols) /\ Tail(unit) = SubSeq(unit, 2, n)
    BY TailIsSubSeq DEF IsUnit
<1>5. at[m] = gap /\ \A i \in 0 .. m : at[i] \in Places /\ Sound(script, at[i])
    BY <1>1 DEF Traces
<1>6. ASSUME NEW j \in 1 .. n
      PROVE  Emits(more, end, IF j = 1 THEN gap ELSE Next_(j - 1), unit[j], Next_(j))
  <2>1. CASE j = 1
    <3>1. unit[1] = Head(unit)
      BY <1>4
    <3>3. Next_(1) = Place(gap.done, Tail(unit), frames)
      <4>1. 1 + 1 = 2 /\ gap.done = Len(script)
        OBVIOUS
      <4> QED BY <1>4, <4>1, Zenon
    <3>2. Writing(more, end, gap, unit, frames)
      <4>1. frames = 1 => gap.done < Len(more) /\ Len(more) = gap.done + 1
        OBVIOUS
      <4> QED BY <4>1 DEF Writing
    <3> QED BY <1>4, <2>1, <3>1, <3>2, <3>3, Zenon DEF Emits
  <2>2. CASE j # 1
    <3> DEFINE left == SubSeq(unit, j, n)
    <3>1. j \in 1 .. n /\ n \in j .. n /\ j - 1 \in 1 .. n - 1 /\ (j - 1) + 1 = j
      BY <1>2, <2>2
    <3>2. Head(left) = unit[j] /\ Tail(left) = SubSeq(unit, j + 1, n)
      BY <1>4, <3>1, HeadTailOfSubSeq
    <3>3. left # <<>> /\ left \in Seq(Symbols)
      <4>1. \A i \in j .. n : unit[i] \in Symbols
        BY <1>2, <1>4, <3>1, ElementOfSeq
      <4>2. left \in Seq(Symbols) /\ Len(left) = n - j + 1
        BY <1>2, <3>1, <4>1, SubSeqProperties
      <4> HIDE DEF left
      <4> QED BY <1>2, <3>1, <4>2, EmptySeq
    <3>4. Next_(j - 1) = [done |-> Len(script), rest |-> left, frames |-> frames]
      <4>1. Next_(j - 1) = Place(Len(script), left, frames)
        BY <3>1
      <4> HIDE DEF left
      <4> QED BY <3>3, <4>1 DEF Place
    <3> HIDE DEF left
    <3>5. Writing(more, end, Next_(j - 1), left, frames)
      BY <3>3, <3>4 DEF Writing
    <3>6. Next_(j) = Place(Next_(j - 1).done, Tail(left), frames)
      <4>1. Next_(j - 1).done = Len(script)
        <5> HIDE DEF Next_
        <5> QED BY <3>4
      <4> QED BY <3>2, <4>1, Zenon
    <3> HIDE DEF Next_
    <3> QED BY <2>2, <3>2, <3>3, <3>5, <3>6, Zenon DEF Emits
  <2> QED BY <2>1, <2>2
<1>7. ASSUME NEW a, NEW byte, NEW b, Sound(script, a), Emits(script, end, a, byte, b)
      PROVE  Emits(more, end, a, byte, b) /\ Sound(more, a)
  <2>1. PICK u \in Seq(Symbols), f \in {0, 1} :
            Writing(script, end, a, u, f) /\ byte = Head(u) /\ b = Place(a.done, Tail(u), f)
    BY <1>7 DEF Emits
  <2>2. a.done \in Nat /\ (a.done < Len(script) => a.done < Len(more) /\ more[a.done + 1] = script[a.done + 1])
    BY <1>7 DEF Sound, Places
  <2>3. Writing(more, end, a, u, f)
    BY <2>1, <2>2 DEF Writing
  <2>4. Emits(more, end, a, byte, b)
    BY <2>1, <2>3, Zenon DEF Emits
  <2> QED BY <1>7, <2>2, <2>4 DEF Sound
<1> HIDE DEF m, n, s, gap, Next_
<1>8. /\ \A i \in 0 .. m : i \in 0 .. m + n /\ all[i] = at[i]
      /\ \A j \in 1 .. n : m + j \in 0 .. m + n /\ all[m + j] = Next_(j)
  <2>1. ASSUME NEW j \in 1 .. n PROVE m + j \in 0 .. m + n /\ ~(m + j <= m) /\ (m + j) - m = j
    BY <1>2
  <2>2. ASSUME NEW i \in 0 .. m PROVE i \in 0 .. m + n /\ i <= m
    BY <1>2
  <2> QED BY <2>1, <2>2
<1>9. \A i \in 0 .. m + n : i \in 0 .. m \/ \E j \in 1 .. n : i = m + j
  <2>1. ASSUME NEW i \in 0 .. m + n, i \notin 0 .. m PROVE i - m \in 1 .. n /\ i = m + (i - m)
    BY <1>2, <2>1
  <2> QED BY <2>1
<1> HIDE DEF all
<1>10. \A i \in 0 .. m : Sound(more, at[i])
  <2>1. ASSUME NEW a, Sound(script, a) PROVE Sound(more, a)
    BY <2>1 DEF Sound, Places
  <2> QED BY <1>5, <2>1
<1>11. \A i \in 0 .. m + n : Sound(more, all[i])
    BY <1>3, <1>8, <1>9, <1>10
<1>12. all[m + n] = [done |-> Len(more), rest |-> <<>>, frames |-> 0]
  <2>1. n \in 1 .. n
    BY <1>2
  <2> QED BY <1>3, <1>8, <2>1
<1>13. ASSUME NEW i \in 1 .. m + n PROVE Emits(more, end, all[i - 1], s[i], all[i])
  <2>1. CASE i \in 1 .. m
    <3>1. i \in 0 .. m /\ i - 1 \in 0 .. m
      BY <1>2, <2>1
    <3>2. Emits(script, end, at[i - 1], stream[i], at[i])
      BY <1>1, <2>1 DEF Traces, m
    <3> QED BY <1>2, <1>5, <1>7, <1>8, <2>1, <3>1, <3>2
  <2>2. CASE i \notin 1 .. m
    <3> DEFINE j == i - m
    <3>1. j \in 1 .. n /\ i = m + j /\ (j # 1 => j - 1 \in 1 .. n /\ i - 1 = m + (j - 1))
          /\ (j = 1 => i - 1 = m /\ m \in 0 .. m)
      BY <1>2, <2>2
    <3> HIDE DEF j
    <3>2. all[i] = Next_(j) /\ s[i] = unit[j] /\ all[i - 1] = IF j = 1 THEN gap ELSE Next_(j - 1)
      BY <1>2, <1>5, <1>8, <3>1
    <3> QED BY <1>6, <3>1, <3>2
  <2> QED BY <2>1, <2>2
<1>14. ASSUME NEW i \in 0 .. m + n, NEW j \in 0 .. m + n, i <= j PROVE all[i].done <= all[j].done
  <2>1. \A k \in 0 .. m : at[k].done \in Nat /\ at[k].done <= Len(script)
    BY <1>5 DEF Sound, Places
  <2>2. \A k \in 1 .. n : /\ Len(script) <= Next_(k).done
                          /\ k < n => Next_(k).done = Len(script)
                          /\ k = n => Next_(k).done = Len(more)
    BY <1>3
  <2>3. CASE i \in 0 .. m /\ j \in 0 .. m
    <3>1. at[i].done <= at[j].done
      BY <1>1, <1>14, <2>3 DEF Traces, m
    <3> QED BY <1>8, <2>3, <3>1
  <2>4. CASE i \in 0 .. m /\ j \notin 0 .. m
    <3>1. PICK k \in 1 .. n : j = m + k
      BY <1>9, <2>4
    <3>2. Next_(k).done \in {Len(script), Len(more)} /\ Len(script) <= Next_(k).done
      BY <1>2, <2>2
    <3> QED BY <1>8, <2>1, <2>4, <3>1, <3>2
  <2>5. CASE i \notin 0 .. m
    <3>1. j \notin 0 .. m
      BY <1>2, <1>14, <2>5
    <3>2. PICK k \in 1 .. n : i = m + k
      BY <1>9, <2>5
    <3>3. PICK l \in 1 .. n : j = m + l
      BY <1>9, <3>1
    <3>4. k <= l
      BY <1>2, <1>14, <3>2, <3>3
    <3>5. Next_(k).done <= Next_(l).done
      <4>1. CASE k = l
        <5>1. Next_(k).done \in {Len(script), Len(more)}
          BY <1>2, <2>2
        <5> QED BY <4>1, <5>1
      <4>2. CASE k # l
        <5>1. k < n
          BY <1>2, <3>4, <4>2
        <5> QED BY <2>2, <5>1
      <4> QED BY <4>1, <4>2
    <3> QED BY <1>8, <3>2, <3>3, <3>5
  <2> QED BY <2>3, <2>4, <2>5
<1>15. all \in [0 .. m + n -> Places]
  <2>1. \A i \in 0 .. m + n : all[i] \in Places
    BY <1>11 DEF Sound
  <2> QED BY <2>1 DEF all
<1>16. Traces(more, end, s, all)
    BY <1>2, <1>11, <1>12, <1>13, <1>14, <1>15 DEF Traces
<1>17. all[0] = p
  <2>1. 0 \in 0 .. m
    BY <1>2
  <2> QED BY <1>1, <1>8, <2>1
<1> QED BY <1>16, <1>17, Zenon DEF Leads, s

-----------------------------------------------------------------------------
(* The frames of a server, and their bytes. *)

Connected == Frame("CONNECTED", <<>>, <<>>)
Receipt == Frame("RECEIPT", <<>>, <<>>)

(* What the server sends is parsed as it was meant: a body with null bytes *)
(* has its length, and no length is too large.                             *)
WellFormed(f) ==
    /\ f = Frame(f.command, f.headers, f.body)
    /\ f.command \in COMMANDS_TO_FRAMES
    /\ f.headers \in Seq(LengthLines)
    /\ f.body \in Seq(BodyBytes)
    /\ ~Counted(f) => ~Contains(f.body, NULL)
    /\ Counted(f) /\ ~Negative(f) =>
           /\ ContentLength(f.headers[1]) \in 0 .. Len(f.body)
           /\ Contains(f.body, NULL) => ContentLength(f.headers[1]) = Len(f.body)

\* The first header.
LEMMA FirstHeader ==
    ASSUME NEW f, f.headers \in Seq(LengthLines), f.headers # <<>>
    PROVE  /\ Head(f.headers) = f.headers[1] /\ f.headers[1] \in LengthLines
           /\ Counted(f) <=> f.headers[1] \notin JunkLines
           /\ Negative(f) <=> f.headers[1] \in NegativeLines
<1>1. Head(f.headers) = f.headers[1] /\ Head(f.headers) \in LengthLines
    BY HeadTailProperties
<1> QED BY <1>1 DEF Counted, Negative

\* What a content-length line says.
LEMMA ContentLengthOf ==
    ASSUME NEW n \in Lengths
    PROVE  /\ ContentLengthLine(n) \in LengthLines
           /\ ContentLengthLine(n) \notin NegativeLines \cup JunkLines
           /\ ContentLength(ContentLengthLine(n)) = n
<1>1. n + 1 \in DOMAIN ContentLengthLines
    BY ParserAssumption, LenProperties DEF Lengths
<1>2. ContentLengthLine(n) \in ToSet(ContentLengthLines)
    BY <1>1 DEF ContentLengthLine, ToSet
<1>3. ContentLengthLine(n) \in LengthLines /\ ContentLengthLine(n) \notin NegativeLines \cup JunkLines
    BY <1>2, ParserAssumption DEF LengthLines
<1>4. \E m \in Lengths : ContentLengthLine(m) = ContentLengthLine(n)
    OBVIOUS
<1> DEFINE m == CHOOSE k \in Lengths : ContentLengthLine(k) = ContentLengthLine(n)
<1>5. m \in Lengths /\ ContentLengthLine(m) = ContentLengthLine(n)
    BY <1>4, Zenon
<1> HIDE DEF m
<1>6. m = n
    BY <1>5, ParserAssumption
<1>7. ContentLength(ContentLengthLine(n)) = m
    BY <1>3 DEF ContentLength, m
<1> QED BY <1>3, <1>6, <1>7

\* CONNECTED, RECEIPT and ERROR frames are well formed.
LEMMA PlainWellFormed == \A c \in COMMANDS_TO_FRAMES : WellFormed(Frame(c, <<>>, <<>>))
<1> TAKE c \in COMMANDS_TO_FRAMES
<1> DEFINE f == Frame(c, <<>>, <<>>)
<1>1. f.command = c /\ f.headers = <<>> /\ f.body = <<>> /\ f = Frame(f.command, f.headers, f.body)
    BY DEF Frame
<1>2. <<>> \in Seq(LengthLines) /\ <<>> \in Seq(BodyBytes) /\ ~Contains(<<>>, NULL)
    BY EmptySeq DEF Contains
<1> HIDE DEF f
<1>3. ~Counted(f)
    BY <1>1 DEF Counted
<1>4. WellFormed(f)
    BY <1>1, <1>2, <1>3 DEF WellFormed
<1> QED BY <1>4 DEF f

\* So is everything that a server sends to a subscriber.
LEMMA MessagesWellFormed == \A f \in Messages : WellFormed(f) /\ f.command = "MESSAGE"
<1> TAKE f \in Messages
<1>0. PICK b \in Bodies : f \in {Frame("MESSAGE", h, b) : h \in Headers(b)}
    BY DEF Messages
<1>1. PICK h \in Headers(b) : f = Frame("MESSAGE", h, b)
    BY <1>0
<1>2. f.command = "MESSAGE" /\ f.headers = h /\ f.body = b /\ f = Frame(f.command, f.headers, f.body)
    BY <1>1 DEF Frame
<1>3. b \in Seq(BodyBytes) /\ Len(b) \in Lengths /\ Len(b) \in Nat
  <2>1. PICK n \in Lengths : b \in [1 .. n -> BodyBytes]
    BY DEF Bodies
  <2>2. n \in Nat
    BY ParserAssumption, LenProperties DEF Lengths
  <2>3. b \in Seq(BodyBytes)
    BY <2>1, <2>2, SeqDef
  <2>4. Len(b) = n
    BY <2>1, <2>2, <2>3, LenProperties
  <2> QED BY <2>1, <2>2, <2>3, <2>4
<1>4. \A n \in 0 .. Len(b) : n \in Lengths
    BY <1>3, ParserAssumption, LenProperties DEF Lengths
<1>5. \/ h = <<>> /\ ~Contains(b, NULL)
      \/ /\ h \in Seq(LengthLines) /\ h # <<>>
         /\ \/ h[1] \in NegativeLines
            \/ h[1] \in JunkLines /\ ~Contains(b, NULL)
            \/ \E n \in 0 .. Len(b) : h[1] = ContentLengthLine(n) /\ (n = Len(b) \/ ~Contains(b, NULL))
  <2>1. ASSUME NEW n \in 0 .. Len(b)
        PROVE  <<ContentLengthLine(n)>> \in Seq(LengthLines)
    BY <1>4, ContentLengthOf
  <2>2. CASE h = <<>> /\ ~Contains(b, NULL)
    BY <2>2
  <2>3. CASE h = <<ContentLengthLine(Len(b))>>
    <3>1. Len(b) \in 0 .. Len(b) /\ h[1] = ContentLengthLine(Len(b)) /\ h # <<>>
      BY <1>3, <2>3
    <3> QED BY <2>1, <2>3, <3>1
  <2>4. CASE ~Contains(b, NULL) /\ \E n \in 0 .. Len(b) : h = <<ContentLengthLine(n)>>
    <3>1. PICK n \in 0 .. Len(b) : h = <<ContentLengthLine(n)>>
      BY <2>4
    <3>2. h[1] = ContentLengthLine(n) /\ h # <<>>
      BY <3>1
    <3> QED BY <2>1, <2>4, <3>1, <3>2
  <2>5. CASE Len(b) = 1 /\ h = <<ContentLengthLine(1), ContentLengthLine(0)>>
    <3>1. 1 \in 0 .. Len(b) /\ 0 \in 0 .. Len(b)
      BY <2>5
    <3>2. ContentLengthLine(1) \in LengthLines /\ ContentLengthLine(0) \in LengthLines
      BY <1>4, <3>1, ContentLengthOf
    <3>3. h[1] = ContentLengthLine(1) /\ h # <<>> /\ h \in Seq(LengthLines)
      BY <2>5, <3>2
    <3> QED BY <2>5, <3>1, <3>3
  <2>6. CASE \E l \in NegativeLines : h = <<l>>
    <3>1. PICK l \in NegativeLines : h = <<l>>
      BY <2>6
    <3>2. h[1] = l /\ h # <<>> /\ l \in LengthLines
      BY <3>1 DEF LengthLines
    <3> QED BY <3>1, <3>2
  <2>7. CASE ~Contains(b, NULL) /\ \E l \in JunkLines : h = <<l>>
    <3>1. PICK l \in JunkLines : h = <<l>>
      BY <2>7
    <3>2. h[1] = l /\ h # <<>> /\ l \in LengthLines
      BY <3>1 DEF LengthLines
    <3> QED BY <2>7, <3>1, <3>2
  <2> QED BY <2>2, <2>3, <2>4, <2>5, <2>6, <2>7 DEF Headers
<1>6. h \in Seq(LengthLines)
    BY <1>5, EmptySeq
<1>7. Counted(f) /\ ~Negative(f) =>
          /\ ContentLength(h[1]) \in 0 .. Len(b)
          /\ Contains(b, NULL) => ContentLength(h[1]) = Len(b)
    BY <1>2, <1>4, <1>5, <1>6, ContentLengthOf, FirstHeader DEF Counted
<1>8. ~Counted(f) => ~Contains(b, NULL)
  <2>1. CASE h = <<>>
    BY <1>5, <2>1
  <2>2. CASE h # <<>>
    <3>1. Counted(f) <=> h[1] \notin JunkLines
      BY <1>2, <1>6, <2>2, FirstHeader
    <3>2. h[1] \in NegativeLines => h[1] \notin JunkLines
      BY ParserAssumption
    <3>3. \A n \in 0 .. Len(b) : h[1] = ContentLengthLine(n) => h[1] \notin JunkLines
      BY <1>4, ContentLengthOf
    <3> QED BY <1>5, <2>2, <3>1, <3>2, <3>3
  <2> QED BY <2>1, <2>2
<1>9. f.command \in COMMANDS_TO_FRAMES
    BY <1>2 DEF COMMANDS_TO_FRAMES
<1>10. WellFormed(f)
    BY <1>2, <1>3, <1>6, <1>7, <1>8, <1>9, Zenon DEF WellFormed
<1> QED BY <1>2, <1>10

(* What is left of a frame from its i-th header line on. *)
Parts(f, end) == [i \in DOMAIN f.headers |-> <<f.headers[i]>> \o end]
LinesLeft(f, end, i) ==
    FlattenSeq(SubSeq(Parts(f, end), i, Len(f.headers))) \o (end \o (f.body \o <<NULL>>))

\* The ends of lines, and the symbols that are no commands.
LEMMA SymbolKinds ==
    /\ EndsOfLine \subseteq Seq(Inner)
    /\ BodyBytes \subseteq Inner /\ LengthLines \subseteq Inner
    /\ NEWLINE \in Inner /\ CARRIAGE \in Inner /\ NULL \in Inner
    /\ Inner \subseteq Symbols /\ COMMANDS_TO_FRAMES \subseteq Symbols
<1>1. NEWLINE \in Inner /\ CARRIAGE \in Inner /\ NULL \in Inner
    BY DEF Inner
<1>2. BodyBytes \subseteq Inner /\ LengthLines \subseteq Inner
    BY DEF Inner
<1>3. EndsOfLine \subseteq Seq(Inner)
    BY <1>1 DEF EndsOfLine
<1> QED BY <1>1, <1>2, <1>3 DEF Inner, Symbols

\* The header lines, each with its end.
LEMMA PartsType ==
    ASSUME NEW f, WellFormed(f), NEW end \in EndsOfLine
    PROVE  /\ Parts(f, end) \in Seq(Seq(Inner)) /\ Len(Parts(f, end)) = Len(f.headers) /\ Len(f.headers) \in Nat
           /\ \A i \in 1 .. Len(f.headers) : /\ Parts(f, end)[i] = <<f.headers[i]>> \o end
                                             /\ f.headers[i] \in LengthLines
<1> DEFINE h == f.headers
           n == Len(h)
<1>1. h \in Seq(LengthLines) /\ DOMAIN h = 1 .. n /\ n \in Nat
      /\ \A i \in 1 .. n : h[i] \in LengthLines
    BY LenProperties, ElementOfSeq DEF WellFormed
<1>2. ASSUME NEW i \in 1 .. n PROVE <<h[i]>> \o end \in Seq(Inner)
  <2>1. h[i] \in Inner /\ end \in Seq(Inner)
    BY <1>1, SymbolKinds
  <2> QED BY <2>1, ConsParts
<1>3. Parts(f, end) \in [1 .. n -> Seq(Inner)]
    BY <1>1, <1>2 DEF Parts
<1>4. Parts(f, end) \in Seq(Seq(Inner))
    BY <1>1, <1>3, SeqDef
<1>5. Len(Parts(f, end)) = n
    BY <1>1, <1>3, <1>4, LenProperties
<1> QED BY <1>1, <1>4, <1>5 DEF Parts

\* The end of the header and the body.
LEMMA BodyType ==
    ASSUME NEW f, WellFormed(f)
    PROVE  /\ f.body \o <<NULL>> \in Seq(Inner) /\ f.body \o <<NULL>> # <<>>
           /\ Last(f.body \o <<NULL>>) = NULL
<1>1. f.body \in Seq(Inner) /\ <<NULL>> \in Seq(Inner) /\ Len(<<NULL>>) = 1 /\ <<NULL>>[1] = NULL
    BY SymbolKinds, SeqMonotonic DEF WellFormed
<1> DEFINE s == f.body \o <<NULL>>
           n == Len(f.body)
<1>2. s \in Seq(Inner) /\ Len(s) = n + 1 /\ n \in Nat /\ s[n + 1] = NULL
  <2>1. /\ s \in Seq(Inner) /\ Len(s) = n + 1 /\ n \in Nat
        /\ \A i \in 1 .. n + 1 : s[i] = IF i <= n THEN f.body[i] ELSE <<NULL>>[i - n]
    BY <1>1, ConcatProperties, LenProperties
  <2> HIDE DEF s, n
  <2>2. n + 1 \in 1 .. n + 1 /\ ~(n + 1 <= n) /\ (n + 1) - n = 1
    BY <2>1
  <2> QED BY <1>1, <2>1, <2>2
<1> HIDE DEF s
<1>3. s # <<>>
    BY <1>2, EmptySeq
<1> QED BY <1>2, <1>3 DEF s, Last

\* What precedes the last symbol does not matter to it.
LEMMA LastOfConcat ==
    ASSUME NEW S, NEW s \in Seq(S), NEW t \in Seq(S), t # <<>>
    PROVE  s \o t \in Seq(S) /\ s \o t # <<>> /\ Last(s \o t) = Last(t)
<1> DEFINE st == s \o t
           m == Len(s)
           n == Len(t)
<1>1. /\ st \in Seq(S) /\ Len(st) = m + n /\ m \in Nat /\ n \in Nat \ {0}
      /\ \A i \in 1 .. m + n : st[i] = IF i <= m THEN s[i] ELSE t[i - m]
    BY ConcatProperties, LenProperties, EmptySeq
<1> HIDE DEF st, m, n
<1>2. m + n \in 1 .. m + n /\ ~(m + n <= m) /\ (m + n) - m = n
    BY <1>1
<1>3. st[m + n] = t[n]
    BY <1>1, <1>2
<1>4. st # <<>>
    BY <1>1, EmptySeq
<1> QED BY <1>1, <1>3, <1>4 DEF st, n, Last

\* From a header line on, a frame holds no command and ends with a null byte.
LEMMA LinesLeftType ==
    ASSUME NEW f, WellFormed(f), NEW end \in EndsOfLine, NEW i \in 1 .. Len(f.headers) + 1
    PROVE  /\ LinesLeft(f, end, i) \in Seq(Inner) /\ LinesLeft(f, end, i) # <<>>
           /\ Last(LinesLeft(f, end, i)) = NULL
           /\ end \o LinesLeft(f, end, i) \in Seq(Inner)
           /\ Last(end \o LinesLeft(f, end, i)) = NULL
<1> DEFINE parts == SubSeq(Parts(f, end), i, Len(f.headers))
           tail == f.body \o <<NULL>>
<1>1. end \in Seq(Inner)
    BY SymbolKinds
<1>2. parts \in Seq(Seq(Inner))
  <2>1. \A j \in i .. Len(f.headers) : Parts(f, end)[j] \in Seq(Inner)
    BY PartsType, ElementOfSeq
  <2>2. i \in Int /\ Len(f.headers) \in Int
    BY PartsType
  <2> QED BY <2>1, <2>2, SubSeqProperties
<1>3. FlattenSeq(parts) \in Seq(Inner)
    BY <1>2, FlattenType
<1>4. tail \in Seq(Inner) /\ tail # <<>> /\ Last(tail) = NULL
    BY BodyType
<1> DEFINE first == FlattenSeq(parts)
<1> HIDE DEF tail, first
<1>5. end \o tail \in Seq(Inner) /\ end \o tail # <<>> /\ Last(end \o tail) = NULL
    BY <1>1, <1>4, LastOfConcat
<1> DEFINE et == end \o tail
<1> HIDE DEF et
<1>6. first \o et \in Seq(Inner) /\ first \o et # <<>> /\ Last(first \o et) = NULL
    BY <1>3, <1>5, LastOfConcat DEF et, first
<1> DEFINE left == LinesLeft(f, end, i)
<1>7. left = first \o et
    BY DEF LinesLeft, first, et, tail
<1> HIDE DEF left
<1>8. end \o left \in Seq(Inner) /\ Last(end \o left) = NULL
    BY <1>1, <1>6, <1>7, LastOfConcat
<1> QED BY <1>6, <1>7, <1>8 DEF left

\* What follows a header line, and what follows the last one.
LEMMA LinesLeftIs ==
    ASSUME NEW f, WellFormed(f), NEW end \in EndsOfLine
    PROVE  /\ \A i \in 1 .. Len(f.headers) :
                 LinesLeft(f, end, i) = <<f.headers[i]>> \o (end \o LinesLeft(f, end, i + 1))
           /\ LinesLeft(f, end, Len(f.headers) + 1) = end \o (f.body \o <<NULL>>)
           /\ Encoded(f, end) = <<f.command>> \o (end \o LinesLeft(f, end, 1))
<1> DEFINE n == Len(f.headers)
           parts == Parts(f, end)
           From(i) == FlattenSeq(SubSeq(parts, i, n))
           et == end \o (f.body \o <<NULL>>)
<1>1. parts \in Seq(Seq(Inner)) /\ Len(parts) = n /\ n \in Nat /\ end \in Seq(Inner)
    BY PartsType, SymbolKinds
<1>2. et \in Seq(Inner)
  <2> DEFINE tail == f.body \o <<NULL>>
  <2>1. tail \in Seq(Inner)
    BY BodyType
  <2> HIDE DEF tail
  <2>2. end \o tail \in Seq(Inner)
    BY <1>1, <2>1, ConcatProperties
  <2> QED BY <2>2 DEF tail
<1>3. \A i \in 1 .. n + 1 : SubSeq(parts, i, n) \in Seq(Seq(Inner)) /\ From(i) \in Seq(Inner)
  <2> TAKE i \in 1 .. n + 1
  <2>1. \A j \in i .. n : parts[j] \in Seq(Inner)
    BY <1>1, ElementOfSeq
  <2>2. SubSeq(parts, i, n) \in Seq(Seq(Inner))
    BY <1>1, <2>1, SubSeqProperties
  <2> QED BY <2>2, FlattenType
<1> HIDE DEF et
<1>4. ASSUME NEW i \in 1 .. n
      PROVE  LinesLeft(f, end, i) = <<f.headers[i]>> \o (end \o LinesLeft(f, end, i + 1))
  <2> DEFINE head == <<f.headers[i]>>
             next == From(i + 1)
  <2>1. i + 1 \in 1 .. n + 1 /\ n \in i .. n
    BY <1>1
  <2>2. head \in Seq(Inner) /\ parts[i] = head \o end /\ parts[i] \in Seq(Inner) /\ next \in Seq(Inner)
    <3>1. f.headers[i] \in Inner
      BY PartsType, SymbolKinds
    <3>2. parts[i] = head \o end
      BY PartsType, Zenon
    <3>3. parts[i] \in Seq(Inner) /\ next \in Seq(Inner)
      BY <1>1, <1>3, <2>1, ElementOfSeq
    <3> QED BY <3>1, <3>2, <3>3
  <2>3. SubSeq(parts, i, n) = <<parts[i]>> \o SubSeq(parts, i + 1, n)
    BY <1>1, <2>1, SubSeqRecursiveFirst
  <2>4. From(i) = parts[i] \o next
    BY <1>3, <2>1, <2>2, <2>3, FlattenCons
  <2>5. LinesLeft(f, end, i) = From(i) \o et /\ LinesLeft(f, end, i + 1) = next \o et
    BY DEF LinesLeft, et
  <2> HIDE DEF head, next, parts, From
  <2>6. ((head \o end) \o next) \o et = head \o (end \o (next \o et))
    <3>1. Cat(Cat(Cat(head, end), next), et) = Cat(head, Cat(end, Cat(next, et)))
      BY <1>1, <1>2, <2>2, CatFour
    <3> QED BY <3>1, Zenon DEF Cat
  <2> QED BY <2>2, <2>4, <2>5, <2>6, Zenon DEF head
<1>5. LinesLeft(f, end, n + 1) = end \o (f.body \o <<NULL>>)
  <2>1. SubSeq(parts, n + 1, n) = <<>>
    BY <1>1, SubSeqEmpty
  <2>2. From(n + 1) = <<>>
    BY <2>1, FlattenEmpty, Zenon
  <2>3. LinesLeft(f, end, n + 1) = From(n + 1) \o et
    BY DEF LinesLeft, et
  <2>4. <<>> \o et = et
    BY <1>2, ConcatEmptySeq
  <2> HIDE DEF From
  <2> QED BY <2>2, <2>3, <2>4, Zenon DEF et
<1>6. Encoded(f, end) = <<f.command>> \o (end \o LinesLeft(f, end, 1))
  <2> DEFINE c == <<f.command>>
             h == From(1)
             b == f.body
             z == <<NULL>>
  <2>1. c \in Seq(Symbols) /\ b \in Seq(Symbols) /\ z \in Seq(Symbols) /\ end \in Seq(Symbols) /\ h \in Seq(Symbols)
    <3>1. f.command \in Symbols /\ NULL \in Symbols /\ BodyBytes \subseteq Symbols /\ f.body \in Seq(BodyBytes)
      BY SymbolKinds DEF WellFormed
    <3>2. 1 \in 1 .. n + 1
      BY <1>1
    <3>3. h \in Seq(Inner)
      BY <1>3, <3>2
    <3>4. b \in Seq(Symbols)
      BY <3>1, SeqMonotonic
    <3> HIDE DEF h
    <3> QED BY <1>1, <3>1, <3>3, <3>4, SeqMonotonic, SymbolKinds
  <2>2. SubSeq(parts, 1, n) = parts
    BY <1>1, SubSeqFull
  <2>3. h = FlattenSeq([i \in DOMAIN f.headers |-> <<f.headers[i]>> \o end])
    BY <2>2, Zenon DEF Parts
  <2>4. Encoded(f, end) = ((((c \o end) \o h) \o end) \o b) \o z
    BY <2>3, Zenon DEF Encoded
  <2>5. LinesLeft(f, end, 1) = h \o (end \o (b \o z))
    BY DEF LinesLeft
  <2> HIDE DEF c, h, b, z
  <2>6. ((((c \o end) \o h) \o end) \o b) \o z = c \o (end \o (h \o (end \o (b \o z))))
    <3>1. Cat(Cat(Cat(Cat(Cat(c, end), h), end), b), z) = Cat(c, Cat(end, Cat(h, Cat(end, Cat(b, z)))))
      BY <2>1, CatSix
    <3> QED BY <3>1, Zenon DEF Cat
  <2> QED BY <2>4, <2>5, <2>6, Zenon DEF c
<1> QED BY <1>4, <1>5, <1>6

\* A frame and a heartbeat are units of the stream.
LEMMA FrameUnit ==
    ASSUME NEW f, WellFormed(f), NEW end \in EndsOfLine
    PROVE  /\ IsUnit(Encoded(f, end), 1)
           /\ Head(Encoded(f, end)) = f.command
           /\ Tail(Encoded(f, end)) = end \o LinesLeft(f, end, 1)
<1> DEFINE t == end \o LinesLeft(f, end, 1)
           e == Encoded(f, end)
<1>1. 1 \in 1 .. Len(f.headers) + 1
    BY PartsType
<1>2. t \in Seq(Inner) /\ Last(t) = NULL /\ e = <<f.command>> \o t
    BY <1>1, LinesLeftType, LinesLeftIs
<1>3. t # <<>>
    BY <1>1, SymbolKinds, LinesLeftType, LastOfConcat
<1> HIDE DEF t, e
<1>4. f.command \in Symbols /\ t \in Seq(Symbols)
    BY <1>2, SymbolKinds, SeqMonotonic DEF WellFormed
<1>5. e \in Seq(Symbols) /\ e # <<>> /\ Head(e) = f.command /\ Tail(e) = t
    BY <1>2, <1>4, ConsParts
<1>6. Last(e) = NULL
  <2>1. <<f.command>> \in Seq(Symbols)
    BY <1>4
  <2>2. Last(<<f.command>> \o t) = Last(t)
    BY <1>3, <1>4, <2>1, LastOfConcat, Zenon
  <2> QED BY <1>2, <2>2, Zenon
<1>7. Len(e) > 1
  <2>1. Len(t) \in Nat \ {0} /\ Len(t) = Len(e) - 1 /\ Len(e) \in Nat
    BY <1>3, <1>4, <1>5, EmptySeq, HeadTailProperties, LenProperties
  <2> QED BY <2>1
<1>8. IsUnit(e, 1)
  <2>1. Tail(e) \in Seq(Inner)
    BY <1>2, <1>5, Zenon
  <2> QED BY <1>5, <1>6, <1>7, <2>1 DEF IsUnit
<1> QED BY <1>5, <1>8, Zenon DEF t, e

\* A heartbeat as it is written.
LEMMA HeartbeatUnit ==
    ASSUME NEW end \in EndsOfLine
    PROVE  /\ IsUnit(end, 0)
           /\ \/ end = <<NEWLINE>> /\ Head(end) = NEWLINE /\ Tail(end) = <<>>
              \/ end = <<CARRIAGE, NEWLINE>> /\ Head(end) = CARRIAGE /\ Tail(end) = <<NEWLINE>>
<1>1. NEWLINE \in Symbols /\ CARRIAGE \in Symbols /\ NEWLINE \in Inner
    BY SymbolKinds
<1>2. CASE end = <<NEWLINE>>
    BY <1>1, <1>2 DEF IsUnit
<1>3. CASE end = <<CARRIAGE, NEWLINE>>
    BY <1>1, <1>3 DEF IsUnit
<1> QED BY <1>2, <1>3 DEF EndsOfLine

-----------------------------------------------------------------------------
(* Where the parser is in the stream. *)

(* No frame has begun. *)
Fresh == /\ _command = None /\ ~_headers_processed
         /\ _headers = {} /\ _content_length = None

(* Past the symbol of line l, if it has one, with after to follow.  Its    *)
(* end, or the newline of its end, is next.                                *)
OnLine(l, rest, after) ==
    \/ rest = eol \o after /\ _current_buf = l
    \/ /\ eol = <<CARRIAGE, NEWLINE>>
       /\ rest = <<NEWLINE>> \o after
       /\ _current_buf = Append(l, CARRIAGE)
       /\ _previous_byte = CARRIAGE

AtCommand(f, rest) == Fresh /\ OnLine(<<f.command>>, rest, LinesLeft(f, eol, 1))

(* The first n header lines were processed: the first one counts. *)
HeadersRead(f, n) ==
    IF n = 0 THEN _headers = {} /\ _content_length = None
    ELSE /\ _headers = {f.headers[1]}
         /\ _content_length = IF f.headers[1] \in JunkLines THEN None ELSE f.headers[1]

AtHeader(f, rest, i) ==
    /\ HeadersRead(f, i - 1)
    /\ \/ rest = LinesLeft(f, eol, i) /\ _current_buf = <<>>
       \/ /\ i <= Len(f.headers)
          /\ OnLine(<<f.headers[i]>>, rest, LinesLeft(f, eol, i + 1))
       \/ /\ i = Len(f.headers) + 1
          /\ OnLine(<<>>, rest, f.body \o <<NULL>>)

AtHeaders(f, rest) ==
    /\ _command = f.command /\ ~_headers_processed
    /\ \E i \in 1 .. Len(f.headers) + 1 : AtHeader(f, rest, i)

(* How much of the first j bytes of the body is kept. *)
Cut(f, j) == IF Counted(f) /\ ContentLength(f.headers[1]) < j
             THEN ContentLength(f.headers[1]) ELSE j

AtBodyByte(f, rest, j) ==
    /\ rest = SubSeq(f.body, j + 1, Len(f.body)) \o <<NULL>>
    /\ _current_buf = SubSeq(f.body, 1, Cut(f, j))

AtBody(f, rest) ==
    /\ _command = f.command /\ _headers_processed /\ ~Negative(f)
    /\ HeadersRead(f, Len(f.headers))
    /\ \E j \in 0 .. Len(f.body) : AtBodyByte(f, rest, j)

InFrame(f, rest) == AtCommand(f, rest) \/ AtHeaders(f, rest) \/ AtBody(f, rest)

(* In the body of a frame whose content-length is negative: there is no    *)
(* way out but a new parser.                                               *)
Swallowing == _command # None /\ _headers_processed /\ _content_length \in NegativeLines

(* Between frames: only a heartbeat can have begun. *)
InGap(rest) ==
    /\ Fresh
    /\ rest = <<>> => _current_buf = <<>>
    /\ rest = <<NEWLINE>> => _current_buf \in {<<>>, <<CARRIAGE>>}

(* No body spells a command: what is inside a frame is not taken for the   *)
(* beginning of another one.                                               *)
CommandsApart == BodyBytes \cap COMMANDS_TO_FRAMES = {}

(* Inside of a frame whose beginning another parser has read. *)
Lost(p) ==
    /\ CommandsApart
    /\ reader = "closing" /\ p.done <= Len(sent)
    /\ Fresh
    /\ _current_buf \in Seq(Inner)

ParserAt(script, p) ==
    /\ p.frames = 0 => InGap(p.rest)
    /\ p.frames = 1 => Lost(p) \/ InFrame(script[p.done + 1], p.rest)

-----------------------------------------------------------------------------
(* What the parser does with a byte, by the state it is in. *)

\* What the parser does, by the byte and its own state.
LEMMA Effects ==
    ASSUME parse_frames_from_chunk, _headers_processed \in BOOLEAN
    PROVE  /\ chunk # <<>> /\ UNCHANGED <<transport, server>>
           /\ Byte = NULL /\ (_command = None \/ ~_headers_processed) =>
                  _reset /\ Consume /\ UNCHANGED heard
           /\ Byte = NULL /\ _command # None /\ _headers_processed /\ ~NullEndsBody =>
                  _current_buf' = Append(_current_buf, NULL) /\ Consume /\ UNCHANGED <<lines, heard>>
           /\ Byte = NULL /\ _command # None /\ _headers_processed /\ NullEndsBody =>
                  Yield(Frame(_command, _headers, _current_buf))
           /\ Byte # NULL /\ _headers_processed =>
                  /\ _current_buf' = IF BodyTakes THEN Append(_current_buf, Byte) ELSE _current_buf
                  /\ Consume /\ UNCHANGED <<lines, heard>>
           /\ Byte = NEWLINE /\ ~_headers_processed /\ _command = None /\ _current_buf = <<>> =>
                  Consume /\ UNCHANGED <<_current_buf, lines, heard>>
           /\ Byte = NEWLINE /\ ~_headers_processed /\ _command = None /\ _current_buf # <<>> =>
                  _process_command
           /\ Byte = NEWLINE /\ ~_headers_processed /\ _command # None =>
                  _process_header
           /\ Byte \notin {NULL, NEWLINE} /\ ~_headers_processed =>
                  _current_buf' = Append(_current_buf, Byte) /\ Consume /\ UNCHANGED <<lines, heard>>
<1> USE DEF NextByte, AtNewline
<1>1. CASE NullResets
    BY <1>1 DEF NullResets
<1>2. CASE NullInBody
    BY <1>2 DEF NullInBody
<1>3. CASE NullYields
    BY <1>3 DEF NullYields
<1>4. CASE _handle_body_byte
    BY <1>4 DEF _handle_body_byte
<1>5. CASE HeartbeatYields
    BY <1>5 DEF HeartbeatYields
<1>6. CASE _process_command
    BY <1>6 DEF _process_command
<1>7. CASE _process_header
    BY <1>7 DEF _process_header
<1>8. CASE ReadLineByte
    BY <1>8 DEF ReadLineByte, LineByte
<1> QED BY <1>1, <1>2, <1>3, <1>4, <1>5, <1>6, <1>7, <1>8 DEF parse_frames_from_chunk

\* Where the stream goes with one byte.
LEMMA EmitsInside ==
    ASSUME NEW script, NEW end, NEW p, NEW byte, NEW q, Emits(script, end, p, byte, q), p.rest # <<>>
    PROVE  byte = Head(p.rest) /\ q = Place(p.done, Tail(p.rest), p.frames)
BY Zenon DEF Emits, Writing

\* After a frame or a heartbeat: the next heartbeat or the next frame.
LEMMA EmitsNew ==
    ASSUME NEW script, NEW end, NEW p, NEW byte, NEW q, Emits(script, end, p, byte, q), p.rest = <<>>
    PROVE  \/ byte = Head(end) /\ q = Place(p.done, Tail(end), 0)
           \/ /\ p.done < Len(script)
              /\ byte = Head(Encoded(script[p.done + 1], end))
              /\ q = Place(p.done, Tail(Encoded(script[p.done + 1], end)), 1)
BY Zenon DEF Emits, Writing

\* The end of a line.
LEMMA OnLineStep ==
    ASSUME NEW l, l = <<>> \/ \E x \in Symbols : l = <<x>> /\ x # CARRIAGE,
           NEW after \in Seq(Symbols), NEW rest, eol \in EndsOfLine,
           PopsCarriage, ~_headers_processed, OnLine(l, rest, after)
    PROVE  /\ rest # <<>>
           /\ \/ /\ Head(rest) = CARRIAGE /\ Tail(rest) = <<NEWLINE>> \o after
                 /\ eol = <<CARRIAGE, NEWLINE>> /\ _current_buf = l
              \/ /\ Head(rest) = NEWLINE /\ Tail(rest) = after
                 /\ Line = l /\ (l # <<>> => _current_buf # <<>>)
<1>1. NEWLINE \in Symbols /\ CARRIAGE \in Symbols
    BY SymbolKinds
<1>2. <<NEWLINE>> \o after \in Seq(Symbols) /\ <<NEWLINE>> \o after # <<>>
      /\ Head(<<NEWLINE>> \o after) = NEWLINE /\ Tail(<<NEWLINE>> \o after) = after
    BY <1>1, ConsParts
<1>3. CASE rest = eol \o after /\ _current_buf = l /\ eol = <<NEWLINE>>
  <2>1. _previous_byte # CARRIAGE
    <3>1. CASE l = <<>>
      BY <1>3, <3>1 DEF PopsCarriage
    <3>2. CASE \E x \in Symbols : l = <<x>> /\ x # CARRIAGE
      <4>1. PICK x \in Symbols : l = <<x>> /\ x # CARRIAGE
        BY <3>2
      <4>2. Last(<<x>>) = x
        BY DEF Last
      <4> QED BY <1>3, <4>1, <4>2 DEF PopsCarriage
    <3> QED BY <3>1, <3>2
  <2>2. Line = l
    BY <1>3, <2>1 DEF Line
  <2>3. rest = <<NEWLINE>> \o after
    BY <1>3, Zenon
  <2> QED BY <1>2, <1>3, <2>2, <2>3, Zenon
<1>4. CASE rest = eol \o after /\ _current_buf = l /\ eol = <<CARRIAGE, NEWLINE>>
  <2>1. <<CARRIAGE, NEWLINE>> \o after = <<CARRIAGE>> \o (<<NEWLINE>> \o after)
    <3>1. <<CARRIAGE>> \in Seq(Symbols) /\ <<NEWLINE>> \in Seq(Symbols) /\ <<CARRIAGE, NEWLINE>> = <<CARRIAGE>> \o <<NEWLINE>>
      BY <1>1
    <3> DEFINE cr == <<CARRIAGE>>
               lf == <<NEWLINE>>
    <3> HIDE DEF cr, lf
    <3>0. cr \in Seq(Symbols) /\ lf \in Seq(Symbols)
      BY <3>1 DEF cr, lf
    <3>2. Cat(Cat(cr, lf), after) = Cat(cr, Cat(lf, after))
      BY <3>0, CatAssociative
    <3> QED BY <3>1, <3>2, Zenon DEF Cat, cr, lf
  <2> DEFINE next == <<NEWLINE>> \o after
  <2>2. next \in Seq(Symbols)
    BY <1>2
  <2> HIDE DEF next
  <2>3. <<CARRIAGE>> \o next # <<>> /\ Head(<<CARRIAGE>> \o next) = CARRIAGE /\ Tail(<<CARRIAGE>> \o next) = next
    BY <1>1, <2>2, ConsParts
  <2>4. rest = <<CARRIAGE>> \o next
    BY <1>4, <2>1, Zenon DEF next
  <2> QED BY <1>4, <2>3, <2>4, Zenon DEF next
<1>5. CASE /\ eol = <<CARRIAGE, NEWLINE>> /\ rest = <<NEWLINE>> \o after
           /\ _current_buf = Append(l, CARRIAGE) /\ _previous_byte = CARRIAGE
  <2>1. Front(Append(l, CARRIAGE)) = l /\ Append(l, CARRIAGE) # <<>>
    <3>1. l \in Seq(Symbols)
      <4>1. CASE \E x \in Symbols : l = <<x>>
        <5>1. PICK x \in Symbols : l = <<x>>
          BY <4>1
        <5> QED BY <5>1
      <4> QED BY <4>1, EmptySeq
    <3> QED BY <1>1, <3>1, FrontAppend
  <2>2. Line = l
    BY <1>5, <2>1, Zenon DEF Line
  <2> QED BY <1>2, <1>5, <2>1, <2>2, Zenon
<1> QED BY <1>3, <1>4, <1>5 DEF OnLine, EndsOfLine

\* A frame with other headers and another body.
LEMMA FrameExcept ==
    ASSUME NEW f, f = Frame(f.command, f.headers, f.body), NEW x, NEW y
    PROVE  [f EXCEPT !.headers = x, !.body = y] = Frame(f.command, x, y)
<1>1. [f EXCEPT !.headers = x, !.body = y] = [[f EXCEPT !.headers = x] EXCEPT !.body = y]
    OBVIOUS
<1>2. PICK c, h, b : f = [command |-> c, headers |-> h, body |-> b]
    BY Zenon DEF Frame
<1>3. [f EXCEPT !.headers = x] = [command |-> c, headers |-> x, body |-> b] /\ f.command = c
    BY <1>2
<1>4. [[command |-> c, headers |-> x, body |-> b] EXCEPT !.body = y] = [command |-> c, headers |-> x, body |-> y]
    OBVIOUS
<1> QED BY <1>1, <1>3, <1>4, Zenon DEF Frame

\* The place inside a frame or a heartbeat.
LEMMA PlaceInside ==
    ASSUME NEW done, NEW rest, NEW frames, rest # <<>>
    PROVE  Place(done, rest, frames) = [done |-> done, rest |-> rest, frames |-> frames]
BY DEF Place

-----------------------------------------------------------------------------
(* The byte is consumed without a frame. *)
Quiet == Consume /\ UNCHANGED <<transport, server, heard>>

\* Between frames.
LEMMA GapStep ==
    ASSUME NEW script, NEW p, NEW q, parse_frames_from_chunk, _headers_processed \in BOOLEAN,
           eol \in EndsOfLine, \A i \in 1 .. Len(script) : WellFormed(script[i]),
           Sound(script, p), p.frames = 0, InGap(p.rest), Emits(script, eol, p, Byte, q)
    PROVE  Quiet /\ q.done = p.done /\ ParserAt(script, q)'
<1>1. p.done \in Nat /\ p.rest \in {<<>>, <<NEWLINE>>}
    BY DEF Sound, Places
<1>2. CASE p.rest = <<NEWLINE>>
  <2>1. Byte = NEWLINE /\ q = [done |-> p.done, rest |-> <<>>, frames |-> 0]
    <3>1. Byte = Head(p.rest) /\ q = Place(p.done, Tail(p.rest), 0)
      <4>1. p.rest # <<>>
        BY <1>2
      <4> QED BY <4>1, EmitsInside
    <3>2. Head(<<NEWLINE>>) = NEWLINE /\ Tail(<<NEWLINE>>) = <<>>
      OBVIOUS
    <3> QED BY <1>1, <1>2, <3>1, <3>2 DEF Place
  <2>2. CASE _current_buf = <<>>
    <3>1. Quiet /\ Fresh' /\ _current_buf' = <<>>
      BY <1>2, <2>1, <2>2, Effects DEF InGap, Fresh, Quiet
    <3> QED BY <2>1, <3>1 DEF ParserAt, InGap
  <2>3. CASE _current_buf = <<CARRIAGE>>
    <3>1. _process_command /\ UNCHANGED <<transport, server>>
      BY <2>1, <2>3, Effects DEF InGap, Fresh
    <3>2. Line = <<>> \/ Line = <<CARRIAGE>>
      BY <2>3 DEF Line, Front
    <3>3. Line \notin {<<c>> : c \in COMMANDS_TO_FRAMES}
      <4>1. ASSUME NEW c \in COMMANDS_TO_FRAMES PROVE <<c>> # <<>> /\ <<c>> # <<CARRIAGE>>
        <5>1. c # CARRIAGE
          BY DEF COMMANDS_TO_FRAMES
        <5> QED BY <5>1
      <4> QED BY <3>2, <4>1
    <3>4. Quiet /\ Fresh' /\ _current_buf' = <<>>
      BY <3>1, <3>3 DEF _process_command, _reset, Fresh, Quiet
    <3> QED BY <2>1, <3>4 DEF ParserAt, InGap
  <2> QED BY <1>2, <2>2, <2>3 DEF InGap
<1>3. CASE p.rest = <<>>
  <2>1. Fresh /\ _current_buf = <<>>
    BY <1>3 DEF InGap
  <2>2. CASE Byte = Head(eol) /\ q = Place(p.done, Tail(eol), 0)
    <3>1. CASE Head(eol) = NEWLINE /\ Tail(eol) = <<>>
      <4>1. q = [done |-> p.done, rest |-> <<>>, frames |-> 0]
        BY <1>1, <2>2, <3>1 DEF Place
      <4>2. Quiet /\ Fresh' /\ _current_buf' = <<>>
        BY <2>1, <2>2, <3>1, Effects DEF Fresh, Quiet
      <4> QED BY <4>1, <4>2 DEF ParserAt, InGap
    <3>2. CASE Head(eol) = CARRIAGE /\ Tail(eol) = <<NEWLINE>>
      <4>1. q = [done |-> p.done, rest |-> <<NEWLINE>>, frames |-> 0]
        <5>1. <<NEWLINE>> # <<>>
          OBVIOUS
        <5> QED BY <2>2, <3>2, <5>1 DEF Place
      <4>2. Quiet /\ Fresh' /\ _current_buf' = Append(<<>>, CARRIAGE)
        BY <2>1, <2>2, <3>2, Effects DEF Fresh, Quiet
      <4>3. Append(<<>>, CARRIAGE) = <<CARRIAGE>> /\ <<NEWLINE>> # <<>>
        OBVIOUS
      <4> QED BY <4>1, <4>2, <4>3 DEF ParserAt, InGap
    <3> QED BY <3>1, <3>2, HeartbeatUnit
  <2>3. CASE /\ p.done < Len(script)
             /\ Byte = Head(Encoded(script[p.done + 1], eol))
             /\ q = Place(p.done, Tail(Encoded(script[p.done + 1], eol)), 1)
    <3>0. PICK f : f = script[p.done + 1]
      OBVIOUS
    <3> DEFINE left == eol \o LinesLeft(f, eol, 1)
    <3>1. WellFormed(f)
      <4>1. p.done + 1 \in 1 .. Len(script)
        BY <1>1, <2>3 DEF Sound
      <4> QED BY <3>0, <4>1
    <3>2. Byte = f.command /\ q = Place(p.done, left, 1) /\ f.command \in COMMANDS_TO_FRAMES
      <4>1. Byte = Head(Encoded(f, eol)) /\ q = Place(p.done, Tail(Encoded(f, eol)), 1)
        BY <2>3, <3>0, Zenon
      <4>2. Head(Encoded(f, eol)) = f.command /\ Tail(Encoded(f, eol)) = left
        BY <3>1, FrameUnit
      <4> QED BY <3>1, <4>1, <4>2, Zenon DEF WellFormed
    <3>3. left # <<>>
      BY <3>1, FrameUnit, LinesLeftType, PartsType, LastOfConcat, SymbolKinds
    <3> HIDE DEF left
    <3>4. q = [done |-> p.done, rest |-> left, frames |-> 1]
      BY <3>2, <3>3, PlaceInside
    <3>5. Byte \notin {NULL, NEWLINE}
      BY <3>2 DEF COMMANDS_TO_FRAMES
    <3>6. Quiet /\ Fresh' /\ _current_buf' = Append(<<>>, f.command)
      BY <2>1, <3>2, <3>5, Effects DEF Fresh, Quiet
    <3>7. Append(<<>>, f.command) = <<f.command>> /\ eol' = eol
      BY <3>6 DEF Quiet
    <3>8. q.done = p.done /\ q.rest = left /\ q.frames = 1
      BY <3>4
    <3>9. AtCommand(f, q.rest)'
      BY <3>6, <3>7, <3>8, Zenon DEF AtCommand, OnLine, left
    <3>10. InFrame(f, q.rest)'
      BY <3>9 DEF InFrame
    <3> QED BY <3>0, <3>6, <3>8, <3>10 DEF ParserAt
  <2> QED BY <1>3, <2>2, <2>3, EmitsNew
<1> QED BY <1>1, <1>2, <1>3

\* The command line.
LEMMA CommandStep ==
    ASSUME NEW f, WellFormed(f), NEW rest, parse_frames_from_chunk, _headers_processed \in BOOLEAN,
           eol \in EndsOfLine, PopsCarriage, AtCommand(f, rest), Byte = Head(rest)
    PROVE  Quiet /\ Tail(rest) # <<>> /\ InFrame(f, Tail(rest))'
<1>1. f.command \in Symbols /\ f.command # CARRIAGE /\ f.command # NEWLINE /\ f.command # NULL
      /\ f.command \in COMMANDS_TO_FRAMES /\ f.command # None
    BY SymbolKinds DEF WellFormed, COMMANDS_TO_FRAMES
<1>2. LinesLeft(f, eol, 1) \in Seq(Symbols) /\ LinesLeft(f, eol, 1) # <<>> /\ 1 \in 1 .. Len(f.headers) + 1
  <2>1. 1 \in 1 .. Len(f.headers) + 1
    BY PartsType
  <2>2. LinesLeft(f, eol, 1) \in Seq(Inner) /\ LinesLeft(f, eol, 1) # <<>>
    BY <2>1, LinesLeftType
  <2> QED BY <2>1, <2>2, SeqMonotonic, SymbolKinds
<1> DEFINE l == <<f.command>>
           after == LinesLeft(f, eol, 1)
<1>3. l # <<>> /\ \E x \in Symbols : l = <<x>> /\ x # CARRIAGE
    BY <1>1
<1> HIDE DEF l
<1>4. \/ /\ Head(rest) = CARRIAGE /\ Tail(rest) = <<NEWLINE>> \o after
         /\ eol = <<CARRIAGE, NEWLINE>> /\ _current_buf = l
      \/ /\ Head(rest) = NEWLINE /\ Tail(rest) = after
         /\ Line = l /\ _current_buf # <<>>
  <2>1. OnLine(l, rest, after) /\ ~_headers_processed
    BY DEF AtCommand, Fresh, l
  <2> HIDE DEF after
  <2> QED BY <1>2, <1>3, <2>1, OnLineStep DEF after
<1>5. CASE /\ Head(rest) = CARRIAGE /\ Tail(rest) = <<NEWLINE>> \o after
           /\ eol = <<CARRIAGE, NEWLINE>> /\ _current_buf = l
  <2>1. Quiet /\ Fresh' /\ _current_buf' = Append(l, CARRIAGE) /\ _previous_byte' = CARRIAGE /\ eol' = eol
    BY <1>5, Effects DEF AtCommand, Fresh, Quiet, Consume
  <2>2. OnLine(<<f.command>>, Tail(rest), LinesLeft(f, eol, 1))'
    BY <1>5, <2>1, Zenon DEF OnLine, l
  <2>3. Tail(rest) # <<>>
    <3>1. <<NEWLINE>> \o after # <<>>
      <4>1. NEWLINE \in Symbols
        BY SymbolKinds
      <4> HIDE DEF after
      <4> QED BY <1>2, <4>1, ConsParts DEF after
    <3> QED BY <1>5, <3>1, Zenon
  <2> QED BY <2>1, <2>2, <2>3 DEF InFrame, AtCommand
<1>6. CASE /\ Head(rest) = NEWLINE /\ Tail(rest) = after
           /\ Line = l /\ _current_buf # <<>>
  <2>1. _process_command /\ UNCHANGED <<transport, server>>
    BY <1>6, Effects DEF AtCommand, Fresh
  <2>2. Line \in {<<c>> : c \in COMMANDS_TO_FRAMES} /\ Head(Line) = f.command
    BY <1>1, <1>6 DEF l
  <2>3. Quiet /\ _command' = f.command /\ _current_buf' = <<>> /\ ~_headers_processed'
        /\ _headers' = {} /\ _content_length' = None /\ eol' = eol
    BY <2>1, <2>2 DEF _process_command, Quiet, AtCommand, Fresh
  <2>4. AtHeader(f, Tail(rest), 1)'
    BY <1>6, <2>3 DEF AtHeader, HeadersRead
  <2>5. AtHeaders(f, Tail(rest))'
    BY <1>2, <2>3, <2>4 DEF AtHeaders
  <2> QED BY <1>2, <1>6, <2>3, <2>5 DEF InFrame
<1> QED BY <1>4, <1>5, <1>6

\* The header lines and the empty line.
LEMMA HeaderStep ==
    ASSUME NEW f, WellFormed(f), NEW rest, parse_frames_from_chunk, _headers_processed \in BOOLEAN,
           eol \in EndsOfLine, PopsCarriage, AtHeaders(f, rest), Byte = Head(rest)
    PROVE  /\ Quiet /\ Tail(rest) # <<>>
           /\ InFrame(f, Tail(rest))' \/ (Negative(f) /\ Swallowing')
<1> DEFINE n == Len(f.headers)
<1>0. f.command # None /\ n \in Nat /\ _command = f.command /\ ~_headers_processed
    BY PartsType DEF WellFormed, COMMANDS_TO_FRAMES, AtHeaders
<1>1. PICK i \in 1 .. n + 1 : AtHeader(f, rest, i)
    BY DEF AtHeaders
<1>2. CASE i <= n /\ rest = LinesLeft(f, eol, i) /\ _current_buf = <<>>
  <2>1. i \in 1 .. n /\ i + 1 \in 1 .. n + 1
    BY <1>0, <1>2
  <2>2. f.headers[i] \in Inner /\ f.headers[i] \in LengthLines
    BY <2>1, PartsType, SymbolKinds
  <2> DEFINE left == eol \o LinesLeft(f, eol, i + 1)
  <2>3. rest = <<f.headers[i]>> \o left
    BY <1>2, <2>1, LinesLeftIs
  <2>4. left \in Seq(Inner) /\ left # <<>>
    BY <2>1, LinesLeftType, LastOfConcat, SymbolKinds
  <2> HIDE DEF left
  <2>5. Head(rest) = f.headers[i] /\ Tail(rest) = left
    BY <2>2, <2>3, <2>4, ConsParts
  <2>6. f.headers[i] \notin {NULL, NEWLINE}
    BY <2>2, ParserAssumption
  <2>7. Quiet /\ _current_buf' = Append(<<>>, f.headers[i]) /\ UNCHANGED lines /\ eol' = eol
    BY <1>0, <1>2, <2>5, <2>6, Effects DEF Quiet
  <2>8. Append(<<>>, f.headers[i]) = <<f.headers[i]>>
    OBVIOUS
  <2>9. OnLine(<<f.headers[i]>>, Tail(rest), LinesLeft(f, eol, i + 1))'
    BY <2>5, <2>7, <2>8, Zenon DEF OnLine, left
  <2>10. HeadersRead(f, i - 1)'
    BY <1>1, <2>7 DEF AtHeader, HeadersRead
  <2>11. AtHeader(f, Tail(rest), i)'
    BY <1>2, <2>9, <2>10 DEF AtHeader
  <2>12. AtHeaders(f, Tail(rest))'
    BY <1>0, <2>7, <2>11 DEF AtHeaders
  <2> QED BY <2>4, <2>5, <2>7, <2>12 DEF InFrame
<1>3. CASE i <= n /\ OnLine(<<f.headers[i]>>, rest, LinesLeft(f, eol, i + 1))
  <2> DEFINE l == <<f.headers[i]>>
             after == LinesLeft(f, eol, i + 1)
  <2>1. i \in 1 .. n /\ i + 1 \in 1 .. n + 1 /\ (i + 1) - 1 = i /\ i # 0
    BY <1>0, <1>3
  <2>2. f.headers[i] \in Inner /\ f.headers[i] \in LengthLines
    BY <2>1, PartsType, SymbolKinds
  <2>3. l # <<>> /\ \E x \in Symbols : l = <<x>> /\ x # CARRIAGE
    <3>1. f.headers[i] \in Symbols /\ f.headers[i] # CARRIAGE
      BY <2>2, SymbolKinds, ParserAssumption
    <3> QED BY <3>1
  <2>4. after \in Seq(Symbols) /\ after # <<>>
    BY <2>1, LinesLeftType, SeqMonotonic, SymbolKinds
  <2> HIDE DEF l, after
  <2>5. \/ /\ Head(rest) = CARRIAGE /\ Tail(rest) = <<NEWLINE>> \o after
           /\ eol = <<CARRIAGE, NEWLINE>> /\ _current_buf = l
        \/ Head(rest) = NEWLINE /\ Tail(rest) = after /\ Line = l
    BY <1>0, <1>3, <2>3, <2>4, OnLineStep DEF l, after
  <2>6. CASE /\ Head(rest) = CARRIAGE /\ Tail(rest) = <<NEWLINE>> \o after
             /\ eol = <<CARRIAGE, NEWLINE>> /\ _current_buf = l
    <3>1. Quiet /\ UNCHANGED lines /\ _current_buf' = Append(l, CARRIAGE) /\ _previous_byte' = CARRIAGE /\ eol' = eol
      BY <1>0, <2>6, Effects DEF Quiet, Consume
    <3>2. OnLine(<<f.headers[i]>>, Tail(rest), LinesLeft(f, eol, i + 1))'
      BY <2>6, <3>1, Zenon DEF OnLine, l, after
    <3>3. Tail(rest) # <<>>
      <4>1. NEWLINE \in Symbols
        BY SymbolKinds
      <4>2. <<NEWLINE>> \o after # <<>>
        BY <2>4, <4>1, ConsParts
      <4> QED BY <2>6, <4>2, Zenon
    <3>4. HeadersRead(f, i - 1)'
      BY <1>1, <3>1 DEF AtHeader, HeadersRead
    <3>5. AtHeader(f, Tail(rest), i)'
      BY <1>3, <3>2, <3>4 DEF AtHeader
    <3>6. AtHeaders(f, Tail(rest))'
      BY <1>0, <3>1, <3>5 DEF AtHeaders
    <3> QED BY <3>1, <3>3, <3>6 DEF InFrame
  <2>7. CASE Head(rest) = NEWLINE /\ Tail(rest) = after /\ Line = l
    <3>1. _process_header /\ UNCHANGED <<transport, server>>
      BY <1>0, <2>7, Effects
    <3>2. Line # <<>> /\ Head(Line) = f.headers[i] /\ Line \in {<<x>> : x \in LengthLines}
      BY <2>2, <2>3, <2>7 DEF l
    <3>3. Quiet /\ _command' = f.command /\ ~_headers_processed' /\ _current_buf' = <<>> /\ eol' = eol
      BY <1>0, <3>1, <3>2 DEF _process_header, Quiet
    <3>4. HeadersRead(f, i)'
      <4>1. CASE i = 1
        <5>1. _headers = {}
          BY <1>1, <4>1 DEF AtHeader, HeadersRead
        <5>2. /\ _headers' = {f.headers[1]}
              /\ _content_length' = IF f.headers[1] \in JunkLines THEN None ELSE f.headers[1]
          BY <3>1, <3>2, <4>1, <5>1 DEF _process_header
        <5> QED BY <2>1, <5>2 DEF HeadersRead
      <4>2. CASE i # 1
        <5>1. i - 1 # 0
          BY <4>2
        <5>2. /\ _headers = {f.headers[1]}
              /\ _content_length = IF f.headers[1] \in JunkLines THEN None ELSE f.headers[1]
          BY <1>1, <5>1 DEF AtHeader, HeadersRead
        <5>3. _headers' = _headers /\ _content_length' = _content_length
          BY <3>1, <5>2 DEF _process_header
        <5> QED BY <2>1, <5>2, <5>3 DEF HeadersRead
      <4> QED BY <4>1, <4>2
    <3>5. AtHeader(f, Tail(rest), i + 1)'
      BY <2>1, <2>7, <3>3, <3>4, Zenon DEF AtHeader, after
    <3>6. AtHeaders(f, Tail(rest))'
      BY <2>1, <3>3, <3>5, Zenon DEF AtHeaders
    <3> QED BY <2>4, <2>7, <3>3, <3>6 DEF InFrame
  <2> QED BY <2>5, <2>6, <2>7
<1>4. CASE i = n + 1 /\ OnLine(<<>>, rest, f.body \o <<NULL>>)
  <2>1. HeadersRead(f, n)
    <3>1. i - 1 = n
      BY <1>0, <1>4
    <3> QED BY <1>1, <3>1 DEF AtHeader
  <2> DEFINE after == f.body \o <<NULL>>
  <2>2. after \in Seq(Symbols) /\ after # <<>>
    BY BodyType, SeqMonotonic, SymbolKinds
  <2>3. \/ /\ Head(rest) = CARRIAGE /\ Tail(rest) = <<NEWLINE>> \o after
           /\ eol = <<CARRIAGE, NEWLINE>> /\ _current_buf = <<>>
        \/ Head(rest) = NEWLINE /\ Tail(rest) = after /\ Line = <<>>
    <3>1. OnLine(<<>>, rest, after)
      BY <1>4
    <3> HIDE DEF after
    <3> QED BY <1>0, <2>2, <3>1, OnLineStep
  <2> HIDE DEF after
  <2>4. CASE /\ Head(rest) = CARRIAGE /\ Tail(rest) = <<NEWLINE>> \o after
             /\ eol = <<CARRIAGE, NEWLINE>> /\ _current_buf = <<>>
    <3>1. Quiet /\ UNCHANGED lines /\ _current_buf' = Append(<<>>, CARRIAGE) /\ _previous_byte' = CARRIAGE /\ eol' = eol
      BY <1>0, <2>4, Effects DEF Quiet, Consume
    <3>2. OnLine(<<>>, Tail(rest), f.body \o <<NULL>>)'
      BY <2>4, <3>1, Zenon DEF OnLine, after
    <3>3. Tail(rest) # <<>>
      <4>1. NEWLINE \in Symbols
        BY SymbolKinds
      <4>2. <<NEWLINE>> \o after # <<>>
        BY <2>2, <4>1, ConsParts
      <4> QED BY <2>4, <4>2, Zenon
    <3>4. HeadersRead(f, i - 1)'
      BY <1>1, <3>1 DEF AtHeader, HeadersRead
    <3>5. AtHeader(f, Tail(rest), i)'
      BY <1>4, <3>2, <3>4 DEF AtHeader
    <3>6. AtHeaders(f, Tail(rest))'
      BY <1>0, <3>1, <3>5 DEF AtHeaders
    <3> QED BY <3>1, <3>3, <3>6 DEF InFrame
  <2>5. CASE Head(rest) = NEWLINE /\ Tail(rest) = after /\ Line = <<>>
    <3>1. _process_header /\ UNCHANGED <<transport, server>>
      BY <1>0, <2>5, Effects
    <3>2. Line \notin {<<x>> : x \in LengthLines}
      BY <2>5
    <3>3. Quiet /\ _command' = f.command /\ _headers_processed' /\ _current_buf' = <<>>
          /\ _headers' = _headers /\ _content_length' = _content_length
      BY <1>0, <2>5, <3>1, <3>2 DEF _process_header, Quiet
    <3>4. HeadersRead(f, n)'
      BY <2>1, <3>3 DEF HeadersRead
    <3>5. ASSUME ~Negative(f) PROVE AtBodyByte(f, Tail(rest), 0)' /\ 0 \in 0 .. Len(f.body)
      <4>1. f.body \in Seq(BodyBytes) /\ Len(f.body) \in Nat
        BY LenProperties DEF WellFormed
      <4>2. SubSeq(f.body, 1, Len(f.body)) = f.body
        BY <4>1, SubSeqFull
      <4>3. Cut(f, 0) = 0
        <5>1. Counted(f) => ContentLength(f.headers[1]) \in 0 .. Len(f.body)
          BY <3>5 DEF WellFormed
        <5>2. Counted(f) => ~(ContentLength(f.headers[1]) < 0)
          BY <4>1, <5>1
        <5> QED BY <5>2 DEF Cut
      <4>4. SubSeq(f.body, 1, 0) = <<>>
        BY SubSeqEmpty
      <4>5. 0 + 1 = 1
        OBVIOUS
      <4>6. AtBodyByte(f, Tail(rest), 0)'
        BY <2>5, <3>3, <4>2, <4>3, <4>4, <4>5, Zenon DEF AtBodyByte, after
      <4> QED BY <4>1, <4>6
    <3>6. ~Negative(f) => AtBody(f, Tail(rest))'
      BY <3>3, <3>4, <3>5 DEF AtBody
    <3>7. Negative(f) => Swallowing'
      <4> SUFFICES ASSUME Negative(f) PROVE Swallowing'
        OBVIOUS
      <4>1. f.headers # <<>> /\ f.headers[1] \in NegativeLines
        BY FirstHeader DEF WellFormed, Negative
      <4>2. n # 0 /\ f.headers[1] \notin JunkLines
        BY <4>1, EmptySeq, ParserAssumption DEF WellFormed
      <4> QED BY <1>0, <3>3, <3>4, <4>1, <4>2 DEF Swallowing, HeadersRead
    <3> QED BY <2>2, <2>5, <3>3, <3>6, <3>7 DEF InFrame
  <2> QED BY <2>3, <2>4, <2>5
<1>5. CASE i = n + 1 /\ rest = LinesLeft(f, eol, i) /\ _current_buf = <<>>
  <2>1. LinesLeft(f, eol, n + 1) = eol \o (f.body \o <<NULL>>)
    BY LinesLeftIs
  <2>2. OnLine(<<>>, rest, f.body \o <<NULL>>)
    BY <1>5, <2>1, Zenon DEF OnLine
  <2> QED BY <1>4, <1>5, <2>2
<1>6. i <= n \/ i = n + 1
    BY <1>0
<1> QED BY <1>1, <1>2, <1>3, <1>4, <1>5, <1>6 DEF AtHeader

\* The body, and the null byte that ends it.
LEMMA BodyStep ==
    ASSUME NEW f, WellFormed(f), NEW rest, parse_frames_from_chunk, _headers_processed \in BOOLEAN,
           eol \in EndsOfLine, AtBody(f, rest), Byte = Head(rest)
    PROVE  \/ Quiet /\ Tail(rest) # <<>> /\ InFrame(f, Tail(rest))'
           \/ Tail(rest) = <<>> /\ Yield(Yielded(f)) /\ UNCHANGED <<transport, server>>
<1> DEFINE m == Len(f.body)
           c == ContentLength(f.headers[1])
<1>1. /\ f.command # None /\ m \in Nat /\ Len(f.headers) \in Nat /\ (f.headers = <<>> <=> Len(f.headers) = 0)
      /\ f.body \in Seq(BodyBytes) /\ \A k \in 1 .. m : f.body[k] \in BodyBytes
      /\ Counted(f) => c \in 0 .. m
      /\ f = Frame(f.command, f.headers, f.body) /\ ~Negative(f)
    BY LenProperties, ElementOfSeq, EmptySeq DEF WellFormed, COMMANDS_TO_FRAMES, AtBody
<1>2. /\ _command = f.command /\ _headers_processed
      /\ _headers = IF f.headers = <<>> THEN {} ELSE {f.headers[1]}
      /\ ~Counted(f) => _content_length = None
      /\ Counted(f) => _content_length = f.headers[1] /\ _content_length # None
  <2>1. CASE f.headers = <<>>
    BY <1>1, <2>1 DEF AtBody, HeadersRead, Counted
  <2>2. CASE f.headers # <<>>
    <3>1. f.headers[1] \in LengthLines /\ (Counted(f) <=> f.headers[1] \notin JunkLines)
      BY <2>2, FirstHeader DEF WellFormed
    <3>2. f.headers[1] # None
      BY <3>1, ParserAssumption
    <3> QED BY <1>1, <2>2, <3>1, <3>2 DEF AtBody, HeadersRead
  <2> QED BY <2>1, <2>2
<1>3. PICK j \in 0 .. m : AtBodyByte(f, rest, j)
    BY DEF AtBody
<1>4. Cut(f, j) \in 0 .. m /\ Cut(f, j) <= j
    BY <1>1 DEF Cut
<1> DEFINE k == Cut(f, j)
<1>5. /\ _current_buf = SubSeq(f.body, 1, k) /\ Len(_current_buf) = k
      /\ _current_buf \in Seq(BodyBytes)
  <2> HIDE DEF k, m
  <2>1. _current_buf = SubSeq(f.body, 1, k)
    BY <1>3 DEF AtBodyByte, k
  <2>2. k \in 0 .. m
    BY <1>4 DEF k
  <2>3. \A i \in 1 .. k : f.body[i] \in BodyBytes
    BY <1>1, <2>2
  <2>4. SubSeq(f.body, 1, k) \in Seq(BodyBytes) /\ Len(SubSeq(f.body, 1, k)) = IF 1 <= k THEN k - 1 + 1 ELSE 0
    BY <2>2, <2>3, SubSeqProperties
  <2> QED BY <1>1, <2>1, <2>2, <2>4
<1> HIDE DEF m
<1>6. CASE j = m
  <2>1. SubSeq(f.body, j + 1, Len(f.body)) = <<>>
    BY <1>1, <1>6, SubSeqEmpty DEF m
  <2>2. rest = <<NULL>>
    <3>1. rest = <<>> \o <<NULL>>
      BY <1>3, <2>1, Zenon DEF AtBodyByte
    <3> QED BY <3>1
  <2>3. Byte = NULL /\ Tail(rest) = <<>>
    BY <2>2
  <2>4. ~Counted(f) => k = m
    BY <1>6 DEF Cut
  <2>5. Counted(f) => k = c
    BY <1>1, <1>6 DEF Cut
  <2>6. NullEndsBody
    BY <1>2, <1>5, <2>5 DEF NullEndsBody
  <2>7. Yield(Frame(_command, _headers, _current_buf)) /\ UNCHANGED <<transport, server>>
    BY <1>1, <1>2, <2>3, <2>6, Effects
  <2>8. Frame(_command, _headers, _current_buf) = Yielded(f)
    <3> HIDE DEF k, c
    <3>1. PICK x, y : /\ x = IF f.headers = <<>> THEN {} ELSE {f.headers[1]}
                      /\ y = IF Counted(f) THEN SubSeq(f.body, 1, c) ELSE f.body
      OBVIOUS
    <3>2. _current_buf = y
      <4>1. SubSeq(f.body, 1, m) = f.body
        BY <1>1, SubSeqFull DEF m
      <4> QED BY <1>5, <2>4, <2>5, <3>1, <4>1
    <3>3. Yielded(f) = [f EXCEPT !.headers = x, !.body = y]
      <4>1. f.headers # <<>> => Head(f.headers) = f.headers[1]
        BY FirstHeader DEF WellFormed
      <4>2. x = IF f.headers = <<>> THEN {} ELSE {Head(f.headers)}
        BY <3>1, <4>1
      <4>3. y = IF Counted(f) THEN SubSeq(f.body, 1, ContentLength(Head(f.headers))) ELSE f.body
        BY <3>1, <4>1 DEF Counted, c
      <4> QED BY <4>2, <4>3, Zenon DEF Yielded
    <3>4. Yielded(f) = Frame(f.command, x, y)
      <4>1. f = Frame(f.command, f.headers, f.body)
        BY <1>1, Zenon
      <4>2. [f EXCEPT !.headers = x, !.body = y] = Frame(f.command, x, y)
        BY <4>1, FrameExcept, Zenon
      <4> QED BY <3>3, <4>2, Zenon
    <3> QED BY <1>2, <3>1, <3>2, <3>4
  <2> QED BY <2>3, <2>7, <2>8
<1>7. CASE j # m
  <2> DEFINE b == f.body[j + 1]
             left == SubSeq(f.body, j + 2, m) \o <<NULL>>
  <2>1. j + 1 \in 1 .. m /\ j + 1 \in 0 .. m /\ (j + 1) + 1 = j + 2 /\ m \in j + 1 .. m
    BY <1>1, <1>7
  <2>2. b \in BodyBytes
    BY <1>1, <2>1
  <2>3. left \in Seq(Inner) /\ left # <<>> /\ rest = <<b>> \o left
    <3> DEFINE more == SubSeq(f.body, j + 2, m)
    <3>1. SubSeq(f.body, j + 1, m) = <<b>> \o more
      BY <1>1, <2>1, SubSeqRecursiveFirst DEF m
    <3>2. \A i \in j + 2 .. m : f.body[i] \in Inner
      BY <1>1, <2>1, SymbolKinds
    <3>3. more \in Seq(Inner) /\ <<NULL>> \in Seq(Inner) /\ <<b>> \in Seq(Inner) /\ <<NULL>> # <<>>
      BY <1>1, <2>1, <2>2, <3>2, SubSeqProperties, SymbolKinds
    <3> HIDE DEF more
    <3> DEFINE z == <<NULL>>
               head == <<b>>
    <3>4. z \in Seq(Inner) /\ z # <<>> /\ head \in Seq(Inner)
      BY <3>3
    <3> HIDE DEF z, head
    <3>5. Cat(Cat(head, more), z) = Cat(head, Cat(more, z))
      BY <3>3, <3>4, CatAssociative
    <3>6. more \o z \in Seq(Inner) /\ more \o z # <<>>
      BY <3>3, <3>4, LastOfConcat
    <3>7. rest = SubSeq(f.body, j + 1, m) \o <<NULL>>
      BY <1>3 DEF AtBodyByte, m
    <3> QED BY <3>1, <3>5, <3>6, <3>7, Zenon DEF Cat, z, head, more
  <2> HIDE DEF left, b
  <2>4. Byte = b /\ Tail(rest) = left
    <3>1. b \in Inner
      BY <2>2, SymbolKinds
    <3> QED BY <2>3, <3>1, ConsParts
  <2>5. b = NULL => Counted(f) /\ c = m
    <3> SUFFICES ASSUME b = NULL PROVE Counted(f) /\ c = m
      OBVIOUS
    <3>1. Contains(f.body, NULL)
      BY <2>1 DEF Contains, b, m
    <3> QED BY <1>1, <3>1 DEF WellFormed, m
  <2> DEFINE kk == Cut(f, j + 1)
  <2>6. \/ kk = k + 1 /\ k = j /\ (Counted(f) => c # k)
        \/ kk = k /\ Counted(f) /\ c = k /\ b # NULL
    BY <1>1, <1>7, <2>1, <2>5 DEF Cut
  <2> HIDE DEF kk, k, c
  <2>7. CASE kk = k + 1 /\ k = j /\ (Counted(f) => c # k)
    <3>1. ~NullEndsBody \/ b # NULL
      BY <1>2, <1>5, <2>5, <2>7 DEF NullEndsBody, c
    <3>2. BodyTakes
      BY <1>2, <1>5, <2>7 DEF BodyTakes, c
    <3>3. Quiet /\ _current_buf' = Append(_current_buf, b) /\ UNCHANGED lines
      BY <1>1, <1>2, <2>4, <3>1, <3>2, Effects DEF Quiet
    <3>4. Append(_current_buf, b) = SubSeq(f.body, 1, kk)
      <4>1. 1 \in 1 .. m /\ j + 1 \in 1 .. m /\ (j + 1) - 1 = j
        BY <1>1, <2>1
      <4>2. SubSeq(f.body, 1, j + 1) = SubSeq(f.body, 1, (j + 1) - 1) \o <<f.body[j + 1]>>
        BY <1>1, <4>1, SubSeqRecursiveSecond DEF m
      <4>3. Append(_current_buf, b) = _current_buf \o <<b>>
        BY <1>5, <2>2, AppendIsConcat
      <4> QED BY <1>5, <2>7, <4>1, <4>2, <4>3 DEF b
    <3>5. AtBodyByte(f, Tail(rest), j + 1)'
      BY <2>1, <2>4, <3>3, <3>4, Zenon DEF AtBodyByte, left, kk, m
    <3>6. AtBody(f, Tail(rest))'
      <4>1. HeadersRead(f, Len(f.headers))'
        BY <3>3 DEF AtBody, HeadersRead
      <4> QED BY <1>2, <2>1, <3>3, <3>5, <4>1 DEF AtBody, m
    <3> QED BY <2>3, <2>4, <3>3, <3>6 DEF InFrame
  <2>8. CASE kk = k /\ Counted(f) /\ c = k /\ b # NULL
    <3>1. ~BodyTakes
      BY <1>2, <1>5, <2>8 DEF BodyTakes, c
    <3>2. Quiet /\ _current_buf' = _current_buf /\ UNCHANGED lines
      BY <1>1, <1>2, <2>4, <2>8, <3>1, Effects DEF Quiet
    <3>3. AtBodyByte(f, Tail(rest), j + 1)'
      BY <1>5, <2>1, <2>4, <2>8, <3>2, Zenon DEF AtBodyByte, left, kk, m
    <3>4. AtBody(f, Tail(rest))'
      <4>1. HeadersRead(f, Len(f.headers))'
        BY <3>2 DEF AtBody, HeadersRead
      <4> QED BY <1>2, <2>1, <3>2, <3>3, <4>1 DEF AtBody, m
    <3> QED BY <2>3, <2>4, <3>2, <3>4 DEF InFrame
  <2> QED BY <2>6, <2>7, <2>8
<1> QED BY <1>6, <1>7

\* Lost in a frame: nothing is taken for a command, and its last byte resets the parser.
LEMMA LostStep ==
    ASSUME NEW p, NEW rest \in Seq(Inner), rest # <<>>, Lost(p), parse_frames_from_chunk,
           Byte = Head(rest), Last(rest) = NULL
    PROVE  /\ Quiet /\ Fresh' /\ _current_buf' \in Seq(Inner)
           /\ Tail(rest) = <<>> => _current_buf' = <<>>
<1>1. Byte \in Inner /\ _headers_processed = FALSE /\ _command = None
    BY HeadTailProperties DEF Lost, Fresh
<1>2. <<>> \in Seq(Inner)
    BY EmptySeq
<1>3. Tail(rest) = <<>> => Byte = NULL
  <2> SUFFICES ASSUME Tail(rest) = <<>> PROVE Byte = NULL
    OBVIOUS
  <2>1. Len(rest) = 1
    <3>1. Len(Tail(rest)) = Len(rest) - 1 /\ Len(rest) \in Nat /\ Len(<<>>) = 0
      BY HeadTailProperties, LenProperties, EmptySeq
    <3> QED BY <3>1
  <2> QED BY <2>1 DEF Last
<1>4. CASE Byte = NULL
  <2>1. Quiet /\ _reset
    BY <1>1, <1>4, Effects DEF Quiet
  <2> QED BY <1>2, <2>1 DEF _reset, Fresh
<1>5. CASE Byte = NEWLINE /\ _current_buf = <<>>
  <2>1. Quiet /\ UNCHANGED <<_current_buf, lines>>
    BY <1>1, <1>5, Effects DEF Quiet
  <2> QED BY <1>3, <1>5, <2>1 DEF Lost, Fresh
<1>6. CASE Byte = NEWLINE /\ _current_buf # <<>>
  <2>1. _process_command /\ UNCHANGED <<transport, server>>
    BY <1>1, <1>6, Effects
  <2>2. Line \in Seq(Inner)
    <3>1. Len(_current_buf) \in Nat /\ \A i \in 1 .. Len(_current_buf) : _current_buf[i] \in Inner
      BY LenProperties, ElementOfSeq DEF Lost
    <3>2. \A i \in 1 .. Len(_current_buf) - 1 : _current_buf[i] \in Inner
      BY <3>1
    <3>3. SubSeq(_current_buf, 1, Len(_current_buf) - 1) \in Seq(Inner)
      BY <3>1, <3>2, SubSeqProperties
    <3> QED BY <3>3 DEF Line, Front, Lost
  <2>3. Line \notin {<<c>> : c \in COMMANDS_TO_FRAMES}
    <3>1. ASSUME NEW c \in COMMANDS_TO_FRAMES, Line = <<c>> PROVE FALSE
      <4>1. 1 \in 1 .. Len(<<c>>) /\ <<c>>[1] = c
        OBVIOUS
      <4>2. c \in Inner
        BY <2>2, <3>1, <4>1, ElementOfSeq
      <4>3. c \notin {NEWLINE, CARRIAGE, NULL}
        BY DEF COMMANDS_TO_FRAMES
      <4> QED BY <4>2, <4>3, ParserAssumption DEF Inner, Lost, CommandsApart
    <3> QED BY <3>1
  <2>4. Quiet /\ _reset
    BY <2>1, <2>3 DEF _process_command, Quiet
  <2> QED BY <1>2, <2>4 DEF _reset, Fresh
<1>7. CASE Byte \notin {NULL, NEWLINE}
  <2>1. Quiet /\ _current_buf' = Append(_current_buf, Byte) /\ UNCHANGED lines
    BY <1>1, <1>7, Effects DEF Quiet
  <2>2. Append(_current_buf, Byte) \in Seq(Inner)
    BY <1>1, AppendProperties DEF Lost
  <2> QED BY <1>3, <1>7, <2>1, <2>2 DEF Lost, Fresh
<1> QED BY <1>4, <1>5, <1>6, <1>7

-----------------------------------------------------------------------------
(* The parser by itself: what holds whatever bytes it is given. *)

\* The buffer is a sequence, of whatever bytes.
BufferOK == \E S : _current_buf \in Seq(S)

Inv == BufferOK /\ PopsCarriage

\* A byte is added to the buffer.
LEMMA AppendBuffer ==
    ASSUME BufferOK, NEW byte
    PROVE  /\ \E S : Append(_current_buf, byte) \in Seq(S)
           /\ Len(_current_buf) \in Nat
           /\ Len(Append(_current_buf, byte)) = Len(_current_buf) + 1
           /\ Append(_current_buf, byte) # <<>>
           /\ Last(Append(_current_buf, byte)) = byte
<1>1. PICK S : _current_buf \in Seq(S)
    BY DEF BufferOK
<1>2. _current_buf \in Seq(S \cup {byte}) /\ byte \in S \cup {byte}
    BY <1>1, SeqMonotonic
<1>3. /\ Append(_current_buf, byte) \in Seq(S \cup {byte})
      /\ Len(_current_buf) \in Nat
      /\ Len(Append(_current_buf, byte)) = Len(_current_buf) + 1
      /\ Append(_current_buf, byte)[Len(_current_buf) + 1] = byte
    BY <1>2, AppendProperties, LenProperties
<1>4. Append(_current_buf, byte) # <<>>
    BY <1>3, EmptySeq
<1> QED BY <1>3, <1>4 DEF Last

\* No length is negative: the body goes on.
LEMMA SwallowStep ==
    ASSUME BufferOK, Swallowing, _headers_processed \in BOOLEAN, parse_frames_from_chunk
    PROVE  Quiet /\ Swallowing'
<1>1. Len(_current_buf) \in Nat /\ _headers_processed = TRUE
    BY LenProperties DEF BufferOK, Swallowing
<1>2. _content_length # None /\ ContentLength(_content_length) = -1
    BY ParserAssumption DEF Swallowing, LengthLines, ContentLength
<1>3. ~NullEndsBody
    BY <1>1, <1>2 DEF NullEndsBody
<1>4. Quiet /\ UNCHANGED lines
    BY <1>1, <1>3, Effects DEF Swallowing, Quiet
<1> QED BY <1>4 DEF Swallowing

\* The parser as it is made, or reset after a byte other than CR.
LEMMA FreshInv ==
    ASSUME _current_buf' = <<>>, _previous_byte' # CARRIAGE
    PROVE  Inv'
<1>1. BufferOK'
    BY EmptySeq DEF BufferOK
<1> QED BY <1>1 DEF Inv, PopsCarriage

\* The server and the transport do not touch the parser.
LEMMA OutsideInv ==
    ASSUME Inv, UNCHANGED parser
    PROVE  Inv'
BY DEF Inv, BufferOK, PopsCarriage

\* A byte is added to the body, or not.
LEMMA BodyByteInv ==
    ASSUME Inv, _headers_processed, UNCHANGED lines, NEW byte,
           _current_buf' \in {_current_buf, Append(_current_buf, byte)}
    PROVE  Inv'
BY AppendBuffer DEF Inv, BufferOK, PopsCarriage

\* Every byte of a chunk keeps the parser's state in order.
LEMMA ParserInv ==
    ASSUME Inv, parse_frames_from_chunk
    PROVE  Inv'
<1> USE DEF NextByte, Consume
<1>1. CASE NullResets
    BY <1>1, FreshInv DEF NullResets, _reset
<1>2. CASE NullInBody
    BY <1>2, BodyByteInv DEF NullInBody
<1>3. CASE NullYields
    BY <1>3, FreshInv DEF NullYields, Yield, NewParser, _reset
<1>4. CASE _handle_body_byte
    BY <1>4, BodyByteInv DEF _handle_body_byte
<1>5. CASE HeartbeatYields
    BY <1>5 DEF HeartbeatYields, AtNewline, Inv, BufferOK, PopsCarriage
<1>6. CASE _process_command
    BY <1>6, FreshInv DEF _process_command, AtNewline, _reset
<1>7. CASE _process_header
    BY <1>7, FreshInv DEF _process_header, AtNewline
<1>8. CASE ReadLineByte
  <2>1. /\ _current_buf' = Append(_current_buf, Byte) /\ _previous_byte' = Byte
        /\ ~_headers_processed'
    BY <1>8 DEF ReadLineByte, LineByte
  <2>2. BufferOK' /\ PopsCarriage'
    BY <2>1, AppendBuffer DEF Inv, BufferOK, PopsCarriage
  <2> QED BY <2>2 DEF Inv
<1> QED BY <1>1, <1>2, <1>3, <1>4, <1>5, <1>6, <1>7, <1>8 DEF parse_frames_from_chunk

\* Every step keeps the parser's state in order.
LEMMA StepInv ==
    ASSUME Inv, [Next]_vars
    PROVE  Inv'
<1>1. CASE Server \/ Recv \/ UNCHANGED vars \/ \E n \in 1..read_max_chunk_size : Read(n)
    BY <1>1, OutsideInv DEF Server, ServerConnects, ServerHeartbeat, ServerSends, ServerReceipt, Writes, Recv,
       Read, Take
<1>2. CASE Disconnect
    BY <1>2, FreshInv DEF Disconnect, NewParser, _reset
<1>3. CASE parse_frames_from_chunk
    BY <1>3, ParserInv
<1> QED BY <1>1, <1>2, <1>3 DEF Next

\* A new parser is in order.
LEMMA InitInv == Init => Inv
BY EmptySeq DEF Init, Inv, BufferOK, PopsCarriage

(* The buffer and the byte before fit each other after every byte that     *)
(* FrameParser.parse_frames_from_chunk consumes, whoever reads and         *)
(* wherever the chunks end.                                                *)
THEOREM Invariant == Spec => []Inv
BY InitInv, StepInv, PTL DEF Spec

(* The carriage return that ends a line is what bytearray.pop takes from   *)
(* the buffer, in whatever stream, chunks and readers.                     *)
THEOREM PopsCarriageAlways == Spec => []PopsCarriage
<1>1. Inv => PopsCarriage
    BY DEF Inv
<1> QED BY <1>1, Invariant, PTL

-----------------------------------------------------------------------------
(* The stream, the reader and the parser together. *)

Frames == Messages \cup {Connected, Error, Receipt}

(* What the server has written by the time the listener begins, and since, *)
(* heartbeats aside.                                                       *)
IsScript(script) ==
    /\ script \in Seq(Frames)
    /\ Len(script) = 1 + Len(sent) + (IF receipt THEN 1 ELSE 0)
    /\ script[1] = Connected
    /\ \A i \in 1 .. Len(sent) : script[i + 1] = sent[i]
    /\ receipt => script[Len(sent) + 2] = Receipt

(* How far the listener and the last reader are in the stream. *)
ReaderAt(p) ==
    /\ connected
    /\ reader = "listening" =>
           /\ ~receipt
           /\ IF Swallowing THEN Len(received) < Len(sent) /\ Negative(sent[Len(received) + 1])
                            ELSE Len(received) + 1 = p.done
    /\ reader = "closing" =>
           IF Swallowing THEN \E i \in 1 .. Len(sent) : Negative(sent[i])
                         ELSE receipt => p.done <= 1 + Len(sent)

StreamAt(script, p) ==
    /\ IsScript(script)
    /\ Leads(script, eol, chunk \o wire, p)
    /\ Swallowing \/ ParserAt(script, p)
    /\ ReaderAt(p)

(* Only the symbols of S are still to be parsed, or half parsed. *)
Only(S) ==
    /\ chunk \in Seq(S) /\ wire \in Seq(S) /\ _current_buf \in Seq(S)
    /\ _command \in (S \cap COMMANDS_TO_FRAMES) \cup {None}

Ends == {NEWLINE, CARRIAGE, NULL}

(* While CONNECTED is awaited: at place p in x, which may be followed by   *)
(* an ERROR.                                                               *)
Behind == IF sent = <<>> THEN <<>> ELSE Encoded(Error, eol)
ConnectingAt(x, p) ==
    /\ x \in Seq(Ends \cup {"CONNECTED"})
    /\ chunk \o wire = x \o Behind
    /\ Leads(<<Connected>>, eol, x, p)
    /\ ParserAt(<<Connected>>, p) /\ p.done = 0

Connecting ==
    /\ received = <<>> /\ ~receipt /\ ~errorDropped
    /\ sent \in {<<>>, <<Error>>}
    /\ ~connected => Only(Ends \cup {"ERROR"})
    /\ ~connected /\ sent = <<>> => chunk = <<>> /\ wire = <<>> /\ Fresh /\ _current_buf = <<>>
    /\ connected => \E x, p : ConnectingAt(x, p)

(* After the beginning of the ERROR was thrown away, nothing is yielded. *)
Stuck ==
    /\ reader \in {"listening", "closing"} /\ connected /\ ~receipt
    /\ sent = <<Error>> /\ received = <<>>
    /\ Only(Ends)

TypeOK ==
    /\ eol \in EndsOfLine
    /\ wire \in Seq(Symbols) /\ chunk \in Seq(Symbols)
    /\ packets \in Seq(Nat)
    /\ connected \in BOOLEAN /\ receipt \in BOOLEAN /\ _headers_processed \in BOOLEAN
    /\ errorDropped \in BOOLEAN
    /\ sent \in Seq(Messages \cup {Error})
    /\ reader \in {"connecting", "listening", "closing", "done"}

(* The listener got the first of the frames that were sent. *)
ReceivedOK ==
    /\ received \in Seq({Yielded(f) : f \in Frames})
    /\ Len(received) <= Len(sent)
    /\ \A i \in 1 .. Len(received) : received[i] = Yielded(sent[i]) /\ ~Negative(sent[i])

Done == connected /\ receipt /\ chunk = <<>>

(* The reader knows where it is: always so but for the last one, which may *)
(* take a body for frames if a body can spell a command.                   *)
Follows == ~errorDropped /\ (reader = "listening" \/ (reader = "closing" /\ CommandsApart))

StreamInv ==
    /\ Inv
    /\ TypeOK
    /\ ReceivedOK
    /\ reader = "connecting" => Connecting
    /\ errorDropped => Stuck
    /\ reader = "done" /\ CommandsApart => Done
    /\ Follows => \E script, p : StreamAt(script, p)

\* Every frame of the server is well formed, and yielded with its command.
LEMMA FramesWellFormed ==
    \A f \in Frames : WellFormed(f) /\ Yielded(f).command = f.command
<1>1. ASSUME NEW f \in Frames PROVE WellFormed(f)
  <2>1. WellFormed(Connected) /\ WellFormed(Error) /\ WellFormed(Receipt)
    BY PlainWellFormed DEF COMMANDS_TO_FRAMES, Connected, Error, Receipt
  <2> QED BY <2>1, MessagesWellFormed DEF Frames
<1>2. ASSUME NEW f \in Frames PROVE Yielded(f).command = f.command
  <2>1. f = Frame(f.command, f.headers, f.body)
    BY <1>1 DEF WellFormed
  <2>2. PICK x, y : Yielded(f) = [f EXCEPT !.headers = x, !.body = y]
    BY Zenon DEF Yielded
  <2>3. [f EXCEPT !.headers = x, !.body = y] = Frame(f.command, x, y)
    BY <2>1, FrameExcept, Zenon
  <2>4. Yielded(f) = Frame(f.command, x, y)
    BY <2>2, <2>3, Zenon
  <2> QED BY <2>4 DEF Frame
<1> QED BY <1>1, <1>2

\* The commands of the frames.
LEMMA FrameCommands ==
    /\ Connected.command = "CONNECTED" /\ Receipt.command = "RECEIPT"
    /\ \A f \in Messages \cup {Error} : f.command \in {"MESSAGE", "ERROR"} /\ f \in Frames
    /\ Connected \in Frames /\ Receipt \in Frames /\ Error.command = "ERROR"
    /\ ~Negative(Connected) /\ ~Negative(Receipt) /\ ~Negative(Error)
BY MessagesWellFormed DEF Connected, Receipt, Error, Frame, Frames, Negative

\* Which frame is which.
LEMMA ScriptFrames ==
    ASSUME NEW script, IsScript(script), TypeOK, NEW i \in 1 .. Len(script)
    PROVE  /\ script[i] \in Frames /\ WellFormed(script[i])
           /\ Yielded(script[i]).command = script[i].command
           /\ i = 1 => script[i] = Connected
           /\ i > 1 /\ i <= 1 + Len(sent) =>
                 script[i] = sent[i - 1] /\ script[i].command \in {"MESSAGE", "ERROR"}
           /\ i > 1 + Len(sent) => receipt /\ script[i] = Receipt
<1>1. Len(sent) \in Nat
    BY LenProperties DEF TypeOK
<1>2. script[i] \in Frames
    BY ElementOfSeq DEF IsScript
<1>3. i = 1 => script[i] = Connected
    BY DEF IsScript
<1>4. ASSUME i > 1, i <= 1 + Len(sent)
      PROVE  script[i] = sent[i - 1] /\ script[i].command \in {"MESSAGE", "ERROR"}
  <2>1. i - 1 \in 1 .. Len(sent) /\ (i - 1) + 1 = i
    BY <1>1, <1>4
  <2>2. script[i] = sent[i - 1] /\ sent[i - 1] \in Messages \cup {Error}
    BY <1>1, <2>1, ElementOfSeq DEF IsScript, TypeOK
  <2> QED BY <2>2, FrameCommands
<1>5. ASSUME i > 1 + Len(sent) PROVE receipt /\ script[i] = Receipt
  <2>1. receipt /\ i = Len(sent) + 2
    BY <1>1, <1>5 DEF IsScript, TypeOK
  <2> QED BY <1>1, <2>1 DEF IsScript
<1> QED BY <1>2, <1>3, <1>4, <1>5, FramesWellFormed

\* A parser that is made, or reset, between frames.
LEMMA FreshGap ==
    ASSUME NEW script, NEW p, Sound(script, p), p.frames = 0, Fresh', _current_buf' = <<>>
    PROVE  ParserAt(script, p)'
BY DEF ParserAt, InGap

\* Inside a frame: it goes on, or it ends and is yielded, or its end resets a lost parser.
LEMMA FrameStep ==
    ASSUME NEW script, NEW p, NEW q, parse_frames_from_chunk, _headers_processed \in BOOLEAN,
           eol \in EndsOfLine, PopsCarriage, \A i \in 1 .. Len(script) : WellFormed(script[i]),
           Sound(script, p), p.frames = 1, ParserAt(script, p), Emits(script, eol, p, Byte, q)
    PROVE  \/ Quiet /\ q.done = p.done /\ ParserAt(script, q)'
           \/ Quiet /\ q.done = p.done + 1 /\ reader = "closing" /\ p.done <= Len(sent) /\ ParserAt(script, q)'
           \/ Quiet /\ q.done = p.done /\ Negative(script[p.done + 1]) /\ Swallowing'
           \/ /\ q.done = p.done + 1 /\ q.frames = 0 /\ q.rest = <<>>
              /\ Yield(Yielded(script[p.done + 1])) /\ UNCHANGED <<transport, server>>
              /\ ~Negative(script[p.done + 1])
<1>1. p.done \in Nat /\ p.rest # <<>> /\ p.done + 1 \in 1 .. Len(script) /\ p.rest \in Seq(Inner) /\ Last(p.rest) = NULL
  <2>1. p.done \in Nat /\ p.rest # <<>> /\ p.done < Len(script) /\ p.rest \in Seq(Inner) /\ Last(p.rest) = NULL
    BY DEF Sound, Places
  <2>2. Len(script) \in Int \/ 1 .. Len(script) = {}
    OBVIOUS
  <2> QED BY <2>1, <2>2
<1>2. Byte = Head(p.rest) /\ q = Place(p.done, Tail(p.rest), 1)
    BY <1>1, EmitsInside
<1>3. PICK f : f = script[p.done + 1]
    OBVIOUS
<1>4. PICK rest : rest = p.rest
    OBVIOUS
<1>5. WellFormed(f) /\ Byte = Head(rest)
    BY <1>1, <1>2, <1>3, <1>4
<1>6. Tail(rest) # <<>> => q.done = p.done /\ q.rest = Tail(rest) /\ q.frames = 1
  <2>1. PICK left : left = Tail(rest)
    OBVIOUS
  <2>2. left # <<>> => q = [done |-> p.done, rest |-> left, frames |-> 1]
    BY <1>2, <1>4, <2>1 DEF Place
  <2> QED BY <2>1, <2>2
<1>7. Tail(rest) = <<>> => q.done = p.done + 1 /\ q.rest = <<>> /\ q.frames = 0
    BY <1>2, <1>4 DEF Place
<1>8. CASE Quiet /\ Tail(rest) # <<>> /\ InFrame(f, Tail(rest))'
  <2>1. InFrame(f, q.rest)'
    BY <1>6, <1>8
  <2>2. ParserAt(script, q)'
    BY <1>3, <1>6, <1>8, <2>1 DEF ParserAt
  <2> QED BY <1>6, <1>8, <2>2
<1>9. CASE Tail(rest) = <<>> /\ Yield(Yielded(f)) /\ UNCHANGED <<transport, server>> /\ ~Negative(f)
    BY <1>3, <1>7, <1>9
<1>10. CASE Lost(p)
  <2>1. Quiet /\ Fresh' /\ _current_buf' \in Seq(Inner) /\ (Tail(rest) = <<>> => _current_buf' = <<>>)
    BY <1>1, <1>4, <1>5, <1>10, LostStep
  <2>2. reader = "closing" /\ p.done <= Len(sent) /\ reader' = reader /\ sent' = sent
    BY <1>10, <2>1 DEF Lost, Quiet, Consume
  <2>3. CASE Tail(rest) = <<>>
    <3>1. ParserAt(script, q)'
      BY <1>7, <2>1, <2>3 DEF ParserAt, InGap
    <3> QED BY <1>7, <2>1, <2>2, <2>3, <3>1
  <2>4. CASE Tail(rest) # <<>>
    <3>1. Lost(q)'
      BY <1>6, <1>10, <2>1, <2>2, <2>4 DEF Lost, CommandsApart
    <3>2. ParserAt(script, q)'
      BY <1>6, <2>4, <3>1 DEF ParserAt
    <3> QED BY <1>6, <2>1, <2>4, <3>2
  <2> QED BY <2>3, <2>4
<1>11. CASE InFrame(f, rest)
  <2>1. CASE AtCommand(f, rest)
    BY <1>5, <1>8, <2>1, CommandStep
  <2>2. CASE AtHeaders(f, rest)
    BY <1>3, <1>5, <1>6, <1>8, <2>2, HeaderStep
  <2>3. CASE AtBody(f, rest)
    BY <1>5, <1>8, <1>9, <2>3, BodyStep DEF AtBody
  <2> QED BY <1>11, <2>1, <2>2, <2>3 DEF InFrame
<1> QED BY <1>3, <1>4, <1>10, <1>11 DEF ParserAt

-----------------------------------------------------------------------------
(* The steps. *)

\* What the server writes follows what it wrote.
LEMMA WritesStep ==
    ASSUME NEW script, NEW more, NEW p, NEW unit, NEW frames \in {0, 1},
           TypeOK, StreamAt(script, p), Writes(unit), eol' = eol,
           IsUnit(unit, frames),
           frames = 0 => unit = eol /\ more = script,
           frames = 1 => \E f \in Frames : more = Append(script, f) /\ unit = Encoded(f, eol)
    PROVE  /\ Leads(more, eol', chunk' \o wire', p)
           /\ Len(script) \in Nat /\ Len(more) = Len(script) + frames
           /\ more \in Seq(Frames)
           /\ \A i \in 1 .. Len(script) : more[i] = script[i]
<1>1. script \in Seq(Frames) /\ Len(script) \in Nat
    BY LenProperties DEF StreamAt, IsScript
<1>2. /\ more \in Seq(Frames) /\ Len(more) = Len(script) + frames
      /\ \A i \in 1 .. Len(script) : more[i] = script[i]
      /\ frames = 1 => unit = Encoded(more[Len(more)], eol)
  <2>1. CASE frames = 0
    BY <1>1, <2>1
  <2>2. CASE frames = 1
    <3>1. PICK f \in Frames : more = Append(script, f) /\ unit = Encoded(f, eol)
      BY <2>2
    <3>2. /\ more \in Seq(Frames) /\ Len(more) = Len(script) + 1 /\ more[Len(script) + 1] = f
          /\ \A i \in 1 .. Len(script) : more[i] = script[i]
      BY <1>1, <3>1, AppendProperties
    <3> QED BY <2>2, <3>1, <3>2
  <2> QED BY <2>1, <2>2
<1>3. unit \in Seq(Symbols) /\ Len(unit) \in Nat
    BY LenProperties DEF IsUnit
<1> DEFINE stream == chunk \o wire
<1>4. stream \in Seq(Symbols)
    BY ConcatProperties DEF TypeOK
<1>5. Leads(script, eol, stream, p)
    BY DEF StreamAt
<1>6. Leads(more, eol, stream \o unit, p)
  <2> HIDE DEF stream
  <2> QED BY <1>1, <1>2, <1>4, <1>5, Written
<1>7. wire' = wire \o unit /\ chunk' = chunk
    BY DEF Writes
<1>8. (chunk \o wire) \o unit = chunk \o (wire \o unit)
  <2>1. Cat(Cat(chunk, wire), unit) = Cat(chunk, Cat(wire, unit))
    BY <1>3, CatAssociative DEF TypeOK
  <2> QED BY <2>1, Zenon DEF Cat
<1>9. Leads(more, eol', chunk' \o wire', p)
    BY <1>6, <1>7, <1>8, Zenon
<1> QED BY <1>1, <1>2, <1>9

\* The server writes a frame.
LEMMA WritesFrame ==
    ASSUME NEW script, NEW more, NEW p, NEW f \in Frames, TypeOK, StreamAt(script, p),
           Writes(Encoded(f, eol)), eol' = eol, more = Append(script, f)
    PROVE  /\ Leads(more, eol', chunk' \o wire', p)
           /\ more \in Seq(Frames) /\ Len(more) = Len(script) + 1
           /\ \A i \in 1 .. Len(script) : more[i] = script[i]
<1>1. PICK unit : unit = Encoded(f, eol)
    OBVIOUS
<1>2. PICK frames : frames = 1
    OBVIOUS
<1>3. eol \in EndsOfLine /\ WellFormed(f)
    BY FramesWellFormed DEF TypeOK
<1>4. IsUnit(unit, frames)
    BY <1>1, <1>2, <1>3, FrameUnit
<1>5. frames \in {0, 1} /\ frames # 0 /\ Writes(unit)
    BY <1>1, <1>2
<1>6. \E g \in Frames : more = Append(script, g) /\ unit = Encoded(g, eol)
    BY <1>1
<1> QED BY <1>2, <1>4, <1>5, <1>6, WritesStep

\* The parser is where it was in the longer script.
LEMMA WritesParser ==
    ASSUME NEW script, NEW more, NEW p, TypeOK, StreamAt(script, p), UNCHANGED <<eol, reader, parser>>,
           Len(script) \in Nat, \A i \in 1 .. Len(script) : more[i] = script[i],
           Len(sent') \in Nat, Len(sent) <= Len(sent')
    PROVE  (Swallowing \/ ParserAt(more, p))' /\ p.done \in Nat /\ p.done <= Len(script)
<1>1. Sound(script, p)
  <2>1. chunk \o wire \in Seq(Symbols)
    BY ConcatProperties DEF TypeOK
  <2> QED BY <2>1, LeadsSound DEF StreamAt
<1>2. p.done \in Nat /\ p.done <= Len(script) /\ (p.frames = 1 => p.done + 1 \in 1 .. Len(script))
    BY <1>1 DEF Sound, Places
<1>3. InGap(p.rest) => InGap(p.rest)'
    BY DEF InGap, Fresh
<1>4. Lost(p) => Lost(p)'
    BY <1>2, LenProperties DEF Lost, Fresh, TypeOK
<1>5. ASSUME NEW f, NEW rest, InFrame(f, rest) PROVE InFrame(f, rest)'
    BY <1>5 DEF InFrame, AtCommand, AtHeaders, AtBody, Fresh, OnLine, AtHeader, HeadersRead, AtBodyByte, Cut
<1>6. ASSUME p.frames = 1, InFrame(script[p.done + 1], p.rest) PROVE InFrame(more[p.done + 1], p.rest)'
  <2>1. PICK f, rest : f = script[p.done + 1] /\ rest = p.rest
    OBVIOUS
  <2>2. f = more[p.done + 1]
    BY <1>2, <1>6, <2>1
  <2>3. InFrame(f, rest)'
    BY <1>5, <1>6, <2>1
  <2> QED BY <2>1, <2>2, <2>3
<1>7. ParserAt(script, p) => ParserAt(more, p)'
    BY <1>3, <1>4, <1>6 DEF ParserAt
<1>8. Swallowing => Swallowing'
    BY DEF Swallowing
<1> QED BY <1>2, <1>7, <1>8 DEF StreamAt

\* The types, and what was received, while the server writes.
LEMMA ServerTypes ==
    ASSUME TypeOK, ReceivedOK, Server
    PROVE  TypeOK' /\ ReceivedOK' /\ UNCHANGED <<reader, chunk, heard, parser>>
<1>1. /\ eol \in EndsOfLine /\ wire \in Seq(Symbols) /\ packets \in Seq(Nat) /\ Len(sent) \in Nat
      /\ sent \in Seq(Messages \cup {Error}) /\ Len(received) \in Nat
    BY LenProperties DEF TypeOK, ReceivedOK
<1>2. ASSUME NEW unit, unit \in Seq(Symbols), Writes(unit), eol' = eol
      PROVE  /\ eol' \in EndsOfLine /\ wire' \in Seq(Symbols) /\ packets' \in Seq(Nat)
             /\ UNCHANGED <<reader, chunk, heard, parser>>
  <2>1. wire \o unit \in Seq(Symbols) /\ Append(packets, Len(unit)) \in Seq(Nat)
    BY <1>1, <1>2, ConcatProperties, AppendProperties, LenProperties
  <2> QED BY <1>1, <1>2, <2>1 DEF Writes
<1>3. eol \in Seq(Symbols) /\ \A f \in Frames : Encoded(f, eol) \in Seq(Symbols)
    BY <1>1, HeartbeatUnit, FramesWellFormed, FrameUnit DEF IsUnit
<1>4. CASE ServerConnects \/ ServerHeartbeat \/ ServerReceipt
  <2>1. PICK unit : unit \in Seq(Symbols) /\ Writes(unit) /\ eol' = eol
    BY <1>3, <1>4, FrameCommands DEF ServerConnects, ServerHeartbeat, ServerReceipt, Connected, Receipt
  <2>2. sent' = sent /\ connected' \in BOOLEAN /\ receipt' \in BOOLEAN
    BY <1>4 DEF ServerConnects, ServerHeartbeat, ServerReceipt, TypeOK
  <2> QED BY <1>2, <2>1, <2>2 DEF TypeOK, ReceivedOK
<1>5. ASSUME NEW f \in Messages \cup {Error}, ServerSends(f)
      PROVE  TypeOK' /\ ReceivedOK' /\ UNCHANGED <<reader, chunk, heard, parser>>
  <2>1. PICK unit : unit \in Seq(Symbols) /\ Writes(unit) /\ eol' = eol
    BY <1>3, <1>5, FrameCommands DEF ServerSends
  <2>2. /\ sent' = Append(sent, f) /\ UNCHANGED <<connected, receipt>>
    BY <1>5 DEF ServerSends
  <2>3. /\ sent' \in Seq(Messages \cup {Error}) /\ Len(sent') = Len(sent) + 1
        /\ \A i \in 1 .. Len(sent) : sent'[i] = sent[i]
    BY <1>1, <2>2, AppendProperties
  <2>4. /\ eol' \in EndsOfLine /\ wire' \in Seq(Symbols) /\ packets' \in Seq(Nat)
        /\ UNCHANGED <<reader, chunk, heard, parser>>
    BY <1>2, <2>1
  <2>5. \A i \in 1 .. Len(received) : i \in 1 .. Len(sent)
    BY <1>1 DEF ReceivedOK
  <2>6. ReceivedOK'
    <3>1. Len(received') <= Len(sent')
      BY <1>1, <2>3, <2>4 DEF ReceivedOK
    <3>2. \A i \in 1 .. Len(received) : received[i] = Yielded(sent'[i]) /\ ~Negative(sent'[i])
      BY <2>3, <2>5 DEF ReceivedOK
    <3> QED BY <2>4, <3>1, <3>2 DEF ReceivedOK
  <2>7. TypeOK'
    BY <2>2, <2>3, <2>4 DEF TypeOK
  <2> QED BY <2>4, <2>6, <2>7
<1> QED BY <1>4, <1>5 DEF Server

\* The server writes a heartbeat, a message, an error or the receipt.
LEMMA ServerStep ==
    ASSUME StreamInv, Follows, Server
    PROVE  \E script, p : StreamAt(script, p)'
<1>1. PICK script, p : StreamAt(script, p)
    BY DEF StreamInv
<1>2. /\ TypeOK /\ ReceivedOK /\ eol \in EndsOfLine /\ Len(sent) \in Nat
      /\ receipt \in BOOLEAN /\ sent \in Seq(Messages \cup {Error})
      /\ reader \in {"listening", "closing"} /\ connected
    BY <1>1, LenProperties DEF StreamInv, TypeOK, Follows, StreamAt, ReaderAt
<1>3. script \in Seq(Frames) /\ Len(script) \in Nat /\ Len(received) \in Nat
    BY <1>1, <1>2, LenProperties DEF StreamAt, IsScript, ReceivedOK
<1>4. TypeOK' /\ UNCHANGED <<reader, chunk, heard, parser>> /\ (Swallowing' <=> Swallowing)
    BY ServerTypes DEF StreamInv, Swallowing
<1>5. ~ServerConnects
    BY <1>2 DEF ServerConnects
<1>6. CASE ServerHeartbeat
  <2>1. connected /\ ~receipt /\ Writes(eol) /\ UNCHANGED <<eol, connected, sent, receipt>> /\ IsUnit(eol, 0)
    BY <1>2, <1>6, HeartbeatUnit DEF ServerHeartbeat
  <2>2. Leads(script, eol', chunk' \o wire', p)
    BY <1>1, <1>2, <2>1, WritesStep
  <2>3. (Swallowing \/ ParserAt(script, p))'
    BY <1>1, <1>2, <1>3, <2>1, <1>4, WritesParser
  <2>4. IsScript(script)' /\ ReaderAt(p)'
    BY <1>1, <1>4, <2>1 DEF StreamAt, IsScript, ReaderAt
  <2>5. StreamAt(script, p)'
    BY <2>2, <2>3, <2>4 DEF StreamAt
  <2> QED BY <2>5
<1>7. ASSUME NEW f \in Messages \cup {Error}, ServerSends(f)
      PROVE  \E sc, q : StreamAt(sc, q)'
  <2> DEFINE unit == Encoded(f, eol)
             more == Append(script, f)
  <2>1. /\ reader \in {"listening", "closing"} /\ ~receipt /\ sent' = Append(sent, f)
        /\ Writes(unit) /\ UNCHANGED <<eol, connected, receipt>>
        /\ IsUnit(unit, 1) /\ f \in Frames
    BY <1>2, <1>7, FrameUnit, FramesWellFormed, FrameCommands DEF ServerSends
  <2>2. Len(script) = 1 + Len(sent) /\ script[1] = Connected
        /\ \A i \in 1 .. Len(sent) : script[i + 1] = sent[i]
    BY <1>1, <1>2, <2>1 DEF StreamAt, IsScript
  <2>3. /\ sent' \in Seq(Messages \cup {Error}) /\ Len(sent') = Len(sent) + 1
        /\ sent'[Len(sent) + 1] = f /\ \A i \in 1 .. Len(sent) : sent'[i] = sent[i]
    BY <1>2, <2>1, AppendProperties
  <2>4. more[Len(script) + 1] = f
    BY <1>3, <2>1, AppendProperties
  <2> HIDE DEF unit, more
  <2>5. /\ Leads(more, eol', chunk' \o wire', p)
        /\ more \in Seq(Frames) /\ Len(more) = Len(script) + 1
        /\ \A i \in 1 .. Len(script) : more[i] = script[i]
    BY <1>1, <1>2, <2>1, WritesFrame DEF unit, more
  <2>6. (Swallowing \/ ParserAt(more, p))'
    BY <1>1, <1>2, <1>3, <2>1, <2>3, <2>5, <1>4, WritesParser
  <2>7. IsScript(more)'
    <3>1. ~receipt' /\ Len(more) = 1 + Len(sent') + 0 /\ more[1] = Connected
      BY <1>2, <2>1, <2>2, <2>3, <2>5
    <3>2. ASSUME NEW i \in 1 .. Len(sent') PROVE more[i + 1] = sent'[i]
      <4>1. CASE i = Len(sent) + 1
        BY <1>2, <2>2, <2>3, <2>4, <4>1
      <4>2. CASE i # Len(sent) + 1
        <5>1. i \in 1 .. Len(sent) /\ i + 1 \in 1 .. Len(script)
          BY <1>2, <2>2, <2>3, <4>2
        <5> QED BY <2>2, <2>3, <2>5, <5>1
      <4> QED BY <4>1, <4>2
    <3> QED BY <2>5, <3>1, <3>2 DEF IsScript
  <2>8. ReaderAt(p)'
    <3>1. ReaderAt(p) /\ connected' /\ ~receipt' /\ reader' = reader /\ received' = received
      BY <1>1, <1>2, <1>4, <2>1 DEF StreamAt
    <3>2. ASSUME reader = "listening", Swallowing
          PROVE  Len(received) < Len(sent') /\ Negative(sent'[Len(received) + 1])
      <4>1. Len(received) < Len(sent) /\ Negative(sent[Len(received) + 1])
        BY <3>1, <3>2 DEF ReaderAt
      <4>2. Len(received) + 1 \in 1 .. Len(sent)
        BY <1>2, <1>3, <4>1
      <4> QED BY <1>2, <1>3, <2>3, <4>1, <4>2
    <3>3. ASSUME reader = "closing", Swallowing
          PROVE  \E i \in 1 .. Len(sent') : Negative(sent'[i])
      <4>1. PICK i \in 1 .. Len(sent) : Negative(sent[i])
        BY <3>1, <3>3 DEF ReaderAt
      <4>2. i \in 1 .. Len(sent') /\ sent'[i] = sent[i]
        BY <1>2, <2>3
      <4> QED BY <4>1, <4>2
    <3> QED BY <1>4, <3>1, <3>2, <3>3 DEF ReaderAt
  <2>9. StreamAt(more, p)'
    BY <2>5, <2>6, <2>7, <2>8 DEF StreamAt
  <2> QED BY <2>9
<1>8. CASE ServerReceipt
  <2> DEFINE unit == Encoded(Receipt, eol)
             more == Append(script, Receipt)
  <2>1. /\ reader = "closing" /\ ~receipt /\ receipt' = TRUE
        /\ Writes(unit) /\ UNCHANGED <<eol, connected, sent>>
        /\ IsUnit(unit, 1) /\ Receipt \in Frames
    BY <1>2, <1>8, FrameUnit, FramesWellFormed, FrameCommands DEF ServerReceipt, Receipt
  <2>2. Len(script) = 1 + Len(sent) /\ script[1] = Connected
        /\ \A i \in 1 .. Len(sent) : script[i + 1] = sent[i]
    BY <1>1, <1>2, <2>1 DEF StreamAt, IsScript
  <2>3. more[Len(script) + 1] = Receipt
    BY <1>3, <2>1, AppendProperties
  <2> HIDE DEF unit, more
  <2>4. /\ Leads(more, eol', chunk' \o wire', p)
        /\ more \in Seq(Frames) /\ Len(more) = Len(script) + 1
        /\ \A i \in 1 .. Len(script) : more[i] = script[i]
    BY <1>1, <1>2, <2>1, WritesFrame DEF unit, more
  <2>5. (Swallowing \/ ParserAt(more, p))' /\ p.done \in Nat /\ p.done <= Len(script)
    BY <1>1, <1>2, <1>3, <2>1, <2>4, <1>4, WritesParser
  <2>6. IsScript(more)'
    <3>1. receipt' /\ Len(more) = 1 + Len(sent') + 1 /\ more[1] = Connected
          /\ more[Len(sent') + 2] = Receipt
      <4>1. Len(script) + 1 = Len(sent') + 2 /\ 1 \in 1 .. Len(script)
        BY <1>2, <2>1, <2>2
      <4> QED BY <1>2, <2>1, <2>2, <2>3, <2>4, <4>1
    <3>2. ASSUME NEW i \in 1 .. Len(sent') PROVE more[i + 1] = sent'[i]
      <4>1. i \in 1 .. Len(sent) /\ i + 1 \in 1 .. Len(script)
        BY <1>2, <2>1, <2>2
      <4> QED BY <2>1, <2>2, <2>4, <4>1
    <3> QED BY <2>4, <3>1, <3>2 DEF IsScript
  <2>7. ReaderAt(p)'
    BY <1>1, <1>2, <1>4, <2>1, <2>2, <2>5 DEF StreamAt, ReaderAt
  <2>8. StreamAt(more, p)'
    BY <2>4, <2>5, <2>6, <2>7 DEF StreamAt
  <2> QED BY <2>8
<1> QED BY <1>5, <1>6, <1>7, <1>8 DEF Server

\* The parser stays where it is.
LEMMA ParserSame ==
    ASSUME NEW script, NEW p, ParserAt(script, p), UNCHANGED <<eol, reader, parser>>,
           reader = "closing" => sent' = sent
    PROVE  ParserAt(script, p)'
BY DEF ParserAt, InGap, Lost, InFrame, AtCommand, AtHeaders, AtBody, Fresh, OnLine, AtHeader, HeadersRead, AtBodyByte, Cut

\* A chunk is taken from the wire: the stream stays as it is.
LEMMA TakeParts ==
    ASSUME NEW S, wire \in Seq(S), NEW n \in Nat, Take(n)
    PROVE  chunk' \in Seq(S) /\ wire' \in Seq(S) /\ chunk' \o wire' = chunk \o wire
<1>1. /\ chunk = <<>> /\ Len(wire) \in Nat /\ n <= Len(wire)
      /\ chunk' = SubSeq(wire, 1, n) /\ wire' = SubSeq(wire, n + 1, Len(wire))
    BY LenProperties DEF Take
<1>2. chunk' \in Seq(S) /\ wire' \in Seq(S)
  <2>1. \A i \in 1 .. Len(wire) : wire[i] \in S
    BY <1>1, ElementOfSeq
  <2>2. (\A i \in 1 .. n : wire[i] \in S) /\ (\A i \in n + 1 .. Len(wire) : wire[i] \in S)
    BY <1>1, <2>1
  <2> QED BY <1>1, <2>2, SubSeqProperties
<1>3. chunk' \o wire' = chunk \o wire
  <2>1. 1 \in 1 .. Len(wire) + 1 /\ n \in 1 - 1 .. Len(wire) /\ Len(wire) \in n .. Len(wire)
    BY <1>1
  <2>2. SubSeq(wire, 1, n) \o SubSeq(wire, n + 1, Len(wire)) = SubSeq(wire, 1, Len(wire))
    BY <1>1, <2>1, ConcatAdjacentSubSeq
  <2>3. SubSeq(wire, 1, Len(wire)) = wire /\ <<>> \o wire = wire
    BY <1>1, SubSeqFull, ConcatEmptySeq
  <2> QED BY <1>1, <2>2, <2>3, Zenon
<1> QED BY <1>2, <1>3

\* Whoever reads it.
LEMMA TakeStep ==
    ASSUME StreamInv, NEW n \in Nat, Take(n), packets' \in Seq(Nat)
    PROVE  /\ TypeOK' /\ ReceivedOK' /\ UNCHANGED <<reader, errorDropped>> /\ reader # "done"
           /\ reader = "connecting" => Connecting'
           /\ errorDropped => Stuck'
           /\ Follows => \E script, p : StreamAt(script, p)'
<1>1. /\ TypeOK /\ reader # "done" /\ chunk = <<>> /\ wire \in Seq(Symbols) /\ n <= Len(wire)
      /\ chunk' = SubSeq(wire, 1, n) /\ wire' = SubSeq(wire, n + 1, Len(wire))
      /\ UNCHANGED <<ws, server, reader, heard, parser>>
    BY DEF StreamInv, TypeOK, Take
<1>2. chunk' \in Seq(Symbols) /\ wire' \in Seq(Symbols) /\ chunk' \o wire' = chunk \o wire
    BY <1>1, TakeParts
<1>3. TypeOK' /\ ReceivedOK'
    BY <1>1, <1>2 DEF TypeOK, ReceivedOK, StreamInv
<1>4. ASSUME NEW S, Only(S) PROVE Only(S)'
    BY <1>1, <1>4, TakeParts DEF Only
<1>5. ASSUME NEW script, NEW p, StreamAt(script, p) PROVE StreamAt(script, p)'
  <2>1. Leads(script, eol', chunk' \o wire', p)
    <3>1. eol' = eol /\ Leads(script, eol, chunk \o wire, p)
      BY <1>1, <1>5 DEF StreamAt
    <3> QED BY <1>2, <3>1, Zenon
  <2>2. IsScript(script)' /\ ReaderAt(p)'
    BY <1>1, <1>5 DEF StreamAt, IsScript, ReaderAt, Swallowing
  <2>3. (Swallowing \/ ParserAt(script, p))'
    BY <1>1, <1>5, ParserSame DEF StreamAt, Swallowing
  <2> QED BY <2>1, <2>2, <2>3 DEF StreamAt
<1>6. ASSUME reader = "connecting" PROVE Connecting'
  <2>1. Connecting
    BY <1>6 DEF StreamInv
  <2>2. ASSUME ~connected, sent = <<>> PROVE chunk' = <<>> /\ wire' = <<>> /\ Fresh' /\ _current_buf' = <<>>
    <3>1. wire = <<>> /\ Fresh /\ _current_buf = <<>>
      BY <2>1, <2>2 DEF Connecting
    <3>2. Len(wire) = 0 /\ n = 0
      BY <1>1, <3>1, EmptySeq
    <3>3. SubSeq(wire, 1, 0) = <<>>
      BY SubSeqEmpty
    <3> QED BY <1>1, <3>1, <3>2, <3>3 DEF Fresh
  <2>3. ASSUME NEW x, NEW p, ConnectingAt(x, p) PROVE ConnectingAt(x, p)'
    <3>1. ParserAt(<<Connected>>, p)'
      BY <1>1, <2>3, ParserSame DEF ConnectingAt
    <3>2. Behind' = Behind /\ eol' = eol
      BY <1>1 DEF Behind
    <3> QED BY <1>2, <2>3, <3>1, <3>2, Zenon DEF ConnectingAt
  <2> QED BY <1>1, <1>4, <2>1, <2>2, <2>3 DEF Connecting
<1>7. Stuck => Stuck'
    BY <1>1, <1>4 DEF Stuck
<1> QED BY <1>1, <1>3, <1>5, <1>6, <1>7 DEF StreamInv

\* The listener is cancelled: the rest of its chunk is lost, and the next parser may begin inside a frame.
LEMMA DisconnectStep ==
    ASSUME StreamInv, Disconnect
    PROVE  /\ TypeOK' /\ ReceivedOK' /\ reader' = "closing"
           /\ errorDropped' => Stuck'
           /\ Follows' => \E script, p : StreamAt(script, p)'
<1>1. /\ TypeOK /\ reader = "listening" /\ reader' = "closing" /\ chunk' = <<>>
      /\ UNCHANGED <<transport, server, heard>>
      /\ _current_buf' = <<>> /\ _headers_processed' = FALSE /\ Fresh' /\ ~Swallowing'
    BY DEF StreamInv, Disconnect, NewParser, _reset, Fresh, Swallowing
<1>2. wire \in Seq(Symbols) /\ chunk \in Seq(Symbols) /\ <<>> \o wire = wire /\ <<>> \in Seq(Inner) /\ <<>> \in Seq(Symbols)
    BY <1>1, ConcatEmptySeq, EmptySeq DEF TypeOK
<1>3. TypeOK' /\ ReceivedOK'
    BY <1>1, <1>2 DEF TypeOK, ReceivedOK, StreamInv
<1>4. errorDropped' => Stuck'
  <2>1. <<>> \in Seq(Ends)
    BY EmptySeq
  <2> QED BY <1>1, <2>1 DEF StreamInv, Stuck, Only, Fresh
<1>5. ASSUME ~errorDropped, CommandsApart PROVE \E script, p : StreamAt(script, p)'
  <2>1. PICK script, p : StreamAt(script, p)
    BY <1>1, <1>5 DEF StreamInv, Follows
  <2>2. PICK q : Leads(script, eol, wire, q)
    BY <1>2, <2>1, Dropped DEF StreamAt
  <2>3. Leads(script, eol', chunk' \o wire', q)
    BY <1>1, <1>2, <2>2
  <2>4. Sound(script, q)
    BY <1>2, <2>2, LeadsSound
  <2>5. connected /\ ~receipt /\ Len(script) = 1 + Len(sent) /\ Len(sent) \in Nat
    BY <1>1, <2>1, LenProperties DEF StreamAt, ReaderAt, IsScript, TypeOK
  <2>6. q.frames = 1 => Lost(q)'
    <3>1. q.frames = 1 => q.done \in Nat /\ q.done < Len(script)
      BY <2>4 DEF Sound, Places
    <3>2. q.frames = 1 => q.done <= Len(sent)
      BY <2>5, <3>1
    <3> QED BY <1>1, <1>2, <1>5, <3>2 DEF Lost, CommandsApart
  <2>7. ParserAt(script, q)'
    BY <1>1, <2>4, <2>6 DEF ParserAt, InGap
  <2>8. IsScript(script)' /\ ReaderAt(q)'
    BY <1>1, <2>1, <2>5 DEF StreamAt, IsScript, ReaderAt
  <2>9. StreamAt(script, q)'
    BY <2>3, <2>7, <2>8 DEF StreamAt
  <2> QED BY <2>9
<1> QED BY <1>1, <1>3, <1>4, <1>5 DEF Follows, CommandsApart

\* The byte that is parsed, and the stream behind it.
LEMMA ParsedByte ==
    ASSUME TypeOK, chunk # <<>>, NEW script, NEW p, Leads(script, eol, chunk \o wire, p)
    PROVE  /\ Tail(chunk) \in Seq(Symbols) /\ Sound(script, p)
           /\ \E q : /\ Leads(script, eol, Tail(chunk) \o wire, q)
                     /\ Sound(script, q)
                     /\ Emits(script, eol, p, Byte, q)
<1>1. wire \in Seq(Symbols) /\ chunk \in Seq(Symbols)
    BY DEF TypeOK
<1>2. PICK a, t : a = Head(chunk) /\ t = Tail(chunk)
    OBVIOUS
<1>3. a \in Symbols /\ t \in Seq(Symbols) /\ chunk = <<a>> \o t
  <2>1. Head(chunk) \in Symbols /\ Tail(chunk) \in Seq(Symbols)
    BY <1>1, HeadTailProperties
  <2>2. chunk = <<Head(chunk)>> \o Tail(chunk)
    BY <1>1
  <2> QED BY <1>2, <2>1, <2>2, Zenon
<1>4. <<a>> \in Seq(Symbols)
    BY <1>3
<1>5. chunk \o wire = <<a>> \o (t \o wire)
  <2> DEFINE h == <<a>>
  <2>1. h \in Seq(Symbols)
    BY <1>4
  <2> HIDE DEF h
  <2>2. Cat(Cat(h, t), wire) = Cat(h, Cat(t, wire))
    BY <1>1, <1>3, <2>1, CatAssociative
  <2> QED BY <1>3, <2>2, Zenon DEF Cat, h
<1>6. PICK s : s = t \o wire
    OBVIOUS
<1>7. s \in Seq(Symbols) /\ chunk \o wire \in Seq(Symbols)
    BY <1>1, <1>3, <1>6, ConcatProperties
<1>8. Leads(script, eol, <<a>> \o s, p)
    BY <1>5, <1>6, Zenon
<1>9. PICK q : Leads(script, eol, s, q) /\ Emits(script, eol, p, a, q)
    BY <1>3, <1>7, <1>8, Parsed
<1>10. Sound(script, q) /\ Sound(script, p)
    BY <1>7, <1>9, LeadsSound
<1> QED BY <1>2, <1>3, <1>6, <1>9, <1>10, Zenon DEF Byte

\* The flag of the parser stays one.
LEMMA FlagType ==
    ASSUME _headers_processed \in BOOLEAN, parse_frames_from_chunk
    PROVE  _headers_processed' \in BOOLEAN
<1>1. CASE NullResets \/ NullInBody \/ _handle_body_byte \/ HeartbeatYields \/ _process_command \/ ReadLineByte
    BY <1>1 DEF NullResets, NullInBody, _handle_body_byte, HeartbeatYields, _process_command, ReadLineByte, _reset
<1>2. CASE NullYields
    BY <1>2 DEF NullYields, Yield, NewParser, _reset
<1>3. CASE _process_header
    BY <1>3 DEF _process_header
<1> QED BY <1>1, <1>2, <1>3 DEF parse_frames_from_chunk

\* A byte is parsed by a reader that may have lost its way: the listener is gone.
LEMMA ParseTypes ==
    ASSUME TypeOK, ReceivedOK, reader \in {"closing", "done"}, parse_frames_from_chunk
    PROVE  TypeOK' /\ ReceivedOK' /\ reader' \in {"closing", "done"} /\ errorDropped' = errorDropped
<1>1. chunk # <<>> /\ UNCHANGED <<transport, server>> /\ _headers_processed' \in BOOLEAN
    BY Effects, FlagType DEF TypeOK
<1>2. Tail(chunk) \in Seq(Symbols) /\ <<>> \in Seq(Symbols)
    BY <1>1, HeadTailProperties, EmptySeq DEF TypeOK
<1>3. /\ chunk' \in {Tail(chunk), <<>>} /\ UNCHANGED heard
      /\ reader' \in {"closing", "done"}
  <2>1. CASE NullYields
    BY <2>1 DEF NullYields, Yield, NewParser, Consume
  <2>2. CASE NullResets \/ NullInBody \/ _handle_body_byte \/ HeartbeatYields \/ _process_command \/ ReadLineByte \/ _process_header
    BY <2>2 DEF NullResets, NullInBody, _handle_body_byte, HeartbeatYields, _process_command, ReadLineByte,
       _process_header, Consume
  <2> QED BY <2>1, <2>2 DEF parse_frames_from_chunk
<1> QED BY <1>1, <1>2, <1>3 DEF TypeOK, ReceivedOK

\* A parser that knows where it is is not swallowing the stream.
LEMMA ParserUnswallowed ==
    ASSUME NEW script, NEW q, Sound(script, q), \A i \in 1 .. Len(script) : WellFormed(script[i]),
           Len(script) \in Nat, ParserAt(script, q)'
    PROVE  ~Swallowing'
<1>1. q.done \in Nat /\ q.frames \in {0, 1} /\ (q.frames = 1 => q.done + 1 \in 1 .. Len(script))
    BY DEF Sound, Places
<1>2. CASE Fresh'
    BY <1>2 DEF Fresh, Swallowing
<1>3. ASSUME NEW f, WellFormed(f), InFrame(f, q.rest)' PROVE ~Swallowing'
  <2>1. CASE AtCommand(f, q.rest)'
    BY <1>2, <2>1 DEF AtCommand
  <2>2. CASE AtHeaders(f, q.rest)'
    BY <2>2 DEF AtHeaders, Swallowing
  <2>3. CASE AtBody(f, q.rest)'
    <3>1. ~Negative(f) /\ HeadersRead(f, Len(f.headers))' /\ f.headers \in Seq(LengthLines)
      BY <1>3, <2>3 DEF AtBody, WellFormed
    <3>2. None \notin NegativeLines
      BY ParserAssumption DEF LengthLines
    <3>3. CASE Len(f.headers) = 0
      BY <3>1, <3>2, <3>3 DEF HeadersRead, Swallowing
    <3>4. CASE Len(f.headers) # 0
      <4>1. f.headers # <<>>
        BY <3>4, EmptySeq
      <4>2. f.headers[1] \notin NegativeLines
        BY <3>1, <4>1, FirstHeader
      <4> QED BY <3>1, <3>2, <3>4, <4>2 DEF HeadersRead, Swallowing
    <3> QED BY <3>3, <3>4
  <2> QED BY <1>3, <2>1, <2>2, <2>3 DEF InFrame
<1> QED BY <1>1, <1>2, <1>3 DEF ParserAt, InGap, Lost

\* A byte of the chunk is parsed by a reader that knows where it is.
LEMMA ParseStep ==
    ASSUME StreamInv, Follows, parse_frames_from_chunk
    PROVE  /\ TypeOK' /\ ReceivedOK'
           /\ UNCHANGED errorDropped /\ reader' # "connecting"
           /\ reader' = "done" => Done'
           /\ reader' # "done" => \E script, p : StreamAt(script, p)'
<1>1. /\ chunk # <<>> /\ UNCHANGED <<transport, server>> /\ reader \in {"listening", "closing"} /\ PopsCarriage /\ BufferOK
      /\ TypeOK /\ ReceivedOK /\ _headers_processed \in BOOLEAN /\ eol \in EndsOfLine
      /\ wire \in Seq(Symbols) /\ Len(sent) \in Nat /\ ~errorDropped /\ Len(received) \in Nat
    BY Effects, LenProperties DEF StreamInv, Inv, TypeOK, Follows, ReceivedOK
<1>2. PICK script, p : StreamAt(script, p)
    BY DEF StreamInv
<1>3. IsScript(script) /\ (Swallowing \/ ParserAt(script, p)) /\ ReaderAt(p) /\ Leads(script, eol, chunk \o wire, p)
    BY <1>2 DEF StreamAt
<1>4. PICK q : /\ Leads(script, eol, Tail(chunk) \o wire, q)
               /\ Sound(script, q)
               /\ Emits(script, eol, p, Byte, q)
    BY <1>1, <1>3, ParsedByte
<1>5. Tail(chunk) \in Seq(Symbols) /\ Sound(script, p)
    BY <1>1, <1>3, ParsedByte
<1>6. \A i \in 1 .. Len(script) : WellFormed(script[i])
    BY <1>1, <1>3, ScriptFrames
<1>7. /\ p.done \in Nat /\ p.frames \in {0, 1} /\ p.done <= Len(script) /\ Len(script) \in Nat
      /\ q.done \in Nat /\ q.done <= Len(script)
    BY <1>3, <1>4, <1>5, LenProperties DEF Sound, Places, IsScript
<1>8. IsScript(script)'
    BY <1>1, <1>3 DEF IsScript
<1>9. ASSUME Consume
      PROVE  Leads(script, eol', chunk' \o wire', q) /\ chunk' \in Seq(Symbols) /\ reader' = reader
    BY <1>1, <1>4, <1>5, <1>9, Zenon DEF Consume
<1>10. ASSUME Quiet, (Swallowing \/ ParserAt(script, q))', ReaderAt(q)'
       PROVE  TypeOK' /\ ReceivedOK' /\ reader' = reader /\ UNCHANGED errorDropped /\ StreamAt(script, q)'
  <2>1. Consume /\ UNCHANGED heard
    BY <1>10 DEF Quiet
  <2>2. _headers_processed' \in BOOLEAN
    BY <1>1, FlagType
  <2>3. TypeOK' /\ ReceivedOK'
    BY <1>1, <1>9, <2>1, <2>2 DEF TypeOK, ReceivedOK
  <2> QED BY <1>8, <1>9, <1>10, <2>1, <2>3 DEF StreamAt
<1>11. ASSUME q.done = p.done + 1, q.frames = 0, q.rest = <<>>, Yield(Yielded(script[p.done + 1])),
              ~Swallowing, ~Negative(script[p.done + 1])
       PROVE  /\ TypeOK' /\ ReceivedOK' /\ UNCHANGED errorDropped /\ reader' # "connecting"
              /\ reader' = "done" => Done'
              /\ reader' # "done" => \E sc, r : StreamAt(sc, r)'
  <2>1. PICK f, i : i = p.done + 1 /\ f = script[i]
    OBVIOUS
  <2>2. i \in 1 .. Len(script) /\ i - 1 = p.done
    BY <1>7, <1>11, <2>1
  <2>3. /\ connected /\ f \in Frames /\ Yielded(f).command = f.command /\ ~Negative(f)
        /\ i = 1 => f.command = "CONNECTED"
        /\ i > 1 /\ i <= 1 + Len(sent) => f = sent[i - 1] /\ f.command \in {"MESSAGE", "ERROR"}
        /\ i > 1 + Len(sent) => receipt /\ f.command = "RECEIPT"
    BY <1>1, <1>3, <1>11, <2>1, <2>2, ScriptFrames, FrameCommands DEF ReaderAt
  <2>4. PICK g : g = Yielded(f)
    OBVIOUS
  <2>5. Yield(g) /\ g.command = f.command
    BY <1>11, <2>1, <2>3, <2>4
  <2>6. /\ _current_buf' = <<>> /\ ~_headers_processed' /\ Fresh' /\ _headers_processed' \in BOOLEAN /\ ~Swallowing'
    BY <2>5 DEF Yield, NewParser, _reset, Fresh, Swallowing
  <2>8. CASE reader = "listening"
    <3>1. /\ ~receipt /\ p.done >= 1 /\ Len(received) = p.done - 1 /\ Len(script) = 1 + Len(sent)
      BY <1>1, <1>3, <1>7, <1>11, <2>8 DEF ReaderAt, IsScript
    <3>2. f = sent[p.done] /\ f.command \in {"MESSAGE", "ERROR"} /\ p.done <= Len(sent)
      BY <1>1, <1>7, <2>1, <2>2, <2>3, <3>1
    <3>3. Consume /\ received' = Append(received, g) /\ UNCHANGED errorDropped
      BY <2>5, <2>8, <3>2 DEF Yield
    <3>4. received \in Seq({Yielded(h) : h \in Frames}) /\ g \in {Yielded(h) : h \in Frames}
      BY <1>1, <2>3, <2>4 DEF ReceivedOK
    <3>5. /\ received' \in Seq({Yielded(h) : h \in Frames}) /\ Len(received') = p.done
          /\ received'[p.done] = g
          /\ \A k \in 1 .. p.done - 1 : received'[k] = received[k]
      <4>1. (p.done - 1) + 1 = p.done
        BY <1>7
      <4> QED BY <3>1, <3>3, <3>4, <4>1, AppendProperties
    <3>6. ReceivedOK'
      <4>1. ASSUME NEW k \in 1 .. Len(received') PROVE received'[k] = Yielded(sent'[k]) /\ ~Negative(sent'[k])
        <5>1. CASE k = p.done
          BY <1>1, <2>3, <2>4, <3>2, <3>5, <5>1
        <5>2. CASE k # p.done
          <6>1. k \in 1 .. Len(received)
            BY <1>7, <3>1, <3>5, <5>2
          <6> QED BY <1>1, <3>1, <3>5, <6>1 DEF ReceivedOK
        <5> QED BY <5>1, <5>2
      <4> QED BY <1>1, <3>2, <3>5, <4>1 DEF ReceivedOK
    <3>7. ParserAt(script, q)'
      BY <1>4, <1>11, <2>6, FreshGap
    <3>8. ReaderAt(q)'
      BY <1>1, <1>7, <1>9, <1>11, <2>3, <2>6, <2>8, <3>1, <3>3, <3>5 DEF ReaderAt
    <3>9. TypeOK'
      BY <1>1, <1>9, <2>6, <3>3 DEF TypeOK
    <3> QED BY <1>8, <1>9, <2>8, <3>3, <3>6, <3>7, <3>8, <3>9 DEF StreamAt
  <2>9. CASE reader = "closing" /\ i > 1 + Len(sent)
    <3>1. reader' = "done" /\ chunk' = <<>> /\ UNCHANGED heard /\ receipt
      BY <2>3, <2>5, <2>9 DEF Yield, NewParser
    <3>2. Done'
      BY <1>1, <2>3, <3>1 DEF Done
    <3>3. TypeOK' /\ ReceivedOK'
      BY <1>1, <2>6, <3>1, EmptySeq DEF TypeOK, ReceivedOK
    <3> QED BY <3>1, <3>2, <3>3
  <2>10. CASE reader = "closing" /\ i <= 1 + Len(sent)
    <3>1. f.command # "RECEIPT"
      BY <1>1, <2>2, <2>3, <2>10
    <3>2. Consume /\ UNCHANGED heard
      BY <2>5, <2>10, <3>1 DEF Yield
    <3>3. ParserAt(script, q)'
      BY <1>4, <1>11, <2>6, FreshGap
    <3>4. ReaderAt(q)'
      BY <1>1, <1>9, <1>11, <2>1, <2>3, <2>6, <2>10, <3>2 DEF ReaderAt
    <3>5. TypeOK' /\ ReceivedOK'
      BY <1>1, <1>9, <2>6, <3>2 DEF TypeOK, ReceivedOK
    <3> QED BY <1>8, <1>9, <2>10, <3>2, <3>3, <3>4, <3>5 DEF StreamAt
  <2>11. i <= 1 + Len(sent) \/ i > 1 + Len(sent)
    BY <1>1, <2>2
  <2> QED BY <1>1, <2>8, <2>9, <2>10, <2>11
<1>12. ASSUME Quiet PROVE UNCHANGED <<connected, receipt, sent, received, reader>>
    BY <1>12 DEF Quiet, Consume
<1>13. CASE Swallowing
  <2>1. Quiet /\ Swallowing'
    BY <1>1, <1>13, SwallowStep
  <2>2. ReaderAt(q)'
    BY <1>3, <1>12, <1>13, <2>1 DEF ReaderAt
  <2> QED BY <1>1, <1>10, <2>1, <2>2
<1>14. ASSUME ~Swallowing, Quiet, q.done = p.done, ParserAt(script, q)'
       PROVE  TypeOK' /\ ReceivedOK' /\ reader' = reader /\ UNCHANGED errorDropped /\ StreamAt(script, q)'
  <2>1. ~Swallowing'
    BY <1>4, <1>6, <1>7, <1>14, ParserUnswallowed
  <2>2. ReaderAt(q)'
    BY <1>3, <1>12, <1>14, <2>1 DEF ReaderAt
  <2> QED BY <1>10, <1>14, <2>2
<1>15. CASE ~Swallowing /\ p.frames = 0
  <2>1. InGap(p.rest)
    BY <1>3, <1>15 DEF ParserAt
  <2>2. Quiet /\ q.done = p.done /\ ParserAt(script, q)'
    BY <1>1, <1>4, <1>5, <1>6, <1>15, <2>1, GapStep
  <2> QED BY <1>1, <1>14, <1>15, <2>2
<1>16. CASE ~Swallowing /\ p.frames = 1
  <2>1. \/ Quiet /\ q.done = p.done /\ ParserAt(script, q)'
        \/ Quiet /\ q.done = p.done + 1 /\ reader = "closing" /\ p.done <= Len(sent) /\ ParserAt(script, q)'
        \/ Quiet /\ q.done = p.done /\ Negative(script[p.done + 1]) /\ Swallowing'
        \/ /\ q.done = p.done + 1 /\ q.frames = 0 /\ q.rest = <<>>
           /\ Yield(Yielded(script[p.done + 1])) /\ ~Negative(script[p.done + 1])
    BY <1>1, <1>3, <1>4, <1>5, <1>6, <1>16, FrameStep
  <2>2. CASE Quiet /\ q.done = p.done /\ ParserAt(script, q)'
    BY <1>1, <1>14, <1>16, <2>2
  <2>3. CASE Quiet /\ q.done = p.done + 1 /\ reader = "closing" /\ p.done <= Len(sent) /\ ParserAt(script, q)'
    <3>1. ~Swallowing'
      BY <1>4, <1>6, <1>7, <2>3, ParserUnswallowed
    <3>2. ReaderAt(q)'
      BY <1>1, <1>3, <1>7, <1>12, <2>3, <3>1 DEF ReaderAt
    <3> QED BY <1>1, <1>10, <2>3, <3>2
  <2>4. CASE Quiet /\ q.done = p.done /\ Negative(script[p.done + 1]) /\ Swallowing'
    <3>1. PICK i : i = p.done + 1
      OBVIOUS
    <3>2. i \in 1 .. Len(script) /\ Negative(script[i]) /\ p.done = i - 1
      <4>1. p.done < Len(script)
        BY <1>5, <1>16 DEF Sound
      <4> QED BY <1>7, <2>4, <3>1, <4>1
    <3>3. i > 1 /\ i <= 1 + Len(sent) /\ script[i] = sent[i - 1]
      BY <1>1, <1>3, <3>2, ScriptFrames, FrameCommands
    <3>4. p.done \in 1 .. Len(sent) /\ Negative(sent[p.done])
      BY <1>1, <3>2, <3>3
    <3>5. ReaderAt(q)'
      BY <1>1, <1>3, <1>12, <1>16, <2>4, <3>4 DEF ReaderAt
    <3> QED BY <1>1, <1>10, <2>4, <3>5
  <2>5. CASE /\ q.done = p.done + 1 /\ q.frames = 0 /\ q.rest = <<>>
             /\ Yield(Yielded(script[p.done + 1])) /\ ~Negative(script[p.done + 1])
    BY <1>11, <1>16, <2>5
  <2> QED BY <2>1, <2>2, <2>3, <2>4, <2>5
<1> QED BY <1>7, <1>13, <1>15, <1>16

-----------------------------------------------------------------------------
(* Before the listener begins, and after the beginning of an ERROR was     *)
(* thrown away.                                                            *)

\* The ends of lines and of frames.
LEMMA EndsType == /\ <<>> \in Seq(Ends) /\ <<NULL>> \in Seq(Ends) /\ EndsOfLine \subseteq Seq(Ends)
                  /\ Ends \subseteq Symbols
<1>1. NEWLINE \in Ends /\ CARRIAGE \in Ends /\ NULL \in Ends
    BY DEF Ends
<1>2. EndsOfLine \subseteq Seq(Ends)
    BY <1>1 DEF EndsOfLine
<1>3. Ends \subseteq Symbols
    BY DEF Ends, Symbols
<1> QED BY <1>1, <1>2, <1>3, EmptySeq

\* The bytes of a frame without headers and body.
LEMMA PlainBytes ==
    ASSUME NEW c \in COMMANDS_TO_FRAMES, NEW end \in EndsOfLine
    PROVE  LET e == Encoded(Frame(c, <<>>, <<>>), end)
           IN  Tail(e) \in Seq(Ends) /\ e = <<c>> \o Tail(e) /\ e # <<>>
<1> DEFINE f == Frame(c, <<>>, <<>>)
           e == Encoded(f, end)
<1>1. WellFormed(f) /\ f.command = c /\ f.headers = <<>> /\ f.body = <<>>
    BY PlainWellFormed DEF Frame
<1> HIDE DEF f
<1>2. Tail(e) = end \o LinesLeft(f, end, 1) /\ Head(e) = c /\ e \in Seq(Symbols) /\ e # <<>>
    BY <1>1, FrameUnit DEF IsUnit
<1>3. e = <<c>> \o Tail(e)
  <2> HIDE DEF e
  <2>1. e = <<Head(e)>> \o Tail(e)
    BY <1>2
  <2> QED BY <1>2, <2>1, Zenon
<1>4. LinesLeft(f, end, 1) = <<>> \o (end \o (<<>> \o <<NULL>>))
  <2>1. Len(f.headers) = 0
    BY <1>1, EmptySeq
  <2>2. SubSeq(Parts(f, end), 1, 0) = <<>>
    BY SubSeqEmpty
  <2> QED BY <1>1, <2>1, <2>2, FlattenEmpty, Zenon DEF LinesLeft
<1>5. <<>> \in Seq(Ends) /\ <<NULL>> \in Seq(Ends) /\ end \in Seq(Ends)
    BY EndsType
<1>6. <<>> \o (end \o (<<>> \o <<NULL>>)) \in Seq(Ends)
  <2>1. <<>> \o <<NULL>> \in Seq(Ends)
    BY <1>5, ConcatProperties
  <2>2. end \o (<<>> \o <<NULL>>) \in Seq(Ends)
    BY <1>5, <2>1, ConcatProperties
  <2> QED BY <1>5, <2>2, ConcatProperties
<1>7. Tail(e) \in Seq(Ends)
    BY <1>2, <1>4, <1>5, <1>6, ConcatProperties
<1> QED BY <1>2, <1>3, <1>7 DEF f

\* The symbols of the two frames that may come before the listener reads.
LEMMA EarlyBytes ==
    ASSUME eol \in EndsOfLine
    PROVE  /\ Encoded(Connected, eol) \in Seq(Ends \cup {"CONNECTED"})
           /\ Encoded(Error, eol) \in Seq(Ends \cup {"ERROR"})
           /\ Encoded(Error, eol) = <<"ERROR">> \o Tail(Encoded(Error, eol))
           /\ Tail(Encoded(Error, eol)) \in Seq(Ends)
           /\ eol \in Seq(Ends) /\ Ends \subseteq Symbols /\ "CONNECTED" \in Symbols /\ "ERROR" \in Symbols
<1>1. "CONNECTED" \in COMMANDS_TO_FRAMES /\ "ERROR" \in COMMANDS_TO_FRAMES
    BY DEF COMMANDS_TO_FRAMES
<1>2. ASSUME NEW c \in COMMANDS_TO_FRAMES
      PROVE  Encoded(Frame(c, <<>>, <<>>), eol) \in Seq(Ends \cup {c})
  <2> DEFINE e == Encoded(Frame(c, <<>>, <<>>), eol)
  <2>1. Tail(e) \in Seq(Ends) /\ e = <<c>> \o Tail(e)
    BY PlainBytes
  <2> HIDE DEF e
  <2>2. PICK t : t = Tail(e)
    OBVIOUS
  <2>3. t \in Seq(Ends \cup {c}) /\ c \in Ends \cup {c}
    BY <2>1, <2>2, SeqMonotonic
  <2>4. <<c>> \o t \in Seq(Ends \cup {c})
    BY <2>3, ConsParts
  <2> QED BY <2>1, <2>2, <2>4, Zenon DEF e
<1>3. eol \in Seq(Ends) /\ Ends \subseteq Symbols
    BY EndsType
<1>4. "CONNECTED" \in Symbols /\ "ERROR" \in Symbols
    BY <1>1, SymbolKinds
<1> QED BY <1>1, <1>2, <1>3, <1>4, PlainBytes DEF Connected, Error

\* A command that is not in S is not found in bytes of S.
LEMMA OnlyStep ==
    ASSUME NEW S, Ends \subseteq S, Only(S), parse_frames_from_chunk, _headers_processed \in BOOLEAN
    PROVE  /\ Quiet \/ \E f : f.command \in S \cap COMMANDS_TO_FRAMES /\ Yield(f)
           /\ Consume => Only(S)'
<1>1. /\ chunk # <<>> /\ UNCHANGED <<transport, server>> /\ chunk \in Seq(S) /\ wire \in Seq(S)
      /\ _current_buf \in Seq(S) /\ _command \in (S \cap COMMANDS_TO_FRAMES) \cup {None}
    BY Effects DEF Only
<1>2. Byte \in S /\ Tail(chunk) \in Seq(S) /\ <<>> \in Seq(S) /\ Append(_current_buf, Byte) \in Seq(S)
  <2>1. Byte \in S /\ Tail(chunk) \in Seq(S)
    BY <1>1, HeadTailProperties DEF Byte
  <2> QED BY <1>1, <2>1, EmptySeq, AppendProperties
<1>3. ASSUME NEW c, Line = <<c>> PROVE c \in S
  <2>1. \A i \in 1 .. Len(_current_buf) - 1 : _current_buf[i] \in S
    <3>1. Len(_current_buf) \in Nat /\ \A i \in 1 .. Len(_current_buf) : _current_buf[i] \in S
      BY <1>1, LenProperties, ElementOfSeq
    <3> QED BY <3>1
  <2>2. SubSeq(_current_buf, 1, Len(_current_buf) - 1) \in Seq(S)
    <3>1. Len(_current_buf) \in Nat
      BY <1>1, LenProperties
    <3> QED BY <2>1, <3>1, SubSeqProperties
  <2>3. Line \in Seq(S)
    BY <1>1, <2>2 DEF Line, Front
  <2>4. 1 \in 1 .. Len(<<c>>) /\ <<c>>[1] = c
    OBVIOUS
  <2> QED BY <1>3, <2>3, <2>4, ElementOfSeq
<1>4. ASSUME Consume, _current_buf' \in Seq(S), _command' \in (S \cap COMMANDS_TO_FRAMES) \cup {None}
      PROVE  Only(S)'
    BY <1>1, <1>2, <1>4 DEF Only, Consume
<1>5. CASE NullResets \/ NullInBody \/ _handle_body_byte \/ HeartbeatYields \/ ReadLineByte
  <2>1. Quiet /\ _current_buf' \in {<<>>, _current_buf, Append(_current_buf, Byte)} /\ _command' \in {_command, None}
    BY <1>5 DEF NullResets, NullInBody, _handle_body_byte, HeartbeatYields, ReadLineByte, LineByte, AtNewline,
       NextByte, _reset, Quiet
  <2> QED BY <1>1, <1>2, <1>4, <2>1 DEF Quiet
<1>6. CASE _process_header
  <2>1. Quiet /\ _current_buf' = <<>> /\ _command' = _command
    BY <1>6 DEF _process_header, AtNewline, NextByte, Quiet
  <2> QED BY <1>1, <1>2, <1>4, <2>1 DEF Quiet
<1>7. CASE _process_command
  <2>1. Quiet /\ _current_buf' = <<>>
    BY <1>7 DEF _process_command, AtNewline, NextByte, Quiet, _reset
  <2>2. _command' = None \/ \E c \in COMMANDS_TO_FRAMES : Line = <<c>> /\ _command' = c
    <3>1. CASE Line \in {<<c>> : c \in COMMANDS_TO_FRAMES}
      <4>1. PICK c \in COMMANDS_TO_FRAMES : Line = <<c>>
        BY <3>1
      <4>2. _command' = Head(Line)
        BY <1>7, <3>1 DEF _process_command
      <4>3. Head(<<c>>) = c
        OBVIOUS
      <4> QED BY <4>1, <4>2, <4>3
    <3>2. CASE Line \notin {<<c>> : c \in COMMANDS_TO_FRAMES}
      BY <1>7, <3>2 DEF _process_command, _reset
    <3> QED BY <3>1, <3>2
  <2> QED BY <1>2, <1>3, <1>4, <2>1, <2>2
<1>8. CASE NullYields
  <2>1. Yield(Frame(_command, _headers, _current_buf)) /\ _command # None
    BY <1>8 DEF NullYields
  <2>2. Frame(_command, _headers, _current_buf).command \in S \cap COMMANDS_TO_FRAMES
    BY <1>1, <2>1 DEF Frame
  <2>3. _current_buf' = <<>> /\ _command' = None
    BY <2>1 DEF Yield, NewParser, _reset
  <2> QED BY <1>2, <1>4, <2>1, <2>2, <2>3
<1> QED BY <1>5, <1>6, <1>7, <1>8 DEF parse_frames_from_chunk

\* The stream before anything was written.
LEMMA NothingWritten ==
    ASSUME NEW end
    PROVE  Leads(<<>>, end, <<>>, [done |-> 0, rest |-> <<>>, frames |-> 0])
<1> DEFINE p == [done |-> 0, rest |-> <<>>, frames |-> 0]
           at == [i \in 0 .. 0 |-> p]
<1>1. Len(<<>>) = 0 /\ <<>> \in Seq(Symbols) /\ <<>> \in Seq(Inner)
    BY EmptySeq
<1>2. p \in Places /\ p.done = 0 /\ p.frames = 0 /\ p.rest = <<>>
    BY <1>1 DEF Places
<1>3. p = [done |-> Len(<<>>), rest |-> <<>>, frames |-> 0]
    BY <1>1
<1> HIDE DEF p
<1>4. Sound(<<>>, p)
    BY <1>1, <1>2 DEF Sound
<1>5. at \in [0 .. 0 -> Places] /\ at[0] = p /\ \A i \in 0 .. 0 : i = 0
    BY <1>2
<1> HIDE DEF at
<1>6. \A i \in 0 .. 0 : Sound(<<>>, at[i])
    BY <1>4, <1>5
<1>7. 1 .. 0 = {} /\ \A i, j \in 0 .. 0 : at[i].done <= at[j].done
    BY <1>2, <1>5
<1>8. Traces(<<>>, end, <<>>, at)
    BY <1>1, <1>3, <1>5, <1>6, <1>7 DEF Traces
<1> QED BY <1>5, <1>8, Zenon DEF Leads, p

\* An ERROR is the last that a server sends.
LEMMA AfterError ==
    ASSUME sent = <<Error>>
    PROVE  Errored
<1>1. <<Error>> # <<>> /\ Len(<<Error>>) = 1 /\ <<Error>>[1] = Error
    OBVIOUS
<1> QED BY <1>1, Zenon DEF Errored, Last

\* The server answers with CONNECTED, or with an ERROR, or with both.
LEMMA ConnectingServer ==
    ASSUME StreamInv, reader = "connecting", Server
    PROVE  Connecting'
<1>1. /\ TypeOK /\ Connecting /\ eol \in EndsOfLine /\ connected \in BOOLEAN
      /\ wire \in Seq(Symbols) /\ chunk \in Seq(Symbols)
      /\ received = <<>> /\ ~receipt /\ ~errorDropped
    BY DEF StreamInv, TypeOK, Connecting
<1>2. UNCHANGED <<reader, chunk, heard, parser>>
    BY <1>1, ServerTypes DEF StreamInv
<1>3. sent = <<>> \/ (sent = <<Error>> /\ Errored)
    BY <1>1, AfterError DEF Connecting
<1>4. CASE ServerConnects
  <2>0. PICK x : x = Encoded(Connected, eol)
    OBVIOUS
  <2> DEFINE p == [done |-> 0, rest |-> <<>>, frames |-> 0]
  <2>1. /\ ~connected /\ connected' = TRUE /\ wire' = wire \o x
        /\ UNCHANGED <<eol, sent, receipt>> /\ sent = <<>>
    BY <1>3, <1>4, <2>0 DEF ServerConnects, Writes, Connected
  <2>2. chunk = <<>> /\ wire = <<>> /\ Fresh /\ _current_buf = <<>>
    BY <1>1, <2>1 DEF Connecting
  <2>3. x \in Seq(Ends \cup {"CONNECTED"}) /\ IsUnit(x, 1) /\ x \in Seq(Symbols)
    BY <1>1, <2>0, EarlyBytes, FramesWellFormed, FrameCommands, FrameUnit DEF IsUnit
  <2>4. p.done = 0 /\ p.frames = 0
    OBVIOUS
  <2>5. Leads(<<>>, eol, <<>>, p)
    BY NothingWritten
  <2> HIDE DEF p
  <2>6. <<>> \o x = x /\ x \o <<>> = x /\ <<>> \in Seq(Symbols)
    BY <2>3, ConcatEmptySeq, EmptySeq
  <2>7. Leads(<<Connected>>, eol, x, p)
    <3> DEFINE m == <<Connected>>
    <3>1. PICK u, one, none : u = x /\ one = 1 /\ none = <<>>
      OBVIOUS
    <3>2. Len(m) = 1 /\ m[1] = Connected /\ Len(<<>>) = 0 /\ 1 .. 0 = {}
      OBVIOUS
    <3> HIDE DEF m
    <3>3. Leads(m, eol, none \o u, p)
      <4>1. Len(none) \in Nat /\ Len(m) = Len(none) + one /\ one \in {0, 1} /\ one # 0
        BY <3>1, <3>2
      <4>2. IsUnit(u, one) /\ u = Encoded(m[Len(m)], eol) /\ none \in Seq(Symbols) /\ Leads(none, eol, none, p)
        BY <2>0, <2>3, <2>5, <2>6, <3>1, <3>2
      <4>3. \A i \in 1 .. Len(none) : m[i] = none[i]
        BY <3>1, <3>2
      <4> QED BY <4>1, <4>2, <4>3, Written
    <3> QED BY <2>6, <3>1, <3>3 DEF m
  <2>8. ParserAt(<<Connected>>, p)'
    <3>1. Sound(<<Connected>>, p)
      BY <2>3, <2>7, LeadsSound
    <3> QED BY <1>2, <2>2, <2>4, <3>1, FreshGap DEF Fresh
  <2>9. ConnectingAt(x, p)'
    <3>1. Behind' = <<>>
      BY <2>1 DEF Behind
    <3>2. chunk' = <<>> /\ wire' = x /\ eol' = eol
      BY <1>2, <2>1, <2>2, <2>6
    <3> QED BY <2>3, <2>4, <2>6, <2>7, <2>8, <3>1, <3>2, Zenon DEF ConnectingAt
  <2> QED BY <1>1, <1>2, <2>1, <2>9 DEF Connecting
<1>5. CASE ServerHeartbeat
  <2>1. /\ connected /\ wire' = wire \o eol /\ sent = <<>>
        /\ UNCHANGED <<eol, sent, receipt, connected>>
    BY <1>3, <1>5 DEF ServerHeartbeat, Writes
  <2>2. PICK x, p : ConnectingAt(x, p)
    BY <1>1, <2>1 DEF Connecting
  <2>3. /\ x \in Seq(Ends \cup {"CONNECTED"}) /\ x \in Seq(Symbols) /\ eol \in Seq(Ends \cup {"CONNECTED"})
        /\ eol \in Seq(Symbols) /\ IsUnit(eol, 0)
    BY <1>1, <2>2, EarlyBytes, HeartbeatUnit, SeqMonotonic DEF ConnectingAt, IsUnit
  <2>4. chunk \o wire = x
    <3>1. chunk \o wire = x \o <<>>
      BY <2>1, <2>2 DEF ConnectingAt, Behind
    <3>2. x \o <<>> = x
      BY <2>3, ConcatEmptySeq
    <3> QED BY <3>1, <3>2, Zenon
  <2>5. PICK y : y = x \o eol
    OBVIOUS
  <2>6. y \in Seq(Ends \cup {"CONNECTED"}) /\ y \o <<>> = y
    BY <2>3, <2>5, ConcatProperties, ConcatEmptySeq
  <2>7. Leads(<<Connected>>, eol, y, p)
    <3> DEFINE m == <<Connected>>
    <3>1. Len(m) = 1 /\ Leads(m, eol, x, p)
      BY <2>2 DEF ConnectingAt
    <3> HIDE DEF m
    <3>2. Leads(m, eol, x \o eol, p)
      <4>1. PICK zero : zero = 0
        OBVIOUS
      <4>2. Len(m) \in Nat /\ Len(m) = Len(m) + zero /\ zero \in {0, 1} /\ zero # 1 /\ IsUnit(eol, zero)
        BY <2>3, <3>1, <4>1
      <4> QED BY <2>3, <3>1, <4>2, Written
    <3> QED BY <2>5, <3>2 DEF m
  <2>8. chunk' \o wire' = y
    <3>1. Cat(Cat(chunk, wire), eol) = Cat(chunk, Cat(wire, eol))
      BY <1>1, <2>3, CatAssociative
    <3> QED BY <1>2, <2>1, <2>4, <2>5, <3>1, Zenon DEF Cat
  <2>9. ParserAt(<<Connected>>, p)' /\ p.done = 0
    BY <1>2, <2>1, <2>2, ParserSame DEF ConnectingAt
  <2>10. ConnectingAt(y, p)'
    <3>1. Behind' = <<>> /\ eol' = eol
      BY <2>1 DEF Behind
    <3> QED BY <2>6, <2>7, <2>8, <2>9, <3>1, Zenon DEF ConnectingAt
  <2> QED BY <1>1, <1>2, <2>1, <2>10 DEF Connecting
<1>6. ASSUME NEW f \in Messages \cup {Error}, ServerSends(f) PROVE Connecting'
  <2> DEFINE e == Encoded(Error, eol)
  <2>1. /\ sent' = Append(sent, Error) /\ wire' = wire \o e /\ sent = <<>>
        /\ UNCHANGED <<eol, receipt, connected>>
    BY <1>3, <1>6 DEF ServerSends, Writes
  <2>2. sent' = <<Error>> /\ sent' # <<>>
    BY <2>1
  <2>3. e \in Seq(Ends \cup {"ERROR"}) /\ e \in Seq(Symbols)
    BY <1>1, FramesWellFormed, FrameUnit, EarlyBytes DEF IsUnit, Frames
  <2> HIDE DEF e
  <2>4. ASSUME ~connected PROVE Only(Ends \cup {"ERROR"})'
    <3>1. Only(Ends \cup {"ERROR"})
      BY <1>1, <2>4 DEF Connecting
    <3>2. wire' \in Seq(Ends \cup {"ERROR"})
      BY <2>1, <2>3, <3>1, ConcatProperties DEF Only
    <3> QED BY <1>2, <3>1, <3>2 DEF Only
  <2>5. ASSUME connected PROVE \E x, p : ConnectingAt(x, p)'
    <3>1. PICK x, p : ConnectingAt(x, p)
      BY <1>1, <2>5 DEF Connecting
    <3>2. x \in Seq(Ends \cup {"CONNECTED"}) /\ chunk \o wire = x \o <<>> /\ x \o <<>> = x
      BY <2>1, <3>1, ConcatEmptySeq DEF ConnectingAt, Behind
    <3>3. chunk' \o wire' = x \o e
      <4>1. Cat(Cat(chunk, wire), e) = Cat(chunk, Cat(wire, e))
        BY <1>1, <2>3, CatAssociative
      <4> QED BY <1>2, <2>1, <3>2, <4>1, Zenon DEF Cat
    <3>4. ParserAt(<<Connected>>, p)'
      BY <1>2, <2>1, <3>1, ParserSame DEF ConnectingAt
    <3>5. Behind' = e /\ eol' = eol
      BY <2>1, <2>2 DEF Behind, e
    <3>6. ConnectingAt(x, p)'
      BY <3>1, <3>3, <3>4, <3>5, Zenon DEF ConnectingAt
    <3> QED BY <3>6
  <2> QED BY <1>1, <1>2, <2>1, <2>2, <2>4, <2>5 DEF Connecting
<1>7. ~ServerReceipt
    BY DEF ServerReceipt
<1> QED BY <1>4, <1>5, <1>6, <1>7 DEF Server

\* After the ERROR the server sends nothing, and nothing more is found.
LEMMA StuckStep ==
    ASSUME StreamInv, Stuck
    PROVE  /\ ~Server
           /\ parse_frames_from_chunk => TypeOK' /\ ReceivedOK' /\ Stuck' /\ UNCHANGED <<reader, errorDropped>>
<1>1. Errored /\ connected /\ TypeOK /\ ReceivedOK /\ _headers_processed \in BOOLEAN
    BY AfterError DEF Stuck, StreamInv, TypeOK
<1>2. ~Server
    BY <1>1 DEF Server, ServerConnects, ServerHeartbeat, ServerSends, ServerReceipt
<1>3. ASSUME parse_frames_from_chunk
      PROVE  TypeOK' /\ ReceivedOK' /\ Stuck' /\ UNCHANGED <<reader, errorDropped>>
  <2>1. Ends \cap COMMANDS_TO_FRAMES = {}
    BY DEF Ends, COMMANDS_TO_FRAMES
  <2>2. Quiet /\ Only(Ends)'
    BY <1>1, <1>3, <2>1, OnlyStep DEF Stuck, Quiet
  <2>3. Tail(chunk) \in Seq(Symbols) /\ _headers_processed' \in BOOLEAN
    BY <1>1, <1>3, Effects, FlagType, HeadTailProperties DEF TypeOK
  <2> QED BY <1>1, <2>2, <2>3 DEF Stuck, TypeOK, ReceivedOK, Quiet, Consume
<1> QED BY <1>2, <1>3

\* CONNECTED is found: the rest of the chunk is thrown away, an ERROR in it or its beginning too.
LEMMA HandoverStep ==
    ASSUME StreamInv, reader = "connecting", connected, chunk # <<>>, UNCHANGED <<transport, server>>,
           NEW y \in Seq(Ends \cup {"CONNECTED"}), NEW q, q.done = 1,
           Tail(chunk) \o wire = y \o Behind, Leads(<<Connected>>, eol, y, q),
           NEW f, f.command = "CONNECTED", Yield(f)
    PROVE  /\ TypeOK' /\ ReceivedOK' /\ reader' = "listening"
           /\ errorDropped' => Stuck'
           /\ ~errorDropped' => \E script, p : StreamAt(script, p)'
<1>1. /\ TypeOK /\ ReceivedOK /\ Connecting /\ eol \in EndsOfLine /\ wire \in Seq(Symbols)
      /\ Tail(chunk) \in Seq(Symbols) /\ <<>> \in Seq(Symbols) /\ <<>> \in Seq(Ends)
      /\ received = <<>> /\ ~receipt /\ sent \in {<<>>, <<Error>>}
    BY EndsType, EmptySeq, HeadTailProperties DEF StreamInv, TypeOK, Connecting
<1>2. PICK t : t = Tail(chunk)
    OBVIOUS
<1>3. /\ reader' = "listening" /\ chunk' = <<>> /\ received' = received /\ errorDropped' = Contains(t, "ERROR")
      /\ _current_buf' = <<>> /\ _command' = None /\ _headers_processed' = FALSE /\ Fresh' /\ ~Swallowing'
    BY <1>2 DEF Yield, NewParser, _reset, Consume, Fresh, Swallowing
<1>4. errorDropped' \in BOOLEAN
    BY <1>3 DEF Contains
<1>5. TypeOK' /\ ReceivedOK'
    BY <1>1, <1>3, <1>4 DEF TypeOK, ReceivedOK
<1>6. PICK b, e : b = Behind /\ e = Encoded(Error, eol)
    OBVIOUS
<1>7. /\ y \in Seq(Symbols) /\ e = <<"ERROR">> \o Tail(e) /\ Tail(e) \in Seq(Ends) /\ e \in Seq(Symbols)
      /\ b = IF sent = <<>> THEN <<>> ELSE e
    BY <1>1, <1>6, EarlyBytes, SeqMonotonic, FramesWellFormed, FrameUnit DEF IsUnit, Frames, Behind
<1>8. b \in Seq(Symbols) /\ t \in Seq(Symbols) /\ Cat(t, wire) = Cat(y, b)
    BY <1>1, <1>2, <1>6, <1>7 DEF Cat
<1>9. Len(t) \in Nat /\ Len(y) \in Nat
    BY <1>7, <1>8, LenProperties
<1>10. CASE Len(t) <= Len(y)
  <2>1. PICK z \in Seq(Symbols) : y = Cat(t, z) /\ wire = Cat(z, b)
    <3>1. wire \in Seq(Symbols) /\ y \in Seq(Symbols)
      BY <1>1, <1>7
    <3> QED BY <1>8, <1>10, <3>1, CatPrefix
  <2>2. ~errorDropped'
    <3>1. t \in Seq(Ends \cup {"CONNECTED"})
      BY <1>8, <2>1, CatElements
    <3>2. "ERROR" \notin Ends \cup {"CONNECTED"}
      BY DEF Ends
    <3>3. \A i \in 1 .. Len(t) : t[i] # "ERROR"
      BY <3>1, <3>2, ElementOfSeq
    <3> QED BY <1>3, <3>3 DEF Contains
  <2>3. PICK r : Leads(<<Connected>>, eol, z, r) /\ q.done <= r.done
    <3>1. Leads(<<Connected>>, eol, t \o z, q)
      BY <2>1, Zenon DEF Cat
    <3> QED BY <1>8, <3>1, Dropped
  <2>4. r.done = 1 /\ r.frames = 0
    <3>1. Sound(<<Connected>>, r) /\ Len(<<Connected>>) = 1
      BY <2>3, LeadsSound
    <3> QED BY <2>3, <3>1 DEF Sound, Places
  <2>5. \E script : IsScript(script) /\ Leads(script, eol, wire, r)
    <3>1. CASE sent = <<>>
      <4>1. wire = z
        <5>1. wire = z \o <<>> /\ z \o <<>> = z
          BY <1>7, <2>1, <3>1, ConcatEmptySeq DEF Cat
        <5> QED BY <5>1, Zenon
      <4>2. IsScript(<<Connected>>)
        <5>1. <<Connected>> \in Seq(Frames) /\ Len(<<Connected>>) = 1 /\ <<Connected>>[1] = Connected
          BY FrameCommands
        <5>2. Len(sent) = 0 /\ 1 .. 0 = {}
          BY <3>1
        <5> QED BY <1>1, <5>1, <5>2 DEF IsScript
      <4> QED BY <2>3, <4>1, <4>2
    <3>2. CASE sent = <<Error>>
      <4> DEFINE script == <<Connected>>
                 more == <<Connected, Error>>
      <4>1. /\ Connected \in Frames /\ Error \in Frames
        BY FrameCommands
      <4>2. /\ more \in Seq(Frames) /\ Len(more) = 2 /\ more[1] = Connected /\ more[2] = Error
            /\ Len(script) = 1 /\ script[1] = Connected
        BY <4>1
      <4>3. Len(sent) = 1 /\ sent[1] = Error /\ sent # <<>>
        BY <3>2
      <4>4. Leads(script, eol, z, r)
        BY <2>3
      <4> HIDE DEF script, more
      <4>5. IsScript(more)
        <5>1. \A i \in 1 .. 1 : i = 1 /\ i + 1 = 2
          OBVIOUS
        <5> QED BY <1>1, <4>2, <4>3, <5>1 DEF IsScript
      <4>6. IsUnit(e, 1)
        BY <1>1, <1>6, <4>1, FramesWellFormed, FrameUnit
      <4>7. Leads(more, eol, z \o e, r)
        <5>1. PICK one : one = 1
          OBVIOUS
        <5>2. one \in {0, 1} /\ Len(script) \in Nat /\ Len(more) = Len(script) + one /\ IsUnit(e, one)
              /\ one # 0 /\ e = Encoded(more[Len(more)], eol)
          BY <1>6, <4>2, <4>6, <5>1
        <5>3. \A i \in 1 .. Len(script) : more[i] = script[i]
          BY <4>2
        <5> QED BY <4>4, <5>2, <5>3, Written
      <4>8. wire = z \o e
        BY <1>7, <2>1, <4>3, Zenon DEF Cat
      <4> QED BY <4>5, <4>7, <4>8, Zenon
    <3> QED BY <1>1, <3>1, <3>2
  <2>6. PICK script : IsScript(script) /\ Leads(script, eol, wire, r)
    BY <2>5
  <2>7. ParserAt(script, r)'
    <3>1. Sound(script, r)
      BY <1>1, <2>6, LeadsSound
    <3> QED BY <1>3, <2>4, <3>1, FreshGap
  <2>8. IsScript(script)'
    BY <2>6 DEF IsScript
  <2>9. ReaderAt(r)'
    <3>1. Len(received') = 0
      BY <1>1, <1>3
    <3> QED BY <1>1, <1>3, <2>4, <3>1 DEF ReaderAt
  <2>10. Leads(script, eol', chunk' \o wire', r)
    <3>1. <<>> \o wire = wire /\ wire' = wire /\ eol' = eol
      BY <1>1, ConcatEmptySeq
    <3> QED BY <1>3, <2>6, <3>1, Zenon
  <2>11. StreamAt(script, r)'
    BY <2>7, <2>8, <2>9, <2>10 DEF StreamAt
  <2> QED BY <1>3, <1>5, <2>2, <2>11
<1>11. CASE ~(Len(t) <= Len(y))
  <2>1. PICK z \in Seq(Symbols) : t = Cat(y, z) /\ b = Cat(z, wire) /\ Len(t) = Len(y) + Len(z)
    <3>1. Len(y) <= Len(t) /\ Cat(y, b) = Cat(t, wire)
      BY <1>8, <1>9, <1>11
    <3>2. wire \in Seq(Symbols) /\ y \in Seq(Symbols) /\ b \in Seq(Symbols) /\ t \in Seq(Symbols)
      BY <1>1, <1>7, <1>8
    <3> QED BY <3>1, <3>2, CatPrefix
  <2>2. z # <<>>
    BY <1>9, <1>11, <2>1, EmptySeq
  <2>3. sent = <<Error>> /\ b = e
    <3>1. Cat(z, wire) # <<>>
      BY <1>1, <2>2, ConcatEqualIffEmpty DEF Cat
    <3> QED BY <1>1, <1>7, <2>1, <3>1
  <2>4. PICK h, z1 : h = Head(z) /\ z1 = Tail(z)
    OBVIOUS
  <2>5. h \in Symbols /\ z1 \in Seq(Symbols) /\ z = <<h>> \o z1 /\ <<h>> \in Seq(Symbols)
    <3>1. Head(z) \in Symbols /\ Tail(z) \in Seq(Symbols)
      BY <2>2, HeadTailProperties
    <3>2. z = <<Head(z)>> \o Tail(z)
      BY <2>2
    <3> QED BY <2>4, <3>1, <3>2
  <2>6. e = <<h>> \o Cat(z1, wire)
    <3> DEFINE a == <<h>>
    <3>1. a \in Seq(Symbols)
      BY <2>5
    <3> HIDE DEF a
    <3>2. Cat(Cat(a, z1), wire) = Cat(a, Cat(z1, wire))
      BY <1>1, <2>5, <3>1, CatAssociative
    <3>3. z = Cat(a, z1)
      BY <2>5 DEF Cat, a
    <3>4. e = Cat(a, Cat(z1, wire))
      BY <2>1, <2>3, <3>2, <3>3
    <3> QED BY <3>4 DEF Cat, a
  <2>7. h = "ERROR" /\ Cat(z1, wire) = Tail(e)
    <3>1. Cat(z1, wire) \in Seq(Symbols)
      BY <1>1, <2>5, CatType
    <3>2. PICK s, u : s = Cat(z1, wire) /\ u = Tail(e)
      OBVIOUS
    <3>3. Head(<<h>> \o s) = h /\ Tail(<<h>> \o s) = s
      BY <2>5, <3>1, <3>2, ConsParts
    <3>4. "ERROR" \in Symbols /\ u \in Seq(Symbols)
      BY <1>1, <1>7, <3>2, EarlyBytes, SeqMonotonic
    <3>5. Head(<<"ERROR">> \o u) = "ERROR" /\ Tail(<<"ERROR">> \o u) = u
      BY <3>4, ConsParts
    <3>6. <<h>> \o s = <<"ERROR">> \o u
      BY <1>7, <2>6, <3>2, Zenon
    <3> QED BY <3>2, <3>3, <3>5, <3>6, Zenon
  <2>8. wire \in Seq(Ends)
    <3>1. wire \in Seq(Symbols) /\ z1 \in Seq(Symbols) /\ Cat(z1, wire) \in Seq(Ends)
      BY <1>1, <1>7, <2>5, <2>7
    <3> QED BY <3>1, CatElements
  <2>9. errorDropped'
    <3>1. Len(z) \in Nat \ {0} /\ z[1] = h
      BY <2>2, <2>4, EmptySeq
    <3>2. \A i \in 1 .. Len(y) + Len(z) : t[i] = IF i <= Len(y) THEN y[i] ELSE z[i - Len(y)]
      BY <1>7, <2>1, ConcatProperties DEF Cat
    <3>3. Len(y) + 1 \in 1 .. Len(y) + Len(z) /\ ~(Len(y) + 1 <= Len(y)) /\ (Len(y) + 1) - Len(y) = 1
      BY <1>9, <3>1
    <3>4. t[Len(y) + 1] = "ERROR" /\ Len(y) + 1 \in 1 .. Len(t)
      BY <2>1, <2>7, <3>1, <3>2, <3>3
    <3> QED BY <1>3, <3>4 DEF Contains
  <2>10. Stuck'
    BY <1>1, <1>3, <2>3, <2>8 DEF Stuck, Only
  <2> QED BY <1>3, <1>5, <2>9, <2>10
<1> QED BY <1>10, <1>11

\* A byte is parsed while CONNECTED is awaited.
LEMMA ConnectingStep ==
    ASSUME StreamInv, reader = "connecting", parse_frames_from_chunk
    PROVE  /\ TypeOK' /\ ReceivedOK'
           /\ \/ reader' = "connecting" /\ Connecting'
              \/ /\ reader' = "listening"
                 /\ errorDropped' => Stuck'
                 /\ ~errorDropped' => \E script, p : StreamAt(script, p)'
<1>1. /\ TypeOK /\ ReceivedOK /\ Connecting /\ PopsCarriage /\ eol \in EndsOfLine
      /\ wire \in Seq(Symbols) /\ chunk \in Seq(Symbols) /\ _headers_processed \in BOOLEAN /\ connected \in BOOLEAN
      /\ received = <<>> /\ ~receipt /\ ~errorDropped /\ sent \in {<<>>, <<Error>>}
    BY DEF StreamInv, Inv, TypeOK, Connecting
<1>2. chunk # <<>> /\ UNCHANGED <<transport, server>> /\ _headers_processed' \in BOOLEAN
    BY <1>1, Effects, FlagType
<1>3. PICK t : t = Tail(chunk)
    OBVIOUS
<1>4. t \in Seq(Symbols) /\ Byte \in Symbols /\ chunk = <<Byte>> \o t
  <2>1. Head(chunk) \in Symbols /\ Tail(chunk) \in Seq(Symbols)
    BY <1>1, <1>2, HeadTailProperties
  <2>2. chunk = <<Head(chunk)>> \o Tail(chunk)
    BY <1>1, <1>2
  <2> QED BY <1>3, <2>1, <2>2 DEF Byte
<1>5. ASSUME Quiet PROVE TypeOK' /\ ReceivedOK' /\ reader' = "connecting"
    BY <1>1, <1>2, <1>3, <1>4, <1>5 DEF TypeOK, ReceivedOK, Quiet, Consume
<1>6. CASE ~connected
  <2> DEFINE S == Ends \cup {"ERROR"}
  <2>1. Only(S) /\ sent # <<>>
    BY <1>1, <1>2, <1>6 DEF Connecting
  <2>2. S \cap COMMANDS_TO_FRAMES \subseteq {"ERROR"}
    BY DEF Ends, COMMANDS_TO_FRAMES
  <2>3. Quiet \/ \E f : f.command = "ERROR" /\ Yield(f)
    BY <1>1, <2>1, <2>2, OnlyStep
  <2>4. Quiet
    BY <1>2, <2>3 DEF Yield, Quiet
  <2>5. Only(S)'
    BY <1>1, <2>1, <2>4, OnlyStep DEF Quiet
  <2> HIDE DEF S
  <2>6. Connecting'
    BY <1>1, <1>2, <1>6, <2>1, <2>4, <2>5 DEF Connecting, Quiet, S
  <2> QED BY <1>5, <2>4, <2>6
<1>7. CASE connected
  <2>1. PICK x, p : ConnectingAt(x, p)
    BY <1>1, <1>7 DEF Connecting
  <2>2. PICK script, b : script = <<Connected>> /\ b = Behind
    OBVIOUS
  <2>3. /\ x \in Seq(Ends \cup {"CONNECTED"}) /\ chunk \o wire = x \o b /\ Leads(script, eol, x, p)
        /\ ParserAt(script, p) /\ p.done = 0
    BY <2>1, <2>2 DEF ConnectingAt
  <2>4. Len(script) = 1 /\ script[1] = Connected /\ \A i \in 1 .. 1 : i = 1
    BY <2>2
  <2>5. x # <<>>
    <3>1. ASSUME x = <<>> PROVE FALSE
      <4>1. p = [done |-> Len(script), rest |-> <<>>, frames |-> 0]
        BY <2>3, <3>1, NoMore
      <4>2. p.done = 1
        BY <2>4, <4>1
      <4> QED BY <2>3, <4>2
    <3> QED BY <3>1
  <2>6. PICK h, y : h = Head(x) /\ y = Tail(x)
    OBVIOUS
  <2>7. Ends \cup {"CONNECTED"} \subseteq Symbols
    BY <1>1, EarlyBytes
  <2>8. /\ y \in Seq(Ends \cup {"CONNECTED"}) /\ y \in Seq(Symbols) /\ x = <<h>> \o y /\ h \in Symbols
        /\ <<h>> \in Seq(Symbols)
    <3>1. Head(x) \in Ends \cup {"CONNECTED"} /\ Tail(x) \in Seq(Ends \cup {"CONNECTED"})
      BY <2>3, <2>5, HeadTailProperties
    <3>2. x = <<Head(x)>> \o Tail(x)
      BY <2>3, <2>5
    <3>3. h \in Symbols
      BY <2>6, <2>7, <3>1
    <3> QED BY <2>6, <2>7, <3>1, <3>2, <3>3, SeqMonotonic
  <2>9. b \in Seq(Symbols)
    BY <1>1, <2>2, FramesWellFormed, FrameUnit, EmptySeq DEF Behind, IsUnit, Frames
  <2>10. Byte = h /\ t \o wire = y \o b
    <3> DEFINE a == <<Byte>>
               c == <<h>>
    <3>1. a \in Seq(Symbols) /\ c \in Seq(Symbols) /\ chunk = Cat(a, t) /\ x = Cat(c, y)
      BY <1>4, <2>8 DEF Cat
    <3> HIDE DEF a, c
    <3>2. Cat(Cat(a, t), wire) = Cat(a, Cat(t, wire)) /\ Cat(Cat(c, y), b) = Cat(c, Cat(y, b))
      BY <1>1, <1>4, <2>8, <2>9, <3>1, CatAssociative
    <3>3. Cat(a, Cat(t, wire)) = Cat(c, Cat(y, b))
      BY <2>3, <3>1, <3>2, Zenon DEF Cat
    <3>4. PICK u, v : u = Cat(t, wire) /\ v = Cat(y, b)
      OBVIOUS
    <3>5. u \in Seq(Symbols) /\ v \in Seq(Symbols)
      BY <1>1, <1>4, <2>8, <2>9, <3>4, CatType
    <3>6. Head(<<Byte>> \o u) = Byte /\ Tail(<<Byte>> \o u) = u
      BY <1>4, <3>5, ConsParts
    <3>7. Head(<<h>> \o v) = h /\ Tail(<<h>> \o v) = v
      BY <2>8, <3>5, ConsParts
    <3>8. <<Byte>> \o u = <<h>> \o v
      BY <3>3, <3>4, Zenon DEF Cat, a, c
    <3> QED BY <3>4, <3>6, <3>7, <3>8, Zenon DEF Cat
  <2>11. PICK q : Leads(script, eol, y, q) /\ Emits(script, eol, p, Byte, q)
    <3>1. Leads(script, eol, <<h>> \o y, p)
      BY <2>3, <2>8, Zenon
    <3> QED BY <2>8, <2>10, <3>1, Parsed
  <2>12. Sound(script, p) /\ Sound(script, q)
    BY <2>3, <2>7, <2>8, <2>11, LeadsSound, SeqMonotonic
  <2>13. \A i \in 1 .. Len(script) : WellFormed(script[i])
    BY <2>4, FramesWellFormed, FrameCommands
  <2>14. ASSUME Quiet, q.done = p.done, ParserAt(script, q)' PROVE Connecting'
    <3>1. chunk' = t /\ UNCHANGED <<transport, server, heard>>
      BY <1>3, <2>14 DEF Quiet, Consume
    <3>2. Behind' = b
      BY <2>2, <3>1 DEF Behind
    <3>3. chunk' \o wire' = y \o b
      BY <2>10, <3>1
    <3>4. ConnectingAt(y, q)'
      BY <2>2, <2>3, <2>8, <2>11, <2>14, <3>1, <3>2, <3>3 DEF ConnectingAt
    <3> QED BY <1>1, <1>7, <3>1, <3>4 DEF Connecting
  <2>15. CASE p.frames = 0
    <3>1. InGap(p.rest)
      BY <2>3, <2>15 DEF ParserAt
    <3>2. Quiet /\ q.done = p.done /\ ParserAt(script, q)'
      BY <1>1, <2>11, <2>12, <2>13, <2>15, <3>1, GapStep
    <3> QED BY <1>5, <2>14, <3>2
  <2>16. CASE p.frames = 1
    <3>1. script[p.done + 1] = Connected /\ ~Negative(script[p.done + 1])
      BY <2>3, <2>4, FrameCommands
    <3>2. \/ Quiet /\ q.done = p.done /\ ParserAt(script, q)'
          \/ q.done = p.done + 1 /\ Yield(Yielded(script[p.done + 1]))
      BY <1>1, <2>3, <2>11, <2>12, <2>13, <2>16, <3>1, FrameStep
    <3>3. CASE Quiet /\ q.done = p.done /\ ParserAt(script, q)'
      BY <1>5, <2>14, <3>3
    <3>4. CASE q.done = p.done + 1 /\ Yield(Yielded(script[p.done + 1]))
      <4>1. PICK f : f = Yielded(script[p.done + 1])
        OBVIOUS
      <4>2. f.command = "CONNECTED" /\ Yield(f) /\ q.done = 1
        BY <2>3, <3>1, <3>4, <4>1, FramesWellFormed, FrameCommands
      <4>3. Tail(chunk) \o wire = y \o Behind /\ Leads(<<Connected>>, eol, y, q)
        BY <1>3, <2>2, <2>10, <2>11
      <4> QED BY <1>2, <1>7, <2>8, <4>2, <4>3, HandoverStep
    <3> QED BY <3>2, <3>3, <3>4
  <2>17. p.frames \in {0, 1}
    BY <2>12 DEF Sound, Places
  <2> QED BY <2>15, <2>16, <2>17
<1> QED BY <1>1, <1>6, <1>7

-----------------------------------------------------------------------------
(* The theorems. *)

\* At first, nothing is written.
LEMMA InitStream == Init => StreamInv
<1> SUFFICES ASSUME Init PROVE StreamInv
    OBVIOUS
<1>1. Inv
    BY InitInv
<1>2. \A S : <<>> \in Seq(S)
    BY EmptySeq
<1>3. TypeOK
    BY <1>2 DEF Init, TypeOK
<1>4. ReceivedOK
  <2>1. received = <<>> /\ sent = <<>> /\ Len(<<>>) = 0 /\ 1 .. 0 = {}
    BY DEF Init
  <2> QED BY <1>2, <2>1 DEF ReceivedOK
<1>5. Connecting
    BY <1>2 DEF Init, Connecting, Only, Fresh
<1> QED BY <1>1, <1>3, <1>4, <1>5 DEF StreamInv, Init, Follows

\* A step of the server.
LEMMA ServerInv ==
    ASSUME StreamInv, Server
    PROVE  StreamInv'
<1>1. TypeOK' /\ ReceivedOK' /\ UNCHANGED <<reader, chunk, heard, parser>>
    BY ServerTypes DEF StreamInv
<1>2. Inv'
    BY <1>1, OutsideInv DEF StreamInv
<1>3. reader = "connecting" => Connecting'
    BY ConnectingServer
<1>4. ~errorDropped'
    BY <1>1, StuckStep DEF StreamInv
<1>5. reader = "done" /\ CommandsApart => Done'
  <2>1. reader = "done" => ~ServerReceipt /\ (connected /\ receipt => ~Server)
    BY <1>1 DEF Server, ServerConnects, ServerHeartbeat, ServerSends, ServerReceipt
  <2> QED BY <2>1 DEF StreamInv, Done
<1>6. Follows => \E script, p : StreamAt(script, p)'
    BY ServerStep
<1> QED BY <1>1, <1>2, <1>3, <1>4, <1>5, <1>6 DEF StreamInv, Follows

\* A byte is parsed.
LEMMA ParserStreamInv ==
    ASSUME StreamInv, parse_frames_from_chunk
    PROVE  StreamInv'
<1>1. Inv' /\ TypeOK /\ ReceivedOK /\ reader \in {"connecting", "listening", "closing", "done"}
    BY ParserInv DEF StreamInv, TypeOK
<1>2. CASE reader = "connecting"
  <2>1. ~errorDropped
    BY <1>2 DEF StreamInv, Connecting
  <2>2. reader' = "connecting" /\ Connecting' => ~errorDropped'
    BY DEF Connecting
  <2> QED BY <1>1, <1>2, <2>2, ConnectingStep DEF StreamInv, Follows
<1>3. CASE errorDropped
    BY <1>1, <1>3, StuckStep DEF StreamInv, Follows, Stuck
<1>4. CASE Follows
  <2>1. ~errorDropped
    BY <1>4 DEF Follows
  <2> QED BY <1>1, <1>4, <2>1, ParseStep DEF StreamInv, Follows
<1>5. CASE ~Follows /\ ~errorDropped /\ reader # "connecting"
  <2>1. reader \in {"closing", "done"} /\ (reader = "closing" => ~CommandsApart)
    BY <1>1, <1>5 DEF Follows
  <2>2. chunk # <<>>
    BY Effects DEF StreamInv, TypeOK
  <2>3. ~CommandsApart
    BY <2>1, <2>2 DEF StreamInv, Done
  <2>4. TypeOK' /\ ReceivedOK' /\ reader' \in {"closing", "done"} /\ ~errorDropped'
    BY <1>1, <1>5, <2>1, ParseTypes
  <2> QED BY <1>1, <2>3, <2>4 DEF StreamInv, Follows
<1> QED BY <1>2, <1>3, <1>4, <1>5

\* Nothing happens.
LEMMA StutterInv ==
    ASSUME StreamInv, UNCHANGED vars
    PROVE  StreamInv'
<1>1. Inv'
    BY OutsideInv DEF StreamInv
<1>2. TypeOK' /\ ReceivedOK' /\ (reader' = "done" /\ CommandsApart => Done')
    BY DEF StreamInv, TypeOK, ReceivedOK, Done
<1>3. ASSUME NEW S, Only(S) PROVE Only(S)'
    BY <1>3 DEF Only
<1>4. ASSUME NEW x, NEW p, ConnectingAt(x, p) PROVE ConnectingAt(x, p)'
  <2>1. ParserAt(<<Connected>>, p)'
    BY <1>4, ParserSame DEF ConnectingAt
  <2>2. Behind' = Behind
    BY DEF Behind
  <2> QED BY <1>4, <2>1, <2>2 DEF ConnectingAt
<1>5. Connecting => Connecting'
    BY <1>3, <1>4 DEF Connecting, Fresh
<1>6. Stuck => Stuck'
    BY <1>3 DEF Stuck
<1>7. ASSUME NEW script, NEW p, StreamAt(script, p) PROVE StreamAt(script, p)'
  <2>1. (Swallowing \/ ParserAt(script, p))'
    BY <1>7, ParserSame DEF StreamAt, Swallowing
  <2>2. IsScript(script)' /\ ReaderAt(p)'
    BY <1>7 DEF StreamAt, IsScript, ReaderAt, Swallowing
  <2> QED BY <1>7, <2>1, <2>2 DEF StreamAt
<1> QED BY <1>1, <1>2, <1>5, <1>6, <1>7 DEF StreamInv, Follows

(* Whoever reads, and wherever chunks end and readers take over, the bytes *)
(* that the parser has not seen are the rest of what the server wrote,     *)
(* from a place that fits the state of the parser and of the reader; or    *)
(* they are what is left of an ERROR whose beginning was thrown away.      *)
THEOREM StreamInvariant == Spec => []StreamInv
<1>1. ASSUME StreamInv, [Next]_vars PROVE StreamInv'
  <2>1. Inv'
    BY <1>1, StepInv DEF StreamInv
  <2>2. CASE Server
    BY <1>1, <2>2, ServerInv
  <2>3. ASSUME NEW n \in Nat, Take(n), packets' \in Seq(Nat) PROVE StreamInv'
    BY <1>1, <2>1, <2>3, TakeStep DEF StreamInv, Follows
  <2>4. ASSUME NEW n \in 1 .. read_max_chunk_size, Read(n) PROVE StreamInv'
    <3>1. n \in Nat /\ Take(n) /\ packets' \in Seq(Nat)
      BY <1>1, <2>4, ParserAssumption DEF Read, StreamInv, TypeOK
    <3> QED BY <2>3, <3>1
  <2>5. CASE Recv
    <3>1. Head(packets) \in Nat /\ Take(Head(packets)) /\ packets' \in Seq(Nat)
      BY <1>1, <2>5, HeadTailProperties DEF Recv, StreamInv, TypeOK
    <3> QED BY <2>3, <3>1
  <2>6. CASE Disconnect
    BY <1>1, <2>1, <2>6, DisconnectStep DEF StreamInv, Follows
  <2>7. CASE parse_frames_from_chunk
    BY <1>1, <2>7, ParserStreamInv
  <2>8. CASE UNCHANGED vars
    BY <1>1, <2>8, StutterInv
  <2> QED BY <1>1, <2>2, <2>4, <2>5, <2>6, <2>7, <2>8 DEF Next
<1> QED BY <1>1, InitStream, PTL DEF Spec

\* When everything is read, the parser is at the end of the script.
LEMMA AllRead ==
    ASSUME StreamInv, Follows, wire = <<>>, chunk = <<>>
    PROVE  \E script, p : IsScript(script) /\ ReaderAt(p) /\ p.done = Len(script)
<1>1. PICK script, p : StreamAt(script, p)
    BY DEF StreamInv
<1>2. chunk \o wire = <<>>
    BY ConcatEmptySeq, EmptySeq
<1>3. Leads(script, eol, <<>>, p)
    BY <1>1, <1>2, Zenon DEF StreamAt
<1>4. p = [done |-> Len(script), rest |-> <<>>, frames |-> 0]
    BY <1>3, NoMore
<1> QED BY <1>1, <1>4 DEF StreamAt

(* The listener gets exactly the messages that the server sent, in their   *)
(* order, with their headers and bodies, up to the first one with a        *)
(* negative content-length: any bodies, of any length, those that look     *)
(* like frames included, in chunks of any size.  An ERROR is lost only if  *)
(* it began in the chunk that CONNECTED ended in.                          *)
THEOREM FramesInOrderAlways == Spec => []FramesInOrder
<1>1. ASSUME StreamInv PROVE FramesInOrder
  <2> DEFINE n == Len(received)
             m == Len(sent)
  <2>1. /\ n \in Nat /\ m \in Nat /\ n <= m /\ DOMAIN received = 1 .. n /\ DOMAIN sent = 1 .. m
        /\ \A i \in 1 .. n : received[i] = Yielded(sent[i]) /\ ~Negative(sent[i])
    BY <1>1, LenProperties DEF StreamInv, ReceivedOK, TypeOK
  <2>2. errorDropped => received = <<>> /\ n = 0
    BY <1>1 DEF StreamInv, Stuck
  <2> HIDE DEF n, m
  <2>3. ASSUME NEW i \in 1 .. n PROVE i \in Readable
    <3>1. i \in 1 .. m /\ \A j \in 1 .. i : j \in 1 .. n
      BY <2>1
    <3>2. ~errorDropped
      BY <2>1, <2>2
    <3> QED BY <2>1, <3>1, <3>2 DEF Readable
  <2>4. ASSUME reader = "listening", wire = <<>>, chunk = <<>>, NEW i \in Readable PROVE i \in 1 .. n
    <3>1. i \in 1 .. m /\ ~errorDropped /\ \A j \in 1 .. i : ~Negative(sent[j])
      BY <2>1, <2>4 DEF Readable
    <3>2. PICK script, p : IsScript(script) /\ ReaderAt(p) /\ p.done = Len(script)
      BY <1>1, <2>4, <3>1, AllRead DEF Follows
    <3>3. CASE Swallowing
      <4>1. n < m /\ Negative(sent[n + 1])
        BY <2>4, <3>2, <3>3 DEF ReaderAt, n, m
      <4>2. n + 1 \notin 1 .. i
        BY <3>1, <4>1
      <4> QED BY <2>1, <3>1, <4>2
    <3>4. CASE ~Swallowing
      <4>1. n + 1 = Len(script) /\ Len(script) = 1 + m
        BY <2>1, <2>4, <3>2, <3>4 DEF ReaderAt, IsScript, n, m
      <4> QED BY <2>1, <3>1, <4>1
    <3> QED BY <3>3, <3>4
  <2> QED BY <2>1, <2>3, <2>4 DEF FramesInOrder
<1> QED BY <1>1, StreamInvariant, PTL

(* If no body spells a command, the reader that ends a connection finds    *)
(* the RECEIPT that answers its DISCONNECT, and no sooner than it was      *)
(* sent, although it may begin inside a frame: any frame, cut anywhere.    *)
(* Only a message with a negative content-length can keep it from that.    *)
THEOREM ReceiptFoundAlways ==
    ASSUME CommandsApart
    PROVE  Spec => []ReceiptFound
<1>1. ASSUME StreamInv PROVE ReceiptFound
  <2>1. reader = "done" => receipt
    BY <1>1 DEF StreamInv, Done
  <2>2. ASSUME receipt, wire = <<>>, chunk = <<>>, reader # "done"
        PROVE  \E i \in DOMAIN sent : Negative(sent[i])
    <3>1. Len(sent) \in Nat /\ DOMAIN sent = 1 .. Len(sent)
      BY <1>1, LenProperties DEF StreamInv, TypeOK
    <3>2. Follows
      BY <1>1, <2>2 DEF StreamInv, TypeOK, Follows, Connecting, Stuck
    <3>3. PICK script, p : IsScript(script) /\ ReaderAt(p) /\ p.done = Len(script)
      BY <1>1, <2>2, <3>2, AllRead
    <3>4. reader = "closing" /\ Len(script) = 2 + Len(sent)
      BY <2>2, <3>1, <3>2, <3>3 DEF Follows, ReaderAt, IsScript
    <3>5. Swallowing
      BY <2>2, <3>1, <3>3, <3>4 DEF ReaderAt
    <3> QED BY <3>1, <3>3, <3>4, <3>5 DEF ReaderAt
  <2> QED BY <2>1, <2>2 DEF ReceiptFound
<1> QED BY <1>1, StreamInvariant, PTL
=============================================================================
