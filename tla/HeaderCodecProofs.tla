------------------------- MODULE HeaderCodecProofs --------------------------
(***************************************************************************)
(* RoundTrip, for headers of any length over any characters: parse_header  *)
(* undoes what dump_frame has done to a key and a value.                   *)
(***************************************************************************)
EXTENDS HeaderCodec, SequenceFacts

USE DEF None

(* The characters of text from the i-th one on, and those before it. *)
From(text, i) == SubSeq(text, i, Len(text))
Before(text, i) == SubSeq(text, 1, i - 1)

(* A character of a text as WithoutCarriage keeps it. *)
Kept(char) == IF char = CARRIAGE THEN <<>> ELSE <<char>>

Texts == Seq(Characters)

\* The strings of the model are texts.
LEMMA StringsAreTexts == Strings \subseteq Texts
BY SeqDef, CodecAssumption DEF Strings, Texts

\* The kinds of characters, and what becomes of each when it is written and read.
LEMMA Escapes ==
    ASSUME NEW char \in Characters
    PROVE  /\ HEADER_ESCAPE_CHARS(char) \in Texts
           /\ Kept(char) \in Texts
           /\ \/ char = CARRIAGE /\ HEADER_ESCAPE_CHARS(char) = <<>> /\ Kept(char) = <<>>
              \/ /\ Kept(char) = <<char>>
                 /\ char # BACKSLASH /\ char # COLON
                 /\ HEADER_ESCAPE_CHARS(char) = <<char>>
              \/ /\ Kept(char) = <<char>>
                 /\ \E x \in Characters :
                        /\ HEADER_ESCAPE_CHARS(char) = <<BACKSLASH, x>>
                        /\ x # COLON
                        /\ HEADER_UNESCAPE_CHARS(x) = <<char>>
<1>1. BACKSLASH # COLON /\ CARRIAGE # BACKSLASH /\ CARRIAGE # COLON /\ NEWLINE # CARRIAGE /\ NEWLINE # COLON
      /\ NEWLINE # BACKSLASH
    BY DEF NEWLINE, CARRIAGE, BACKSLASH, COLON
<1>2. "n" \in Characters /\ "c" \in Characters /\ BACKSLASH \in Characters
    BY CodecAssumption DEF Characters
<1>3. "n" # COLON /\ "c" # COLON /\ "n" # BACKSLASH /\ "c" # BACKSLASH /\ "n" # "c"
    BY CodecAssumption DEF BACKSLASH, COLON
<1>4. HEADER_UNESCAPE_CHARS("n") = <<NEWLINE>> /\ HEADER_UNESCAPE_CHARS("c") = <<COLON>>
      /\ HEADER_UNESCAPE_CHARS(BACKSLASH) = <<BACKSLASH>>
    BY <1>3 DEF HEADER_UNESCAPE_CHARS
<1>5. CASE char = NEWLINE
  <2>1. HEADER_ESCAPE_CHARS(char) = <<BACKSLASH, "n">> /\ Kept(char) = <<char>>
    BY <1>1, <1>5 DEF HEADER_ESCAPE_CHARS, Kept
  <2> QED BY <1>2, <1>3, <1>4, <1>5, <2>1 DEF Texts
<1>6. CASE char = COLON
  <2>1. HEADER_ESCAPE_CHARS(char) = <<BACKSLASH, "c">> /\ Kept(char) = <<char>>
    BY <1>1, <1>6 DEF HEADER_ESCAPE_CHARS, Kept
  <2> QED BY <1>2, <1>3, <1>4, <1>6, <2>1 DEF Texts
<1>7. CASE char = BACKSLASH
  <2>1. HEADER_ESCAPE_CHARS(char) = <<BACKSLASH, BACKSLASH>> /\ Kept(char) = <<char>>
    BY <1>1, <1>7 DEF HEADER_ESCAPE_CHARS, Kept
  <2> QED BY <1>1, <1>2, <1>4, <1>7, <2>1 DEF Texts
<1>8. CASE char = CARRIAGE
  <2>1. HEADER_ESCAPE_CHARS(char) = <<>> /\ Kept(char) = <<>>
    BY <1>1, <1>8 DEF HEADER_ESCAPE_CHARS, Kept
  <2> QED BY <1>8, <2>1 DEF Texts
<1>9. CASE char \notin {NEWLINE, COLON, BACKSLASH, CARRIAGE}
  <2>1. HEADER_ESCAPE_CHARS(char) = <<char>> /\ Kept(char) = <<char>>
    BY <1>9 DEF HEADER_ESCAPE_CHARS, Kept
  <2> QED BY <1>9, <2>1 DEF Texts
<1> QED BY <1>5, <1>6, <1>7, <1>8, <1>9

-----------------------------------------------------------------------------
(* Escaped and WithoutCarriage, character by character. *)

EscapedParts(text) == [i \in DOMAIN text |-> HEADER_ESCAPE_CHARS(text[i])]
KeptParts(text) == [i \in DOMAIN text |-> Kept(text[i])]

\* A text is escaped character by character.
LEMMA PartsType ==
    ASSUME NEW text \in Texts
    PROVE  /\ EscapedParts(text) \in Seq(Texts) /\ Len(EscapedParts(text)) = Len(text)
           /\ \A i \in 1 .. Len(text) : EscapedParts(text)[i] = HEADER_ESCAPE_CHARS(text[i])
           /\ KeptParts(text) \in Seq(Texts) /\ Len(KeptParts(text)) = Len(text)
           /\ \A i \in 1 .. Len(text) : KeptParts(text)[i] = Kept(text[i])
<1>1. DOMAIN text = 1 .. Len(text) /\ Len(text) \in Nat /\ \A i \in 1 .. Len(text) : text[i] \in Characters
    BY LenProperties, ElementOfSeq DEF Texts
<1>2. \A i \in 1 .. Len(text) : HEADER_ESCAPE_CHARS(text[i]) \in Texts /\ Kept(text[i]) \in Texts
    BY <1>1, Escapes
<1>3. EscapedParts(text) \in [1 .. Len(text) -> Texts] /\ KeptParts(text) \in [1 .. Len(text) -> Texts]
    BY <1>1, <1>2 DEF EscapedParts, KeptParts
<1>4. EscapedParts(text) \in Seq(Texts) /\ KeptParts(text) \in Seq(Texts)
    BY <1>1, <1>3, SeqDef
<1>5. Len(EscapedParts(text)) = Len(text) /\ Len(KeptParts(text)) = Len(text)
    BY <1>1, <1>3, <1>4, LenProperties
<1> QED BY <1>1, <1>4, <1>5 DEF EscapedParts, KeptParts

\* An escaped text, and one without its carriage returns, is a text.
LEMMA EscapedType ==
    ASSUME NEW text \in Texts
    PROVE  Escaped(text) \in Texts /\ WithoutCarriage(text) \in Texts
<1>1. Escaped(text) = FlattenSeq(EscapedParts(text)) /\ WithoutCarriage(text) = FlattenSeq(KeptParts(text))
    BY DEF Escaped, EscapedParts, WithoutCarriage, KeptParts, Kept
<1>2. EscapedParts(text) \in Seq(Seq(Characters)) /\ KeptParts(text) \in Seq(Seq(Characters))
    BY PartsType DEF Texts
<1> QED BY <1>1, <1>2, FlattenType DEF Texts

\* Nothing is escaped to nothing.
LEMMA EscapedEmpty == Escaped(<<>>) = <<>> /\ WithoutCarriage(<<>>) = <<>>
<1>1. DOMAIN <<>> = {}
    OBVIOUS
<1>2. <<>> \in Texts /\ Len(<<>>) = 0
    BY EmptySeq DEF Texts
<1>3. EscapedParts(<<>>) = <<>> /\ KeptParts(<<>>) = <<>>
    BY <1>2, PartsType, EmptySeq
<1> QED BY <1>3, FlattenEmpty DEF Escaped, EscapedParts, WithoutCarriage, KeptParts, Kept

\* A text without its first characters.
LEMMA FromType ==
    ASSUME NEW text \in Texts, NEW i \in 1 .. Len(text) + 1
    PROVE  /\ From(text, i) \in Texts
           /\ Len(From(text, i)) = Len(text) + 1 - i
           /\ \A j \in 1 .. Len(text) + 1 - i : From(text, i)[j] = text[i + j - 1]
           /\ Before(text, i) \in Texts
           /\ Len(Before(text, i)) = i - 1
           /\ \A j \in 1 .. i - 1 : Before(text, i)[j] = text[j]
           /\ From(text, Len(text) + 1) = <<>>
           /\ From(text, 1) = text
           /\ Before(text, Len(text) + 1) = text
           /\ Before(text, 1) = <<>>
<1>1. Len(text) \in Nat /\ \A j \in 1 .. Len(text) : text[j] \in Characters
    BY LenProperties, ElementOfSeq DEF Texts
<1>2. /\ From(text, i) \in Texts
      /\ Len(From(text, i)) = Len(text) + 1 - i
      /\ \A j \in 1 .. Len(text) + 1 - i : From(text, i)[j] = text[i + j - 1]
  <2>1. \A j \in i .. Len(text) : text[j] \in Characters
    BY <1>1
  <2> QED BY <1>1, <2>1, SubSeqProperties DEF From, Texts
<1>3. /\ Before(text, i) \in Texts
      /\ Len(Before(text, i)) = i - 1
      /\ \A j \in 1 .. i - 1 : Before(text, i)[j] = text[j]
  <2>1. \A j \in 1 .. i - 1 : text[j] \in Characters
    BY <1>1
  <2> QED BY <1>1, <2>1, SubSeqProperties DEF Before, Texts
<1>4. From(text, Len(text) + 1) = <<>> /\ Before(text, 1) = <<>>
    BY <1>1, SubSeqEmpty DEF From, Before
<1>5. From(text, 1) = text /\ Before(text, Len(text) + 1) = text
    BY <1>1, SubSeqFull DEF From, Before, Texts
<1> QED BY <1>2, <1>3, <1>4, <1>5

\* The escaped text begins with its first character, escaped.
LEMMA EscapedFirst ==
    ASSUME NEW text \in Texts, NEW i \in 1 .. Len(text)
    PROVE  Escaped(From(text, i)) = HEADER_ESCAPE_CHARS(text[i]) \o Escaped(From(text, i + 1))
<1> DEFINE here == From(text, i)
           next == From(text, i + 1)
           char == text[i]
           n == Len(text)
<1>1. /\ n \in Nat /\ char \in Characters
      /\ here \in Texts /\ Len(here) = n + 1 - i /\ \A j \in 1 .. n + 1 - i : here[j] = text[i + j - 1]
      /\ next \in Texts /\ Len(next) = n - i /\ \A j \in 1 .. n - i : next[j] = text[i + j]
  <2>1. n \in Nat /\ char \in Characters /\ i \in 1 .. n + 1 /\ i + 1 \in 1 .. n + 1
    BY LenProperties, ElementOfSeq DEF Texts
  <2>2. here \in Texts /\ Len(here) = n + 1 - i /\ \A j \in 1 .. n + 1 - i : here[j] = text[i + j - 1]
    BY <2>1, FromType
  <2>3. /\ next \in Texts /\ Len(next) = n + 1 - (i + 1)
        /\ \A j \in 1 .. n + 1 - (i + 1) : next[j] = text[(i + 1) + j - 1]
    BY <2>1, FromType
  <2>4. n + 1 - (i + 1) = n - i /\ \A j \in 1 .. n - i : (i + 1) + j - 1 = i + j
    BY <2>1
  <2> QED BY <2>1, <2>2, <2>3, <2>4
<1>2. HEADER_ESCAPE_CHARS(char) \in Texts /\ EscapedParts(next) \in Seq(Texts) /\ EscapedParts(here) \in Seq(Texts)
    BY <1>1, Escapes, PartsType
<1> HIDE DEF here, next, char, n
<1> DEFINE both == <<HEADER_ESCAPE_CHARS(char)>> \o EscapedParts(next)
<1>3. /\ both \in Seq(Texts) /\ Len(both) = n + 1 - i
      /\ \A j \in 1 .. n + 1 - i : both[j] = IF j = 1 THEN HEADER_ESCAPE_CHARS(char) ELSE EscapedParts(next)[j - 1]
  <2>1. <<HEADER_ESCAPE_CHARS(char)>> \in Seq(Texts) /\ Len(<<HEADER_ESCAPE_CHARS(char)>>) = 1
    BY <1>2
  <2>2. Len(EscapedParts(next)) = n - i
    BY <1>1, PartsType
  <2> QED BY <1>1, <1>2, <2>1, <2>2, ConcatProperties DEF n
<1> HIDE DEF both
<1>4. ASSUME NEW j \in 1 .. n + 1 - i PROVE EscapedParts(here)[j] = both[j]
  <2>1. EscapedParts(here)[j] = HEADER_ESCAPE_CHARS(here[j]) /\ here[j] = text[i + j - 1]
    BY <1>1, PartsType
  <2>2. CASE j = 1
    BY <1>1, <1>3, <2>1, <2>2 DEF char
  <2>3. CASE j # 1
    <3>1. j - 1 \in 1 .. n - i /\ i + (j - 1) = i + j - 1
      BY <1>1, <2>3
    <3>2. EscapedParts(next)[j - 1] = HEADER_ESCAPE_CHARS(next[j - 1]) /\ next[j - 1] = text[i + (j - 1)]
      BY <1>1, <3>1, PartsType
    <3> QED BY <1>3, <2>1, <2>3, <3>1, <3>2
  <2> QED BY <2>2, <2>3
<1>5. EscapedParts(here) = both
  <2>1. Len(EscapedParts(here)) = n + 1 - i
    BY <1>1, PartsType
  <2> QED BY <1>2, <1>3, <1>4, <2>1, SeqEqual
<1>6. FlattenSeq(both) = HEADER_ESCAPE_CHARS(char) \o FlattenSeq(EscapedParts(next))
    BY <1>2, FlattenCons DEF both, Texts
<1>7. Escaped(here) = FlattenSeq(EscapedParts(here)) /\ Escaped(next) = FlattenSeq(EscapedParts(next))
    BY DEF Escaped, EscapedParts
<1> QED BY <1>5, <1>6, <1>7 DEF here, next, char

\* One more character, without its carriage returns.
LEMMA KeptLast ==
    ASSUME NEW text \in Texts, NEW i \in 1 .. Len(text)
    PROVE  WithoutCarriage(Before(text, i + 1)) = WithoutCarriage(Before(text, i)) \o Kept(text[i])
<1> DEFINE here == Before(text, i)
           next == Before(text, i + 1)
           char == text[i]
<1>1. /\ char \in Characters
      /\ here \in Texts /\ Len(here) = i - 1 /\ \A j \in 1 .. i - 1 : here[j] = text[j]
      /\ next \in Texts /\ Len(next) = i /\ \A j \in 1 .. i : next[j] = text[j]
  <2>1. char \in Characters /\ i \in 1 .. Len(text) + 1 /\ i + 1 \in 1 .. Len(text) + 1 /\ (i + 1) - 1 = i
    BY LenProperties, ElementOfSeq DEF Texts
  <2>2. here \in Texts /\ Len(here) = i - 1 /\ \A j \in 1 .. i - 1 : here[j] = text[j]
    BY <2>1, FromType
  <2>3. next \in Texts /\ Len(next) = (i + 1) - 1 /\ \A j \in 1 .. (i + 1) - 1 : next[j] = text[j]
    BY <2>1, FromType
  <2> QED BY <2>1, <2>2, <2>3
<1>2. Kept(char) \in Texts /\ KeptParts(here) \in Seq(Texts) /\ KeptParts(next) \in Seq(Texts)
    BY <1>1, Escapes, PartsType
<1> HIDE DEF here, next, char
<1> DEFINE both == Append(KeptParts(here), Kept(char))
<1>3. /\ both \in Seq(Texts) /\ Len(both) = i
      /\ \A j \in 1 .. i - 1 : both[j] = KeptParts(here)[j]
      /\ both[i] = Kept(char)
  <2>1. Len(KeptParts(here)) = i - 1
    BY <1>1, PartsType
  <2>2. /\ Len(both) = Len(KeptParts(here)) + 1 /\ both[Len(KeptParts(here)) + 1] = Kept(char)
        /\ \A j \in 1 .. Len(KeptParts(here)) : both[j] = KeptParts(here)[j]
        /\ both \in Seq(Texts)
    BY <1>2, AppendProperties
  <2>3. Len(KeptParts(here)) + 1 = i
    BY <2>1
  <2> HIDE DEF both
  <2>4. both[i] = Kept(char) /\ Len(both) = i
    BY <2>2, <2>3, Zenon
  <2>5. \A j \in 1 .. i - 1 : both[j] = KeptParts(here)[j]
    BY <2>1, <2>2, Zenon
  <2> QED BY <2>2, <2>4, <2>5
<1> HIDE DEF both
<1>4. ASSUME NEW j \in 1 .. i PROVE KeptParts(next)[j] = both[j]
  <2>1. KeptParts(next)[j] = Kept(text[j])
    BY <1>1, PartsType
  <2>2. CASE j = i
    BY <1>3, <2>1, <2>2 DEF char
  <2>3. CASE j # i
    <3>1. j \in 1 .. i - 1
      BY <2>3
    <3>2. KeptParts(here)[j] = Kept(text[j])
      BY <1>1, <3>1, PartsType
    <3> QED BY <1>3, <2>1, <3>1, <3>2
  <2> QED BY <2>2, <2>3
<1>5. KeptParts(next) = both
  <2>1. Len(KeptParts(next)) = i
    BY <1>1, PartsType
  <2> QED BY <1>2, <1>3, <1>4, <2>1, SeqEqual
<1>6. FlattenSeq(both) = FlattenSeq(KeptParts(here)) \o Kept(char)
    BY <1>2, FlattenAppend DEF both, Texts
<1>7. WithoutCarriage(here) = FlattenSeq(KeptParts(here)) /\ WithoutCarriage(next) = FlattenSeq(KeptParts(next))
    BY DEF WithoutCarriage, KeptParts, Kept
<1> QED BY <1>5, <1>6, <1>7 DEF here, next, char

\* Nothing is escaped in a text of plain characters.
LEMMA EscapedPlain ==
    ASSUME NEW text \in Texts, \A i \in 1 .. Len(text) : text[i] \in Plain
    PROVE  Escaped(text) = text
<1> DEFINE n == Len(text)
           Good == {k \in Nat : k <= n => Escaped(From(text, n + 1 - k)) = From(text, n + 1 - k)}
<1>1. n \in Nat /\ From(text, n + 1) = <<>> /\ From(text, 1) = text
  <2>1. n \in Nat
    BY LenProperties DEF Texts
  <2>2. 1 \in 1 .. n + 1
    BY <2>1
  <2> QED BY <2>1, <2>2, FromType
<1>2. 0 \in Good
  <2>1. n + 1 - 0 = n + 1
    BY <1>1
  <2> QED BY <1>1, <2>1, EscapedEmpty
<1>3. ASSUME NEW k \in Nat, k \in Good PROVE k + 1 \in Good
  <2> SUFFICES ASSUME k + 1 <= n
               PROVE  Escaped(From(text, n + 1 - (k + 1))) = From(text, n + 1 - (k + 1))
    OBVIOUS
  <2> DEFINE i == n + 1 - (k + 1)
  <2>1. i \in 1 .. n /\ i + 1 = n + 1 - k
    BY <1>1
  <2>2. Escaped(From(text, i + 1)) = From(text, i + 1)
    BY <1>1, <1>3, <2>1
  <2>3. HEADER_ESCAPE_CHARS(text[i]) = <<text[i]>>
    <3>1. text[i] \in Plain
      BY <2>1
    <3>2. text[i] \notin {NEWLINE, CARRIAGE, BACKSLASH, COLON}
      BY <3>1, CodecAssumption
    <3> QED BY <3>2 DEF HEADER_ESCAPE_CHARS
  <2>4. From(text, i) = <<text[i]>> \o From(text, i + 1)
    <3>1. n \in i .. Len(text)
      BY <1>1, <2>1
    <3> QED BY <2>1, <3>1, SubSeqRecursiveFirst DEF From, Texts
  <2>5. Escaped(From(text, i)) = HEADER_ESCAPE_CHARS(text[i]) \o Escaped(From(text, i + 1))
    BY <2>1, EscapedFirst
  <2> HIDE DEF i
  <2>6. Escaped(From(text, i)) = From(text, i)
    BY <2>2, <2>3, <2>4, <2>5, Zenon
  <2> QED BY <2>6 DEF i
<1>4. Escaped(From(text, n + 1 - n)) = From(text, n + 1 - n)
  <2>1. Nat \subseteq Good
    <3> HIDE DEF Good
    <3> QED BY <1>2, <1>3, Induction
  <2>2. n \in Good /\ n <= n
    BY <1>1, <2>1
  <2> QED BY <2>2
<1>5. n + 1 - n = 1
    BY <1>1
<1> QED BY <1>1, <1>4, <1>5

-----------------------------------------------------------------------------
(* Where parse_header is in a text, given what is left of the line, the    *)
(* previous byte and just_escaped_line: between two characters, before the *)
(* i-th one, or inside, after the backslash that its escape begins with.   *)
(* buffer is what was read of the text, and rest is what follows it.       *)
Between(left, previous, escaped, text, buffer, rest, i) ==
    /\ left = Escaped(From(text, i)) \o rest
    /\ buffer = WithoutCarriage(Before(text, i))
    /\ escaped \/ previous # <<BACKSLASH>>

Inside(left, previous, escaped, text, buffer, rest, i) ==
    /\ i <= Len(text)
    /\ \E x \in Characters :
          /\ HEADER_ESCAPE_CHARS(text[i]) = <<BACKSLASH, x>>
          /\ left = <<x>> \o (Escaped(From(text, i + 1)) \o rest)
    /\ buffer = WithoutCarriage(Before(text, i))
    /\ ~escaped
    /\ previous = <<BACKSLASH>>

At(left, previous, escaped, text, buffer, rest) ==
    \E i \in 1 .. Len(text) + 1 :
        \/ Between(left, previous, escaped, text, buffer, rest, i)
        \/ Inside(left, previous, escaped, text, buffer, rest, i)

InKey == /\ result = "reading" /\ ~key_parsed
         /\ value_buffer = <<>>
         /\ At(line, previous_byte, just_escaped_line, key, key_buffer, <<COLON>> \o Escaped(value))
InValue == /\ result = "reading" /\ key_parsed
           /\ key_buffer = WithoutCarriage(key)
           /\ At(line, previous_byte, just_escaped_line, value, value_buffer, <<>>)
Parsed == /\ result = "parsed"
          /\ key_buffer = WithoutCarriage(key)
          /\ value_buffer = WithoutCarriage(value)

Inv == /\ key \in Texts /\ value \in Texts
       /\ key_parsed \in BOOLEAN /\ just_escaped_line \in BOOLEAN
       /\ Readable => InKey \/ InValue \/ Parsed

\* Carriage returns are not written, so the position can be taken to be past them.
LEMMA PastCarriages ==
    ASSUME NEW text \in Texts, NEW rest \in Texts, NEW buffer,
           NEW left, NEW previous, NEW escaped,
           \E i \in 1 .. Len(text) + 1 : Between(left, previous, escaped, text, buffer, rest, i)
    PROVE  \E i \in 1 .. Len(text) + 1 :
              /\ Between(left, previous, escaped, text, buffer, rest, i)
              /\ i <= Len(text) => text[i] # CARRIAGE
<1> DEFINE Places == {k \in 0 .. Len(text) : Between(left, previous, escaped, text, buffer, rest, Len(text) + 1 - k)}
<1>1. Len(text) \in Nat
    BY LenProperties DEF Texts
<1>2. Places \in SUBSET Nat /\ Places # {}
  <2>1. PICK i \in 1 .. Len(text) + 1 : Between(left, previous, escaped, text, buffer, rest, i)
    OBVIOUS
  <2>2. Len(text) + 1 - i \in 0 .. Len(text) /\ Len(text) + 1 - (Len(text) + 1 - i) = i
    BY <1>1
  <2>3. Len(text) + 1 - i \in Places
    BY <2>1, <2>2
  <2>4. Places \subseteq Nat
    BY <1>1
  <2> HIDE DEF Places
  <2> QED BY <2>3, <2>4
<1>3. PICK k \in Places : \A m \in Places : k <= m
    BY <1>2, LeastNumber
<1> DEFINE i == Len(text) + 1 - k
<1>4. i \in 1 .. Len(text) + 1 /\ Between(left, previous, escaped, text, buffer, rest, i)
    BY <1>1, <1>3
<1>5. ASSUME i <= Len(text), text[i] = CARRIAGE PROVE FALSE
  <2>1. i \in 1 .. Len(text) /\ k - 1 \in 0 .. Len(text) /\ i + 1 = Len(text) + 1 - (k - 1)
    BY <1>1, <1>3, <1>5
  <2> HIDE DEF i
  <2>2. HEADER_ESCAPE_CHARS(text[i]) = <<>> /\ Kept(text[i]) = <<>>
    BY <1>5 DEF HEADER_ESCAPE_CHARS, Kept, NEWLINE, COLON, BACKSLASH, CARRIAGE
  <2>3. From(text, i + 1) \in Texts /\ Before(text, i) \in Texts
    <3>1. i \in 1 .. Len(text) + 1 /\ i + 1 \in 1 .. Len(text) + 1
      BY <1>1, <2>1
    <3> QED BY <3>1, FromType
  <2>4. Escaped(From(text, i)) = Escaped(From(text, i + 1))
    <3>1. Escaped(From(text, i)) = <<>> \o Escaped(From(text, i + 1))
      BY <2>1, <2>2, EscapedFirst
    <3>2. Escaped(From(text, i + 1)) \in Seq(Characters)
      BY <2>3, EscapedType DEF Texts
    <3>3. <<>> \o Escaped(From(text, i + 1)) = Escaped(From(text, i + 1))
      BY <3>2, ConcatEmptySeq
    <3> QED BY <3>1, <3>3, Zenon
  <2>5. WithoutCarriage(Before(text, i + 1)) = WithoutCarriage(Before(text, i))
    <3>1. WithoutCarriage(Before(text, i + 1)) = WithoutCarriage(Before(text, i)) \o <<>>
      BY <2>1, <2>2, KeptLast
    <3>2. WithoutCarriage(Before(text, i)) \in Seq(Characters)
      BY <2>3, EscapedType DEF Texts
    <3>3. WithoutCarriage(Before(text, i)) \o <<>> = WithoutCarriage(Before(text, i))
      BY <3>2, ConcatEmptySeq
    <3> QED BY <3>1, <3>3, Zenon
  <2>6. Between(left, previous, escaped, text, buffer, rest, i + 1)
    BY <1>4, <2>4, <2>5 DEF Between
  <2>7. k - 1 \in Places
    BY <2>1, <2>6
  <2> QED BY <1>2, <1>3, <2>7
<1> HIDE DEF i
<1> QED BY <1>4, <1>5

\* What is still to be read, position by position.
LEMMA RestType ==
    ASSUME NEW text \in Texts, NEW rest \in Texts, NEW i \in 1 .. Len(text)
    PROVE  /\ Escaped(From(text, i + 1)) \o rest \in Texts
           /\ Escaped(From(text, i)) \o rest
                  = HEADER_ESCAPE_CHARS(text[i]) \o (Escaped(From(text, i + 1)) \o rest)
           /\ text[i] \in Characters
           /\ i + 1 \in 1 .. Len(text) + 1
<1>1. i + 1 \in 1 .. Len(text) + 1 /\ text[i] \in Characters
    BY LenProperties, ElementOfSeq DEF Texts
<1>2. From(text, i + 1) \in Texts
    BY <1>1, FromType
<1>3. Escaped(From(text, i + 1)) \in Seq(Characters) /\ HEADER_ESCAPE_CHARS(text[i]) \in Seq(Characters)
    BY <1>1, <1>2, EscapedType, Escapes DEF Texts
<1>4. Escaped(From(text, i + 1)) \o rest \in Texts
    BY <1>3, ConcatProperties DEF Texts
<1>5. (HEADER_ESCAPE_CHARS(text[i]) \o Escaped(From(text, i + 1))) \o rest
          = HEADER_ESCAPE_CHARS(text[i]) \o (Escaped(From(text, i + 1)) \o rest)
  <2> DEFINE char == HEADER_ESCAPE_CHARS(text[i])
             next == Escaped(From(text, i + 1))
  <2>1. char \in Seq(Characters) /\ next \in Seq(Characters) /\ rest \in Seq(Characters)
    BY <1>3 DEF Texts
  <2> HIDE DEF char, next
  <2>2. Cat(Cat(char, next), rest) = Cat(char, Cat(next, rest))
    BY <2>1, CatAssociative
  <2> QED BY <2>2, Zenon DEF Cat, char, next
<1>6. Escaped(From(text, i)) = HEADER_ESCAPE_CHARS(text[i]) \o Escaped(From(text, i + 1))
    BY EscapedFirst
<1> QED BY <1>1, <1>4, <1>5, <1>6, Zenon

(* A byte of a text is read: what JustEscaped and Unescape extend by, and  *)
(* what they make of just_escaped_line.                                    *)
ByteRead(left, previous, escaped, bytes, escaped_) ==
    IF escaped
    THEN /\ bytes = IF Head(left) = BACKSLASH THEN <<>> ELSE <<Head(left)>>
         /\ escaped_ = FALSE
    ELSE /\ bytes = unescape_byte(Head(left), previous)
         /\ escaped_ = (bytes # None)

\* Inside an escape the next byte completes the character.
LEMMA InsideStep ==
    ASSUME NEW text \in Texts, NEW rest \in Texts, NEW buffer, NEW bytes,
           NEW left, NEW previous, NEW escaped, NEW escaped_,
           NEW i \in 1 .. Len(text) + 1, Inside(left, previous, escaped, text, buffer, rest, i),
           ByteRead(left, previous, escaped, bytes, escaped_)
    PROVE  /\ left # <<>> /\ Head(left) # COLON
           /\ i + 1 \in 1 .. Len(text) + 1
           /\ Between(Tail(left), <<Head(left)>>, escaped_, text, buffer \o bytes, rest, i + 1)
<1>1. i \in 1 .. Len(text)
    BY LenProperties DEF Inside, Texts
<1> DEFINE after == Escaped(From(text, i + 1)) \o rest
           char == text[i]
<1>2. after \in Texts /\ char \in Characters /\ i + 1 \in 1 .. Len(text) + 1
    BY <1>1, RestType
<1>3. PICK x \in Characters : HEADER_ESCAPE_CHARS(char) = <<BACKSLASH, x>> /\ left = <<x>> \o after
    BY DEF Inside
<1> HIDE DEF after, char
<1>4. x # COLON /\ HEADER_UNESCAPE_CHARS(x) = <<char>> /\ Kept(char) = <<char>>
  <2>1. HEADER_ESCAPE_CHARS(char) # <<>> /\ HEADER_ESCAPE_CHARS(char) # <<char>>
    BY <1>3
  <2>2. PICK y \in Characters : HEADER_ESCAPE_CHARS(char) = <<BACKSLASH, y>> /\ y # COLON
                                 /\ HEADER_UNESCAPE_CHARS(y) = <<char>> /\ Kept(char) = <<char>>
    BY <1>2, <2>1, Escapes
  <2>3. x = y
    BY <1>3, <2>2
  <2> QED BY <2>2, <2>3
<1>5. left # <<>> /\ Head(left) = x /\ Tail(left) = after
    BY <1>2, <1>3, ConsParts DEF Texts
<1>6. bytes = <<char>> /\ escaped_
  <2>1. bytes = unescape_byte(x, <<BACKSLASH>>) /\ escaped_ = (bytes # <<>>)
    BY <1>5, Zenon DEF ByteRead, Inside
  <2>2. bytes = <<char>>
    BY <1>4, <2>1, Zenon DEF unescape_byte
  <2>3. <<char>> # <<>>
    OBVIOUS
  <2> QED BY <2>1, <2>2, <2>3, Zenon
<1>7. buffer \o bytes = WithoutCarriage(Before(text, i + 1))
    BY <1>1, <1>4, <1>6, KeptLast DEF Inside, char
<1> QED BY <1>2, <1>4, <1>5, <1>6, <1>7 DEF Between, after

\* Between characters the next byte is one, or begins an escape.
LEMMA BetweenStep ==
    ASSUME NEW text \in Texts, NEW rest \in Texts, NEW buffer, NEW bytes,
           NEW left, NEW previous, NEW escaped \in BOOLEAN, NEW escaped_,
           NEW i \in 1 .. Len(text), Between(left, previous, escaped, text, buffer, rest, i), text[i] # CARRIAGE,
           ByteRead(left, previous, escaped, bytes, escaped_)
    PROVE  /\ left # <<>> /\ Head(left) # COLON
           /\ \/ Between(Tail(left), <<Head(left)>>, escaped_, text, buffer \o bytes, rest, i + 1)
              \/ Inside(Tail(left), <<Head(left)>>, escaped_, text, buffer \o bytes, rest, i)
<1> DEFINE after == Escaped(From(text, i + 1)) \o rest
           char == text[i]
<1>1. after \in Texts /\ char \in Characters /\ left = HEADER_ESCAPE_CHARS(char) \o after
    BY RestType DEF Between
<1>2. BACKSLASH \in Characters /\ BACKSLASH # COLON
    BY DEF Characters, BACKSLASH, COLON
<1>3. WithoutCarriage(Before(text, i)) \in Seq(Characters)
  <2>1. i \in 1 .. Len(text) + 1
    BY LenProperties DEF Texts
  <2> QED BY <2>1, FromType, EscapedType DEF Texts
<1>4. CASE /\ Kept(char) = <<char>> /\ char # BACKSLASH /\ char # COLON
           /\ HEADER_ESCAPE_CHARS(char) = <<char>>
  <2>1. left # <<>> /\ Head(left) = char /\ Tail(left) = after
    <3> HIDE DEF after, char
    <3> QED BY <1>1, <1>4, ConsParts DEF Texts
  <2>2. bytes = <<char>>
    <3> HIDE DEF after, char
    <3> QED BY <1>4, <2>1 DEF ByteRead, Between, unescape_byte
  <2>3. buffer \o bytes = WithoutCarriage(Before(text, i + 1))
    <3>1. WithoutCarriage(Before(text, i + 1)) = WithoutCarriage(Before(text, i)) \o Kept(char)
      BY KeptLast
    <3> HIDE DEF char
    <3> QED BY <1>4, <2>2, <3>1 DEF Between
  <2> QED BY <1>4, <2>1, <2>3 DEF Between
<1>5. CASE /\ Kept(char) = <<char>>
           /\ \E x \in Characters : HEADER_ESCAPE_CHARS(char) = <<BACKSLASH, x>>
  <2>1. PICK x \in Characters : HEADER_ESCAPE_CHARS(char) = <<BACKSLASH, x>>
    BY <1>5
  <2>2. left = <<BACKSLASH>> \o (<<x>> \o after) /\ <<x>> \o after \in Seq(Characters)
    <3>1. <<BACKSLASH>> \in Seq(Characters) /\ <<x>> \in Seq(Characters) /\ <<BACKSLASH, x>> = <<BACKSLASH>> \o <<x>>
      BY <1>2
    <3> HIDE DEF after
    <3>2. (<<BACKSLASH>> \o <<x>>) \o after = <<BACKSLASH>> \o (<<x>> \o after)
      <4> DEFINE b == <<BACKSLASH>>
                 c == <<x>>
      <4>1. b \in Seq(Characters) /\ c \in Seq(Characters)
        BY <3>1
      <4> HIDE DEF b, c
      <4>2. Cat(Cat(b, c), after) = Cat(b, Cat(c, after))
        BY <1>1, <4>1, CatAssociative DEF Texts
      <4> QED BY <4>2, Zenon DEF Cat, b, c
    <3>3. <<x>> \o after \in Seq(Characters)
      BY <1>1, <3>1, ConcatProperties DEF Texts
    <3> QED BY <1>1, <2>1, <3>1, <3>2, <3>3, Zenon
  <2>3. left # <<>> /\ Head(left) = BACKSLASH /\ Tail(left) = <<x>> \o after
    <3> HIDE DEF after
    <3> QED BY <1>2, <2>2, ConsParts
  <2>4. bytes = <<>> /\ ~escaped_
    <3> HIDE DEF after
    <3> QED BY <2>3 DEF ByteRead, Between, unescape_byte
  <2>5. buffer \o bytes = WithoutCarriage(Before(text, i))
    <3>1. WithoutCarriage(Before(text, i)) \o <<>> = WithoutCarriage(Before(text, i))
      BY <1>3, ConcatEmptySeq
    <3> QED BY <2>4, <3>1 DEF Between
  <2>6. i <= Len(text)
    BY LenProperties DEF Texts
  <2> QED BY <1>2, <2>1, <2>3, <2>4, <2>5, <2>6 DEF Inside
<1>6. char # CARRIAGE
    OBVIOUS
<1> HIDE DEF char
<1>7. \/ /\ Kept(char) = <<char>> /\ char # BACKSLASH /\ char # COLON
         /\ HEADER_ESCAPE_CHARS(char) = <<char>>
      \/ /\ Kept(char) = <<char>>
         /\ \E x \in Characters : HEADER_ESCAPE_CHARS(char) = <<BACKSLASH, x>>
    BY <1>1, <1>6, Escapes
<1> QED BY <1>4, <1>5, <1>7

(* However a byte is read, that leads to another place in the text. *)
Continues(left, previous, escaped, text, buffer, rest) ==
    \A bytes, escaped_ :
        ByteRead(left, previous, escaped, bytes, escaped_) =>
            At(Tail(left), <<Head(left)>>, escaped_, text, buffer \o bytes, rest)

(* In a text, but for its end: the next byte is no colon, and reading it   *)
(* leads to another place in the text.  At its end, rest is next.          *)
LEMMA AtStep ==
    ASSUME NEW text \in Texts, NEW rest \in Texts, NEW buffer,
           NEW left, NEW previous, NEW escaped \in BOOLEAN,
           At(left, previous, escaped, text, buffer, rest)
    PROVE  \/ left # <<>> /\ Head(left) # COLON /\ Continues(left, previous, escaped, text, buffer, rest)
           \/ /\ left = rest /\ buffer = WithoutCarriage(text)
              /\ escaped \/ previous # <<BACKSLASH>>
<1>0. \E bytes, escaped_ : ByteRead(left, previous, escaped, bytes, escaped_)
    BY Zenon DEF ByteRead
<1>1. CASE \E i \in 1 .. Len(text) + 1 : Inside(left, previous, escaped, text, buffer, rest, i)
  <2>1. PICK i \in 1 .. Len(text) + 1 : Inside(left, previous, escaped, text, buffer, rest, i)
    BY <1>1
  <2>2. left # <<>> /\ Head(left) # COLON
    BY <1>0, <2>1, InsideStep
  <2>3. ASSUME NEW bytes, NEW escaped_, ByteRead(left, previous, escaped, bytes, escaped_)
        PROVE  At(Tail(left), <<Head(left)>>, escaped_, text, buffer \o bytes, rest)
    <3>1. /\ i + 1 \in 1 .. Len(text) + 1
          /\ Between(Tail(left), <<Head(left)>>, escaped_, text, buffer \o bytes, rest, i + 1)
      BY <2>1, <2>3, InsideStep
    <3> QED BY <3>1, Zenon DEF At
  <2> QED BY <2>2, <2>3, Zenon DEF Continues
<1>2. CASE \E i \in 1 .. Len(text) + 1 : Between(left, previous, escaped, text, buffer, rest, i)
  <2>1. PICK i \in 1 .. Len(text) + 1 : /\ Between(left, previous, escaped, text, buffer, rest, i)
                                        /\ i <= Len(text) => text[i] # CARRIAGE
    BY <1>2, PastCarriages
  <2>2. CASE i = Len(text) + 1
    <3>1. Escaped(From(text, i)) = <<>> /\ Before(text, i) = text
      BY <2>2, FromType, EscapedEmpty
    <3>2. <<>> \o rest = rest
      BY ConcatEmptySeq DEF Texts
    <3> QED BY <2>1, <3>1, <3>2, Zenon DEF Between
  <2>3. CASE i # Len(text) + 1
    <3>1. i \in 1 .. Len(text) /\ i + 1 \in 1 .. Len(text) + 1 /\ text[i] # CARRIAGE
      BY <2>1, <2>3, LenProperties DEF Texts
    <3>2. left # <<>> /\ Head(left) # COLON
      BY <1>0, <2>1, <3>1, BetweenStep
    <3>3. ASSUME NEW bytes, NEW escaped_, ByteRead(left, previous, escaped, bytes, escaped_)
          PROVE  At(Tail(left), <<Head(left)>>, escaped_, text, buffer \o bytes, rest)
      <4>1. \/ Between(Tail(left), <<Head(left)>>, escaped_, text, buffer \o bytes, rest, i + 1)
            \/ Inside(Tail(left), <<Head(left)>>, escaped_, text, buffer \o bytes, rest, i)
        BY <2>1, <3>1, <3>3, BetweenStep
      <4> QED BY <2>1, <3>1, <4>1, Zenon DEF At
    <3> QED BY <3>2, <3>3, Zenon DEF Continues
  <2> QED BY <2>2, <2>3
<1> QED BY <1>1, <1>2, Zenon DEF At

\* A byte that is read keeps the place in the text.
LEMMA AtRead ==
    ASSUME NEW text \in Texts, NEW rest \in Texts, NEW buffer, NEW bytes,
           NEW left, NEW previous, NEW escaped \in BOOLEAN, NEW escaped_,
           At(left, previous, escaped, text, buffer, rest), left # rest,
           ByteRead(left, previous, escaped, bytes, escaped_)
    PROVE  At(Tail(left), <<Head(left)>>, escaped_, text, buffer \o bytes, rest)
<1>1. Continues(left, previous, escaped, text, buffer, rest)
    BY AtStep
<1> QED BY <1>1, Zenon DEF Continues

\* At the end of a text its delimiter is next.
LEMMA AtEnd ==
    ASSUME NEW text \in Texts, NEW rest \in Texts, NEW buffer,
           NEW left, NEW previous, NEW escaped \in BOOLEAN,
           At(left, previous, escaped, text, buffer, rest), left = <<>> \/ Head(left) = COLON
    PROVE  left = rest /\ buffer = WithoutCarriage(text)
BY AtStep

\* What follows a key.
LEMMA AfterKey ==
    ASSUME NEW text \in Texts
    PROVE  /\ <<COLON>> \o Escaped(text) \in Texts /\ <<COLON>> \o Escaped(text) # <<>>
           /\ Head(<<COLON>> \o Escaped(text)) = COLON /\ Tail(<<COLON>> \o Escaped(text)) = Escaped(text)
<1>1. COLON \in Characters /\ Escaped(text) \in Seq(Characters)
    BY EscapedType DEF Characters, Texts
<1> QED BY <1>1, ConsParts DEF Texts

\* The reader is at the beginning of a text.
LEMMA AtStart ==
    ASSUME NEW text \in Texts, NEW rest \in Texts, NEW previous, previous # <<BACKSLASH>>, NEW escaped
    PROVE  At(Escaped(text) \o rest, previous, escaped, text, <<>>, rest)
<1>1. 1 \in 1 .. Len(text) + 1
    BY LenProperties DEF Texts
<1>2. From(text, 1) = text /\ Before(text, 1) = <<>>
    BY <1>1, FromType
<1>3. Between(Escaped(text) \o rest, previous, escaped, text, <<>>, rest, 1)
    BY <1>2, EscapedEmpty DEF Between
<1> QED BY <1>1, <1>3, Zenon DEF At

\* The invariant at first.
LEMMA InitInv == Init => Inv
<1> SUFFICES ASSUME Init PROVE Inv
    OBVIOUS
<1>1. key \in Texts /\ value \in Texts /\ key_parsed \in BOOLEAN /\ just_escaped_line \in BOOLEAN
    BY StringsAreTexts DEF Init
<1>2. ASSUME Readable PROVE line = Escaped(key) \o (<<COLON>> \o Escaped(value))
  <2>1. <<COLON>> \in Seq(Characters)
    BY DEF Characters
  <2>2. line = (Escaped(key) \o <<COLON>>) \o Escaped(value)
    <3>1. CASE command = "CONNECT"
      <4>1. \A i \in 1 .. Len(key) : key[i] \in Plain
        <5>1. \A i \in 1 .. Len(key) : i \in DOMAIN (key \o value) /\ (key \o value)[i] = key[i]
          BY <1>1, ConcatProperties, LenProperties DEF Texts
        <5> QED BY <1>2, <3>1, <5>1 DEF Readable
      <4>2. \A i \in 1 .. Len(value) : value[i] \in Plain
        <5>1. ASSUME NEW i \in 1 .. Len(value)
              PROVE  Len(key) + i \in DOMAIN (key \o value) /\ (key \o value)[Len(key) + i] = value[i]
          BY <1>1, ConcatProperties, LenProperties DEF Texts
        <5> QED BY <1>2, <3>1, <5>1 DEF Readable
      <4>3. Escaped(key) = key /\ Escaped(value) = value
        BY <1>1, <4>1, <4>2, EscapedPlain
      <4> QED BY <3>1, <4>3 DEF Init, dump_frame
    <3>2. CASE command # "CONNECT"
      BY <3>2 DEF Init, dump_frame
    <3> QED BY <3>1, <3>2
  <2>3. Escaped(key) \in Seq(Characters) /\ Escaped(value) \in Seq(Characters)
    BY <1>1, EscapedType DEF Texts
  <2> DEFINE k == Escaped(key)
             v == Escaped(value)
  <2> HIDE DEF k, v
  <2>4. (k \o <<COLON>>) \o v = k \o (<<COLON>> \o v)
    BY <2>1, <2>3, ConcatAssociative DEF k, v
  <2> QED BY <2>2, <2>4 DEF k, v
<1>3. ASSUME Readable PROVE InKey
  <2>1. previous_byte # <<BACKSLASH>>
    BY DEF Init
  <2>2. At(line, previous_byte, just_escaped_line, key, <<>>, <<COLON>> \o Escaped(value))
    BY <1>1, <1>2, <1>3, <2>1, AtStart, AfterKey
  <2> QED BY <2>2 DEF Init, InKey
<1> QED BY <1>1, <1>3 DEF Inv

\* Before the header is parsed, reading a byte other than a colon.
LEMMA ReadInv ==
    ASSUME Inv, Readable, JustEscaped \/ Unescape
    PROVE  InKey' \/ InValue'
<1>1. PICK bytes : ByteRead(line, previous_byte, just_escaped_line, bytes, just_escaped_line') /\ Extend(bytes)
    BY DEF JustEscaped, Unescape, ByteRead, Inv
<1>2. /\ line # <<>> /\ Head(line) # COLON /\ line' = Tail(line) /\ previous_byte' = <<Head(line)>>
      /\ result = "reading" /\ UNCHANGED <<key, value, key_parsed, result>>
    BY DEF JustEscaped, Unescape, NextByte, written
<1>3. CASE InKey
  <2>1. <<COLON>> \o Escaped(value) \in Texts /\ line # <<COLON>> \o Escaped(value)
    BY <1>2, AfterKey DEF Inv
  <2>2. At(line', previous_byte', just_escaped_line', key, key_buffer \o bytes, <<COLON>> \o Escaped(value))
    <3>1. key \in Texts /\ just_escaped_line \in BOOLEAN
          /\ At(line, previous_byte, just_escaped_line, key, key_buffer, <<COLON>> \o Escaped(value))
      BY <1>3 DEF Inv, InKey
    <3> QED BY <1>1, <1>2, <2>1, <3>1, AtRead
  <2>3. key_buffer' = key_buffer \o bytes /\ value_buffer' = value_buffer
    BY <1>1, <1>3 DEF InKey, Extend
  <2> QED BY <1>2, <1>3, <2>2, <2>3 DEF InKey
<1>4. CASE InValue
  <2>1. <<>> \in Texts
    BY EmptySeq DEF Texts
  <2>2. At(line', previous_byte', just_escaped_line', value, value_buffer \o bytes, <<>>)
    <3>1. value \in Texts /\ just_escaped_line \in BOOLEAN
          /\ At(line, previous_byte, just_escaped_line, value, value_buffer, <<>>)
      BY <1>4 DEF Inv, InValue
    <3> QED BY <1>1, <1>2, <2>1, <3>1, AtRead
  <2>3. value_buffer' = value_buffer \o bytes /\ key_buffer' = key_buffer
    BY <1>1, <1>4 DEF InValue, Extend
  <2> QED BY <1>2, <1>4, <2>2, <2>3 DEF InValue
<1> QED BY <1>2, <1>3, <1>4 DEF Inv, Parsed

\* The colon and the end of the line.
LEMMA EndInv ==
    ASSUME Inv, Readable, EndOfKey \/ SecondColon \/ EndOfLine
    PROVE  InValue' \/ Parsed'
<1>1. <<>> \in Texts
    BY EmptySeq DEF Texts
<1>2. result = "reading" /\ UNCHANGED <<key, value, key_buffer, value_buffer>>
    BY DEF EndOfKey, SecondColon, EndOfLine, NextByte, written
<1>3. line = <<>> \/ Head(line) = COLON
    BY DEF EndOfKey, SecondColon, EndOfLine
<1>4. CASE InKey
  <2>1. line = <<COLON>> \o Escaped(value) /\ key_buffer = WithoutCarriage(key)
    <3>1. key \in Texts /\ value \in Texts /\ just_escaped_line \in BOOLEAN
          /\ At(line, previous_byte, just_escaped_line, key, key_buffer, <<COLON>> \o Escaped(value))
      BY <1>4 DEF Inv, InKey
    <3>2. <<COLON>> \o Escaped(value) \in Texts
      BY <3>1, AfterKey
    <3> QED BY <1>3, <3>1, <3>2, AtEnd
  <2>2. line # <<>> /\ Head(line) = COLON /\ Tail(line) = Escaped(value)
    BY <2>1, AfterKey DEF Inv
  <2>3. EndOfKey
    BY <1>4, <2>2 DEF EndOfKey, SecondColon, EndOfLine, InKey
  <2>4. line' = Escaped(value) /\ previous_byte' = <<COLON>> /\ key_parsed' /\ result' = result
        /\ just_escaped_line' = just_escaped_line
    BY <2>2, <2>3 DEF EndOfKey, NextByte
  <2>5. Escaped(value) \o <<>> = Escaped(value)
    BY EscapedType, ConcatEmptySeq DEF Inv, Texts
  <2>6. <<COLON>> # <<BACKSLASH>>
    BY DEF COLON, BACKSLASH
  <2>7. At(line', previous_byte', just_escaped_line', value, <<>>, <<>>)
    BY <1>1, <2>4, <2>5, <2>6, AtStart DEF Inv
  <2> QED BY <1>2, <1>4, <2>1, <2>4, <2>7 DEF InKey, InValue
<1>5. CASE InValue
  <2>1. line = <<>> /\ value_buffer = WithoutCarriage(value)
    <3>1. value \in Texts /\ just_escaped_line \in BOOLEAN
          /\ At(line, previous_byte, just_escaped_line, value, value_buffer, <<>>)
      BY <1>5 DEF Inv, InValue
    <3> QED BY <1>1, <1>3, <3>1, AtEnd
  <2>2. EndOfLine
    BY <2>1 DEF EndOfKey, SecondColon, EndOfLine, NextByte
  <2>3. result' = "parsed"
    BY <1>5, <2>2 DEF EndOfLine, InValue
  <2> QED BY <1>2, <1>5, <2>1, <2>3 DEF InValue, Parsed
<1> QED BY <1>2, <1>4, <1>5 DEF Inv, Parsed

\* Every step keeps the invariant.
LEMMA StepInv == ASSUME Inv, [Next]_vars PROVE Inv'
<1>1. UNCHANGED <<command, key, value>> /\ Readable' = Readable
    BY DEF Next, EndOfKey, SecondColon, JustEscaped, Unescape, EndOfLine, NextByte, vars, written, Readable
<1>2. key_parsed' \in BOOLEAN /\ just_escaped_line' \in BOOLEAN
    BY DEF Next, EndOfKey, SecondColon, JustEscaped, Unescape, EndOfLine, vars, Inv
<1>3. ASSUME Readable PROVE InKey' \/ InValue' \/ Parsed'
  <2>1. CASE UNCHANGED vars
    BY <1>3, <2>1 DEF vars, written, Inv, InKey, InValue, Parsed
  <2>2. CASE Next
    BY <1>3, <2>2, ReadInv, EndInv DEF Next
  <2> QED BY <2>1, <2>2
<1> QED BY <1>1, <1>2, <1>3 DEF Inv

(* Wherever parse_header is in a line that dump_frame has written, what it *)
(* has put into its buffers is what was written up to there.               *)
THEOREM Invariant == Spec => []Inv
BY InitInv, StepInv, PTL DEF Spec

(* A header that dump_frame escaped, or that needs no escaping, is never   *)
(* rejected and comes out of parse_header as it went in but for its        *)
(* carriage returns, whatever its length and its characters.               *)
THEOREM RoundTripAlways == Spec => []RoundTrip
<1>1. Inv => RoundTrip
    BY DEF Inv, RoundTrip, InKey, InValue, Parsed
<1> QED BY <1>1, Invariant, PTL
=============================================================================
