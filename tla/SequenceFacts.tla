--------------------------- MODULE SequenceFacts ----------------------------
(***************************************************************************)
(* Facts about sequences that the proofs about the byte stream and about   *)
(* the header codec rest on.  Induction over the natural numbers is stated *)
(* with a set in place of a predicate, which needs no second-order step;   *)
(* with it FlattenSeq, a recursive function, obeys the equations one wants *)
(* to use it by.                                                           *)
(***************************************************************************)
EXTENDS Integers, Sequences, SequencesExt, SequenceTheorems,
        WellFoundedInduction, TLAPS

\* A set of natural numbers has a least element.
LEMMA LeastNumber ==
    ASSUME NEW T \in SUBSET Nat, T # {}
    PROVE  \E n \in T : \A m \in T : n <= m
<1>1. OpToRel(<, Nat) = {ss \in Nat \X Nat : ss[1] < ss[2]}
    BY Zenon DEF OpToRel
<1>2. PICK n \in T : \A m \in T : ~ (<<m, n>> \in OpToRel(<, Nat))
    BY WFMin, NatLessThanWellFounded
<1>3. ASSUME NEW m \in T PROVE n <= m
  <2>1. <<m, n>> \notin {ss \in Nat \X Nat : ss[1] < ss[2]}
    BY <1>1, <1>2
  <2> QED BY <2>1
<1> QED BY <1>3

\* A set that holds 0 and the successor of each of its members holds all of Nat.
LEMMA Induction ==
    ASSUME NEW S, 0 \in S, \A n \in Nat : n \in S => n + 1 \in S
    PROVE  Nat \subseteq S
<1> SUFFICES ASSUME Nat \ S # {} PROVE FALSE
    OBVIOUS
<1>1. PICK n \in Nat \ S : \A m \in Nat \ S : n <= m
    BY LeastNumber
<1>2. n - 1 \in Nat /\ n - 1 \in S
    BY <1>1
<1> QED BY <1>1, <1>2

\* The first symbol of a sequence and the others.
LEMMA ConsParts ==
    ASSUME NEW S, NEW a \in S, NEW s \in Seq(S)
    PROVE  /\ <<a>> \o s \in Seq(S) /\ <<a>> \o s # <<>>
           /\ Head(<<a>> \o s) = a /\ Tail(<<a>> \o s) = s
<1>1. <<a>> \in Seq(S) /\ Len(<<a>>) = 1 /\ <<a>>[1] = a
    OBVIOUS
<1> DEFINE t == <<a>> \o s
<1>2. /\ t \in Seq(S) /\ Len(t) = 1 + Len(s) /\ Len(s) \in Nat
      /\ \A i \in 1 .. 1 + Len(s) : t[i] = IF i <= 1 THEN <<a>>[i] ELSE s[i - 1]
    BY <1>1, ConcatProperties, LenProperties
<1> HIDE DEF t
<1>3. t # <<>>
    BY <1>2, EmptySeq
<1>4. Head(t) = a
    BY <1>1, <1>2
<1>5. Tail(t) \in Seq(S) /\ Len(Tail(t)) = Len(s) /\ \A i \in 1 .. Len(s) : Tail(t)[i] = t[i + 1]
    BY <1>2, <1>3, HeadTailProperties
<1>6. \A i \in 1 .. Len(s) : t[i + 1] = s[i]
    BY <1>2
<1>7. Tail(t) = s
    BY <1>5, <1>6, SeqEqual
<1> QED BY <1>2, <1>3, <1>4, <1>7 DEF t

\* Popping undoes appending.
LEMMA FrontAppend ==
    ASSUME NEW S, NEW s \in Seq(S), NEW e \in S
    PROVE  Front(Append(s, e)) = s /\ Append(s, e) # <<>>
<1> DEFINE t == Append(s, e)
           n == Len(s)
<1>1. t \in Seq(S) /\ Len(t) = n + 1 /\ n \in Nat /\ t # <<>> /\ \A i \in 1 .. n : t[i] = s[i]
    BY AppendProperties, LenProperties
<1>2. \A i \in 1 .. n : s[i] \in S
    BY ElementOfSeq
<1> HIDE DEF t, n
<1>3. \A i \in 1 .. n : t[i] \in S
    BY <1>1, <1>2
<1> DEFINE u == SubSeq(t, 1, n)
<1>4. u \in Seq(S) /\ Len(u) = n /\ \A i \in 1 .. n : u[i] = t[i]
  <2>1. u \in Seq(S) /\ Len(u) = (IF 1 <= n THEN n - 1 + 1 ELSE 0) /\ \A i \in 1 .. n - 1 + 1 : u[i] = t[1 + i - 1]
    BY <1>1, <1>3, SubSeqProperties
  <2> HIDE DEF u
  <2>2. n - 1 + 1 = n /\ \A i \in 1 .. n : 1 + i - 1 = i
    BY <1>1
  <2> QED BY <1>1, <2>1, <2>2
<1>5. Front(t) = u
  <2>1. Len(t) - 1 = n
    BY <1>1
  <2> QED BY <2>1, Zenon DEF Front
<1> HIDE DEF u
<1>6. u = s
    BY <1>1, <1>4, SeqEqual DEF n
<1> QED BY <1>1, <1>5, <1>6 DEF t

-----------------------------------------------------------------------------
(* What FlattenSeq's recursive function is to satisfy. *)
Cat(s, t) == s \o t
Joined(f, seqs, i) == IF i = 1 THEN seqs[i] ELSE Cat(f[i - 1], seqs[i])
Flattens(f, seqs) == f = [i \in 1 .. Len(seqs) |-> Joined(f, seqs, i)]

\* A concatenation is a sequence.
LEMMA CatType ==
    ASSUME NEW S, NEW s \in Seq(S), NEW t \in Seq(S)
    PROVE  Cat(s, t) \in Seq(S)
BY ConcatProperties DEF Cat

\* Concatenation is associative.
LEMMA CatAssociative ==
    ASSUME NEW S, NEW s \in Seq(S), NEW t \in Seq(S), NEW u \in Seq(S)
    PROVE  Cat(Cat(s, t), u) = Cat(s, Cat(t, u))
BY ConcatAssociative DEF Cat

\* Of two ways to cut a sequence in two, the one that cuts later.
LEMMA CatPrefix ==
    ASSUME NEW S, NEW a \in Seq(S), NEW b \in Seq(S), NEW c \in Seq(S), NEW d \in Seq(S),
           Cat(a, b) = Cat(c, d), Len(a) <= Len(c)
    PROVE  \E e \in Seq(S) : c = Cat(a, e) /\ b = Cat(e, d) /\ Len(c) = Len(a) + Len(e)
<1> DEFINE n == Len(a)
           m == Len(c)
           e == SubSeq(c, n + 1, m)
<1>1. n \in Nat /\ m \in Nat /\ \A i \in 1 .. m : c[i] \in S
    BY LenProperties, ElementOfSeq
<1>2. e \in Seq(S)
  <2>1. \A i \in n + 1 .. m : c[i] \in S
    BY <1>1
  <2> QED BY <1>1, <2>1, SubSeqProperties
<1>3. SubSeq(c, 1, n) = a
  <2> DEFINE s == SubSeq(c, 1, n)
  <2>1. \A i \in 1 .. n : i \in 1 .. m /\ c[i] \in S
    BY <1>1
  <2>2. s \in Seq(S) /\ Len(s) = (IF 1 <= n THEN n - 1 + 1 ELSE 0) /\ \A i \in 1 .. n - 1 + 1 : s[i] = c[1 + i - 1]
    BY <1>1, <2>1, SubSeqProperties
  <2>3. \A i \in 1 .. n : Cat(a, b)[i] = a[i]
    <3>1. Len(b) \in Nat /\ \A i \in 1 .. n + Len(b) : (a \o b)[i] = IF i <= n THEN a[i] ELSE b[i - n]
      BY ConcatProperties, LenProperties
    <3>2. \A i \in 1 .. n : i \in 1 .. n + Len(b) /\ i <= n
      BY <1>1, <3>1
    <3> QED BY <3>1, <3>2 DEF Cat
  <2>4. \A i \in 1 .. m : Cat(c, d)[i] = c[i]
    <3>1. Len(d) \in Nat /\ \A i \in 1 .. m + Len(d) : (c \o d)[i] = IF i <= m THEN c[i] ELSE d[i - m]
      BY ConcatProperties, LenProperties
    <3>2. \A i \in 1 .. m : i \in 1 .. m + Len(d) /\ i <= m
      BY <1>1, <3>1
    <3> QED BY <3>1, <3>2 DEF Cat
  <2> HIDE DEF s, m
  <2>5. n - 1 + 1 = n /\ (\A i \in 1 .. n : 1 + i - 1 = i) /\ Len(s) = n
    BY <1>1, <2>2
  <2>6. \A i \in 1 .. n : s[i] = a[i]
    BY <2>1, <2>2, <2>3, <2>4, <2>5
  <2>7. s = a
    BY <2>2, <2>5, <2>6, SeqEqual
  <2> QED BY <2>7 DEF s
<1>4. c = Cat(a, e)
  <2>1. 1 \in 1 .. m + 1 /\ n \in 1 - 1 .. m /\ m \in n .. m
    BY <1>1
  <2>2. SubSeq(c, 1, n) \o SubSeq(c, n + 1, m) = SubSeq(c, 1, m)
    BY <2>1, ConcatAdjacentSubSeq
  <2>3. SubSeq(c, 1, m) = c
    BY SubSeqFull
  <2> QED BY <1>3, <2>2, <2>3, Zenon DEF Cat
<1>5. Len(c) = Len(a) + Len(e)
    BY <1>2, <1>4, ConcatProperties DEF Cat
<1> HIDE DEF e
<1>6. b = Cat(e, d)
  <2>1. Cat(e, d) \in Seq(S)
    BY <1>2, CatType
  <2>2. Cat(a, b) = Cat(a, Cat(e, d))
    BY <1>2, <1>4, CatAssociative
  <2> QED BY <2>1, <2>2, ConcatSimplifications DEF Cat
<1> QED BY <1>2, <1>4, <1>5, <1>6

\* The parts of a sequence have its elements.
LEMMA CatElements ==
    ASSUME NEW S, NEW T, NEW a \in Seq(S), NEW b \in Seq(S), Cat(a, b) \in Seq(T)
    PROVE  a \in Seq(T) /\ b \in Seq(T)
<1> DEFINE n == Len(a)
           m == Len(b)
           s == Cat(a, b)
<1>1. /\ n \in Nat /\ m \in Nat /\ Len(s) = n + m /\ a \in [1 .. n -> S] /\ b \in [1 .. m -> S]
      /\ \A i \in 1 .. n + m : s[i] = IF i <= n THEN a[i] ELSE b[i - n]
    BY ConcatProperties, LenProperties DEF Cat
<1>2. \A i \in 1 .. n + m : s[i] \in T
    BY <1>1, ElementOfSeq
<1> HIDE DEF n, m, s
<1>3. \A i \in 1 .. n : i \in 1 .. n + m /\ i <= n
    BY <1>1
<1>4. \A i \in 1 .. m : i + n \in 1 .. n + m /\ ~(i + n <= n) /\ (i + n) - n = i
    BY <1>1
<1>5. a \in [1 .. n -> T] /\ b \in [1 .. m -> T]
  <2>1. \A i \in 1 .. n : a[i] \in T
    BY <1>1, <1>2, <1>3
  <2>2. \A i \in 1 .. m : b[i] \in T
    BY <1>1, <1>2, <1>4
  <2> QED BY <1>1, <2>1, <2>2
<1> QED BY <1>1, <1>5, SeqDef

\* A concatenation of four sequences, and of six, from the left and from the right.
LEMMA CatFour ==
    ASSUME NEW S, NEW a \in Seq(S), NEW b \in Seq(S), NEW c \in Seq(S), NEW d \in Seq(S)
    PROVE  Cat(Cat(Cat(a, b), c), d) = Cat(a, Cat(b, Cat(c, d)))
<1>1. Cat(a, b) \in Seq(S) /\ Cat(c, d) \in Seq(S)
    BY CatType
<1>2. Cat(Cat(Cat(a, b), c), d) = Cat(Cat(a, b), Cat(c, d))
    BY <1>1, CatAssociative
<1>3. Cat(Cat(a, b), Cat(c, d)) = Cat(a, Cat(b, Cat(c, d)))
    BY <1>1, CatAssociative
<1> QED BY <1>2, <1>3

\* The same for six.
LEMMA CatSix ==
    ASSUME NEW S, NEW a \in Seq(S), NEW b \in Seq(S), NEW c \in Seq(S), NEW d \in Seq(S),
           NEW e \in Seq(S), NEW f \in Seq(S)
    PROVE  Cat(Cat(Cat(Cat(Cat(a, b), c), d), e), f) = Cat(a, Cat(b, Cat(c, Cat(d, Cat(e, f)))))
<1> DEFINE abc == Cat(Cat(a, b), c)
           def == Cat(d, Cat(e, f))
<1>1. Cat(a, b) \in Seq(S) /\ Cat(e, f) \in Seq(S)
    BY CatType
<1>2. abc \in Seq(S) /\ def \in Seq(S)
    BY <1>1, CatType
<1> HIDE DEF abc, def
<1>3. Cat(abc, d) \in Seq(S)
    BY <1>2, CatType
<1>4. Cat(Cat(Cat(abc, d), e), f) = Cat(Cat(abc, d), Cat(e, f))
    BY <1>3, CatAssociative
<1>5. Cat(Cat(abc, d), Cat(e, f)) = Cat(abc, Cat(d, Cat(e, f)))
    BY <1>1, <1>2, CatAssociative
<1>6. Cat(Cat(Cat(a, b), c), def) = Cat(a, Cat(b, Cat(c, def)))
    BY <1>2, CatFour
<1> QED BY <1>4, <1>5, <1>6, Zenon DEF abc, def

\* The next value depends on the previous one only.
LEMMA JoinedLocal ==
    ASSUME NEW f, NEW g, NEW seqs, NEW i, i # 1 => f[i - 1] = g[i - 1]
    PROVE  Joined(f, seqs, i) = Joined(g, seqs, i)
BY Zenon DEF Joined

\* There is such a function.
LEMMA FlattensExists ==
    ASSUME NEW S, NEW seqs \in Seq(S)
    PROVE  \E f : Flattens(f, seqs)
<1> DEFINE E(n, f) == f = [i \in 1 .. n |-> Joined(f, seqs, i)]
           Good == {n \in Nat : \E f : E(n, f)}
<1>1. 0 \in Good
  <2>1. E(0, [i \in 1..0 |-> <<>>])
    OBVIOUS
  <2> QED BY <2>1
<1>2. ASSUME NEW n \in Nat, n \in Good PROVE n + 1 \in Good
  <2>1. PICK f : E(n, f)
    BY <1>2
  <2> DEFINE g == [i \in 1 .. n + 1 |-> Joined(f, seqs, i)]
  <2>2. ASSUME NEW i \in 1 .. n PROVE g[i] = f[i]
    BY <2>1
  <2>3. ASSUME NEW i \in 1 .. n + 1 PROVE Joined(f, seqs, i) = Joined(g, seqs, i)
    <3>1. i # 1 => i - 1 \in 1 .. n
      OBVIOUS
    <3>2. i # 1 => f[i - 1] = g[i - 1]
      BY <2>2, <3>1
    <3> QED BY <3>2, JoinedLocal
  <2>4. g = [i \in 1 .. n + 1 |-> Joined(g, seqs, i)]
    BY <2>3
  <2> HIDE DEF g
  <2>5. \E h : E(n + 1, h)
    BY <2>4
  <2> QED BY <2>5
<1>3. Len(seqs) \in Good
    BY <1>1, <1>2, Induction, LenProperties
<1> QED BY <1>3 DEF Flattens

\* And only one.
LEMMA FlattensUnique ==
    ASSUME NEW S, NEW seqs \in Seq(S), NEW f, NEW g, Flattens(f, seqs), Flattens(g, seqs)
    PROVE  f = g
<1> DEFINE Good == {n \in Nat : n \in 1 .. Len(seqs) => f[n] = g[n]}
<1>1. 0 \in Good
    OBVIOUS
<1>2. ASSUME NEW n \in Nat, n \in Good PROVE n + 1 \in Good
  <2> SUFFICES ASSUME n + 1 \in 1 .. Len(seqs) PROVE f[n + 1] = g[n + 1]
    OBVIOUS
  <2>1. n + 1 # 1 => f[n + 1 - 1] = g[n + 1 - 1]
    BY <1>2, LenProperties
  <2>2. Joined(f, seqs, n + 1) = Joined(g, seqs, n + 1)
    BY <2>1, JoinedLocal
  <2> QED BY <2>2, Zenon DEF Flattens
<1>3. Nat \subseteq Good
    BY <1>1, <1>2, Induction
<1>4. ASSUME NEW i \in 1 .. Len(seqs) PROVE Joined(f, seqs, i) = Joined(g, seqs, i)
  <2>1. f[i] = g[i]
    BY <1>3, LenProperties
  <2> QED BY <2>1 DEF Flattens
<1> QED BY <1>4 DEF Flattens

\* FlattenSeq is the last value of any such function.
LEMMA FlattenIs ==
    ASSUME NEW S, NEW seqs \in Seq(S), NEW f, Flattens(f, seqs)
    PROVE  FlattenSeq(seqs) = IF seqs = <<>> THEN <<>> ELSE f[Len(seqs)]
<1> DEFINE flatten == CHOOSE flatten : flatten = [i \in 1..Len(seqs) |->
                          IF i = 1 THEN seqs[i] ELSE flatten[i-1] \o seqs[i]]
<1>1. flatten = f
  <2>1. Flattens(flatten, seqs)
    BY Zenon DEF Flattens, Joined, Cat
  <2> QED BY <2>1, FlattensUnique
<1>2. FlattenSeq(seqs) = IF Len(seqs) = 0 THEN seqs ELSE flatten[Len(seqs)]
    BY Zenon DEF FlattenSeq
<1>3. Len(seqs) = 0 <=> seqs = <<>>
    BY EmptySeq
<1> QED BY <1>1, <1>2, <1>3

\* Of no sequences, nothing is flattened.
LEMMA FlattenEmpty == FlattenSeq(<<>>) = <<>>
<1>1. Len(<<>>) = 0
    BY EmptySeq
<1> QED BY <1>1, Zenon DEF FlattenSeq

\* The first step of flattening.
LEMMA FlattensFirst ==
    ASSUME NEW S, NEW seqs \in Seq(S), NEW f, Flattens(f, seqs), seqs # <<>>
    PROVE  f[1] = seqs[1]
<1>1. 1 \in 1 .. Len(seqs)
    BY EmptySeq
<1>2. f[1] = Joined(f, seqs, 1)
    BY <1>1, Zenon DEF Flattens
<1> QED BY <1>2 DEF Joined

\* A further step.
LEMMA FlattensNext ==
    ASSUME NEW S, NEW seqs \in Seq(S), NEW f, Flattens(f, seqs),
           NEW i \in Nat \ {0}, i + 1 \in 1 .. Len(seqs)
    PROVE  f[i + 1] = Cat(f[i], seqs[i + 1])
<1>1. i + 1 # 1 /\ (i + 1) - 1 = i
    OBVIOUS
<1>2. f[i + 1] = Joined(f, seqs, i + 1)
    BY Zenon DEF Flattens
<1> QED BY <1>1, <1>2 DEF Joined

\* Every step gives a sequence.
LEMMA FlattensType ==
    ASSUME NEW S, NEW seqs \in Seq(Seq(S)), NEW f, Flattens(f, seqs)
    PROVE  \A i \in 1 .. Len(seqs) : f[i] \in Seq(S)
<1> DEFINE Good == {n \in Nat : n \in 1 .. Len(seqs) => f[n] \in Seq(S)}
<1>1. 0 \in Good
    OBVIOUS
<1>2. ASSUME NEW n \in Nat, n \in Good PROVE n + 1 \in Good
  <2> SUFFICES ASSUME n + 1 \in 1 .. Len(seqs) PROVE f[n + 1] \in Seq(S)
    OBVIOUS
  <2>1. seqs[n + 1] \in Seq(S)
    BY ElementOfSeq
  <2>2. CASE n = 0
    <3>1. seqs # <<>>
      BY EmptySeq
    <3> QED BY <2>1, <2>2, <3>1, FlattensFirst
  <2>3. CASE n # 0
    <3>1. n \in Nat \ {0} /\ n \in 1 .. Len(seqs)
      BY <2>3, LenProperties
    <3>2. f[n] \in Seq(S)
      BY <1>2, <3>1
    <3>3. f[n + 1] = Cat(f[n], seqs[n + 1])
      BY <3>1, FlattensNext
    <3>4. Cat(f[n], seqs[n + 1]) \in Seq(S)
      BY <2>1, <3>2, CatType
    <3> QED BY <3>3, <3>4, Zenon
  <2> QED BY <2>2, <2>3
<1>3. Nat \subseteq Good
    BY <1>1, <1>2, Induction
<1> QED BY <1>3, LenProperties

\* Flattened sequences are one sequence.
LEMMA FlattenType ==
    ASSUME NEW S, NEW seqs \in Seq(Seq(S))
    PROVE  FlattenSeq(seqs) \in Seq(S)
<1>1. PICK f : Flattens(f, seqs)
    BY FlattensExists
<1>2. CASE seqs # <<>>
  <2>1. Len(seqs) \in 1 .. Len(seqs)
    BY <1>2, EmptySeq
  <2>2. f[Len(seqs)] \in Seq(S)
    BY <1>1, <2>1, FlattensType
  <2> QED BY <1>1, <1>2, <2>1, <2>2, FlattenIs
<1> QED BY <1>2, FlattenEmpty, EmptySeq

\* The last sequence of a concatenation.
LEMMA FlattenAppend ==
    ASSUME NEW S, NEW seqs \in Seq(Seq(S)), NEW s \in Seq(S)
    PROVE  FlattenSeq(Append(seqs, s)) = FlattenSeq(seqs) \o s
<1> DEFINE all == Append(seqs, s)
           n == Len(seqs)
<1>1. /\ all \in Seq(Seq(S)) /\ all # <<>> /\ Len(all) = n + 1 /\ n \in Nat
      /\ all[n + 1] = s
      /\ \A i \in 1 .. n : all[i] = seqs[i]
    BY AppendProperties, LenProperties
<1> HIDE DEF all
<1>2. PICK f : Flattens(f, all)
    BY <1>1, FlattensExists
<1> DEFINE g == [i \in 1 .. n |-> f[i]]
<1>3. ASSUME NEW i \in 1 .. n PROVE g[i] = Joined(g, seqs, i)
  <2>1. f[i] = Joined(f, all, i)
    <3>1. i \in 1 .. Len(all)
      BY <1>1
    <3> QED BY <1>2, <3>1, Zenon DEF Flattens
  <2>2. Joined(f, all, i) = Joined(f, seqs, i)
    BY <1>1, Zenon DEF Joined
  <2>3. i # 1 => f[i - 1] = g[i - 1]
    BY <1>1
  <2>4. Joined(f, seqs, i) = Joined(g, seqs, i)
    BY <2>3, JoinedLocal
  <2> QED BY <2>1, <2>2, <2>4
<1>4. Flattens(g, seqs)
    BY <1>3 DEF Flattens
<1>5. FlattenSeq(all) = f[n + 1]
    BY <1>1, <1>2, FlattenIs
<1>6. CASE seqs = <<>>
  <2>1. n = 0
    BY <1>6, EmptySeq
  <2>2. f[1] = all[1]
    BY <1>1, <1>2, FlattensFirst
  <2>3. FlattenSeq(seqs) = <<>>
    BY <1>6, FlattenEmpty
  <2> QED BY <1>1, <1>5, <2>1, <2>2, <2>3, ConcatEmptySeq DEF all
<1>7. CASE seqs # <<>>
  <2>1. n \in Nat \ {0}
    BY <1>7, EmptySeq
  <2>2. FlattenSeq(seqs) = g[n]
    BY <1>4, <1>7, FlattenIs
  <2>3. f[n + 1] = Cat(f[n], s)
    <3>1. n + 1 \in 1 .. Len(all)
      BY <1>1, <2>1
    <3>2. f[n + 1] = Cat(f[n], all[n + 1])
      BY <1>1, <1>2, <2>1, <3>1, FlattensNext
    <3> QED BY <1>1, <3>2, Zenon
  <2>4. g[n] = f[n]
    BY <2>1
  <2> QED BY <1>5, <2>2, <2>3, <2>4, Zenon DEF all, Cat
<1> QED BY <1>6, <1>7

\* The first sequence of a concatenation.
LEMMA FlattenCons ==
    ASSUME NEW S, NEW seqs \in Seq(Seq(S)), NEW s \in Seq(S)
    PROVE  FlattenSeq(<<s>> \o seqs) = s \o FlattenSeq(seqs)
<1> DEFINE all == <<s>> \o seqs
           n == Len(seqs)
<1>1. /\ all \in Seq(Seq(S)) /\ Len(all) = n + 1 /\ n \in Nat /\ all # <<>>
      /\ all[1] = s
      /\ \A i \in 2 .. n + 1 : all[i] = seqs[i - 1]
  <2>1. <<s>> \in Seq(Seq(S)) /\ Len(<<s>>) = 1 /\ <<s>>[1] = s
    OBVIOUS
  <2>2. /\ all \in Seq(Seq(S)) /\ Len(all) = 1 + n /\ n \in Nat
        /\ \A i \in 1 .. 1 + n : all[i] = IF i <= 1 THEN <<s>>[i] ELSE seqs[i - 1]
    BY <2>1, ConcatProperties, LenProperties
  <2> HIDE DEF all
  <2>3. all # <<>>
    BY <2>2, EmptySeq
  <2> QED BY <2>1, <2>2, <2>3
<1> HIDE DEF all
<1>2. PICK f : Flattens(f, seqs)
    BY FlattensExists
<1> DEFINE g == [i \in 1 .. n + 1 |-> IF i = 1 THEN s ELSE Cat(s, f[i - 1])]
<1>3. ASSUME NEW i \in 1 .. n + 1 PROVE g[i] = Joined(g, all, i)
  <2>1. CASE i = 1
    BY <1>1, <2>1 DEF Joined
  <2>2. CASE i = 2
    <3>1. 1 \in 1 .. n + 1 /\ 2 \in 1 .. n + 1 /\ 1 \in 1 .. n /\ 2 # 1 /\ 2 - 1 = 1
      BY <1>1, <2>2
    <3>2. g[2] = Cat(s, f[1]) /\ g[1] = s
      BY <3>1, Zenon
    <3>3. f[1] = seqs[1] /\ all[2] = seqs[1]
      <4>1. seqs # <<>>
        BY <3>1, EmptySeq
      <4> QED BY <1>1, <1>2, <3>1, <4>1, FlattensFirst
    <3> HIDE DEF g
    <3>4. Joined(g, all, 2) = Cat(g[1], all[2])
      BY <3>1 DEF Joined
    <3> QED BY <2>2, <3>2, <3>3, <3>4
  <2>3. CASE i > 2
    <3> DEFINE j == i - 2
    <3>1. /\ j \in Nat \ {0} /\ j + 1 <= n /\ i = j + 2 /\ i # 1 /\ i - 1 = j + 1 /\ j + 1 # 1 /\ (j + 1) - 1 = j
          /\ j + 1 \in 1 .. n + 1 /\ j + 1 \in 1 .. n /\ i \in 2 .. n + 1 /\ j \in 1 .. n
      BY <1>1, <2>3
    <3> HIDE DEF j
    <3>2. g[i] = Cat(s, f[j + 1]) /\ g[j + 1] = Cat(s, f[j])
      BY <3>1, Zenon
    <3>3. f[j + 1] = Cat(f[j], seqs[j + 1]) /\ f[j] \in Seq(S)
      BY <1>2, <3>1, FlattensNext, FlattensType
    <3>4. seqs[j + 1] = all[i] /\ seqs[j + 1] \in Seq(S)
      BY <1>1, <3>1, ElementOfSeq
    <3> HIDE DEF g
    <3>5. Joined(g, all, i) = Cat(g[j + 1], all[i])
      BY <3>1 DEF Joined
    <3>6. Cat(Cat(s, f[j]), seqs[j + 1]) = Cat(s, Cat(f[j], seqs[j + 1]))
      BY <3>3, <3>4, CatAssociative
    <3> QED BY <3>2, <3>3, <3>4, <3>5, <3>6
  <2> QED BY <2>1, <2>2, <2>3
<1>4. Flattens(g, all)
    BY <1>1, <1>3 DEF Flattens
<1>5. FlattenSeq(all) = g[n + 1]
    BY <1>1, <1>4, FlattenIs
<1>6. CASE seqs = <<>>
  <2>1. n = 0 /\ FlattenSeq(seqs) = <<>>
    BY <1>6, EmptySeq, FlattenEmpty
  <2> QED BY <1>5, <2>1, ConcatEmptySeq DEF all
<1>7. CASE seqs # <<>>
  <2>1. n \in Nat \ {0}
    BY <1>7, EmptySeq
  <2>2. FlattenSeq(seqs) = f[n]
    BY <1>2, <1>7, FlattenIs
  <2>3. g[n + 1] = Cat(s, f[n])
    BY <2>1
  <2> QED BY <1>5, <2>2, <2>3, Zenon DEF all, Cat
<1> QED BY <1>6, <1>7
=============================================================================
