-------------------------- MODULE PublishingProofs --------------------------
(***************************************************************************)
(* The properties of Publishing for any calls, dictionaries and number of  *)
(* bodies.  The invariant relates a dictionary to the number of frames     *)
(* built in it: with none it is as the application has filled it, with one *)
(* it holds what the call of that frame asked for.                         *)
(***************************************************************************)
EXTENDS Publishing, TLAPS, SequenceTheorems

DictOK ==
    /\ builds \in [Dicts -> Nat]
    /\ dict = [d \in Dicts |-> dict[d]]
    /\ \A d \in Dicts : builds[d] = 0 => dict[d] = Fresh

\* Where a call is, and what it was called with.
CallOK(c) ==
    /\ pc[c] = "idle" => frames[c] = <<>>
    /\ pc[c] = "waiting" => frames[c] # <<>> /\ ~testing
    /\ call[c].on \in Dicts \cup {None}
    /\ call[c].route \in Direct => call[c].correlation = None /\ ~testing
    /\ \E S : frames[c] \in Seq(S)

\* A frame that refers to the application's dictionary, or has its own.
FrameOK(c, i) ==
    \/ /\ frames[c][i].shared
       /\ call[c].route \in Direct /\ call[c].on # None
       /\ builds[call[c].on] > 0
       /\ builds[call[c].on] = 1 => dict[call[c].on] = Asked(c, i)
    \/ /\ ~frames[c][i].shared
       /\ call[c].route \in Direct => call[c].on = None
       /\ Unshared(c) => frames[c][i].own = Asked(c, i)

WrittenOK(f) ==
    /\ f.call \in Calls /\ pc[f.call] # "idle"
    /\ call[f.call].route \in Direct /\ call[f.call].on # None => builds[call[f.call].on] > 0
    /\ Unshared(f.call) => f.headers = Asked(f.call, f.number)

\* Nobody has built a frame in the dictionary of the message before.
FirstUse(c) ==
    call[c].on # None => builds[call[c].on] <= (IF call[c].route = "batch" THEN 0 ELSE 1)

AsAsked(headers, c, i) ==
    \A k \in Keys \ {"content-length", "transaction"} : headers[k] = Asked(c, i)[k]

ReceivedOK(f) ==
    /\ f.call \in Calls /\ pc[f.call] # "idle"
    /\ FirstUse(f.call) => AsAsked(f.headers, f.call, f.number)

FunctionsOK ==
    /\ pc = [c \in Calls |-> pc[c]] /\ call = [c \in Calls |-> call[c]]
    /\ frames = [c \in Calls |-> frames[c]] /\ testing \in BOOLEAN

Inv ==
    /\ FunctionsOK
    /\ DictOK
    /\ \A c \in Calls : CallOK(c)
    /\ ~testing => \A c \in Calls : \A i \in 1..Len(frames[c]) : FrameOK(c, i)
    /\ \A f \in wire : WrittenOK(f)
    /\ \A f \in received : ReceivedOK(f)

USE DEF vars

-----------------------------------------------------------------------------
(* What changes in the dictionaries, and what does not matter. *)

\* A dictionary changes only when a frame is built in it, and that is counted.
DictsForward ==
    /\ \A d \in Dicts : builds[d] <= builds'[d]
    /\ \A d \in Dicts : builds'[d] = builds[d] => dict'[d] = dict[d]

LEMMA AskedStable ==
    ASSUME NEW c, NEW i, call'[c] = call[c]
    PROVE  Asked(c, i)' = Asked(c, i)
BY DEF Asked, Request, Destination

LEMMA UnsharedStable ==
    ASSUME NEW c \in Calls, call'[c] = call[c], CallOK(c), DictOK, DictOK', DictsForward, Unshared(c)',
           call[c].route \in Direct /\ call[c].on # None => builds[call[c].on] > 0
    PROVE  Unshared(c)
<1>1. CASE call[c].on = None
    BY <1>1 DEF Unshared
<1>2. CASE call[c].on # None
  <2>1. call[c].on \in Dicts
    BY <1>2 DEF CallOK
  <2>2. builds[call[c].on] \in Nat /\ builds'[call[c].on] \in Nat /\ builds[call[c].on] <= builds'[call[c].on]
    BY <2>1 DEF DictOK, DictsForward
  <2> QED BY <1>2, <2>2 DEF Unshared
<1> QED BY <1>1, <1>2

LEMMA OldFrame ==
    ASSUME NEW c \in Calls, call'[c] = call[c], CallOK(c), DictOK, DictOK', DictsForward,
           NEW i, frames'[c][i] = frames[c][i], FrameOK(c, i)
    PROVE  FrameOK(c, i)'
<1>1. CASE frames[c][i].shared
  <2>1. call[c].on \in Dicts /\ builds[call[c].on] > 0
    BY <1>1 DEF FrameOK, CallOK
  <2>2. builds[call[c].on] \in Nat /\ builds'[call[c].on] \in Nat /\ builds[call[c].on] <= builds'[call[c].on]
    BY <2>1 DEF DictOK, DictsForward
  <2>3. builds'[call[c].on] = 1 => dict'[call[c].on] = Asked(c, i)
    BY <1>1, <2>1, <2>2 DEF FrameOK, DictsForward
  <2> QED BY <1>1, <2>1, <2>2, <2>3, AskedStable DEF FrameOK
<1>2. CASE ~frames[c][i].shared
    BY <1>2, UnsharedStable, AskedStable DEF FrameOK
<1> QED BY <1>1, <1>2

LEMMA OldWritten ==
    ASSUME NEW f, WrittenOK(f), pc'[f.call] # "idle", call'[f.call] = call[f.call], CallOK(f.call),
           DictOK, DictOK', DictsForward
    PROVE  WrittenOK(f)'
<1>1. Unshared(f.call)' => f.headers = Asked(f.call, f.number)'
    BY UnsharedStable, AskedStable DEF WrittenOK
<1>2. call[f.call].route \in Direct /\ call[f.call].on # None => builds'[call[f.call].on] > 0
    BY DEF WrittenOK, CallOK, DictOK, DictsForward
<1> QED BY <1>1, <1>2 DEF WrittenOK

LEMMA OldReceived ==
    ASSUME NEW f, ReceivedOK(f), pc'[f.call] # "idle", call'[f.call] = call[f.call], CallOK(f.call),
           DictOK, DictOK', DictsForward
    PROVE  ReceivedOK(f)'
<1>1. FirstUse(f.call)' => FirstUse(f.call)
    BY DEF FirstUse, CallOK, DictOK, DictsForward
<1>2. AsAsked(f.headers, f.call, f.number) => AsAsked(f.headers, f.call, f.number)'
    BY AskedStable DEF AsAsked
<1> QED BY <1>1, <1>2 DEF ReceivedOK

\* A step of call c, which has begun: c's new frames, and what is written or received.
LEMMA StepOf ==
    ASSUME Inv, FunctionsOK', DictOK', DictsForward, UNCHANGED <<call, testing>>,
           NEW c \in Calls, CallOK(c)', pc'[c] # "idle",
           \A b \in Calls \ {c} : pc'[b] = pc[b] /\ frames'[b] = frames[b],
           ~testing => \A i \in 1..Len(frames'[c]) :
               FrameOK(c, i)' \/ (i \in 1..Len(frames[c]) /\ frames'[c][i] = frames[c][i]),
           \A f \in wire' \ wire : WrittenOK(f)',
           \A f \in received' \ received : ReceivedOK(f)'
    PROVE  Inv'
<1>1. ASSUME NEW b \in Calls PROVE CallOK(b)'
    BY <1>1 DEF Inv, CallOK
<1>2. ASSUME ~testing, NEW b \in Calls, NEW i \in 1..Len(frames'[b]) PROVE FrameOK(b, i)'
  <2>1. \/ FrameOK(b, i)'
        \/ i \in 1..Len(frames[b]) /\ frames'[b][i] = frames[b][i]
    BY <1>2
  <2> QED BY <1>2, <2>1, OldFrame DEF Inv
<1>3. ASSUME NEW f \in wire' PROVE WrittenOK(f)'
  <2>1. CASE f \in wire
    <3>1. f.call \in Calls /\ pc'[f.call] # "idle"
      BY <2>1 DEF Inv, WrittenOK
    <3> QED BY <2>1, <3>1, OldWritten DEF Inv
  <2> QED BY <2>1
<1>4. ASSUME NEW f \in received' PROVE ReceivedOK(f)'
  <2>1. CASE f \in received
    <3>1. f.call \in Calls /\ pc'[f.call] # "idle"
      BY <2>1 DEF Inv, ReceivedOK
    <3> QED BY <2>1, <3>1, OldReceived DEF Inv
  <2> QED BY <2>1
<1> QED BY <1>1, <1>2, <1>3, <1>4 DEF Inv

LEMMA AppendFrame ==
    ASSUME NEW s, NEW S, s \in Seq(S), NEW x
    PROVE  /\ \E T : Append(s, x) \in Seq(T)
           /\ Len(s) \in Nat /\ Len(Append(s, x)) = Len(s) + 1
           /\ \A i \in 1..Len(s) : Append(s, x)[i] = s[i]
           /\ Append(s, x)[Len(s) + 1] = x
           /\ Append(s, x) # <<>>
<1>1. s \in Seq(S \cup {x}) /\ x \in S \cup {x}
    BY SeqMonotonic
<1>2. /\ Append(s, x) \in Seq(S \cup {x})
      /\ Len(s) \in Nat /\ Len(Append(s, x)) = Len(s) + 1
      /\ \A i \in 1..Len(s) : Append(s, x)[i] = s[i]
      /\ Append(s, x)[Len(s) + 1] = x
    BY <1>1, AppendProperties, LenProperties
<1>3. Append(s, x) # <<>>
    BY <1>2, EmptySeq
<1> QED BY <1>2, <1>3

-----------------------------------------------------------------------------
(* The actions. *)

LEMMA CallInv ==
    ASSUME Inv, NEW c \in Calls, NEW d \in Dicts \cup {None}, NEW route \in Routes, NEW counted \in BOOLEAN,
           Call(c, d, route, counted)
    PROVE  Inv'
<1>1. /\ pc[c] = "idle" /\ UNCHANGED <<dict, builds, frames, wire, received, testing>>
      /\ testing => route \notin Direct
    BY DEF Call
<1>2. PICK bodies, id : /\ route \in Direct => id = None
                        /\ call' = [call EXCEPT ![c] = [route |-> route, on |-> d, bodies |-> bodies,
                                                        counted |-> counted, correlation |-> id]]
    BY DEF Call
<1>3. /\ call'[c].route = route /\ call'[c].on = d /\ call'[c].correlation = id
      /\ \A b \in Calls \ {c} : call'[b] = call[b]
    BY <1>2 DEF Inv, FunctionsOK
<1>4. pc'[c] \in {"raised", "building"} /\ \A b \in Calls \ {c} : pc'[b] = pc[b]
    BY DEF Call, Inv, FunctionsOK
<1>5. FunctionsOK' /\ DictOK' /\ DictOK /\ DictsForward
  <2>1. pc' = [b \in Calls |-> pc'[b]] /\ call' = [b \in Calls |-> call'[b]]
    BY <1>2 DEF Call, Inv, FunctionsOK
  <2> QED BY <1>1, <2>1 DEF Inv, FunctionsOK, DictOK, DictsForward
<1>6. frames[c] = <<>> /\ Len(frames[c]) = 0 /\ \E S : frames[c] \in Seq(S)
    BY <1>1, EmptySeq DEF Inv, CallOK
<1>7. ASSUME NEW b \in Calls PROVE CallOK(b)'
  <2>1. CASE b = c
    BY <1>1, <1>2, <1>3, <1>4, <1>6, <2>1 DEF CallOK
  <2>2. CASE b # c
    BY <1>1, <1>3, <1>4, <2>2 DEF Inv, CallOK
  <2> QED BY <2>1, <2>2
<1>8. ASSUME ~testing, NEW b \in Calls, NEW i \in 1..Len(frames'[b]) PROVE FrameOK(b, i)'
  <2>1. b # c
    BY <1>1, <1>6, <1>8
  <2> QED BY <1>1, <1>3, <1>5, <1>8, <2>1, OldFrame DEF Inv
<1>9. ASSUME NEW f \in wire PROVE WrittenOK(f)'
  <2>1. f.call \in Calls \ {c}
    BY <1>1 DEF Inv, WrittenOK
  <2> QED BY <1>3, <1>4, <1>5, <2>1, OldWritten DEF Inv, WrittenOK
<1>10. ASSUME NEW f \in received PROVE ReceivedOK(f)'
  <2>1. f.call \in Calls \ {c}
    BY <1>1 DEF Inv, ReceivedOK
  <2> QED BY <1>3, <1>4, <1>5, <2>1, OldReceived DEF Inv, ReceivedOK
<1> QED BY <1>1, <1>5, <1>7, <1>8, <1>9, <1>10 DEF Inv

LEMMA BuiltEffect ==
    ASSUME Inv, NEW c \in Calls, NEW frame, Built(c, frame), pc[c] = "building", ~testing,
           UNCHANGED <<call, testing>>
    PROVE  /\ FunctionsOK' /\ CallOK(c)' /\ pc'[c] = "waiting"
           /\ \A b \in Calls \ {c} : pc'[b] = pc[b] /\ frames'[b] = frames[b]
           /\ Len(frames[c]) \in Nat /\ Len(frames'[c]) = Len(frames[c]) + 1
           /\ \A i \in 1..Len(frames[c]) : frames'[c][i] = frames[c][i]
           /\ frames'[c][Len(frames[c]) + 1] = frame
<1>1. /\ pc'[c] = "waiting" /\ frames'[c] = Append(frames[c], frame)
      /\ \A b \in Calls \ {c} : pc'[b] = pc[b] /\ frames'[b] = frames[b]
    BY DEF Built, Inv, FunctionsOK
<1>2. FunctionsOK'
    BY DEF Built, Inv, FunctionsOK
<1>3. PICK S : frames[c] \in Seq(S)
    BY DEF Inv, CallOK
<1>4. /\ Len(frames[c]) \in Nat /\ Len(frames'[c]) = Len(frames[c]) + 1
      /\ \A i \in 1..Len(frames[c]) : frames'[c][i] = frames[c][i]
      /\ frames'[c][Len(frames[c]) + 1] = frame
      /\ frames'[c] # <<>> /\ \E T : frames'[c] \in Seq(T)
  <2> DEFINE s == frames[c]
  <2>1. s \in Seq(S)
    BY <1>3
  <2> HIDE DEF s
  <2>2. /\ \E T : Append(s, frame) \in Seq(T)
        /\ Len(s) \in Nat /\ Len(Append(s, frame)) = Len(s) + 1
        /\ \A i \in 1..Len(s) : Append(s, frame)[i] = s[i]
        /\ Append(s, frame)[Len(s) + 1] = frame
        /\ Append(s, frame) # <<>>
    BY <2>1, AppendFrame
  <2> QED BY <1>1, <2>2 DEF s
<1>5. CallOK(c)'
    BY <1>1, <1>4 DEF Inv, CallOK
<1> QED BY <1>1, <1>2, <1>4, <1>5

\* stompman builds in the dictionary it was given.
LEMMA DirectBuildInv ==
    ASSUME Inv, NEW c \in Calls, DirectBuild(c)
    PROVE  Inv'
<1> DEFINE n == Len(frames[c]) + 1
<1>1. /\ pc[c] = "building" /\ call[c].route \in Direct /\ ~testing
      /\ UNCHANGED <<call, wire, received, testing>>
      /\ CallOK(c) /\ call[c].correlation = None
    BY DEF DirectBuild, Building, Inv, CallOK
<1>2. PICK frame : /\ Built(c, frame)
                   /\ frame.shared = (call[c].on # None)
                   /\ frame.own = build(Empty, Request(c, n))
    BY DEF DirectBuild
<1>3. \A e \in Dicts : /\ dict'[e] = IF e = call[c].on THEN build(dict[e], Request(c, n)) ELSE dict[e]
                       /\ builds'[e] = IF e = call[c].on THEN builds[e] + 1 ELSE builds[e]
    BY DEF DirectBuild
<1>4. DictOK' /\ DictsForward
  <2>1. dict' = [e \in Dicts |-> dict'[e]] /\ builds' \in [Dicts -> Nat]
    BY DEF DirectBuild, Inv, DictOK
  <2>2. \A e \in Dicts : builds[e] \in Nat
    BY DEF Inv, DictOK
  <2>3. \A e \in Dicts : builds'[e] = 0 => dict'[e] = Fresh
    BY <1>3, <2>2 DEF Inv, DictOK
  <2> QED BY <1>3, <2>1, <2>2, <2>3 DEF DictOK, DictsForward
<1>5. /\ FunctionsOK' /\ CallOK(c)' /\ pc'[c] = "waiting"
      /\ \A b \in Calls \ {c} : pc'[b] = pc[b] /\ frames'[b] = frames[b]
      /\ Len(frames[c]) \in Nat /\ Len(frames'[c]) = n
      /\ \A i \in 1..Len(frames[c]) : frames'[c][i] = frames[c][i]
      /\ frames'[c][n] = frame
    BY <1>1, <1>2, BuiltEffect
<1>6. PICK i : i = n
    OBVIOUS
<1>7. Asked(c, i)' = Asked(c, i)
    BY <1>1, AskedStable
<1>8. Asked(c, i) = build(IF call[c].on = None THEN Empty ELSE Fresh, Request(c, i))
    BY <1>1 DEF Asked, WithCorrelation
<1>9. FrameOK(c, i)'
  <2>1. CASE call[c].on = None
    <3>1. ~frames'[c][i].shared /\ frames'[c][i].own = Asked(c, i)
      BY <1>2, <1>5, <1>6, <1>8, <2>1
    <3> QED BY <1>1, <1>7, <2>1, <3>1 DEF FrameOK
  <2>2. CASE call[c].on # None
    <3>1. call[c].on \in Dicts
      BY <1>1, <2>2 DEF CallOK
    <3>2. builds[call[c].on] \in Nat /\ builds'[call[c].on] = builds[call[c].on] + 1
      BY <1>3, <3>1 DEF Inv, DictOK
    <3>3. builds'[call[c].on] = 1 => dict'[call[c].on] = Asked(c, i)
      BY <1>3, <1>6, <1>8, <2>2, <3>1, <3>2 DEF Inv, DictOK
    <3>4. frames'[c][i].shared
      BY <1>2, <1>5, <1>6, <2>2
    <3>5. call'[c] = call[c] /\ call'[c].route \in Direct /\ call'[c].on # None
      BY <1>1, <2>2
    <3>6. builds'[call'[c].on] > 0 /\ (builds'[call'[c].on] = 1 => dict'[call'[c].on] = Asked(c, i)')
      BY <1>7, <3>2, <3>3, <3>5
    <3> QED BY <3>4, <3>5, <3>6 DEF FrameOK
  <2> QED BY <2>1, <2>2
<1>10. \A k \in 1..Len(frames'[c]) :
          FrameOK(c, k)' \/ (k \in 1..Len(frames[c]) /\ frames'[c][k] = frames[c][k])
    BY <1>5, <1>6, <1>9
<1> QED BY <1>1, <1>4, <1>5, <1>10, StepOf

\* FastStream's producer builds in a copy.
LEMMA StreamBuildInv ==
    ASSUME Inv, NEW c \in Calls, StreamBuild(c)
    PROVE  Inv'
<1> DEFINE n == Len(frames[c]) + 1
<1>1. /\ pc[c] = "building" /\ call[c].route \notin Direct /\ ~testing
      /\ UNCHANGED <<call, wire, received, testing, builds>>
      /\ CallOK(c)
    BY DEF StreamBuild, Building, Inv
<1>2. PICK frame : /\ Built(c, frame)
                   /\ frame.shared = FALSE
                   /\ frame.own = build(WithCorrelation(Passed(c), call[c].correlation), Request(c, n))
                   /\ dict' = dict
    BY DEF StreamBuild, _make_headers_for_publish
<1>3. DictOK' /\ DictsForward
    BY <1>1, <1>2 DEF Inv, DictOK, DictsForward
<1>4. /\ FunctionsOK' /\ CallOK(c)' /\ pc'[c] = "waiting"
      /\ \A b \in Calls \ {c} : pc'[b] = pc[b] /\ frames'[b] = frames[b]
      /\ Len(frames[c]) \in Nat /\ Len(frames'[c]) = n
      /\ \A i \in 1..Len(frames[c]) : frames'[c][i] = frames[c][i]
      /\ frames'[c][n] = frame
    BY <1>1, <1>2, BuiltEffect
<1>5. PICK i : i = n
    OBVIOUS
<1>6. Unshared(c)' => frames'[c][i].own = Asked(c, i)'
  <2>1. Asked(c, i)' = Asked(c, i)
    BY <1>1, AskedStable
  <2>2. Unshared(c)' => Passed(c) = IF call[c].on = None THEN Empty ELSE Fresh
    BY <1>1 DEF Unshared, Passed, Inv, DictOK, CallOK
  <2> QED BY <1>2, <1>4, <1>5, <2>1, <2>2 DEF Asked
<1>7. FrameOK(c, i)'
    BY <1>1, <1>2, <1>4, <1>5, <1>6 DEF FrameOK
<1>8. \A k \in 1..Len(frames'[c]) :
         FrameOK(c, k)' \/ (k \in 1..Len(frames[c]) /\ frames'[c][k] = frames[c][k])
    BY <1>4, <1>5, <1>7
<1> QED BY <1>1, <1>3, <1>4, <1>8, StepOf

\* A frame that is dumped now carries what its call asked for.
LEMMA DumpedOK ==
    ASSUME Inv, ~testing, NEW c \in Calls, pc[c] # "idle", NEW i \in 1..Len(frames[c])
    PROVE  WrittenOK(Dumped(c, i))
<1>1. CallOK(c) /\ DictOK /\ FrameOK(c, i)
    BY DEF Inv
<1>2. /\ Dumped(c, i).call = c /\ Dumped(c, i).number = i
      /\ frames[c][i].shared => Dumped(c, i).headers = dict[call[c].on]
      /\ ~frames[c][i].shared => Dumped(c, i).headers = frames[c][i].own
    BY DEF Dumped
<1>3. CASE frames[c][i].shared
  <2>1. /\ call[c].route \in Direct /\ call[c].on # None /\ builds[call[c].on] > 0
        /\ builds[call[c].on] = 1 => dict[call[c].on] = Asked(c, i)
    BY <1>1, <1>3 DEF FrameOK
  <2>2. Unshared(c) => builds[call[c].on] = 1
    BY <2>1 DEF Unshared
  <2> QED BY <1>2, <1>3, <2>1, <2>2 DEF WrittenOK
<1>4. CASE ~frames[c][i].shared
  <2>1. /\ call[c].route \in Direct => call[c].on = None
        /\ Unshared(c) => frames[c][i].own = Asked(c, i)
    BY <1>1, <1>4 DEF FrameOK
  <2> QED BY <1>2, <1>4, <2>1 DEF WrittenOK
<1> QED BY <1>3, <1>4

\* A step of call c that builds nothing, after which its new frames are on the wire.
LEMMA WritingStep ==
    ASSUME Inv, NEW c \in Calls, UNCHANGED <<dict, builds, call, frames, received, testing>>,
           pc' = [pc EXCEPT ![c] = pc'[c]], pc[c] # "idle", pc'[c] # "idle",
           pc'[c] = "waiting" => pc[c] = "waiting",
           \A f \in wire' \ wire : WrittenOK(f)
    PROVE  Inv'
<1>1. \A b \in Calls \ {c} : pc'[b] = pc[b] /\ frames'[b] = frames[b]
    BY DEF Inv, FunctionsOK
<1>2. FunctionsOK'
    BY DEF Inv, FunctionsOK
<1>3. DictOK' /\ DictsForward
    BY DEF Inv, DictOK, DictsForward
<1>4. CallOK(c)'
    BY DEF Inv, CallOK
<1>5. ASSUME NEW f \in wire' \ wire PROVE WrittenOK(f)'
  <2>1. WrittenOK(f) /\ f.call \in Calls /\ pc'[f.call] # "idle"
    BY <1>1, <1>5 DEF WrittenOK
  <2> QED BY <1>3, <2>1, OldWritten DEF Inv
<1>6. \A i \in 1..Len(frames'[c]) : i \in 1..Len(frames[c]) /\ frames'[c][i] = frames[c][i]
    OBVIOUS
<1> QED BY <1>1, <1>2, <1>3, <1>4, <1>5, <1>6, StepOf

LEMMA WriteInv ==
    ASSUME Inv, NEW c \in Calls, NEW again \in BOOLEAN, Write(c, again)
    PROVE  Inv'
<1>1. /\ pc[c] = "waiting" /\ wire' = wire \cup {Dumped(c, Len(frames[c]))}
      /\ UNCHANGED <<dict, builds, call, frames, received, testing>>
      /\ CallOK(c)
    BY DEF Write, Inv
<1>2. pc' = [pc EXCEPT ![c] = pc'[c]] /\ pc'[c] \in {"waiting", "building", "done"}
    BY DEF Write, Inv, FunctionsOK
<1>3. Len(frames[c]) \in 1..Len(frames[c]) /\ ~testing
  <2>1. PICK S : frames[c] \in Seq(S)
    BY <1>1 DEF CallOK
  <2> QED BY <1>1, <2>1, LenProperties, EmptySeq DEF CallOK
<1>4. WrittenOK(Dumped(c, Len(frames[c])))
    BY <1>1, <1>3, DumpedOK
<1>5. \A f \in wire' \ wire : WrittenOK(f)
    BY <1>1, <1>4
<1> QED BY <1>1, <1>2, <1>5, WritingStep

LEMMA WriteFailsInv ==
    ASSUME Inv, NEW c \in Calls, WriteFails(c)
    PROVE  Inv'
<1>1. /\ pc[c] = "waiting" /\ wire' = wire
      /\ UNCHANGED <<dict, builds, call, frames, received, testing>>
    BY DEF WriteFails
<1>2. pc' = [pc EXCEPT ![c] = pc'[c]] /\ pc'[c] = "raised"
    BY DEF WriteFails, Inv, FunctionsOK
<1> QED BY <1>1, <1>2, WritingStep

LEMMA ReplayInv ==
    ASSUME Inv, NEW c \in Calls, Replay(c)
    PROVE  Inv'
<1>1. /\ ~testing /\ frames[c] # <<>> /\ wire' = wire \cup {Dumped(c, i) : i \in DOMAIN frames[c]}
      /\ UNCHANGED <<dict, builds, call, pc, frames, received, testing>>
      /\ CallOK(c)
    BY DEF Replay, Inv
<1>2. pc[c] # "idle" /\ pc' = [pc EXCEPT ![c] = pc'[c]]
    BY <1>1 DEF CallOK, Inv, FunctionsOK
<1>3. DOMAIN frames[c] = 1..Len(frames[c])
  <2>1. PICK S : frames[c] \in Seq(S)
    BY <1>1 DEF CallOK
  <2> QED BY <2>1, LenProperties
<1>4. \A f \in wire' \ wire : WrittenOK(f)
    BY <1>1, <1>2, <1>3, DumpedOK
<1> QED BY <1>1, <1>2, <1>4, WritingStep

-----------------------------------------------------------------------------
(* TestStompBroker. *)

\* What the test producer gives a handler when the dictionary is as the application has filled it.
LEMMA FakeAsAsked ==
    ASSUME NEW c \in Calls, NEW i, Passed(c) = IF call[c].on = None THEN Empty ELSE Fresh
    PROVE  AsAsked(FakeHeaders(c, i), c, i)
<1> DEFINE h == WithCorrelation(Passed(c), call[c].correlation)
<1>1. h = [k \in Keys |-> h[k]]
    BY DEF WithCorrelation, Empty, Fresh
<1>2. Asked(c, i) = build(h, Request(c, i))
    BY DEF Asked
<1>3. /\ Request(c, i).body = call[c].bodies[i]
      /\ {"destination", "content-type", "content-length", "transaction"} \subseteq Keys
    BY DEF Request, Keys
<1> HIDE DEF h
<1>4. ASSUME NEW k \in Keys \ {"content-length", "transaction"}
      PROVE  FakeHeaders(c, i)[k] = build(h, Request(c, i))[k]
  <2>1. CASE k = "destination"
    BY <1>1, <1>3, <2>1 DEF FakeHeaders, build, h
  <2>2. CASE k = "content-type"
    BY <1>1, <1>3, <2>2 DEF FakeHeaders, build, h
  <2>3. CASE k \notin {"destination", "content-type"}
    BY <1>1, <1>3, <1>4, <2>3 DEF FakeHeaders, build, h
  <2> QED BY <2>1, <2>2, <2>3
<1> QED BY <1>2, <1>4 DEF AsAsked

LEMMA TestPublishInv ==
    ASSUME Inv, NEW c \in Calls, TestPublish(c)
    PROVE  Inv'
<1>1. /\ testing /\ pc[c] = "building" /\ UNCHANGED <<call, wire, testing>>
      /\ CallOK(c) /\ DictOK
    BY DEF TestPublish, Building, Inv
<1>2. PICK frame, i, r :
          /\ frames' = [frames EXCEPT ![c] = Append(@, frame)]
          /\ received' = received \cup {[call |-> c, number |-> i, headers |-> FakeHeaders(c, i)]}
          /\ IF call[c].route = "batch" \/ call[c].on = None
               THEN dict' = dict /\ builds' = builds
               ELSE /\ dict' = [dict EXCEPT ![call[c].on] = build(@, r)]
                    /\ builds' = [builds EXCEPT ![call[c].on] = @ + 1]
    BY DEF TestPublish
<1>3. /\ pc' = [b \in Calls |-> pc'[b]] /\ pc'[c] \in {"building", "done"}
      /\ \A b \in Calls \ {c} : pc'[b] = pc[b]
    BY DEF TestPublish, Inv, FunctionsOK
<1>4. /\ frames' = [b \in Calls |-> frames'[b]] /\ frames'[c] = Append(frames[c], frame)
      /\ \A b \in Calls \ {c} : frames'[b] = frames[b]
    BY <1>2 DEF Inv, FunctionsOK
<1>5. FunctionsOK'
    BY <1>1, <1>3, <1>4 DEF Inv, FunctionsOK
<1>6. CallOK(c)'
  <2>1. PICK S : frames[c] \in Seq(S)
    BY <1>1 DEF CallOK
  <2> DEFINE s == frames[c]
  <2>2. s \in Seq(S)
    BY <2>1
  <2> HIDE DEF s
  <2>3. \E T : Append(s, frame) \in Seq(T)
    BY <2>2, AppendFrame
  <2>4. \E T : frames'[c] \in Seq(T)
    BY <1>4, <2>3 DEF s
  <2> QED BY <1>1, <1>3, <2>4 DEF CallOK
<1>7. DictOK' /\ DictsForward /\ (FirstUse(c)' => Passed(c) = IF call[c].on = None THEN Empty ELSE Fresh)
  <2>1. CASE call[c].route = "batch" \/ call[c].on = None
    <3>1. dict' = dict /\ builds' = builds
      BY <1>2, <2>1
    <3>2. DictOK' /\ DictsForward
      BY <1>1, <3>1 DEF DictOK, DictsForward
    <3>3. CASE call[c].on = None
      BY <3>2, <3>3 DEF Passed
    <3>4. CASE call[c].on # None
      <4>1. call[c].on \in Dicts
        BY <1>1, <3>4 DEF CallOK
      <4>2. FirstUse(c)' => builds[call[c].on] = 0
        BY <1>1, <2>1, <3>1, <3>4, <4>1 DEF FirstUse, DictOK
      <4> QED BY <1>1, <3>2, <3>4, <4>1, <4>2 DEF DictOK, Passed
    <3> QED BY <3>3, <3>4
  <2>2. CASE ~(call[c].route = "batch" \/ call[c].on = None)
    <3>1. call[c].on \in Dicts
      BY <1>1, <2>2 DEF CallOK
    <3>2. /\ dict' = [dict EXCEPT ![call[c].on] = build(@, r)]
          /\ builds' = [builds EXCEPT ![call[c].on] = @ + 1]
      BY <1>2, <2>2
    <3>3. /\ builds' \in [Dicts -> Nat] /\ dict' = [d \in Dicts |-> dict'[d]]
          /\ builds[call[c].on] \in Nat /\ builds'[call[c].on] = builds[call[c].on] + 1
          /\ \A d \in Dicts \ {call[c].on} : builds'[d] = builds[d] /\ dict'[d] = dict[d]
      BY <1>1, <3>1, <3>2 DEF DictOK
    <3>4. DictOK' /\ DictsForward
      <4>1. \A d \in Dicts : builds[d] \in Nat
        BY <1>1 DEF DictOK
      <4> QED BY <1>1, <3>3, <4>1 DEF DictOK, DictsForward
    <3>5. FirstUse(c)' => builds[call[c].on] = 0
      BY <1>1, <2>2, <3>3 DEF FirstUse
    <3> QED BY <1>1, <2>2, <3>1, <3>4, <3>5 DEF DictOK, Passed
  <2> QED BY <2>1, <2>2
<1>8. ASSUME NEW f \in received' \ received PROVE ReceivedOK(f)'
  <2>1. f.call = c /\ f.number = i /\ f.headers = FakeHeaders(c, i)
    BY <1>2, <1>8
  <2>2. FirstUse(c)' => AsAsked(f.headers, c, i)
    BY <1>7, <2>1, FakeAsAsked
  <2>3. Asked(c, i)' = Asked(c, i)
    BY <1>1, AskedStable
  <2>4. FirstUse(c)' => AsAsked(f.headers, c, i)'
    BY <2>2, <2>3 DEF AsAsked
  <2> QED BY <1>3, <2>1, <2>4 DEF ReceivedOK
<1> QED BY <1>1, <1>3, <1>4, <1>5, <1>6, <1>7, <1>8, StepOf

-----------------------------------------------------------------------------
(* The theorems. *)

LEMMA InitInv == Init => Inv
<1> SUFFICES ASSUME Init PROVE Inv
    OBVIOUS
<1>1. FunctionsOK
    BY DEF Init, FunctionsOK
<1>2. DictOK
    BY DEF Init, DictOK
<1>3. ASSUME NEW c \in Calls PROVE CallOK(c) /\ Len(frames[c]) = 0
  <2>1. frames[c] = <<>> /\ call[c] = NoCall /\ pc[c] = "idle"
    BY DEF Init
  <2>2. \E S : frames[c] \in Seq(S)
    BY <2>1, EmptySeq
  <2>3. call[c].on = None /\ call[c].route \notin Direct
    BY <2>1 DEF NoCall, None, Direct
  <2> QED BY <2>1, <2>2, <2>3, EmptySeq DEF CallOK
<1>4. wire = {} /\ received = {}
    BY DEF Init
<1> QED BY <1>1, <1>2, <1>3, <1>4 DEF Inv

LEMMA NextInv == Inv /\ [Next]_vars => Inv'
<1> SUFFICES ASSUME Inv, [Next]_vars PROVE Inv'
    OBVIOUS
<1>1. CASE UNCHANGED vars
  <2>1. FunctionsOK' /\ DictOK' /\ \A c \in Calls : CallOK(c)'
    BY <1>1 DEF Inv, FunctionsOK, DictOK, CallOK
  <2>2. DictOK' /\ DictsForward
    BY <1>1 DEF Inv, DictOK, DictsForward
  <2>3. ~testing => \A c \in Calls : \A i \in 1..Len(frames[c]) : FrameOK(c, i)'
    BY <1>1, <2>2, OldFrame DEF Inv
  <2>4. \A f \in wire : WrittenOK(f)'
    BY <1>1, <2>2, OldWritten DEF Inv, WrittenOK
  <2>5. \A f \in received : ReceivedOK(f)'
    BY <1>1, <2>2, OldReceived DEF Inv, ReceivedOK
  <2> QED BY <1>1, <2>1, <2>3, <2>4, <2>5 DEF Inv
<1>2. CASE Next
  <2>1. PICK c \in Calls :
            \/ \E d \in Dicts \cup {None}, route \in Routes, counted \in BOOLEAN : Call(c, d, route, counted)
            \/ DirectBuild(c) \/ StreamBuild(c) \/ TestPublish(c)
            \/ Write(c, TRUE) \/ Write(c, FALSE) \/ WriteFails(c) \/ Replay(c)
    BY <1>2 DEF Next
  <2>2. CASE \E d \in Dicts \cup {None}, route \in Routes, counted \in BOOLEAN : Call(c, d, route, counted)
    BY <2>2, CallInv
  <2>3. CASE DirectBuild(c)
    BY <2>3, DirectBuildInv
  <2>4. CASE StreamBuild(c)
    BY <2>4, StreamBuildInv
  <2>5. CASE TestPublish(c)
    BY <2>5, TestPublishInv
  <2>6. CASE Write(c, TRUE)
    BY <2>6, WriteInv
  <2>7. CASE Write(c, FALSE)
    BY <2>7, WriteInv
  <2>8. CASE WriteFails(c)
    BY <2>8, WriteFailsInv
  <2>9. CASE Replay(c)
    BY <2>9, ReplayInv
  <2> QED BY <2>1, <2>2, <2>3, <2>4, <2>5, <2>6, <2>7, <2>8, <2>9
<1> QED BY <1>1, <1>2

(* A dictionary no frame was built in is as the application has filled it, *)
(* a frame that refers to the only dictionary it was built in finds there  *)
(* what its call asked for, and whatever was dumped or received agrees     *)
(* with it: an invariant of SendFrame.build, of the producer's copy and of *)
(* the writes, retries and replays that read the headers later.            *)
THEOREM Invariant == Spec => []Inv
BY InitInv, NextInv, PTL DEF Spec

(* Whatever is written, retried or replayed carries the headers of its own *)
(* call, unless the same dictionary was given to stompman twice            *)
(* (SendFrame.build writes into it; StompProducer copies it first).        *)
THEOREM DeliveredAsAskedAlways == Spec => []DeliveredAsAsked
<1>1. Inv => DeliveredAsAsked
    BY DEF Inv, WrittenOK, DeliveredAsAsked
<1> QED BY <1>1, Invariant, PTL

(* A handler under TestStompBroker gets the headers the SEND frame would   *)
(* have carried, if the dictionary is used for the first time              *)
(* (FakeStompProducer.publish builds the frame in the command's own).      *)
THEOREM TestBrokerAgreesAlways == Spec => []TestBrokerAgrees
<1>1. Inv => TestBrokerAgrees
    BY DEF Inv, ReceivedOK, FirstUse, AsAsked, TestBrokerAgrees
<1> QED BY <1>1, Invariant, PTL

=============================================================================
