--------------------------- MODULE SharedRingProofs ---------------------------
(***************************************************************************)
(* The two threads of a RingBuffer need no lock for the producer to leave  *)
(* unread bytes alone, every byte that is copied out is the one that was   *)
(* pushed there, and the whole implements BoundedFifo: proved for every    *)
(* size of the ring and of the word.                                       *)
(***************************************************************************)
EXTENDS SharedRing, RingBufferProofs, SequenceTheorems

-----------------------------------------------------------------------------
(* Distances on the circle of uint32.                                      *)

LEMMA Sizes0 ==
  /\ N \in Nat /\ N > 0 /\ Word \in Nat /\ Word > 0 /\ 2 * N <= Word
  /\ \A size \in Sizes : size \in 1 .. N
  BY RingAssumption, SharedAssumption

(* The remainder of a number that is less than one turn off. *)
LEMMA OneTurn ==
  ASSUME NEW x \in Int
  PROVE  /\ 0 <= x /\ x < Word => x % Word = x
         /\ Word <= x /\ x < 2 * Word => x % Word = x - Word
         /\ -Word <= x /\ x < 0 => x % Word = x + Word
  BY Sizes0

LEMMA MinusOnCircle ==
  ASSUME NEW a \in Positions, NEW b \in Positions
  PROVE  /\ Minus(a, b) = IF b <= a THEN a - b ELSE a - b + Word
         /\ Minus(a, b) \in Positions
  BY Sizes0, OneTurn DEF Minus, Positions

LEMMA MinusType ==
  ASSUME NEW a \in Positions, NEW b \in Positions
  PROVE  Minus(a, b) \in Positions /\ Minus(a, b) \in Nat
  BY Sizes0, MinusOnCircle DEF Positions

LEMMA PlusOnCircle ==
  ASSUME NEW p \in Positions, NEW n \in 0 .. N
  PROVE  /\ Plus(p, n) = IF p + n < Word THEN p + n ELSE p + n - Word
         /\ Plus(p, n) \in Positions
  BY Sizes0, OneTurn DEF Plus, Positions

LEMMA Here ==
  ASSUME NEW a \in Positions
  PROVE  Minus(a, a) = 0
  BY Sizes0, MinusOnCircle DEF Positions

LEMMA Chain ==
  ASSUME NEW a \in Positions, NEW b \in Positions, NEW c \in Positions,
         Minus(a, b) + Minus(b, c) <= N
  PROVE  Minus(a, c) = Minus(a, b) + Minus(b, c)
<1>1. Minus(a, b) = IF b <= a THEN a - b ELSE a - b + Word
  BY MinusOnCircle
<1>2. Minus(b, c) = IF c <= b THEN b - c ELSE b - c + Word
  BY MinusOnCircle
<1>3. Minus(a, c) = IF c <= a THEN a - c ELSE a - c + Word
  BY MinusOnCircle
<1> QED BY Sizes0, <1>1, <1>2, <1>3 DEF Positions

LEMMA Advance ==
  ASSUME NEW a \in Positions, NEW b \in Positions, NEW n \in 0 .. N,
         Minus(a, b) + n <= N
  PROVE  Plus(a, n) \in Positions /\ Minus(Plus(a, n), b) = Minus(a, b) + n
<1>1. Minus(a, b) = IF b <= a THEN a - b ELSE a - b + Word
  BY MinusOnCircle
<1>2. /\ Plus(a, n) = IF a + n < Word THEN a + n ELSE a + n - Word
      /\ Plus(a, n) \in Positions
  BY PlusOnCircle
<1>3. Minus(Plus(a, n), b) = IF b <= Plus(a, n) THEN Plus(a, n) - b ELSE Plus(a, n) - b + Word
  BY <1>2, MinusOnCircle
<1> QED BY Sizes0, <1>1, <1>2, <1>3 DEF Positions

LEMMA Retreat ==
  ASSUME NEW a \in Positions, NEW b \in Positions, NEW n \in 0 .. N,
         n <= Minus(a, b), Minus(a, b) <= N
  PROVE  Plus(b, n) \in Positions /\ Minus(a, Plus(b, n)) = Minus(a, b) - n
<1>1. Minus(a, b) = IF b <= a THEN a - b ELSE a - b + Word
  BY MinusOnCircle
<1>2. /\ Plus(b, n) = IF b + n < Word THEN b + n ELSE b + n - Word
      /\ Plus(b, n) \in Positions
  BY PlusOnCircle
<1>3. Minus(a, Plus(b, n)) = IF Plus(b, n) <= a THEN a - Plus(b, n) ELSE a - Plus(b, n) + Word
  BY <1>2, MinusOnCircle
<1> QED BY Sizes0, <1>1, <1>2, <1>3 DEF Positions

(* freeSize() of a thread: the turn less the distance it sees. *)
LEMMA Room ==
  ASSUME NEW a \in Positions, NEW b \in Positions, Minus(a, b) <= N
  PROVE  FreeSize(a, b) = N - Minus(a, b)
  BY Sizes0, MinusOnCircle, OneTurn DEF Positions, FreeSize, Minus

(* A turn of the word is a whole number of turns of the ring. *)
LEMMA WordTurns ==
  ASSUME NEW q \in Nat
  PROVE  (q + Word) % N = q % N
<1> DEFINE x == q \div N
           w == Word \div N
           m == q % N
<1>1. x \in Int /\ w \in Int /\ m \in Slots /\ q = N * x + m
  BY Sizes0 DEF Slots
<1>2. Word = N * w
  BY Sizes0, SharedAssumption
<1> HIDE DEF x, w, m
<1>3. q + Word = (x + w) * N + m
  BY Sizes0, <1>1, <1>2 DEF Slots
<1>4. (q + Word) % N = m
  BY <1>1, <1>3, SlotUnique
<1> QED BY <1>4 DEF m

(* Positions less than a turn apart have different slots. *)
LEMMA SlotsDiffer ==
  ASSUME NEW q \in Positions, NEW p \in Positions, Minus(q, p) \in 1 .. N - 1
  PROVE  q % N # p % N
<1> SUFFICES ASSUME q % N = p % N PROVE FALSE
  OBVIOUS
<1>1. q \in Nat /\ p \in Nat
  BY Sizes0 DEF Positions
<1>2. ((p % N) - p) % N = 0
  BY Sizes0, <1>1, SlotDistance
<1>3. CASE p <= q
  <2>1. q - p \in 1 .. N - 1
    BY <1>3, MinusOnCircle
  <2>2. ((q % N) - p) % N = q - p
    BY Sizes0, <1>1, <2>1, SlotDistance
  <2> QED BY Sizes0, <1>1, <1>2, <2>1, <2>2
<1>4. CASE q < p
  <2>1. q + Word - p \in 1 .. N - 1
    BY Sizes0, <1>1, <1>4, MinusOnCircle
  <2>2. (((q + Word) % N) - p) % N = q + Word - p
    BY Sizes0, <1>1, <2>1, SlotDistance
  <2>3. (q + Word) % N = q % N
    BY <1>1, WordTurns
  <2> QED BY Sizes0, <1>1, <1>2, <2>1, <2>2, <2>3
<1> QED BY <1>1, <1>3, <1>4

-----------------------------------------------------------------------------
(* The inductive invariant: the types, the order of the cursors, and the   *)
(* place of the calls in progress between them.                            *)

Typed ==
  /\ ring \in [Slots -> Positions \cup {Junk}]
  /\ put \in Calls /\ take \in Calls
  /\ cached \subseteq Positions
  /\ buf \in Seq(Positions \cup {Junk})

Cursors ==
  /\ in \in Positions /\ out \in Positions
  /\ seenIn \in Positions /\ seenOut \in Positions
  /\ Minus(out, seenOut) + Minus(seenIn, out) + Minus(in, seenIn) <= N

(* A set or push ends within a turn of the out that its thread sees. *)
PutFits ==
  /\ put.op = "idle" => put.size = 0
  /\ put.op = "push" => put.begin = in
  /\ put.op # "idle" => Minus(in, seenOut) + Minus(put.begin, in) + put.size <= N

(* A pop takes no more than its thread sees. *)
TakeFits == take.op = "pop" => take.begin = out /\ take.size <= Minus(seenIn, out)

Inductive == Typed /\ Cursors /\ PutFits /\ TakeFits

(* The distances between the cursors add up. *)
LEMMA Distances ==
  ASSUME Cursors
  PROVE  /\ Minus(out, seenOut) \in 0 .. N /\ Minus(seenIn, out) \in 0 .. N
         /\ Minus(in, seenIn) \in 0 .. N
         /\ Minus(in, out) = Minus(seenIn, out) + Minus(in, seenIn)
         /\ Minus(in, seenOut) = Minus(out, seenOut) + Minus(in, out)
         /\ Minus(in, seenOut) \in 0 .. N
<1>1. /\ Minus(out, seenOut) \in Nat /\ Minus(seenIn, out) \in Nat
      /\ Minus(in, seenIn) \in Nat /\ Minus(in, out) \in Nat
  BY Sizes0, MinusOnCircle DEF Cursors, Positions
<1>2. Minus(in, out) = Minus(seenIn, out) + Minus(in, seenIn)
  BY <1>1, Sizes0, Chain DEF Cursors
<1>3. Minus(in, seenOut) = Minus(out, seenOut) + Minus(in, out)
  BY <1>1, <1>2, Sizes0, Chain DEF Cursors
<1> QED BY <1>1, <1>2, <1>3, Sizes0 DEF Cursors

LEMMA CallTypes ==
  ASSUME NEW c \in Calls
  PROVE  c.op \in Ops /\ c.begin \in Positions /\ c.size \in 0 .. N /\ c.done \in 0 .. N
  BY DEF Calls

LEMMA InitInductive == Init => Inductive
<1> SUFFICES ASSUME Init PROVE Inductive
  OBVIOUS
<1>1. 0 \in Positions /\ Minus(0, 0) = 0
  BY Sizes0, Here DEF Positions
<1>2. Idle \in Calls
  BY <1>1, Sizes0 DEF Idle, Calls, Ops
<1>3. Typed
  BY <1>2 DEF Init, Typed
<1>4. Cursors
  BY <1>1, Sizes0 DEF Init, Cursors
<1>5. PutFits /\ TakeFits
  BY DEF Init, PutFits, TakeFits, Idle
<1> QED BY <1>3, <1>4, <1>5 DEF Inductive

(* The producer's steps. *)
LEMMA ProducerInductive ==
  ASSUME Inductive, Producer
  PROVE  Inductive'
<1>0. /\ Typed /\ Cursors /\ PutFits /\ TakeFits
      /\ put.op \in Ops /\ put.begin \in Positions /\ put.size \in 0 .. N /\ put.done \in 0 .. N
      /\ Minus(in, seenOut) \in 0 .. N
  BY Distances, CallTypes DEF Inductive, Typed
<1>1. CASE CopyIn
  <2>1. /\ put' \in Calls /\ put'.op = put.op /\ put'.begin = put.begin
        /\ put'.size = put.size
    BY <1>0, <1>1, Sizes0 DEF CopyIn, Calls, Typed
  <2>2. Plus(put.begin, put.done) \in Positions
    BY <1>0, PlusOnCircle
  <2>3. ring' \in [Slots -> Positions \cup {Junk}]
    BY <1>0, <1>1, <2>2 DEF CopyIn, Typed
  <2>4. Typed'
    BY <1>0, <1>1, <2>1, <2>3 DEF CopyIn, Typed, consumerVars
  <2> QED BY <1>0, <1>1, <2>1, <2>4
       DEF CopyIn, Inductive, Cursors, PutFits, TakeFits, consumerVars
<1>2. CASE FinishPush
  <2>1. /\ put.begin = in /\ put.op = "push"
        /\ Minus(in, seenOut) + Minus(in, in) + put.size <= N /\ Minus(in, in) = 0
    BY <1>0, <1>2, Here DEF FinishPush, PutFits, Cursors
  <2>2. Minus(in, seenIn) + put.size <= N
    BY <1>0, <2>1, Distances, Sizes0
  <2>3. in' \in Positions /\ Minus(in', seenIn) = Minus(in, seenIn) + put.size
    BY <1>0, <1>2, <2>2, Advance DEF FinishPush, Cursors
  <2>4. Cursors'
    BY <1>0, <1>2, <2>1, <2>3, Distances, Sizes0 DEF FinishPush, Cursors, consumerVars
  <2>5. put' = Idle /\ Idle \in Calls
    BY <1>2, Sizes0 DEF FinishPush, Idle, Calls, Ops, Positions
  <2> QED BY <1>0, <1>2, <2>4, <2>5
       DEF FinishPush, Inductive, Typed, PutFits, TakeFits, consumerVars, Idle
<1>3. CASE FinishSet
  <2>1. put' = Idle /\ Idle \in Calls
    BY <1>3, Sizes0 DEF FinishSet, Idle, Calls, Ops, Positions
  <2>2. Span(put.begin, put.size) \subseteq Positions
    BY <1>0, Sizes0, PlusOnCircle DEF Span
  <2> QED BY <1>0, <1>3, <2>1, <2>2
       DEF FinishSet, Inductive, Typed, Cursors, PutFits, TakeFits, consumerVars, Idle
<1>4. ASSUME NEW size \in Sizes, StartPush(size) PROVE Inductive'
  <2> DEFINE n == SetSize(in, seenOut, size)
  <2>1. n \in 0 .. N - Minus(in, seenOut)
    BY <1>0, Sizes0, Room DEF SetSize, AtMost, Cursors
  <2>2. put' = Call("push", in, n)
    BY <1>4 DEF StartPush
  <2> HIDE DEF n
  <2>3. /\ put' \in Calls /\ put'.op = "push" /\ put'.begin = in /\ put'.size = n
    BY <1>0, <2>1, <2>2, Sizes0 DEF Call, Calls, Ops, Cursors
  <2>4. PutFits'
    BY <1>0, <1>4, <2>1, <2>3, Here, Sizes0 DEF StartPush, PutFits, Cursors
  <2> QED BY <1>0, <1>4, <2>3, <2>4
       DEF StartPush, Inductive, Typed, Cursors, TakeFits, consumerVars
<1>5. ASSUME NEW size \in Sizes, PushCached(size) PROVE Inductive'
  <2> DEFINE n == AtMost(size, FreeSize(in, seenOut))
  <2>1. n \in 0 .. N - Minus(in, seenOut)
    BY <1>0, Sizes0, Room DEF AtMost, Cursors
  <2>2. in' = Plus(in, n)
    BY <1>5 DEF PushCached
  <2> HIDE DEF n
  <2>3. n \in 0 .. N /\ Minus(in, seenIn) + n <= N
    BY <1>0, <2>1, Distances, Sizes0
  <2>4. in' \in Positions /\ Minus(in', seenIn) = Minus(in, seenIn) + n
    BY <1>0, <2>2, <2>3, Advance DEF Cursors
  <2>5. Cursors'
    BY <1>0, <1>5, <2>1, <2>4, Distances, Sizes0 DEF PushCached, Cursors, consumerVars
  <2> QED BY <1>0, <1>5, <2>5
       DEF PushCached, Inductive, Typed, PutFits, TakeFits, consumerVars, Idle
<1>6. ASSUME NEW size \in Sizes, NEW ahead \in 1 .. N - 1, InRoom(ahead), StartSet(ahead, size)
      PROVE  Inductive'
  <2> DEFINE begin == Plus(in, ahead)
             n == SetSize(begin, seenOut, size)
  <2>1. ahead < N - Minus(in, seenOut)
    BY <1>0, <1>6, Room, Sizes0 DEF InRoom, Cursors
  <2>2. begin \in Positions /\ Minus(begin, seenOut) = Minus(in, seenOut) + ahead
    BY <1>0, <2>1, Advance, Sizes0 DEF Cursors
  <2>3. Minus(begin, in) = ahead
    BY <1>0, <2>1, Advance, Here, Sizes0 DEF Cursors
  <2>4. put' = Call("set", begin, n)
    BY <1>6 DEF StartSet
  <2> HIDE DEF begin
  <2>5. n \in 0 .. N - Minus(begin, seenOut)
    BY <1>0, <2>1, <2>2, Sizes0, Room DEF SetSize, AtMost, Cursors
  <2> HIDE DEF n
  <2>6. /\ put' \in Calls /\ put'.op = "set" /\ put'.begin = begin /\ put'.size = n
    BY <1>0, <2>1, <2>2, <2>4, <2>5, Sizes0 DEF Call, Calls, Ops
  <2>7. PutFits'
    BY <1>0, <1>6, <2>2, <2>3, <2>5, <2>6, Sizes0 DEF StartSet, PutFits
  <2> QED BY <1>0, <1>6, <2>6, <2>7
       DEF StartSet, Inductive, Typed, Cursors, TakeFits, consumerVars
<1> QED BY <1>1, <1>2, <1>3, <1>4, <1>5, <1>6 DEF Producer

(* The consumer's steps. *)
LEMMA ConsumerInductive ==
  ASSUME Inductive, Consumer
  PROVE  Inductive'
<1>0. /\ Typed /\ Cursors /\ PutFits /\ TakeFits
      /\ take.op \in Ops /\ take.begin \in Positions
      /\ take.size \in 0 .. N /\ take.done \in 0 .. N
      /\ Minus(seenIn, out) \in 0 .. N
      /\ Idle \in Calls /\ <<>> \in Seq(Positions \cup {Junk})
  BY Sizes0, Distances, CallTypes DEF Inductive, Typed, Idle, Calls, Ops, Positions
<1>1. CASE CopyOut
  <2>1. /\ take' \in Calls /\ take'.op = take.op /\ take'.begin = take.begin
        /\ take'.size = take.size
    <3>1. take.done + 1 \in 0 .. N /\ take \in Calls
      BY <1>0, <1>1, Sizes0 DEF CopyOut, Typed
    <3>2. take' = [take EXCEPT !.done = take.done + 1]
      BY <1>1 DEF CopyOut
    <3> QED BY <3>1, <3>2 DEF Calls
  <2>2. Plus(take.begin, take.done) \in Int
    BY <1>0, Sizes0, PlusOnCircle DEF Positions
  <2>3. ring[Plus(take.begin, take.done) % N] \in Positions \cup {Junk}
    BY <1>0, <2>2, SlotOf DEF Typed
  <2>4. buf' \in Seq(Positions \cup {Junk})
    BY <1>0, <1>1, <2>3 DEF CopyOut, Typed
  <2> QED BY <1>0, <1>1, <2>1, <2>4
       DEF CopyOut, Inductive, Typed, Cursors, PutFits, TakeFits, producerVars
<1>2. CASE FinishPop
  <2>1. take.begin = out /\ take.size <= Minus(seenIn, out)
    BY <1>0, <1>2 DEF FinishPop, TakeFits
  <2>2. out' = Plus(out, take.size) /\ take' = Idle /\ buf' = <<>>
    BY <1>2 DEF FinishPop
  <2>3. out' \in Positions /\ Minus(seenIn, out') = Minus(seenIn, out) - take.size
    BY <1>0, <2>1, <2>2, Retreat DEF Cursors
  <2>4. Minus(out', seenOut) = Minus(out, seenOut) + take.size
    BY <1>0, <2>1, <2>2, Distances, Advance, Sizes0 DEF Cursors
  <2>5. Cursors'
    BY <1>0, <1>2, <2>3, <2>4, Distances, Sizes0 DEF FinishPop, Cursors, producerVars
  <2> QED BY <1>0, <1>2, <2>2, <2>5
       DEF FinishPop, Inductive, Typed, PutFits, TakeFits, producerVars, Idle
<1>3. CASE FinishGet
  BY <1>0, <1>3
     DEF FinishGet, Inductive, Typed, Cursors, PutFits, TakeFits, producerVars, Idle
<1>4. ASSUME NEW size \in Sizes, StartPop(size) PROVE Inductive'
  <2> DEFINE n == GetSize(seenIn, out, size)
  <2>1. n \in 0 .. Minus(seenIn, out)
    BY <1>0, Sizes0 DEF GetSize, AtMost
  <2>2. take' = Call("pop", out, n) /\ buf' = <<>>
    BY <1>4 DEF StartPop
  <2> HIDE DEF n
  <2>3. take' \in Calls /\ take'.begin = out /\ take'.size = n
    BY <1>0, <2>1, <2>2, Sizes0 DEF Call, Calls, Ops, Cursors
  <2>4. TakeFits'
    BY <1>4, <2>1, <2>3 DEF StartPop, TakeFits
  <2> QED BY <1>0, <1>4, <2>2, <2>3, <2>4
       DEF StartPop, Inductive, Typed, Cursors, PutFits, producerVars
<1>5. ASSUME NEW size \in Sizes, PopRead(size) PROVE Inductive'
  <2> DEFINE n == GetSize(seenIn, out, size)
  <2>1. n \in 0 .. Minus(seenIn, out)
    BY <1>0, Sizes0 DEF GetSize, AtMost
  <2>2. out' = Plus(out, n)
    BY <1>5 DEF PopRead
  <2> HIDE DEF n
  <2>3. n \in 0 .. N
    BY <1>0, <2>1, Sizes0
  <2>4. out' \in Positions /\ Minus(seenIn, out') = Minus(seenIn, out) - n
    BY <1>0, <2>1, <2>2, <2>3, Retreat DEF Cursors
  <2>5. Minus(out', seenOut) = Minus(out, seenOut) + n
    BY <1>0, <2>1, <2>2, <2>3, Distances, Advance, Sizes0 DEF Cursors
  <2>6. Cursors'
    BY <1>0, <1>5, <2>1, <2>4, <2>5, Distances, Sizes0 DEF PopRead, Cursors, producerVars
  <2> QED BY <1>0, <1>5, <2>6
       DEF PopRead, Inductive, Typed, PutFits, TakeFits, producerVars, Idle
<1>6. ASSUME NEW size \in Sizes, NEW begin \in Positions, StartGet(begin, size)
      PROVE  Inductive'
  <2> DEFINE n == GetSize(seenIn, begin, size)
  <2>1. n \in 0 .. N
    <3>1. Minus(seenIn, begin) \in Nat
      BY <1>0, MinusType DEF Cursors
    <3> QED BY <3>1, Sizes0 DEF GetSize, AtMost
  <2>2. take' = Call("get", begin, n) /\ buf' = <<>>
    BY <1>6 DEF StartGet
  <2> HIDE DEF n
  <2>3. take' \in Calls /\ take'.op = "get"
    BY <2>1, <2>2, Sizes0 DEF Call, Calls, Ops
  <2> QED BY <1>0, <1>6, <2>2, <2>3
       DEF StartGet, Inductive, Typed, Cursors, PutFits, TakeFits, producerVars
<1>7. ASSUME NEW n \in 1 .. N - 1
      PROVE  /\ Behind(n) \in Positions
             /\ Plus(out, AtMost(n, Minus(seenIn, out))) \in Positions
  <2>1. Behind(n) \in Positions
    <3>1. n \in Int /\ out \in Int
      BY <1>0, Sizes0 DEF Cursors, Positions
    <3> QED BY <3>1, Sizes0 DEF Behind, Minus, Positions
  <2>2. AtMost(n, Minus(seenIn, out)) \in 0 .. N
    BY <1>0, Sizes0 DEF AtMost
  <2> QED BY <1>0, <2>1, <2>2, PlusOnCircle DEF Cursors
<1> QED BY <1>1, <1>2, <1>3, <1>4, <1>5, <1>6, <1>7 DEF Consumer

(* A store reaches the other thread: what it sees moves on, never back. *)
LEMMA ArrivalInductive ==
  ASSUME Inductive, InArrives \/ OutArrives
  PROVE  Inductive'
<1>0. Typed /\ Cursors /\ PutFits /\ TakeFits
  BY DEF Inductive
<1>1. CASE InArrives
  <2>1. seenIn' = in /\ Minus(in, in) = 0
    BY <1>0, <1>1, Here DEF InArrives, Cursors
  <2>2. Cursors'
    BY <1>0, <1>1, <2>1, Distances, Sizes0 DEF InArrives, Cursors, producerVars
  <2>3. TakeFits'
    BY <1>0, <1>1, <2>1, Distances, CallTypes, Sizes0 DEF InArrives, TakeFits, Typed
  <2> QED BY <1>0, <1>1, <2>2, <2>3 DEF InArrives, Inductive, Typed, PutFits, producerVars
<1>2. CASE OutArrives
  <2>1. seenOut' = out /\ Minus(out, out) = 0
    BY <1>0, <1>2, Here DEF OutArrives, Cursors
  <2>2. Cursors'
    BY <1>0, <1>2, <2>1, Distances, Sizes0 DEF OutArrives, Cursors, consumerVars
  <2>3. /\ Minus(in, out) \in Nat /\ Minus(in, out) <= Minus(in, seenOut)
        /\ Minus(in, seenOut) \in Nat
    BY <1>0, Distances
  <2>4. Minus(put.begin, in) \in Nat /\ put.size \in Nat
    BY <1>0, MinusType, CallTypes, Sizes0 DEF Typed, Cursors
  <2>5. PutFits'
    BY <1>0, <1>2, <2>1, <2>3, <2>4, Sizes0 DEF OutArrives, PutFits
  <2> QED BY <1>0, <1>2, <2>2, <2>5 DEF OutArrives, Inductive, Typed, TakeFits, consumerVars
<1> QED BY <1>1, <1>2

LEMMA StepInductive == Inductive /\ [Next]_vars => Inductive'
<1>1. ASSUME Inductive, UNCHANGED vars PROVE Inductive'
  BY <1>1 DEF vars, producerVars, consumerVars, Inductive, Typed, Cursors, PutFits, TakeFits
<1> QED BY <1>1, ProducerInductive, ConsumerInductive, ArrivalInductive DEF Next

LEMMA AlwaysInductive == Spec => []Inductive
  BY InitInductive, StepInductive, PTL DEF Spec

-----------------------------------------------------------------------------
(* The cursors keep their order and their distance, whatever the two       *)
(* threads see of each other (push, pop, set and get of RingBuffer.h).     *)
THEOREM CursorsKeepOrder == Spec => []TypeOK
<1>1. Inductive => TypeOK
  BY DEF Inductive, Typed, Cursors, TypeOK
<1> QED BY <1>1, AlwaysInductive, PTL

(* No byte that the producer still has to write goes to the slot of a byte *)
(* that is still to be read: RingBuffer.h:81 with a stale out.             *)
THEOREM NoUnreadByteOverwritten == Spec => []WritesMissUnread
<1>1. ASSUME Inductive PROVE WritesMissUnread
  <2> SUFFICES ASSUME NEW k \in put.done .. put.size - 1, NEW p \in Unread
               PROVE  Plus(put.begin, k) % N # p % N
    BY DEF WritesMissUnread
  <2>0. Typed /\ Cursors /\ PutFits
    BY <1>1 DEF Inductive
  <2>1. PICK j \in 0 .. Minus(in, out) - 1 : p = Plus(out, j)
    BY DEF Unread, Span
  <2>2. /\ put.begin \in Positions /\ put.size \in 0 .. N /\ put.done \in 0 .. N
        /\ k \in 0 .. put.size - 1 /\ k \in 0 .. N
    BY <2>0, CallTypes, Sizes0 DEF Typed
  <2>3. /\ put.op # "idle"
        /\ Minus(in, seenOut) + Minus(put.begin, in) + put.size <= N
    BY <2>0, <2>2 DEF PutFits
  <2>4. Minus(put.begin, in) \in Nat
    BY <2>0, <2>2, MinusType DEF Cursors
  <2>5. /\ Minus(in, out) \in 0 .. N
        /\ Minus(in, out) + Minus(put.begin, in) + put.size <= N
    BY <2>0, <2>2, <2>3, <2>4, Distances, Sizes0
  <2>6. p \in Positions /\ Minus(in, p) = Minus(in, out) - j
    BY <2>0, <2>1, <2>5, Retreat, Sizes0 DEF Cursors
  <2>7. Minus(put.begin, p) = Minus(put.begin, in) + Minus(in, p)
    BY <2>0, <2>1, <2>2, <2>4, <2>5, <2>6, Chain, Sizes0 DEF Cursors
  <2>8. /\ Plus(put.begin, k) \in Positions
        /\ Minus(Plus(put.begin, k), p) = Minus(put.begin, p) + k
    BY <2>1, <2>2, <2>4, <2>5, <2>6, <2>7, Advance, Sizes0
  <2>9. Minus(Plus(put.begin, k), p) \in 1 .. N - 1
    BY <2>1, <2>2, <2>4, <2>5, <2>6, <2>7, <2>8, Sizes0
  <2> QED BY <2>6, <2>8, <2>9, SlotsDiffer
<1> QED BY <1>1, AlwaysInductive, PTL

-----------------------------------------------------------------------------
(* More about distances on the circle.                                     *)

LEMMA LongChain ==
  ASSUME NEW a \in Positions, NEW b \in Positions, NEW c \in Positions,
         Minus(a, b) + Minus(b, c) < Word
  PROVE  Minus(a, c) = Minus(a, b) + Minus(b, c)
<1>1. Minus(a, b) = IF b <= a THEN a - b ELSE a - b + Word
  BY MinusOnCircle
<1>2. Minus(b, c) = IF c <= b THEN b - c ELSE b - c + Word
  BY MinusOnCircle
<1>3. Minus(a, c) = IF c <= a THEN a - c ELSE a - c + Word
  BY MinusOnCircle
<1> QED BY Sizes0, <1>1, <1>2, <1>3 DEF Positions

(* A position is as far from another as Minus says. *)
LEMMA FromTo ==
  ASSUME NEW p \in Positions, NEW b \in Positions, Minus(p, b) <= N
  PROVE  p = Plus(b, Minus(p, b))
<1>1. Minus(p, b) = IF b <= p THEN p - b ELSE p - b + Word
  BY MinusOnCircle
<1>2. Minus(p, b) \in 0 .. N
  BY Sizes0, MinusType
<1>3. Plus(b, Minus(p, b)) =
        IF b + Minus(p, b) < Word THEN b + Minus(p, b) ELSE b + Minus(p, b) - Word
  BY <1>2, PlusOnCircle
<1> QED BY Sizes0, <1>1, <1>2, <1>3 DEF Positions

LEMMA ToFrom ==
  ASSUME NEW b \in Positions, NEW n \in 0 .. N
  PROVE  Plus(b, n) \in Positions /\ Minus(Plus(b, n), b) = n
  BY Sizes0, Here, Advance

(* From a position further on, a position is as much nearer. *)
LEMMA Nearer ==
  ASSUME NEW p \in Positions, NEW b \in Positions, NEW n \in 0 .. N, n <= Minus(p, b)
  PROVE  Minus(p, Plus(b, n)) = Minus(p, b) - n
<1>1. Minus(p, b) = IF b <= p THEN p - b ELSE p - b + Word
  BY MinusOnCircle
<1>2. /\ Plus(b, n) = IF b + n < Word THEN b + n ELSE b + n - Word
      /\ Plus(b, n) \in Positions
  BY PlusOnCircle
<1>3. Minus(p, Plus(b, n)) = IF Plus(b, n) <= p THEN p - Plus(b, n) ELSE p - Plus(b, n) + Word
  BY <1>2, MinusOnCircle
<1> QED BY Sizes0, <1>1, <1>2, <1>3 DEF Positions

(* The positions of one turn have slots of their own. *)
LEMMA OneTurnSlots ==
  ASSUME NEW p \in Positions, NEW q \in Positions, NEW b \in Positions,
         Minus(p, b) < N, Minus(q, b) < N, p # q
  PROVE  p % N # q % N
<1>1. Minus(p, b) = IF b <= p THEN p - b ELSE p - b + Word
  BY MinusOnCircle
<1>2. Minus(q, b) = IF b <= q THEN q - b ELSE q - b + Word
  BY MinusOnCircle
<1>3. Minus(q, p) = IF p <= q THEN q - p ELSE q - p + Word
  BY MinusOnCircle
<1>4. Minus(p, q) = IF q <= p THEN p - q ELSE p - q + Word
  BY MinusOnCircle
<1>5. Minus(q, p) \in 1 .. N - 1 \/ Minus(p, q) \in 1 .. N - 1
  BY Sizes0, <1>1, <1>2, <1>3, <1>4 DEF Positions
<1> QED BY <1>5, SlotsDiffer

-----------------------------------------------------------------------------
(* The contents of the ring.                                               *)

(* What is pushed and not popped. *)
UnreadIntact ==
  \A p \in Positions : Minus(p, out) < Minus(in, out) => ring[p % N] = p

(* What is set ahead and not pushed: it lies in the room there is. *)
CachedInRoom == \A p \in cached : Minus(p, in) + Minus(in, seenOut) < N
CachedRight == \A p \in cached : ring[p % N] = p

(* What the call in progress has copied in. *)
PutRight ==
  /\ put.done <= put.size
  /\ \A k \in 0 .. put.done - 1 : ring[Plus(put.begin, k) % N] = Plus(put.begin, k)

(* Where the call in progress reads: in front of what is seen pushed, from *)
(* a place ahead of out or less than a turn behind it.                     *)
TakePlace ==
  \/ take.size = 0
  \/ Minus(take.begin, out) + take.size <= Minus(seenIn, out)
  \/ /\ Minus(out, take.begin) < N
     /\ take.size <= Minus(out, take.begin) + Minus(seenIn, out)

(* What it has copied out. *)
Copied == Len(buf) = take.done /\ take.done <= take.size /\ CopiesAreRight

Contents ==
  /\ Inductive /\ UnreadIntact /\ CachedInRoom /\ CachedRight
  /\ PutRight /\ TakePlace /\ Copied

LEMMA InitContents == Init => Contents
<1> SUFFICES ASSUME Init PROVE Contents
  OBVIOUS
<1>1. 0 \in Positions /\ Minus(0, 0) = 0
  BY Sizes0, Here DEF Positions
<1>2. UnreadIntact
  BY <1>1, MinusType DEF Init, UnreadIntact
<1>3. TakePlace /\ CachedInRoom /\ CachedRight
  BY DEF Init, Idle, TakePlace, CachedInRoom, CachedRight
<1>4. PutRight
  BY DEF Init, Idle, PutRight
<1>5. Copied
  BY DEF Init, Idle, Copied, CopiesAreRight
<1> QED BY <1>2, <1>3, <1>4, <1>5, InitInductive DEF Contents

(* What the calls in progress are, in the shape the steps use it. *)
LEMMA InProgress ==
  ASSUME Inductive
  PROVE  /\ Cursors /\ Minus(in, out) \in 0 .. N /\ Minus(in, seenOut) \in 0 .. N
         /\ Minus(seenIn, out) \in 0 .. N
         /\ Minus(in, out) <= Minus(in, seenOut) /\ Minus(seenIn, out) <= Minus(in, out)
         /\ put.begin \in Positions /\ put.size \in 0 .. N /\ put.done \in 0 .. N
         /\ take.begin \in Positions /\ take.size \in 0 .. N /\ take.done \in 0 .. N
         /\ cached \subseteq Positions
<1>1. Cursors /\ put \in Calls /\ take \in Calls /\ cached \subseteq Positions
  BY DEF Inductive, Typed
<1>2. /\ Minus(in, out) \in 0 .. N /\ Minus(in, seenOut) \in 0 .. N
      /\ Minus(seenIn, out) \in 0 .. N
      /\ Minus(in, out) <= Minus(in, seenOut) /\ Minus(seenIn, out) <= Minus(in, out)
  BY <1>1, Distances, Sizes0
<1> QED BY <1>1, <1>2, CallTypes

(* The producer writes ahead of in, within a turn of out. *)
LEMMA PutPlace ==
  ASSUME Inductive, NEW k \in 0 .. put.size - 1
  PROVE  /\ Plus(put.begin, k) \in Positions
         /\ Minus(Plus(put.begin, k), in) = Minus(put.begin, in) + k
         /\ Minus(Plus(put.begin, k), in) + Minus(in, seenOut) < N
         /\ Minus(Plus(put.begin, k), out) < N
         /\ Minus(Plus(put.begin, k), out) >= Minus(in, out)
<1>1. /\ Cursors /\ PutFits /\ put.begin \in Positions /\ put.size \in 0 .. N
      /\ Minus(in, out) \in 0 .. N /\ Minus(in, seenOut) \in 0 .. N
      /\ Minus(in, out) <= Minus(in, seenOut)
  BY InProgress DEF Inductive
<1>2. /\ put.op # "idle" /\ k \in 0 .. N /\ Minus(put.begin, in) \in Nat
      /\ Minus(in, seenOut) + Minus(put.begin, in) + put.size <= N
  BY <1>1, Sizes0, MinusType DEF PutFits, Cursors
<1>3. /\ Plus(put.begin, k) \in Positions
      /\ Minus(Plus(put.begin, k), in) = Minus(put.begin, in) + k
  BY <1>1, <1>2, Sizes0, Advance DEF Cursors
<1>4. Minus(Plus(put.begin, k), in) + Minus(in, seenOut) < N
  BY <1>1, <1>2, <1>3, Sizes0
<1>5. Minus(Plus(put.begin, k), out) = Minus(Plus(put.begin, k), in) + Minus(in, out)
  BY <1>1, <1>2, <1>3, <1>4, Sizes0, Chain DEF Cursors
<1> QED BY <1>1, <1>2, <1>3, <1>4, <1>5, Sizes0

(* What is cached lies there too. *)
LEMMA CachedPlace ==
  ASSUME Inductive, CachedInRoom, NEW p \in cached
  PROVE  p \in Positions /\ Minus(p, in) \in Nat /\ Minus(p, out) < N
<1>1. /\ Cursors /\ p \in Positions /\ Minus(p, in) \in Nat
      /\ Minus(in, out) \in 0 .. N /\ Minus(in, seenOut) \in 0 .. N
      /\ Minus(in, out) <= Minus(in, seenOut)
      /\ Minus(p, in) + Minus(in, seenOut) < N
  BY InProgress, MinusType DEF CachedInRoom, Cursors
<1>2. Minus(p, out) = Minus(p, in) + Minus(in, out)
  BY <1>1, Sizes0, Chain DEF Cursors
<1> QED BY <1>1, <1>2, Sizes0

-----------------------------------------------------------------------------
(* The producer's steps leave what the consumer has copied alone.          *)
LEMMA ConsumerUntouched ==
  ASSUME TakePlace, Copied, UNCHANGED <<take, buf, out, seenIn>>
  PROVE  TakePlace' /\ Copied'
  BY DEF TakePlace, Copied, CopiesAreRight

LEMMA CopyInContents ==
  ASSUME Contents, CopyIn
  PROVE  UnreadIntact' /\ CachedInRoom' /\ CachedRight' /\ PutRight'
<1> DEFINE q == Plus(put.begin, put.done)
<1>1. /\ Inductive /\ UnreadIntact /\ CachedInRoom /\ CachedRight /\ PutRight
      /\ put.begin \in Positions /\ put.size \in 0 .. N /\ put.done \in 0 .. put.size - 1
      /\ out \in Positions /\ in \in Positions /\ Minus(in, out) \in 0 .. N
  BY InProgress, Sizes0 DEF Contents, CopyIn, Cursors
<1>2. q \in Positions /\ Minus(q, out) < N /\ Minus(q, out) >= Minus(in, out)
  BY <1>1, PutPlace
<1>3. /\ ring' = [ring EXCEPT ![q % N] = q] /\ ring \in [Slots -> Positions \cup {Junk}]
      /\ put' = [put EXCEPT !.done = put.done + 1] /\ put \in Calls
      /\ UNCHANGED <<in, out, seenOut, cached>>
  BY <1>1 DEF CopyIn, Inductive, Typed
<1>4. q % N \in Slots
  BY <1>2, Sizes0, SlotOf DEF Positions
<1> HIDE DEF q
<1>5. ASSUME NEW p \in Positions, Minus(p, out) < N, ring[p % N] = p \/ p = q
      PROVE  ring'[p % N] = p
  <2>1. p % N \in Slots
    BY Sizes0, SlotOf DEF Positions
  <2>2. p # q => p % N # q % N
    BY <1>1, <1>2, <1>5, OneTurnSlots
  <2> QED BY <1>3, <1>4, <1>5, <2>1, <2>2
<1>6. UnreadIntact'
  <2>1. \A p \in Positions : Minus(p, out) < Minus(in, out) => Minus(p, out) < N
    BY <1>1, MinusType, Sizes0
  <2> QED BY <1>1, <1>3, <1>5, <2>1 DEF UnreadIntact
<1>7. CachedInRoom' /\ CachedRight'
  BY <1>1, <1>3, <1>5, CachedPlace DEF CachedInRoom, CachedRight
<1>8. /\ put'.begin = put.begin /\ put'.size = put.size /\ put'.done = put.done + 1
  BY <1>3 DEF Calls
<1>9. ASSUME NEW k \in 0 .. put'.done - 1
      PROVE  ring'[Plus(put.begin, k) % N] = Plus(put.begin, k)
  <2>1. k \in 0 .. put.size - 1 /\ (k \in 0 .. put.done - 1 \/ k = put.done)
    BY <1>1, <1>8, <1>9, Sizes0
  <2>2. Plus(put.begin, k) \in Positions /\ Minus(Plus(put.begin, k), out) < N
    BY <1>1, <2>1, PutPlace
  <2>3. ring[Plus(put.begin, k) % N] = Plus(put.begin, k) \/ Plus(put.begin, k) = q
    BY <1>1, <2>1 DEF PutRight, q
  <2> QED BY <1>5, <2>2, <2>3
<1>10. PutRight'
  BY <1>1, <1>8, <1>9, Sizes0 DEF PutRight
<1> QED BY <1>6, <1>7, <1>10

(* Moving in over n positions whose bytes are in place. *)
LEMMA InMoves ==
  ASSUME Contents, NEW n \in 0 .. N, Minus(in, seenOut) + n <= N,
         \A k \in 0 .. n - 1 : ring[Plus(in, k) % N] = Plus(in, k),
         in' = Plus(in, n), cached' = cached \ Span(in, n),
         UNCHANGED <<ring, out, seenOut>>
  PROVE  UnreadIntact' /\ CachedInRoom' /\ CachedRight'
<1>1. /\ Cursors /\ UnreadIntact /\ CachedInRoom /\ CachedRight /\ Inductive
      /\ out \in Positions /\ in \in Positions /\ seenOut \in Positions
      /\ Minus(in, out) \in 0 .. N /\ Minus(in, seenOut) \in 0 .. N
      /\ Minus(in, out) <= Minus(in, seenOut)
  BY InProgress DEF Contents, Cursors
<1>2. /\ Minus(in', out) = Minus(in, out) + n
      /\ Minus(in', seenOut) = Minus(in, seenOut) + n
  BY <1>1, Advance, Sizes0
<1>3. UnreadIntact'
  <2> SUFFICES ASSUME NEW p \in Positions, Minus(p, out) < Minus(in', out)
               PROVE  ring[p % N] = p
    BY DEF UnreadIntact
  <2>1. Minus(p, out) \in Nat
    BY <1>1, MinusType
  <2>2. CASE Minus(p, out) < Minus(in, out)
    BY <1>1, <2>2 DEF UnreadIntact
  <2>3. CASE Minus(p, out) >= Minus(in, out)
    <3>1. in = Plus(out, Minus(in, out))
      BY <1>1, FromTo, Sizes0
    <3>2. Minus(p, in) = Minus(p, out) - Minus(in, out)
      BY <1>1, <2>1, <2>3, <3>1, Nearer
    <3>3. Minus(p, in) \in 0 .. n - 1 /\ Minus(p, in) <= N
      BY <1>1, <1>2, <2>1, <2>3, <3>2, Sizes0
    <3>4. p = Plus(in, Minus(p, in))
      BY <1>1, <3>3, FromTo
    <3> QED BY <3>3, <3>4
  <2> QED BY <1>1, <2>1, <2>2, <2>3
<1>4. CachedInRoom'
  <2> SUFFICES ASSUME NEW p \in cached, p \notin Span(in, n)
               PROVE  Minus(p, in') + Minus(in', seenOut) < N
    BY DEF CachedInRoom
  <2>1. /\ p \in Positions /\ Minus(p, in) \in Nat
        /\ Minus(p, in) + Minus(in, seenOut) < N
    BY <1>1, CachedPlace DEF CachedInRoom
  <2>2. p = Plus(in, Minus(p, in))
    BY <1>1, <2>1, FromTo, Sizes0
  <2>3. Minus(p, in) >= n
    BY <2>1, <2>2, Sizes0 DEF Span
  <2>4. Minus(p, in') = Minus(p, in) - n
    BY <1>1, <2>1, <2>3, Nearer
  <2> QED BY <1>1, <1>2, <2>1, <2>4, Sizes0
<1>5. CachedRight'
  BY <1>1 DEF CachedRight
<1> QED BY <1>3, <1>4, <1>5

LEMMA ProducerContents ==
  ASSUME Contents, Producer
  PROVE  Contents'
<1>0. /\ Inductive' /\ Inductive /\ PutFits /\ Cursors
      /\ UnreadIntact /\ CachedInRoom /\ CachedRight
      /\ PutRight /\ TakePlace /\ Copied
      /\ put.begin \in Positions /\ put.size \in 0 .. N /\ put.done \in 0 .. N
      /\ Minus(in, seenOut) \in 0 .. N
  BY ProducerInductive, InProgress DEF Contents, Inductive
<1>1. TakePlace' /\ Copied'
  <2>1. UNCHANGED <<take, buf, out, seenIn>>
    BY DEF Producer, CopyIn, FinishPush, FinishSet, StartPush, PushCached, StartSet, consumerVars
  <2> QED BY <1>0, <2>1, ConsumerUntouched
<1>2. put' = Idle => PutRight'
  BY DEF PutRight, Idle
<1>3. CASE CopyIn
  BY <1>0, <1>1, <1>3, CopyInContents DEF Contents
<1>4. CASE FinishPush
  <2>1. /\ put.op = "push" /\ put.begin = in /\ put.done = put.size
        /\ in' = Plus(in, put.size) /\ cached' = cached \ Span(in, put.size)
        /\ put' = Idle /\ UNCHANGED <<ring, out, seenOut>>
    BY <1>0, <1>4 DEF FinishPush, PutFits, consumerVars
  <2>2. Minus(in, seenOut) + put.size <= N
    BY <1>0, <2>1, Here, Sizes0 DEF PutFits, Cursors
  <2>3. \A k \in 0 .. put.size - 1 : ring[Plus(in, k) % N] = Plus(in, k)
    BY <1>0, <2>1 DEF PutRight
  <2>4. UnreadIntact' /\ CachedInRoom' /\ CachedRight'
    BY <1>0, <2>1, <2>2, <2>3, InMoves
  <2> QED BY <1>0, <1>1, <1>2, <2>1, <2>4 DEF Contents
<1>5. CASE FinishSet
  <2>1. /\ put.done = put.size /\ put' = Idle
        /\ cached' = cached \cup Span(put.begin, put.size)
        /\ UNCHANGED <<ring, in, out, seenOut>>
    BY <1>5 DEF FinishSet, consumerVars
  <2>2. UnreadIntact'
    BY <1>0, <2>1 DEF UnreadIntact
  <2>3. CachedInRoom'
    BY <1>0, <2>1, PutPlace DEF CachedInRoom, Span
  <2>4. CachedRight'
    BY <1>0, <2>1 DEF CachedRight, PutRight, Span
  <2> QED BY <1>0, <1>1, <1>2, <2>1, <2>2, <2>3, <2>4 DEF Contents
<1>6. ASSUME NEW size \in Sizes, Filled(size), PushCached(size) PROVE Contents'
  <2> DEFINE n == AtMost(size, FreeSize(in, seenOut))
  <2>1. n \in 0 .. N - Minus(in, seenOut) /\ n <= size
    BY <1>0, Sizes0, Room DEF AtMost, Cursors
  <2>2. /\ in' = Plus(in, n) /\ cached' = cached \ Span(in, n)
        /\ Span(in, size) \subseteq cached
        /\ UNCHANGED <<ring, out, put, seenOut>>
    BY <1>6 DEF Filled, PushCached, consumerVars
  <2> HIDE DEF n
  <2>3. \A k \in 0 .. n - 1 : Plus(in, k) \in Span(in, size)
    BY <2>1, Sizes0 DEF Span
  <2>4. \A k \in 0 .. n - 1 : ring[Plus(in, k) % N] = Plus(in, k)
    BY <1>0, <2>2, <2>3 DEF CachedRight
  <2>5. n \in 0 .. N /\ Minus(in, seenOut) + n <= N
    BY <1>0, <2>1, Sizes0
  <2>6. UnreadIntact' /\ CachedInRoom' /\ CachedRight'
    BY <1>0, <2>2, <2>4, <2>5, InMoves
  <2>7. PutRight'
    BY <1>0, <2>2 DEF PutRight
  <2> QED BY <1>0, <1>1, <2>6, <2>7 DEF Contents
<1>7. ASSUME NEW size \in Sizes,
             StartPush(size) \/ \E ahead \in 1 .. N - 1 : StartSet(ahead, size)
      PROVE  Contents'
  <2>1. put'.done = 0 /\ UNCHANGED <<ring, in, out, seenOut, cached>>
    BY <1>7 DEF StartPush, StartSet, Call, consumerVars
  <2>2. put'.size \in 0 .. N
    BY <1>0, InProgress, CallTypes DEF Inductive, Typed
  <2>3. PutRight'
    BY <2>1, <2>2, Sizes0 DEF PutRight
  <2>4. UnreadIntact' /\ CachedInRoom' /\ CachedRight'
    BY <1>0, <2>1 DEF UnreadIntact, CachedInRoom, CachedRight
  <2> QED BY <1>0, <1>1, <2>3, <2>4 DEF Contents
<1> QED BY <1>3, <1>4, <1>5, <1>6, <1>7 DEF Producer

-----------------------------------------------------------------------------
(* The consumer's steps leave what the producer has put alone.             *)
LEMMA ProducerUntouched ==
  ASSUME UnreadIntact, CachedInRoom, CachedRight, PutRight,
         UNCHANGED <<ring, in, put, cached, seenOut>>
  PROVE  /\ CachedInRoom' /\ CachedRight' /\ PutRight'
         /\ out' = out => UnreadIntact'
  BY DEF UnreadIntact, CachedInRoom, CachedRight, PutRight

(* Moving out leaves less to read. *)
LEMMA OutMoves ==
  ASSUME Contents, NEW n \in 0 .. Minus(seenIn, out), out' = Plus(out, n),
         UNCHANGED <<ring, in>>
  PROVE  UnreadIntact'
<1>1. /\ UnreadIntact /\ out \in Positions /\ in \in Positions
      /\ Minus(in, out) \in 0 .. N /\ n \in 0 .. N /\ n <= Minus(in, out)
  BY InProgress, Sizes0 DEF Contents, Cursors
<1>2. /\ out' \in Positions /\ Minus(out', out) = n
      /\ Minus(in, out') = Minus(in, out) - n
  BY <1>1, ToFrom, Retreat
<1> SUFFICES ASSUME NEW p \in Positions, Minus(p, out') < Minus(in, out')
             PROVE  ring[p % N] = p
  BY DEF UnreadIntact
<1>3. Minus(p, out') \in Nat
  BY <1>2, MinusType
<1>4. Minus(p, out) = Minus(p, out') + Minus(out', out)
  BY <1>1, <1>2, <1>3, LongChain, Sizes0
<1> QED BY <1>1, <1>2, <1>3, <1>4 DEF UnreadIntact

(* What the call in progress reads at a position not behind out. *)
LEMMA ReadsRight ==
  ASSUME Contents, NEW k \in 0 .. take.size - 1,
         Minus(Plus(take.begin, k), out) < N
  PROVE  /\ Plus(take.begin, k) \in Positions
         /\ Minus(Plus(take.begin, k), out) < Minus(seenIn, out)
         /\ ring[Plus(take.begin, k) % N] = Plus(take.begin, k)
<1> DEFINE p == Plus(take.begin, k)
<1>1. /\ UnreadIntact /\ TakePlace /\ out \in Positions
      /\ Minus(seenIn, out) \in 0 .. N /\ Minus(in, out) \in 0 .. N
      /\ Minus(seenIn, out) <= Minus(in, out)
      /\ take.begin \in Positions /\ take.size \in 0 .. N /\ k \in 0 .. N
  BY InProgress, Sizes0 DEF Contents, Cursors
<1>2. p \in Positions /\ Minus(p, take.begin) = k
  BY <1>1, ToFrom
<1>3. Minus(p, out) < Minus(seenIn, out)
  <2>1. CASE Minus(take.begin, out) + take.size <= Minus(seenIn, out)
    <3>1. Minus(take.begin, out) \in Nat
      BY <1>1, MinusType
    <3>2. Minus(p, out) = Minus(take.begin, out) + k
      BY <1>1, <2>1, <3>1, Advance, Sizes0
    <3> QED BY <1>1, <2>1, <3>1, <3>2
  <2>2. CASE /\ Minus(out, take.begin) < N
             /\ take.size <= Minus(out, take.begin) + Minus(seenIn, out)
    <3> DEFINE n == Minus(out, take.begin)
    <3>1. n \in 0 .. N - 1 /\ out = Plus(take.begin, n)
      BY <1>1, <2>2, MinusType, FromTo, Sizes0
    <3> HIDE DEF n
    <3>2. take.size <= n + Minus(seenIn, out)
      BY <2>2 DEF n
    <3>3. CASE k >= n
      <4>1. Minus(p, out) = k - n
        BY <1>1, <1>2, <3>1, <3>3, Nearer, Sizes0
      <4> QED BY <1>1, <3>1, <3>2, <4>1
    <3>4. CASE k < n
      <4>1. Minus(out, p) = n - k
        BY <1>1, <3>1, <3>4, Nearer DEF n
      <4>2. Minus(p, out) = Word - (n - k)
        <5>1. Minus(out, p) = IF p <= out THEN out - p ELSE out - p + Word
          BY <1>1, <1>2, MinusOnCircle
        <5>2. Minus(p, out) = IF out <= p THEN p - out ELSE p - out + Word
          BY <1>1, <1>2, MinusOnCircle
        <5> HIDE DEF p
        <5> QED BY <1>1, <1>2, <3>1, <3>4, <4>1, <5>1, <5>2, Sizes0 DEF Positions
      <4> QED BY <1>1, <3>1, <3>4, <4>2, Sizes0
    <3> QED BY <1>1, <3>1, <3>3, <3>4, Sizes0
  <2> QED BY <1>1, <2>1, <2>2 DEF TakePlace
<1>4. Minus(p, out) < Minus(in, out)
  BY <1>1, <1>2, <1>3, MinusType
<1> HIDE DEF p
<1>5. ring[p % N] = p
  BY <1>1, <1>2, <1>4 DEF UnreadIntact
<1> QED BY <1>2, <1>3, <1>5 DEF p

LEMMA CopyOutContents ==
  ASSUME Contents, CopyOut
  PROVE  Copied' /\ TakePlace'
<1> DEFINE p == Plus(take.begin, take.done)
<1>1. /\ Copied /\ TakePlace /\ take \in Calls /\ buf \in Seq(Positions \cup {Junk})
      /\ take.size \in 0 .. N /\ take.done \in 0 .. take.size - 1
  BY InProgress, Sizes0 DEF Contents, Inductive, Typed, CopyOut
<1>2. /\ buf' = Append(buf, ring[p % N]) /\ take' = [take EXCEPT !.done = take.done + 1]
      /\ UNCHANGED <<out, seenIn>>
  BY DEF CopyOut
<1>3. /\ take'.begin = take.begin /\ take'.size = take.size
      /\ take'.done = take.done + 1
  BY <1>1, <1>2 DEF Calls
<1>4. Minus(p, out) < N => ring[p % N] = p
  BY <1>1, ReadsRight
<1> HIDE DEF p
<1>5. Len(buf') = take'.done /\ take'.done <= take'.size
  BY <1>1, <1>2, <1>3 DEF Copied
<1>6. CopiesAreRight'
  <2> SUFFICES ASSUME NEW k \in 1 .. take.done + 1,
                      Minus(Plus(take.begin, k - 1), out) < N
               PROVE  buf'[k] = Plus(take.begin, k - 1)
    BY <1>2, <1>3 DEF CopiesAreRight
  <2>1. CASE k \in 1 .. take.done
    <3>1. buf'[k] = buf[k]
      BY <1>1, <1>2, <2>1 DEF Copied
    <3> QED BY <1>1, <2>1, <3>1 DEF Copied, CopiesAreRight
  <2>2. CASE k = take.done + 1
    <3>1. k - 1 = take.done /\ buf'[k] = ring[p % N]
      BY <1>1, <1>2, <2>2 DEF Copied
    <3>2. Plus(take.begin, k - 1) = p
      BY <3>1 DEF p
    <3> QED BY <1>4, <3>1, <3>2
  <2> QED BY <1>1, <2>1, <2>2
<1>7. TakePlace'
  BY <1>1, <1>2, <1>3 DEF TakePlace
<1> QED BY <1>5, <1>6, <1>7 DEF Copied

LEMMA ConsumerContents ==
  ASSUME Contents, Consumer
  PROVE  Contents'
<1>0. /\ Inductive' /\ Inductive /\ Cursors /\ TakeFits
      /\ UnreadIntact /\ CachedInRoom /\ CachedRight
      /\ PutRight /\ TakePlace /\ Copied
      /\ take.begin \in Positions /\ take.size \in 0 .. N /\ take.done \in 0 .. N
      /\ Minus(seenIn, out) \in 0 .. N /\ out \in Positions /\ seenIn \in Positions
  BY ConsumerInductive, InProgress DEF Contents, Inductive, Cursors
<1>1. /\ CachedInRoom' /\ CachedRight' /\ PutRight'
      /\ out' = out => UnreadIntact'
  <2>1. UNCHANGED <<ring, in, put, cached, seenOut>>
    BY DEF Consumer, CopyOut, FinishPop, FinishGet, StartPop, PopRead, StartGet, producerVars
  <2> QED BY <1>0, <2>1, ProducerUntouched
<1>2. take' = Idle /\ buf' = <<>> => TakePlace' /\ Copied'
  BY DEF Idle, TakePlace, Copied, CopiesAreRight
<1>3. ASSUME NEW begin \in Positions, NEW n \in 0 .. N,
             take'.begin = begin, take'.size = n, take'.done = 0, buf' = <<>>
      PROVE  Copied'
  BY <1>3 DEF Copied, CopiesAreRight
<1>4. CASE CopyOut
  <2>1. out' = out
    BY <1>4 DEF CopyOut
  <2> QED BY <1>0, <1>1, <1>4, <2>1, CopyOutContents DEF Contents
<1>5. CASE FinishPop
  <2>1. /\ take.size \in 0 .. Minus(seenIn, out) /\ out' = Plus(out, take.size)
        /\ take' = Idle /\ buf' = <<>> /\ UNCHANGED <<ring, in>>
    BY <1>0, <1>5 DEF FinishPop, TakeFits
  <2>2. UnreadIntact'
    BY <1>0, <2>1, OutMoves DEF Contents
  <2> QED BY <1>0, <1>1, <1>2, <2>1, <2>2 DEF Contents
<1>6. CASE FinishGet
  BY <1>0, <1>1, <1>2, <1>6 DEF FinishGet, Contents
<1>7. ASSUME NEW size \in Sizes, PopRead(size) PROVE Contents'
  <2> DEFINE n == GetSize(seenIn, out, size)
  <2>1. n \in 0 .. Minus(seenIn, out)
    BY <1>0, Sizes0 DEF GetSize, AtMost
  <2>2. out' = Plus(out, n) /\ take = Idle /\ UNCHANGED <<ring, in, take, buf>>
    BY <1>7 DEF PopRead, producerVars
  <2> HIDE DEF n
  <2>3. UnreadIntact'
    BY <2>1, <2>2, OutMoves
  <2>4. buf = <<>>
    BY <1>0, <2>2 DEF Copied, Idle, Inductive, Typed
  <2> QED BY <1>0, <1>1, <1>2, <2>2, <2>3, <2>4 DEF Contents
<1>8. ASSUME NEW size \in Sizes, StartPop(size) PROVE Contents'
  <2> DEFINE n == GetSize(seenIn, out, size)
  <2>1. n \in 0 .. N /\ n <= Minus(seenIn, out)
    BY <1>0, Sizes0 DEF GetSize, AtMost
  <2>2. /\ take' = Call("pop", out, n) /\ buf' = <<>> /\ UNCHANGED <<out, seenIn>>
    BY <1>8 DEF StartPop
  <2> HIDE DEF n
  <2>3. take'.begin = out /\ take'.size = n /\ take'.done = 0
    BY <2>2 DEF Call
  <2>4. TakePlace'
    BY <1>0, <2>1, <2>2, <2>3, Here, Sizes0 DEF TakePlace
  <2> QED BY <1>0, <1>1, <1>3, <2>1, <2>2, <2>3, <2>4 DEF Contents
<1>9. ASSUME NEW size \in Sizes, NEW begin \in Positions, StartGet(begin, size),
             \/ /\ Minus(begin, out) <= Minus(seenIn, out)
                /\ Minus(seenIn, begin) = Minus(seenIn, out) - Minus(begin, out)
             \/ /\ Minus(out, begin) < N
                /\ Minus(seenIn, begin) = Minus(out, begin) + Minus(seenIn, out)
      PROVE  Contents'
  <2> DEFINE n == GetSize(seenIn, begin, size)
  <2>1. n \in 0 .. N /\ n <= Minus(seenIn, begin)
    BY <1>0, MinusType, Sizes0 DEF GetSize, AtMost
  <2>2. /\ take' = Call("get", begin, n) /\ buf' = <<>> /\ UNCHANGED <<out, seenIn>>
    BY <1>9 DEF StartGet
  <2> HIDE DEF n
  <2>3. take'.begin = begin /\ take'.size = n /\ take'.done = 0
    BY <2>2 DEF Call
  <2>4. Minus(begin, out) \in Nat /\ Minus(out, begin) \in Nat /\ Minus(seenIn, begin) \in Nat
    BY <1>0, MinusType
  <2>5. TakePlace'
    BY <1>0, <1>9, <2>1, <2>2, <2>3, <2>4, Sizes0 DEF TakePlace
  <2> QED BY <1>0, <1>1, <1>3, <2>1, <2>2, <2>3, <2>5 DEF Contents
<1>10. ASSUME NEW n \in 1 .. N - 1
       PROVE  /\ Behind(n) \in Positions
              /\ Minus(out, Behind(n)) < N
              /\ Minus(seenIn, Behind(n)) = Minus(out, Behind(n)) + Minus(seenIn, out)
  <2>0. n \in Positions /\ out \in Positions
    BY <1>0, <1>10, Sizes0 DEF Positions
  <2>1. n \in Positions /\ Behind(n) = IF n <= out THEN out - n ELSE out - n + Word
    BY <2>0, MinusOnCircle DEF Behind
  <2>2. Behind(n) \in Positions
    BY <1>0, <2>1, MinusOnCircle DEF Behind
  <2>3. Minus(out, Behind(n)) = IF Behind(n) <= out THEN out - Behind(n) ELSE out - Behind(n) + Word
    BY <1>0, <2>2, MinusOnCircle
  <2>4. Minus(out, Behind(n)) = n
    BY <1>0, <2>1, <2>3, Sizes0 DEF Positions
  <2>5. Minus(seenIn, Behind(n)) = Minus(seenIn, out) + Minus(out, Behind(n))
    BY <1>0, <2>2, <2>4, LongChain, Sizes0
  <2> QED BY <1>0, <2>2, <2>4, <2>5, Sizes0
<1>11. ASSUME NEW n \in 1 .. N - 1,
              NEW begin, begin = Plus(out, AtMost(n, Minus(seenIn, out)))
       PROVE  /\ begin \in Positions
              /\ Minus(begin, out) <= Minus(seenIn, out)
              /\ Minus(seenIn, begin) = Minus(seenIn, out) - Minus(begin, out)
  <2> DEFINE j == AtMost(n, Minus(seenIn, out))
  <2>1. j \in 0 .. N /\ j <= Minus(seenIn, out)
    BY <1>0, Sizes0 DEF AtMost
  <2>2. begin = Plus(out, j)
    BY <1>11
  <2> HIDE DEF j
  <2>3. begin \in Positions /\ Minus(begin, out) = j
    BY <1>0, <2>1, <2>2, ToFrom
  <2>4. Minus(seenIn, begin) = Minus(seenIn, out) - j
    BY <1>0, <2>1, <2>2, Retreat
  <2> QED BY <2>1, <2>3, <2>4
<1>12. ASSUME NEW size \in Sizes, NEW n \in 1 .. N - 1,
              \/ StartGet(Behind(n), size)
              \/ StartGet(Plus(out, AtMost(n, Minus(seenIn, out))), size)
       PROVE  Contents'
  BY <1>9, <1>10, <1>11, <1>12
<1> QED BY <1>4, <1>5, <1>6, <1>7, <1>8, <1>12 DEF Consumer

LEMMA ArrivalContents ==
  ASSUME Contents, InArrives \/ OutArrives
  PROVE  Contents'
<1>1. /\ Inductive' /\ Inductive /\ Cursors /\ UnreadIntact /\ CachedInRoom /\ CachedRight
      /\ PutRight /\ TakePlace /\ Copied
      /\ Minus(in, out) \in 0 .. N /\ Minus(in, seenOut) \in 0 .. N
      /\ Minus(seenIn, out) \in 0 .. N
      /\ Minus(in, out) <= Minus(in, seenOut) /\ Minus(seenIn, out) <= Minus(in, out)
      /\ take.begin \in Positions /\ take.size \in 0 .. N /\ take.done \in 0 .. N
  BY ArrivalInductive, InProgress DEF Contents
<1>2. Minus(take.begin, out) \in Nat /\ Minus(out, take.begin) \in Nat
  BY <1>1, MinusType DEF Cursors
<1>3. CASE InArrives
  <2>1. seenIn' = in /\ UNCHANGED <<ring, in, out, seenOut, put, cached, take, buf>>
    BY <1>3 DEF InArrives, producerVars
  <2>2. TakePlace'
    BY <1>1, <1>2, <2>1 DEF TakePlace
  <2>3. UnreadIntact' /\ CachedInRoom' /\ CachedRight' /\ PutRight' /\ Copied'
    BY <1>1, <2>1
    DEF UnreadIntact, CachedInRoom, CachedRight, PutRight, Copied, CopiesAreRight
  <2> QED BY <1>1, <2>2, <2>3 DEF Contents
<1>4. CASE OutArrives
  <2>1. seenOut' = out /\ UNCHANGED <<ring, in, out, seenIn, put, cached, take, buf>>
    BY <1>4 DEF OutArrives, consumerVars
  <2>2. CachedInRoom'
    <3>1. ASSUME NEW p \in cached PROVE Minus(p, in) + Minus(in, out) < N
      <4>1. Minus(p, in) \in Nat /\ Minus(p, in) + Minus(in, seenOut) < N
        BY <1>1, <3>1, CachedPlace DEF CachedInRoom
      <4> QED BY <1>1, <4>1, Sizes0
    <3> QED BY <2>1, <3>1 DEF CachedInRoom
  <2>3. UnreadIntact' /\ TakePlace' /\ CachedRight' /\ PutRight' /\ Copied'
    BY <1>1, <2>1
    DEF UnreadIntact, TakePlace, CachedRight, PutRight, Copied, CopiesAreRight
  <2> QED BY <1>1, <2>2, <2>3 DEF Contents
<1> QED BY <1>3, <1>4

LEMMA StepContents == Contents /\ [Next]_vars => Contents'
<1>1. ASSUME Contents, UNCHANGED vars PROVE Contents'
  <2>1. Inductive'
    BY <1>1, StepInductive DEF Contents
  <2> QED BY <1>1, <2>1
      DEF vars, producerVars, consumerVars, Contents, UnreadIntact, CachedInRoom,
          CachedRight, PutRight, TakePlace, Copied, CopiesAreRight
<1> QED BY <1>1, ProducerContents, ConsumerContents, ArrivalContents DEF Next

LEMMA AlwaysContents == Spec => []Contents
  BY InitContents, StepContents, PTL DEF Spec

(* What get and pop copy out at positions not behind out is what was       *)
(* pushed there, while the producer fills other slots and whichever        *)
(* cursors the two threads see (RingBuffer.h:89-98).                       *)
THEOREM CopiesAlwaysRight == Spec => []CopiesAreRight
<1>1. Contents => CopiesAreRight
  BY DEF Contents, Copied
<1> QED BY <1>1, AlwaysContents, PTL

-----------------------------------------------------------------------------
(* The queue of unread bytes: each step of SharedRing is a put, a take or  *)
(* a stutter of it.                                                        *)

(* n bytes of the stream, from the one at position b on. *)
Stretch(b, n) == [k \in 1 .. n |-> Plus(b, k - 1)]

queue == Get(ring, out, Minus(in, out))

LEMMA StretchType ==
  ASSUME NEW b \in Positions, NEW n \in 0 .. N
  PROVE  /\ Stretch(b, n) \in Seq(Positions)
         /\ Len(Stretch(b, n)) = n
         /\ \A k \in 1 .. n : Stretch(b, n)[k] = Plus(b, k - 1)
<1>1. n \in Nat /\ \A k \in 1 .. n : k - 1 \in 0 .. N
  BY Sizes0
<1>2. \A k \in 1 .. n : Plus(b, k - 1) \in Positions
  BY <1>1, PlusOnCircle
<1>3. Stretch(b, n) \in [1 .. n -> Positions]
  BY <1>2 DEF Stretch
<1>4. Stretch(b, n) \in Seq(Positions)
  BY <1>1, <1>3, SeqDef
<1>5. Len(Stretch(b, n)) = n
  BY <1>1, <1>3, <1>4, LenProperties
<1> QED BY <1>4, <1>5 DEF Stretch

(* A position and its sum have the same slot. *)
LEMMA PlusSlot ==
  ASSUME NEW b \in Positions, NEW n \in 0 .. N
  PROVE  (b + n) % N = Plus(b, n) % N
<1>1. Plus(b, n) = IF b + n < Word THEN b + n ELSE b + n - Word
  BY PlusOnCircle
<1>2. CASE b + n < Word
  BY <1>1, <1>2
<1>3. CASE b + n >= Word
  <2> DEFINE q == b + n - Word
  <2>1. q \in Nat /\ q + Word = b + n
    BY <1>3, Sizes0 DEF Positions
  <2> HIDE DEF q
  <2>2. (q + Word) % N = q % N
    BY <2>1, WordTurns
  <2>3. Plus(b, n) = q
    BY <1>1, <1>3, Sizes0 DEF Positions, q
  <2> QED BY <2>1, <2>2, <2>3
<1> QED BY <1>2, <1>3, Sizes0 DEF Positions

(* What is unread is a stretch of the stream. *)
LEMMA UnreadStretch ==
  ASSUME Contents, NEW n \in 0 .. Minus(in, out)
  PROVE  Get(ring, out, n) = Stretch(out, n)
<1>1. out \in Positions /\ Minus(in, out) \in 0 .. N /\ UnreadIntact
  BY InProgress DEF Contents, Cursors
<1>2. ASSUME NEW k \in 1 .. n
      PROVE  ring[(out + k - 1) % N] = Plus(out, k - 1)
  <2>1. k - 1 \in 0 .. N /\ k - 1 < Minus(in, out)
    BY <1>1, <1>2, Sizes0
  <2>2. /\ Plus(out, k - 1) \in Positions /\ Minus(Plus(out, k - 1), out) = k - 1
        /\ (out + (k - 1)) % N = Plus(out, k - 1) % N
    BY <1>1, <2>1, ToFrom, PlusSlot
  <2>3. out + (k - 1) = out + k - 1
    BY <1>1, <1>2 DEF Positions
  <2> QED BY <1>1, <2>1, <2>2, <2>3 DEF UnreadIntact
<1> QED BY <1>2 DEF Get, Stretch

QueueRight == queue = Stretch(out, Minus(in, out))

LEMMA QueueIs == Contents => QueueRight
<1> SUFFICES ASSUME Contents PROVE QueueRight
  OBVIOUS
<1>1. Minus(in, out) \in 0 .. Minus(in, out)
  BY InProgress DEF Contents
<1> QED BY <1>1, UnreadStretch DEF queue, QueueRight

LEMMA NextQueueIs == Contents' => QueueRight'
  BY QueueIs, PTL

(* Two stretches in a row are one. *)
LEMMA TwoStretches ==
  ASSUME NEW b \in Positions, NEW n \in 0 .. N, NEW m \in 0 .. N, n <= m
  PROVE  Stretch(b, m) = Stretch(b, n) \o Stretch(Plus(b, n), m - n)
<1> DEFINE c == Plus(b, n)
           s == Stretch(b, n)
           t == Stretch(c, m - n)
           u == Stretch(b, m)
<1>1. c \in Positions /\ m - n \in 0 .. N
  BY ToFrom, Sizes0
<1> HIDE DEF c
<1>2. s \in Seq(Positions) /\ Len(s) = n /\ \A k \in 1 .. n : s[k] = Plus(b, k - 1)
  BY StretchType
<1>3. /\ t \in Seq(Positions) /\ Len(t) = m - n
      /\ \A k \in 1 .. m - n : t[k] = Plus(c, k - 1)
  BY <1>1, StretchType
<1>4. u \in Seq(Positions) /\ Len(u) = m /\ \A k \in 1 .. m : u[k] = Plus(b, k - 1)
  BY StretchType
<1> HIDE DEF s, t, u
<1>5. /\ s \o t \in Seq(Positions)
      /\ Len(s \o t) = n + (m - n)
      /\ \A i \in 1 .. n + (m - n) : (s \o t)[i] = IF i <= n THEN s[i] ELSE t[i - n]
  BY <1>2, <1>3, ConcatProperties
<1>6. ASSUME NEW i \in 1 .. m PROVE u[i] = (s \o t)[i]
  <2>1. i \in 1 .. n + (m - n) /\ (i <= n => i \in 1 .. n)
        /\ (~ (i <= n) => i - n \in 1 .. m - n)
    BY <1>6
  <2>2. CASE i <= n
    BY <1>2, <1>4, <1>5, <2>1, <2>2
  <2>3. CASE ~ (i <= n)
    <3>1. (s \o t)[i] = t[i - n] /\ t[i - n] = Plus(c, i - n - 1)
      BY <1>3, <1>5, <2>1, <2>3
    <3>2. Plus(c, i - n - 1) = Plus(b, i - 1)
      <4> DEFINE d == i - n - 1
      <4>1. d \in 0 .. N /\ n + d \in 0 .. N /\ n + d = i - 1
        BY <2>3, <1>6, Sizes0
      <4> HIDE DEF d
      <4>2. /\ c = IF b + n < Word THEN b + n ELSE b + n - Word
            /\ Plus(c, d) = IF c + d < Word THEN c + d ELSE c + d - Word
            /\ Plus(b, n + d) = IF b + (n + d) < Word THEN b + (n + d) ELSE b + (n + d) - Word
        BY <1>1, <4>1, PlusOnCircle DEF c
      <4>3. Plus(c, d) = Plus(b, n + d)
        BY <1>1, <4>1, <4>2, Sizes0 DEF Positions
      <4> QED BY <4>1, <4>3 DEF d
    <3> QED BY <1>4, <3>1, <3>2
  <2> QED BY <2>2, <2>3
<1>7. Len(u) = Len(s \o t)
  BY <1>4, <1>5
<1>8. u = s \o t
  BY <1>4, <1>5, <1>6, <1>7, SeqEqual
<1> QED BY <1>8 DEF s, t, u, c

-----------------------------------------------------------------------------
(* The three ways a step of the ring looks from outside.                   *)

(* Neither cursor moves. *)
LEMMA RestStutters ==
  ASSUME Contents, Contents', UNCHANGED <<in, out, taken>>
  PROVE  UNCHANGED <<queue, taken>>
<1>1. queue = Stretch(out, Minus(in, out)) /\ queue' = Stretch(out', Minus(in', out'))
  BY QueueIs, NextQueueIs DEF QueueRight
<1> QED BY <1>1

(* in moves by n. *)
LEMMA InPuts ==
  ASSUME Contents, Contents', NEW n \in 0 .. N, Minus(in, out) + n <= N,
         in' = Plus(in, n), UNCHANGED <<out, taken>>
  PROVE  Fifo!Put \/ UNCHANGED <<queue, taken>>
<1> DEFINE m == Minus(in, out)
<1>1. /\ in \in Positions /\ out \in Positions /\ m \in 0 .. N
      /\ Minus(in', out) = m + n
  BY InProgress, Advance DEF Contents, Cursors
<1> HIDE DEF m
<1>2. m + n \in 0 .. N
  BY <1>1, Sizes0 DEF m
<1>3. queue = Stretch(out, m) /\ queue' = Stretch(out, m + n)
  BY <1>1, QueueIs, NextQueueIs DEF m, QueueRight
<1>4. /\ queue \in Seq(Positions) /\ Len(queue) = m
      /\ queue' \in Seq(Positions) /\ Len(queue') = m + n
      /\ \A k \in 1 .. m : queue[k] = queue'[k]
  BY <1>1, <1>2, <1>3, StretchType
<1>5. CASE n = 0
  BY <1>1, <1>3, <1>5
<1>6. CASE n # 0
  <2>1. Len(queue) <= Len(queue') /\ queue # queue' /\ Len(queue') <= N
    BY <1>1, <1>2, <1>4, <1>6
  <2>2. SubSeq(queue, 1, m) = SubSeq(queue', 1, m)
    <3>1. m \in Int /\ \A k \in 1 .. m : queue[k] \in Positions /\ queue'[k] \in Positions
      BY <1>1, <1>2, <1>4, ElementOfSeq
    <3>2. /\ SubSeq(queue, 1, m) \in Seq(Positions)
          /\ Len(SubSeq(queue, 1, m)) = IF 1 <= m THEN m - 1 + 1 ELSE 0
          /\ \A i \in 1 .. m - 1 + 1 : SubSeq(queue, 1, m)[i] = queue[1 + i - 1]
      BY <3>1, SubSeqProperties
    <3>3. /\ SubSeq(queue', 1, m) \in Seq(Positions)
          /\ Len(SubSeq(queue', 1, m)) = IF 1 <= m THEN m - 1 + 1 ELSE 0
          /\ \A i \in 1 .. m - 1 + 1 : SubSeq(queue', 1, m)[i] = queue'[1 + i - 1]
      BY <3>1, SubSeqProperties
    <3>4. \A i \in 1 .. Len(SubSeq(queue, 1, m)) : SubSeq(queue, 1, m)[i] = SubSeq(queue', 1, m)[i]
      BY <1>1, <1>4, <3>2, <3>3
    <3> QED BY <3>2, <3>3, <3>4, SeqEqual
  <2>3. Fifo!IsStrictPrefix(queue, queue')
    BY <1>4, <2>1, <2>2 DEF Fifo!IsStrictPrefix, Fifo!IsPrefix
  <2> QED BY <2>1, <2>3 DEF Fifo!Put, queue
<1> QED BY <1>5, <1>6

(* out moves by n, and what was there is returned. *)
LEMMA OutTakes ==
  ASSUME Contents, Contents', NEW n \in 0 .. Minus(in, out),
         out' = Plus(out, n), taken' = Stretch(out, n), UNCHANGED in
  PROVE  Fifo!Take
<1> DEFINE m == Minus(in, out)
<1>1. /\ in \in Positions /\ out \in Positions /\ m \in 0 .. N /\ n \in 0 .. N /\ n <= m
      /\ Minus(in, Plus(out, n)) = m - n
  BY InProgress, Retreat, Sizes0 DEF Contents, Cursors
<1>2. queue = Stretch(out, m) /\ queue' = Stretch(Plus(out, n), m - n)
  BY <1>1, QueueIs, NextQueueIs DEF QueueRight
<1> HIDE DEF m
<1>3. queue = taken' \o queue'
  BY <1>1, <1>2, TwoStretches
<1>4. Len(taken') <= Len(queue)
  BY <1>1, <1>2, StretchType
<1> QED BY <1>3, <1>4 DEF Fifo!Take, queue

-----------------------------------------------------------------------------
LEMMA InitFifo == Init => Fifo!Init
<1> SUFFICES ASSUME Init PROVE Fifo!Init
  OBVIOUS
<1>1. Minus(in, out) = 0
  BY Here, Sizes0 DEF Init, Positions
<1>2. Get(ring, out, 0) = <<>>
  BY DEF Get
<1> QED BY <1>1, <1>2 DEF Init, Fifo!Init

LEMMA StepFifo ==
  ASSUME Contents, [Next]_vars
  PROVE  [Fifo!Next]_(Fifo!vars)
<1>1. /\ Contents' /\ Inductive /\ PutFits /\ TakeFits /\ Copied
      /\ in \in Positions /\ out \in Positions /\ seenIn \in Positions
      /\ Minus(in, out) \in 0 .. N /\ Minus(in, seenOut) \in 0 .. N
      /\ Minus(seenIn, out) \in 0 .. N
      /\ Minus(in, out) <= Minus(in, seenOut) /\ Minus(seenIn, out) <= Minus(in, out)
      /\ put.size \in 0 .. N /\ take.size \in 0 .. N
      /\ buf \in Seq(Positions \cup {Junk})
  BY StepContents, InProgress DEF Contents, Inductive, Cursors, Typed
<1>2. SUFFICES Fifo!Put \/ Fifo!Take \/ UNCHANGED <<queue, taken>>
  BY DEF Fifo!Next, Fifo!vars, queue
<1>3. CASE UNCHANGED <<in, out, taken>>
  BY <1>1, <1>3, RestStutters
<1>4. CASE FinishPush
  <2>1. Minus(in, out) + put.size <= N /\ in' = Plus(in, put.size) /\ UNCHANGED <<out, taken>>
    <3>1. put.begin = in /\ Minus(in, in) = 0
      BY <1>1, <1>4, Here DEF FinishPush, PutFits
    <3>2. Minus(in, seenOut) + put.size <= N
      BY <1>1, <1>4, <3>1 DEF FinishPush, PutFits
    <3> QED BY <1>1, <1>4, <3>2, Sizes0 DEF FinishPush, consumerVars
  <2> QED BY <1>1, <2>1, InPuts
<1>5. ASSUME NEW size \in Sizes, PushCached(size) PROVE Fifo!Put \/ UNCHANGED <<queue, taken>>
  <2> DEFINE n == AtMost(size, FreeSize(in, seenOut))
  <2>1. FreeSize(in, seenOut) = N - Minus(in, seenOut)
    BY <1>1, Room DEF Inductive, Cursors
  <2>2. n \in 0 .. N /\ Minus(in, out) + n <= N
    BY <1>1, <1>5, <2>1, Sizes0 DEF AtMost
  <2>3. in' = Plus(in, n) /\ UNCHANGED <<out, taken>>
    BY <1>5 DEF PushCached, consumerVars
  <2> HIDE DEF n
  <2> QED BY <1>1, <2>2, <2>3, InPuts
<1>6. CASE FinishPop
  <2> DEFINE n == take.size
             S == Positions \cup {Junk}
  <2>1. /\ take.begin = out /\ take.done = n /\ n <= Minus(seenIn, out)
        /\ out' = Plus(out, n) /\ taken' = buf /\ UNCHANGED in
        /\ Len(buf) = n /\ CopiesAreRight
    BY <1>1, <1>6 DEF FinishPop, TakeFits, Copied
  <2>2. n \in 0 .. N /\ n \in 0 .. Minus(in, out)
    BY <1>1, <2>1
  <2> HIDE DEF n
  <2>3. ASSUME NEW k \in 1 .. n PROVE buf[k] = Plus(out, k - 1)
    <3>1. k - 1 \in 0 .. N /\ k - 1 < N
      BY <2>2, <2>3, Sizes0
    <3>2. Minus(Plus(out, k - 1), out) < N
      BY <1>1, <3>1, ToFrom
    <3> QED BY <2>1, <2>3, <3>2 DEF CopiesAreRight
  <2>4. /\ Stretch(out, n) \in Seq(Positions) /\ Len(Stretch(out, n)) = n
        /\ \A k \in 1 .. n : Stretch(out, n)[k] = Plus(out, k - 1)
    BY <1>1, <2>2, StretchType
  <2>5. Stretch(out, n) \in Seq(S)
    BY <2>4, SeqMonotonic
  <2>6. /\ buf \in Seq(S) /\ Len(buf) = Len(Stretch(out, n))
        /\ \A k \in 1 .. Len(buf) : buf[k] = Stretch(out, n)[k]
    BY <1>1, <2>1, <2>3, <2>4
  <2> HIDE DEF S
  <2>7. buf = Stretch(out, n)
    BY <2>5, <2>6, SeqEqual
  <2> QED BY <1>1, <2>1, <2>2, <2>7, OutTakes
<1>7. ASSUME NEW size \in Sizes, PopRead(size) PROVE Fifo!Take
  <2> DEFINE n == GetSize(seenIn, out, size)
  <2>1. n \in 0 .. Minus(in, out)
    BY <1>1, Sizes0 DEF GetSize, AtMost
  <2>2. out' = Plus(out, n) /\ taken' = Get(ring, out, n) /\ UNCHANGED in
    BY <1>7 DEF PopRead
  <2> HIDE DEF n
  <2>3. Get(ring, out, n) = Stretch(out, n)
    BY <2>1, UnreadStretch
  <2> QED BY <1>1, <2>1, <2>2, <2>3, OutTakes
<1>8. ASSUME \/ UNCHANGED vars \/ InArrives \/ OutArrives
             \/ CopyIn \/ FinishSet \/ CopyOut \/ FinishGet
             \/ \E size \in Sizes :
                  \/ StartPush(size) \/ StartPop(size)
                  \/ \E ahead \in 1 .. N - 1 : StartSet(ahead, size)
                  \/ \E begin : StartGet(begin, size)
      PROVE  UNCHANGED <<in, out, taken>>
  BY <1>8 DEF vars, InArrives, OutArrives, CopyIn, FinishSet, CopyOut, FinishGet, StartPush,
              StartPop, StartSet, StartGet, consumerVars, producerVars
<1> QED BY <1>3, <1>4, <1>5, <1>6, <1>7, <1>8 DEF Next, Producer, Consumer

(* push, pop, set and get of two threads that share a buffer without a     *)
(* lock are a queue of at most N bytes, put at one end and taken at the    *)
(* other, whichever bytes and cursors each thread sees of the other's      *)
(* (RingBuffer.h:78-130).                                                   *)
THEOREM RingIsFifo == Spec => ImplementsFifo
<1>1. Contents /\ [Next]_vars => [Fifo!Next]_(Fifo!vars)
  BY StepFifo
<1> QED BY <1>1, InitFifo, AlwaysContents, PTL DEF Spec, ImplementsFifo, Fifo!Spec

=============================================================================
