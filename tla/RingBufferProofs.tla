-------------------------- MODULE RingBufferProofs --------------------------
(***************************************************************************)
(* What the operations of RingBuffer return, preserve and bound, for every *)
(* size of the ring.                                                       *)
(***************************************************************************)
EXTENDS RingBuffer, TLAPS

(* uint32 subtraction gives a word, and the difference when it is one. *)
LEMMA MinusIsDifference ==
  ASSUME NEW a \in Int, NEW b \in Int
  PROVE  /\ Minus(a, b) \in Nat
         /\ 0 <= a - b /\ a - b < Word => Minus(a, b) = a - b
  BY RingAssumption DEF Minus

LEMMA SlotOf ==
  ASSUME NEW i \in Int
  PROVE  i % N \in Slots
  BY RingAssumption DEF Slots

(* push never fills more than the room there is, *)
LEMMA FreeSizeIsRoom ==
  ASSUME NEW in \in Nat, NEW out \in Nat, in \in out .. out + N
  PROVE  FreeSize(in, out) = N + out - in /\ FreeSize(in, out) \in 0 .. N
  <1>1. N \in Nat /\ N + out - in \in 0 .. N /\ N < Word /\ Word \in Nat
    BY RingAssumption
  <1>2. Minus(N + out, in) = N + out - in
    BY <1>1, MinusIsDifference
  <1> QED BY <1>1, <1>2 DEF FreeSize

LEMMA SetSizeFits ==
  ASSUME NEW in \in Nat, NEW out \in Nat, in \in out .. out + N, NEW w \in Int
  PROVE  /\ SetSize(in, out, w) \in Int
         /\ SetSize(in, out, w) <= N + out - in
         /\ SetSize(in, out, w) <= w
         /\ w >= 0 => SetSize(in, out, w) >= 0
  BY RingAssumption, FreeSizeIsRoom DEF SetSize, AtMost

(* and pop never drains more than the bytes there are. *)
LEMMA GetSizeFits ==
  ASSUME NEW in \in Nat, NEW out \in Nat, in \in out .. out + N, NEW r \in Nat
  PROVE  GetSize(in, out, r) \in 0 .. in - out
  <1>1. N \in Nat /\ in - out \in 0 .. N /\ N < Word /\ Word \in Nat
    BY RingAssumption
  <1>2. Minus(in, out) = in - out
    BY <1>1, MinusIsDifference
  <1> QED BY <1>1, <1>2 DEF GetSize, AtMost

LEMMA GetSizeType ==
  ASSUME NEW in \in Nat, NEW begin \in Int, NEW r \in Nat
  PROVE  GetSize(in, begin, r) \in 0 .. r
  BY MinusIsDifference DEF GetSize, AtMost

LEMMA SetType ==
  ASSUME NEW S, NEW ring \in [Slots -> S], NEW begin \in Int, NEW data \in Seq(S)
  PROVE  Set(ring, begin, data) \in [Slots -> S]
  <1> SUFFICES ASSUME NEW i \in Slots, NEW k, k = (i - begin) % N
               PROVE  (IF k < Len(data) THEN data[k + 1] ELSE ring[i]) \in S
    BY DEF Set
  <1>1. k \in Nat
    BY SlotOf, RingAssumption DEF Slots
  <1> QED BY <1>1

LEMMA GetType ==
  ASSUME NEW S, NEW ring \in [Slots -> S], NEW begin \in Int, NEW size \in Nat
  PROVE  /\ Get(ring, begin, size) \in Seq(S)
         /\ Len(Get(ring, begin, size)) = size
  <1>1. \A k \in 1 .. size : ring[(begin + k - 1) % N] \in S
    BY SlotOf
  <1>2. Get(ring, begin, size) \in [1 .. size -> S]
    BY <1>1 DEF Get
  <1> QED BY <1>2

-----------------------------------------------------------------------------
(* A position is determined by its quotient and its slot. *)
LEMMA SlotUnique ==
  ASSUME NEW q \in Int, NEW r \in Slots
  PROVE  (q * N + r) % N = r
  <1> DEFINE x == q * N + r
             d == x \div N
             m == x % N
  <1>1. N \in Nat /\ N > 0 /\ r \in Int /\ 0 <= r /\ r < N
    BY RingAssumption DEF Slots
  <1>2. x \in Int
    BY <1>1
  <1> HIDE DEF x
  <1>3. d \in Int /\ m \in Int /\ 0 <= m /\ m < N /\ x = N * d + m
    BY <1>1, <1>2
  <1>4. x = q * N + r
    BY DEF x
  <1> HIDE DEF d, m
  <1>5. (q - d) * N = m - r
    BY <1>1, <1>3, <1>4
  <1>6. ~(q - d >= 1)
    <2> SUFFICES ASSUME q - d >= 1 PROVE FALSE
      OBVIOUS
    <2>1. (q - d) * N >= N
      BY <1>1, <1>3
    <2> QED BY <1>1, <1>3, <1>5, <2>1
  <1>7. ~(q - d <= -1)
    <2> SUFFICES ASSUME q - d <= -1 PROVE FALSE
      OBVIOUS
    <2>1. (q - d) * N <= -N
      BY <1>1, <1>3
    <2> QED BY <1>1, <1>3, <1>5, <2>1
  <1>8. q = d
    BY <1>3, <1>6, <1>7
  <1> QED BY <1>1, <1>3, <1>4, <1>8 DEF m, x

(* The distance from begin to the slot of position p, around the ring, is  *)
(* p - begin when p lies in the N positions from begin on, and a turn more *)
(* when it lies in the N before.                                           *)
LEMMA SlotDistance ==
  ASSUME NEW p \in Int, NEW begin \in Int
  PROVE  /\ 0 <= p - begin /\ p - begin < N => ((p % N) - begin) % N = p - begin
         /\ p < begin /\ begin - p <= N => ((p % N) - begin) % N = p - begin + N
  <1> DEFINE d == p \div N
             m == p % N
  <1>1. N \in Nat /\ N > 0
    BY RingAssumption
  <1>2. d \in Int /\ m \in Int /\ p = N * d + m
    BY <1>1
  <1> HIDE DEF d, m
  <1>3. ASSUME 0 <= p - begin, p - begin < N
        PROVE  (m - begin) % N = p - begin
    <2>1. m - begin = (-d) * N + (p - begin)
      BY <1>1, <1>2
    <2>2. p - begin \in Slots /\ -d \in Int
      BY <1>1, <1>2, <1>3 DEF Slots
    <2> QED BY <2>1, <2>2, SlotUnique
  <1>4. ASSUME p < begin, begin - p <= N
        PROVE  (m - begin) % N = p - begin + N
    <2>1. m - begin = (-d - 1) * N + (p - begin + N)
      BY <1>1, <1>2
    <2>2. p - begin + N \in Slots /\ -d - 1 \in Int
      BY <1>1, <1>2, <1>4 DEF Slots
    <2> QED BY <2>1, <2>2, SlotUnique
  <1> QED BY <1>3, <1>4 DEF m

(* set() puts each byte of data at its position, and leaves alone the      *)
(* positions that lie less than a turn before the end of the data.         *)
THEOREM SetReads ==
  ASSUME NEW ring, NEW begin \in Int, NEW data, Len(data) \in 0 .. N, NEW p \in Int
  PROVE  /\ p \in begin .. begin + Len(data) - 1
              => Set(ring, begin, data)[p % N] = data[p - begin + 1]
         /\ p \in begin + Len(data) - N .. begin - 1
              => Set(ring, begin, data)[p % N] = ring[p % N]
  <1> DEFINE k == ((p % N) - begin) % N
  <1>1. N \in Nat /\ N > 0 /\ p % N \in Slots
    <2>1. p % N \in Slots
      BY SlotOf
    <2> QED BY <2>1, RingAssumption
  <1>2. Set(ring, begin, data)[p % N] = IF k < Len(data) THEN data[k + 1] ELSE ring[p % N]
    BY <1>1 DEF Set
  <1>3. ASSUME p \in begin .. begin + Len(data) - 1
        PROVE  Set(ring, begin, data)[p % N] = data[p - begin + 1]
    <2>1. k = p - begin
      BY <1>1, <1>3, SlotDistance
    <2> HIDE DEF k
    <2> QED BY <1>1, <1>2, <1>3, <2>1
  <1>4. ASSUME p \in begin + Len(data) - N .. begin - 1
        PROVE  Set(ring, begin, data)[p % N] = ring[p % N]
    <2>1. k = p - begin + N
      BY <1>1, <1>4, SlotDistance
    <2> HIDE DEF k
    <2> QED BY <1>1, <1>2, <1>4, <2>1
  <1> QED BY <1>3, <1>4

=============================================================================
