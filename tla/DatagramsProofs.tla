---------------------------- MODULE DatagramsProofs ----------------------------
(***************************************************************************)
(* A receiver hears one sender, whatever is sent, damaged or sent by       *)
(* others, and in whatever order it arrives; and the checksum notices one  *)
(* damaged byte, wherever it is, and never drops an intact packet.         *)
(*                                                                         *)
(* The sum is a recursive function.  What it does for packets of every     *)
(* length is proved by induction over sets of numbers (SetInduction),      *)
(* which follows from the well-foundedness of < on Nat.                    *)
(***************************************************************************)
EXTENDS Datagrams, WellFoundedInduction, SequenceTheorems, TLAPS

(* Once a packet was handled the target is its source, and the target is   *)
(* set for good.                                                           *)
HeardTarget == heard \subseteq Sources /\ \A s \in heard : s = target

(* What recvPkg does to target and heard when the process survives.        *)
LEMMA RecvPkgKeeps ==
  ASSUME HeardTarget, NEW from \in Sources, NEW p, NEW d, RecvPkg(from, p, d)
  PROVE  HeardTarget'
<1> DEFINE known == IF target.port = NoPort THEN from ELSE target
           verdict == CASE Len(d) # Size(d)   -> "exit"
                        [] Foreign(from, known) -> "foreign"
                        [] ~Passes(d)           -> "dropped"
                        [] OTHER                -> "accepted"
<1>1. /\ IF verdict = "exit" THEN UNCHANGED target ELSE target' = known
      /\ heard' = IF verdict = "accepted" THEN heard \cup {from} ELSE heard
  BY DEF RecvPkg
<1>2. verdict = "accepted" => from = known
  BY DEF Foreign
<1>3. heard # {} => known = target
  BY SourcesAssumption DEF HeardTarget
<1> HIDE DEF known, verdict
<1> QED BY <1>1, <1>2, <1>3 DEF HeardTarget

LEMMA StepKeeps == HeardTarget /\ [Next]_vars => HeardTarget'
<1> SUFFICES ASSUME HeardTarget, [Next]_vars PROVE HeardTarget'
  OBVIOUS
<1>1. CASE \E from \in Sources, p \in Packets : \E d \in Arriving(p) : RecvPkg(from, p, d)
  BY <1>1, RecvPkgKeeps
<1>2. CASE \E a \in Acks : \E d \in Arriving(a) : RecvAck(a, d)
  BY <1>2 DEF RecvAck, HeardTarget
<1>3. CASE SocketFails \/ Again \/ UNCHANGED vars
  BY <1>3 DEF SocketFails, Again, vars, HeardTarget
<1> QED BY <1>1, <1>2, <1>3 DEF Next

(* However many senders send, recvPkg returns packets of the first whose   *)
(* datagram has the right length, and of no other: RRecv.cpp:104-113.      *)
THEOREM OneSourceAlways == Spec => []OneSource
<1>1. Init => HeardTarget
  BY DEF Init, HeardTarget
<1>2. HeardTarget => OneSource
  BY DEF HeardTarget, OneSource
<1> QED BY <1>1, <1>2, StepKeeps, PTL DEF Spec

-----------------------------------------------------------------------------
(* Induction over the numbers, for a set instead of a predicate. *)
LEMMA Least ==
  ASSUME NEW T, T \subseteq Nat, T # {}
  PROVE  \E x \in T : \A y \in T : x <= y
  <1> DEFINE R == OpToRel(<, Nat)
  <1>1. IsWellFoundedOn(R, Nat)
    BY NatLessThanWellFounded, Zenon
  <1>2. \A x, y \in Nat : x < y => <<x, y>> \in R
    BY Zenon DEF OpToRel
  <1> HIDE DEF R
  <1>3. PICK x \in T : \A y \in T : ~ (<<y, x>> \in R)
    BY <1>1, WFMin
  <1>4. \A y \in T : ~(y < x)
    BY <1>2, <1>3
  <1> QED BY <1>3, <1>4

LEMMA SetInduction ==
  ASSUME NEW T, 0 \in T, \A n \in Nat : n \in T => n + 1 \in T
  PROVE  Nat \subseteq T
  <1> SUFFICES ASSUME Nat \ T # {} PROVE FALSE
    OBVIOUS
  <1>1. PICK x \in Nat \ T : \A y \in Nat \ T : x <= y
    BY Least
  <1>2. x # 0 /\ x - 1 \in Nat
    BY <1>1
  <1>3. x - 1 \in T
    BY <1>1, <1>2
  <1>4. (x - 1) + 1 \in T
    BY <1>2, <1>3
  <1> QED BY <1>1, <1>4

(* A sum that is defined by recursion exists. *)
Prefix(w, m, g) ==
  g = [n \in 0 .. m |-> IF n = 0 THEN 0 ELSE g[n - 1] + w[n]]

LEMMA PrefixExists ==
  ASSUME NEW w, NEW m \in Nat
  PROVE  \E g : Prefix(w, m, g)
  <1> DEFINE T == {k \in Nat : \E g : Prefix(w, k, g)}
  <1>1. 0 \in T
    <2>1. Prefix(w, 0, [n \in 0 .. 0 |-> 0])
      BY DEF Prefix
    <2> QED BY <2>1
  <1>2. ASSUME NEW k \in Nat, k \in T PROVE k + 1 \in T
    <2>1. PICK g : Prefix(w, k, g)
      BY <1>2
    <2> DEFINE h == [n \in 0 .. k + 1 |-> IF n = 0 THEN 0 ELSE g[n - 1] + w[n]]
    <2>2. \A n \in 0 .. k : h[n] = g[n]
      BY <2>1 DEF Prefix
    <2>3. \A n \in 0 .. k + 1 : n # 0 => g[n - 1] = h[n - 1]
      BY <2>2
    <2>4. \A n \in 0 .. k + 1 : h[n] = IF n = 0 THEN 0 ELSE h[n - 1] + w[n]
      BY <2>3
    <2>5. h = [n \in 0 .. k + 1 |-> h[n]]
      OBVIOUS
    <2> HIDE DEF h
    <2>6. Prefix(w, k + 1, h)
      BY <2>4, <2>5 DEF Prefix
    <2> QED BY <2>6
  <1> HIDE DEF T
  <1>3. Nat \subseteq T
    BY <1>1, <1>2, SetInduction
  <1> QED BY <1>3 DEF T

LEMMA PrefixesAgree ==
  ASSUME NEW w, NEW m \in Nat, NEW k \in Nat, NEW g, NEW h, Prefix(w, m, g), Prefix(w, k, h)
  PROVE  \A n \in Nat : n <= m /\ n <= k => g[n] = h[n]
  <1> DEFINE T == {n \in Nat : n <= m /\ n <= k => g[n] = h[n]}
  <1>0. /\ g[0] = 0 /\ h[0] = 0
        /\ \A n \in Nat : n + 1 <= m => g[n + 1] = g[n] + w[n + 1]
        /\ \A n \in Nat : n + 1 <= k => h[n + 1] = h[n] + w[n + 1]
    BY DEF Prefix
  <1>1. 0 \in T
    BY <1>0
  <1>2. ASSUME NEW n \in Nat, n \in T PROVE n + 1 \in T
    BY <1>0, <1>2
  <1> HIDE DEF T
  <1>3. Nat \subseteq T
    BY <1>1, <1>2, SetInduction
  <1> QED BY <1>3 DEF T

(* The recursive function of WordSum is what its definition says. *)
LEMMA SumRecursion ==
  ASSUME NEW w, NEW f, f = (CHOOSE g : g = [n \in Nat |-> IF n = 0 THEN 0 ELSE g[n - 1] + w[n]])
  PROVE  f[0] = 0 /\ \A n \in Nat : f[n + 1] = f[n] + w[n + 1]
  <1> DEFINE G(m) == CHOOSE g : Prefix(w, m, g)
             h == [n \in Nat |-> G(n)[n]]
  <1>1. \A m \in Nat : Prefix(w, m, G(m))
    BY PrefixExists
  <1> HIDE DEF G
  <1>2. \A n \in Nat : n # 0 => G(n)[n] = G(n - 1)[n - 1] + w[n]
    <2> SUFFICES ASSUME NEW n \in Nat, n # 0 PROVE G(n)[n] = G(n - 1)[n - 1] + w[n]
      OBVIOUS
    <2>1. n - 1 \in Nat /\ n - 1 <= n
      OBVIOUS
    <2>2. Prefix(w, n, G(n)) /\ Prefix(w, n - 1, G(n - 1))
      BY <1>1, <2>1
    <2>3. G(n)[n - 1] = G(n - 1)[n - 1]
      BY <2>1, <2>2, PrefixesAgree
    <2>4. G(n)[n] = G(n)[n - 1] + w[n]
      BY <2>2 DEF Prefix
    <2> QED BY <2>3, <2>4
  <1>3. G(0)[0] = 0
    <2>1. Prefix(w, 0, G(0))
      BY <1>1
    <2> QED BY <2>1 DEF Prefix
  <1>4. \A n \in Nat : h[n] = IF n = 0 THEN 0 ELSE h[n - 1] + w[n]
    BY <1>2, <1>3
  <1>5. h = [n \in Nat |-> h[n]]
    OBVIOUS
  <1> HIDE DEF h
  <1>6. h = [n \in Nat |-> IF n = 0 THEN 0 ELSE h[n - 1] + w[n]]
    BY <1>4, <1>5
  <1>7. f = [n \in Nat |-> IF n = 0 THEN 0 ELSE f[n - 1] + w[n]]
    BY <1>6
  <1> QED BY <1>7

(* WordSum adds up the words one by one. *)
LEMMA WordSumRecursion ==
  ASSUME NEW d
  PROVE  /\ WordSum(d, 0) = 0
         /\ \A n \in Nat : WordSum(d, n + 1) = WordSum(d, n) + NToH(d, 2 * (n + 1) - 1)
  <1> DEFINE w == [n \in Nat |-> NToH(d, 2 * n - 1)]
             f == CHOOSE g : g = [n \in Nat |-> IF n = 0 THEN 0 ELSE g[n - 1] + w[n]]
             v == CHOOSE g : g = [n \in Nat |-> IF n = 0 THEN 0 ELSE g[n - 1] + NToH(d, 2 * n - 1)]
  <1>1. \A n : WordSum(d, n) = v[n]
    BY DEF WordSum
  <1>2. \A g : [n \in Nat |-> IF n = 0 THEN 0 ELSE g[n - 1] + NToH(d, 2 * n - 1)]
             = [n \in Nat |-> IF n = 0 THEN 0 ELSE g[n - 1] + w[n]]
    OBVIOUS
  <1>3. v = f
    BY <1>2
  <1>4. \A n \in Nat : w[n + 1] = NToH(d, 2 * (n + 1) - 1)
    OBVIOUS
  <1> HIDE DEF w, v
  <1>5. f[0] = 0 /\ \A n \in Nat : f[n + 1] = f[n] + w[n + 1]
    BY SumRecursion
  <1> HIDE DEF f
  <1> QED BY <1>1, <1>3, <1>4, <1>5

-----------------------------------------------------------------------------
(* A datagram of L bytes, as far as the sum looks at it. *)
Bytes(d, L) == \A k \in 1 .. L : d[k] \in 0 .. Byte - 1

LEMMA WordRange ==
  /\ Byte \in Nat /\ Byte >= 16 /\ Word \in Nat
  /\ Word > Byte /\ \A b \in 0 .. Byte - 1 : Byte * b \in Nat /\ Byte * b <= Word - Byte
  <1>1. CASE Byte = 16
    BY <1>1 DEF Word
  <1>2. CASE Byte = 32
    BY <1>2 DEF Word
  <1>3. CASE Byte = 64
    BY <1>3 DEF Word
  <1>4. CASE Byte = 128
    BY <1>4 DEF Word
  <1>5. CASE Byte = 256
    BY <1>5 DEF Word
  <1> QED BY <1>1, <1>2, <1>3, <1>4, <1>5, ByteAssumption

LEMMA NToHRange ==
  ASSUME NEW d, NEW at \in Nat, d[at] \in 0 .. Byte - 1, d[at + 1] \in 0 .. Byte - 1
  PROVE  NToH(d, at) \in 0 .. Word - 1
  <1>1. PICK hi \in 0 .. Byte - 1, lo \in 0 .. Byte - 1 : hi = d[at] /\ lo = d[at + 1]
    OBVIOUS
  <1>2. Byte * hi \in Nat /\ Byte * hi <= Word - Byte /\ hi * Byte = Byte * hi
    BY WordRange
  <1> QED BY <1>1, <1>2, WordRange DEF NToH

LEMMA WordSumRange ==
  ASSUME NEW d, NEW m \in Nat, Bytes(d, 2 * m)
  PROVE  WordSum(d, m) \in 0 .. m * (Word - 1)
  <1> DEFINE T == {n \in Nat : n <= m => WordSum(d, n) \in 0 .. n * (Word - 1)}
  <1>1. 0 \in T
    BY WordSumRecursion, WordRange
  <1>2. ASSUME NEW n \in Nat, n \in T PROVE n + 1 \in T
    <2> SUFFICES ASSUME n + 1 <= m
                 PROVE  WordSum(d, n + 1) \in 0 .. (n + 1) * (Word - 1)
      OBVIOUS
    <2>1. WordSum(d, n) \in 0 .. n * (Word - 1)
      BY <1>2
    <2>2. NToH(d, 2 * (n + 1) - 1) \in 0 .. Word - 1
      <3> DEFINE at == 2 * (n + 1) - 1
      <3>1. at \in Nat /\ at \in 1 .. 2 * m /\ at + 1 \in 1 .. 2 * m
        OBVIOUS
      <3> HIDE DEF at
      <3>2. d[at] \in 0 .. Byte - 1 /\ d[at + 1] \in 0 .. Byte - 1
        BY <3>1 DEF Bytes
      <3>3. NToH(d, at) \in 0 .. Word - 1
        BY <3>1, <3>2, NToHRange
      <3> QED BY <3>3 DEF at
    <2>3. WordSum(d, n + 1) = WordSum(d, n) + NToH(d, 2 * (n + 1) - 1)
      BY WordSumRecursion
    <2>4. PICK v \in Nat : v = Word - 1
      BY WordRange
    <2>5. (n + 1) * v = n * v + v
      OBVIOUS
    <2>6. PICK s \in Nat, x \in Nat : /\ s = WordSum(d, n) /\ s <= n * v
                                      /\ x = NToH(d, 2 * (n + 1) - 1) /\ x <= v
      BY <2>1, <2>2, <2>4
    <2> QED BY <2>3, <2>4, <2>5, <2>6
  <1> HIDE DEF T
  <1>3. m \in T
    BY <1>1, <1>2, SetInduction
  <1> QED BY <1>3 DEF T

(* What one byte weighs in the sum. *)
Weight(i) == IF i % 2 = 1 THEN Byte ELSE 1

LEMMA NToHChange ==
  ASSUME NEW d, NEW e, NEW at \in Nat, at % 2 = 1, NEW i \in Nat,
         \A k \in {at, at + 1} : /\ d[k] \in 0 .. Byte - 1 /\ e[k] \in 0 .. Byte - 1
                                 /\ k # i => e[k] = d[k]
  PROVE  NToH(e, at) = NToH(d, at) + IF i \in {at, at + 1} THEN (e[i] - d[i]) * Weight(i) ELSE 0
  <1>1. PICK a \in Int, b \in Int, u \in Int, v \in Int :
           a = d[at] /\ b = d[at + 1] /\ u = e[at] /\ v = e[at + 1]
    OBVIOUS
  <1>2. Byte \in Int /\ (u - a) * Byte = u * Byte - a * Byte
    BY WordRange
  <1>3. CASE i = at
    <2>1. v = b /\ Weight(i) = Byte
      BY <1>1, <1>3 DEF Weight
    <2>2. NToH(e, at) = u * Byte + v /\ NToH(d, at) = a * Byte + b
      BY <1>1 DEF NToH
    <2>3. u * Byte \in Int /\ a * Byte \in Int
      BY <1>2
    <2> QED BY <1>1, <1>2, <1>3, <2>1, <2>2, <2>3
  <1>4. CASE i = at + 1
    <2>1. u = a /\ Weight(i) = 1
      BY <1>1, <1>4 DEF Weight
    <2>2. NToH(e, at) = u * Byte + v /\ NToH(d, at) = a * Byte + b
      BY <1>1 DEF NToH
    <2>3. u * Byte \in Int /\ a * Byte \in Int
      BY <1>2
    <2> QED BY <1>1, <1>4, <2>1, <2>2, <2>3
  <1>5. CASE i \notin {at, at + 1}
    <2>1. u = a /\ v = b
      BY <1>1, <1>5
    <2>2. NToH(d, at) = a * Byte + b /\ a * Byte \in Int
      BY <1>1, <1>2 DEF NToH
    <2>3. NToH(e, at) = u * Byte + v
      BY <1>1 DEF NToH
    <2> QED BY <1>5, <2>1, <2>2, <2>3
  <1> QED BY <1>3, <1>4, <1>5

(* One byte that changes changes the sum by what it weighs. *)
LEMMA WordSumChange ==
  ASSUME NEW d, NEW e, NEW m \in Nat, Bytes(d, 2 * m), Bytes(e, 2 * m), NEW i \in Nat \ {0},
         \A k \in 1 .. 2 * m : k # i => e[k] = d[k]
  PROVE  WordSum(e, m) = WordSum(d, m) + IF i <= 2 * m THEN (e[i] - d[i]) * Weight(i) ELSE 0
  <1> DEFINE delta == (e[i] - d[i]) * Weight(i)
             T == {n \in Nat : n <= m =>
                     WordSum(e, n) = WordSum(d, n) + IF i <= 2 * n THEN delta ELSE 0}
  <1>0. i <= 2 * m => delta \in Int
    BY WordRange DEF Bytes, Weight
  <1>1. 0 \in T
    BY WordSumRecursion
  <1>2. ASSUME NEW n \in Nat, n \in T PROVE n + 1 \in T
    <2> SUFFICES ASSUME n + 1 <= m
                 PROVE  WordSum(e, n + 1) = WordSum(d, n + 1) + IF i <= 2 * (n + 1) THEN delta ELSE 0
      OBVIOUS
    <2> DEFINE at == 2 * (n + 1) - 1
    <2>1. /\ at \in Nat /\ at % 2 = 1 /\ at \in 1 .. 2 * m /\ at + 1 \in 1 .. 2 * m
          /\ i <= 2 * (n + 1) <=> i <= 2 * n \/ i \in {at, at + 1}
          /\ i \in {at, at + 1} => ~(i <= 2 * n) /\ i <= 2 * m
          /\ i <= 2 * n => i <= 2 * m
      OBVIOUS
    <2>2. /\ WordSum(e, n) = WordSum(d, n) + IF i <= 2 * n THEN delta ELSE 0
          /\ WordSum(e, n + 1) = WordSum(e, n) + NToH(e, at)
          /\ WordSum(d, n + 1) = WordSum(d, n) + NToH(d, at)
      <3> HIDE DEF delta
      <3>1. WordSum(e, n) = WordSum(d, n) + IF i <= 2 * n THEN delta ELSE 0
        BY <1>2
      <3>2. \A c : WordSum(c, n + 1) = WordSum(c, n) + NToH(c, at)
        BY WordSumRecursion
      <3> QED BY <3>1, <3>2
    <2>3. WordSum(d, n) \in Int
      <3>1. Bytes(d, 2 * n)
        BY DEF Bytes
      <3>2. WordSum(d, n) \in 0 .. n * (Word - 1)
        BY <3>1, WordSumRange
      <3> QED BY <3>2
    <2> HIDE DEF at, delta
    <2>4. \A k \in {at, at + 1} : /\ d[k] \in 0 .. Byte - 1 /\ e[k] \in 0 .. Byte - 1
                                  /\ k # i => e[k] = d[k]
      BY <2>1 DEF Bytes
    <2>5. NToH(e, at) = NToH(d, at) + IF i \in {at, at + 1} THEN delta ELSE 0
      BY <2>1, <2>4, NToHChange DEF delta
    <2>6. NToH(d, at) \in Int
      BY <2>1, <2>4, NToHRange
    <2> QED BY <1>0, <2>1, <2>2, <2>3, <2>5, <2>6
  <1> HIDE DEF T
  <1>3. m \in T
    BY <1>1, <1>2, SetInduction
  <1> QED BY <1>3 DEF T

LEMMA ByteSumChange ==
  ASSUME NEW L \in Nat, NEW d, NEW e, Bytes(d, L), Bytes(e, L), NEW i \in 1 .. L,
         \A k \in 1 .. L : k # i => e[k] = d[k]
  PROVE  ByteSum(e, L) = ByteSum(d, L) + (e[i] - d[i]) * Weight(i)
  <1>1. PICK m \in Nat : m = L \div 2 /\ (L = 2 * m \/ L = 2 * m + 1)
    OBVIOUS
  <1>2. Bytes(d, 2 * m) /\ Bytes(e, 2 * m) /\ \A k \in 1 .. 2 * m : k # i => e[k] = d[k]
    BY <1>1 DEF Bytes
  <1>3. WordSum(e, m) = WordSum(d, m) + IF i <= 2 * m THEN (e[i] - d[i]) * Weight(i) ELSE 0
    BY <1>2, WordSumChange
  <1>4. PICK s \in Int : s = WordSum(d, m)
    <2>1. WordSum(d, m) \in 0 .. m * (Word - 1)
      BY <1>2, WordSumRange
    <2> QED BY <2>1
  <1>5. PICK a \in Int, b \in Int : a = d[i] /\ b = e[i]
    BY DEF Bytes
  <1>6. (b - a) * Weight(i) \in Int
    BY WordRange DEF Weight
  <1>7. CASE L = 2 * m
    <2>1. L % 2 = 0
      BY <1>7
    <2>2. ByteSum(e, L) = WordSum(e, m) + 0 /\ ByteSum(d, L) = WordSum(d, m) + 0
      BY <1>1, <2>1 DEF ByteSum
    <2>3. i <= 2 * m
      BY <1>7
    <2> QED BY <1>3, <1>4, <1>5, <1>6, <2>2, <2>3
  <1>8. CASE L = 2 * m + 1
    <2>1. L % 2 = 1
      BY <1>8
    <2>2. PICK p \in Int, q \in Int : p = d[L] /\ q = e[L]
      BY <1>8 DEF Bytes
    <2>3. /\ ByteSum(e, L) = WordSum(e, m) + q * Byte
          /\ ByteSum(d, L) = WordSum(d, m) + p * Byte
      BY <1>1, <2>1, <2>2 DEF ByteSum
    <2>4. p * Byte \in Int /\ q * Byte \in Int /\ (q - p) * Byte = q * Byte - p * Byte
      BY WordRange
    <2>5. CASE i = L
      <3>1. ~(i <= 2 * m) /\ Weight(i) = Byte /\ a = p /\ b = q
        BY <1>5, <1>8, <2>1, <2>2, <2>5 DEF Weight
      <3> QED BY <1>3, <1>4, <1>5, <1>6, <2>3, <2>4, <3>1
    <2>6. CASE i # L
      <3>1. i <= 2 * m /\ p = q
        BY <1>8, <2>2, <2>6
      <3> QED BY <1>3, <1>4, <1>5, <1>6, <2>3, <2>4, <3>1
    <2> QED BY <2>5, <2>6
  <1> QED BY <1>1, <1>7, <1>8

-----------------------------------------------------------------------------
(* Folding leaves the residue modulo Word - 1, and 0 only for 0. *)
LEMMA FoldedResidue ==
  ASSUME NEW s \in Nat, s < Word * Word
  PROVE  /\ Folded(s) \in 0 .. Word - 1 /\ (s > 0 => Folded(s) > 0)
         /\ \E k \in Nat : s = k * (Word - 1) + Folded(s)
  <1> DEFINE once == (s \div Word) + (s % Word)
  <1>1. /\ once \in Nat /\ once <= 2 * Word - 2 /\ (s > 0 => once > 0)
        /\ s \div Word \in Nat /\ s = (s \div Word) * (Word - 1) + once
        /\ Word \in Nat /\ Word > 1
        /\ once < Word => (once \div Word) + once = once /\ once % Word = once
        /\ once >= Word => (once \div Word) + once = once + 1 /\ (once + 1) % Word = once + 1 - Word
    <2>1. CASE Byte = 16
      BY <2>1 DEF Word
    <2>2. CASE Byte = 32
      BY <2>2 DEF Word
    <2>3. CASE Byte = 64
      BY <2>3 DEF Word
    <2>4. CASE Byte = 128
      BY <2>4 DEF Word
    <2>5. CASE Byte = 256
      BY <2>5 DEF Word
    <2> QED BY <2>1, <2>2, <2>3, <2>4, <2>5, ByteAssumption
  <1>2. Folded(s) = ((once \div Word) + once) % Word
    BY DEF Folded
  <1>3. PICK q \in Nat, w \in Nat : q = s \div Word /\ w = Word
    BY <1>1
  <1> HIDE DEF once
  <1>4. CASE once < Word
    <2>1. Folded(s) = once /\ s = q * (Word - 1) + Folded(s)
      BY <1>1, <1>2, <1>3, <1>4
    <2> QED BY <1>1, <1>4, <2>1
  <1>5. CASE once >= Word
    <2>1. Folded(s) = once + 1 - Word
      BY <1>1, <1>2, <1>5
    <2>2. s = q * (w - 1) + once
      BY <1>1, <1>3
    <2>3. (q + 1) * (w - 1) = q * (w - 1) + w - 1
      OBVIOUS
    <2>4. PICK p \in Int : p = q * (w - 1)
      OBVIOUS
    <2>5. s = (q + 1) * (w - 1) + Folded(s)
      BY <1>1, <1>3, <2>1, <2>2, <2>3, <2>4
    <2>6. s = (q + 1) * (Word - 1) + Folded(s)
      BY <1>3, <2>5, Zenon
    <2>7. q + 1 \in Nat
      OBVIOUS
    <2>8. \E k \in Nat : s = k * (Word - 1) + Folded(s)
      BY <2>6, <2>7, Zenon
    <2> QED BY <1>1, <1>5, <2>1, <2>8
  <1> QED BY <1>1, <1>4, <1>5

LEMMA Residues ==
  ASSUME NEW a \in Nat, NEW b \in Nat, NEW x \in Int, a * (Word - 1) = b * (Word - 1) + x
  PROVE  /\ x \in 1 .. Word - 1 => x = Word - 1
         /\ x # 0 => ~(-(Word - 1) < x /\ x < Word - 1)
  <1>1. PICK v \in Nat : v = Word - 1 /\ v > 0
    BY WordRange
  <1>2. a * v = b * v + x /\ (a - b) * v = a * v - b * v
    BY <1>1
  <1>3. PICK k \in Int : k = a - b /\ k * v = x
    <2>1. PICK p \in Nat, q \in Nat : p = a * v /\ q = b * v
      OBVIOUS
    <2>2. (a - b) * v = x
      BY <1>2, <2>1
    <2> QED BY <2>2
  <1>4. CASE k >= 2
    <2>1. (k - 2) * v = k * v - 2 * v /\ (k - 2) * v >= 0
      BY <1>4
    <2>2. x >= 2 * v
      BY <1>3, <2>1
    <2> QED BY <1>1, <2>2
  <1>5. CASE k = 1 \/ k = 0
    BY <1>1, <1>3, <1>5
  <1>6. CASE k <= -1
    <2>1. (-1 - k) * v = -v - k * v /\ (-1 - k) * v >= 0
      BY <1>6
    <2>2. x <= -v
      BY <1>3, <2>1
    <2> QED BY <1>1, <2>2
  <1> QED BY <1>4, <1>5, <1>6

(* A sum to which its own complement is added folds to all ones.           *)
LEMMA IntactFold ==
  ASSUME NEW s \in Nat, NEW c \in Nat, s + c < Word * Word, s < Word * Word,
         c = Word - 1 - Folded(s)
  PROVE  Folded(s + c) = Word - 1
  <1>1. PICK v \in Nat : v = Word - 1 /\ v > 0
    BY WordRange
  <1>2. PICK k \in Nat : s = k * v + Folded(s)
    BY <1>1, FoldedResidue
  <1>3. PICK f \in Nat : f = Folded(s) /\ f <= v
    BY <1>1, FoldedResidue
  <1>4. s + c = (k + 1) * v /\ s + c > 0
    <2>1. (k + 1) * v = k * v + v
      OBVIOUS
    <2>2. PICK p \in Nat : p = k * v
      OBVIOUS
    <2> QED BY <1>1, <1>2, <1>3, <2>1, <2>2
  <1>5. PICK t \in Nat : t = Folded(s + c) /\ t \in 1 .. v
    <2>1. s + c \in Nat
      OBVIOUS
    <2> QED BY <1>1, <1>4, <2>1, FoldedResidue
  <1>6. PICK j \in Nat : s + c = j * v + t
    BY <1>1, <1>5, FoldedResidue
  <1>7. (k + 1) * (Word - 1) = j * (Word - 1) + t /\ k + 1 \in Nat
    BY <1>1, <1>4, <1>6
  <1>8. t = Word - 1
    BY <1>1, <1>5, <1>7, Residues
  <1> QED BY <1>5, <1>8

(* A small change of such a sum is noticed. *)
LEMMA DamagedFold ==
  ASSUME NEW s \in Nat, NEW x \in Int, s < Word * Word, s + x \in Nat, s + x < Word * Word,
         Folded(s) = Word - 1, x # 0, -(Word - 1) < x, x < Word - 1
  PROVE  Folded(s + x) # Word - 1
  <1> SUFFICES ASSUME Folded(s + x) = Word - 1 PROVE FALSE
    OBVIOUS
  <1>1. PICK v \in Nat : v = Word - 1 /\ v > 0
    BY WordRange
  <1>2. PICK k \in Nat : s = k * v + v
    BY <1>1, FoldedResidue
  <1>3. PICK j \in Nat : s + x = j * v + v
    BY <1>1, FoldedResidue
  <1>4. j * v = k * v + x
    <2>1. PICK p \in Nat, q \in Nat : p = k * v /\ q = j * v
      OBVIOUS
    <2> QED BY <1>2, <1>3, <2>1
  <1> QED BY <1>1, <1>4, Residues

-----------------------------------------------------------------------------
LEMMA ByteSumRange ==
  ASSUME NEW d, NEW L \in Nat, L <= Word + 8, Bytes(d, L)
  PROVE  ByteSum(d, L) \in Nat /\ ByteSum(d, L) < Word * Word
  <1>1. PICK m \in Nat : m = L \div 2 /\ (L % 2 = 0 => L = 2 * m) /\ (L % 2 # 0 => L % 2 = 1 /\ L = 2 * m + 1)
    <2>1. \A l \in Nat : LET h == l \div 2 IN
            /\ h \in Nat /\ (l % 2 = 0 => l = 2 * h) /\ (l % 2 # 0 => l % 2 = 1 /\ l = 2 * h + 1)
      OBVIOUS
    <2> QED BY <2>1
  <1>2. Bytes(d, 2 * m)
    BY <1>1 DEF Bytes
  <1>3. PICK s \in Nat : s = WordSum(d, m) /\ s <= m * (Word - 1)
    BY <1>2, WordSumRange, WordRange
  <1>4. PICK x \in Nat : ByteSum(d, L) = s + x /\ x <= Word
    <2>1. CASE L % 2 = 0
      BY <1>1, <1>3, <2>1, WordRange DEF ByteSum
    <2>2. CASE L % 2 = 1
      <3>1. PICK b \in 0 .. Byte - 1 : b = d[L]
        BY <1>1, <2>2 DEF Bytes
      <3>2. Byte * b \in Nat /\ Byte * b <= Word /\ b * Byte = Byte * b
        <4>1. Byte * b \in Nat /\ Byte * b <= Word - Byte /\ Byte \in Nat /\ Word \in Nat
          BY WordRange
        <4>2. \A x \in Nat, y \in Nat : x * y = y * x
          OBVIOUS
        <4> QED BY <4>1, <4>2
      <3>3. ByteSum(d, L) = s + Byte * b
        BY <1>1, <1>3, <2>2, <3>1, <3>2 DEF ByteSum
      <3> QED BY <3>2, <3>3
    <2> QED BY <1>1, <2>1, <2>2
  <1>5. m * (Word - 1) + Word < Word * Word
    <2>0. 2 * m <= Word + 8
      BY <1>1, WordRange
    <2>1. CASE Byte = 16
      BY <2>0, <2>1 DEF Word
    <2>2. CASE Byte = 32
      BY <2>0, <2>2 DEF Word
    <2>3. CASE Byte = 64
      BY <2>0, <2>3 DEF Word
    <2>4. CASE Byte = 128
      BY <2>0, <2>4 DEF Word
    <2>5. CASE Byte = 256
      BY <2>0, <2>5 DEF Word
    <2> QED BY <2>1, <2>2, <2>3, <2>4, <2>5, ByteAssumption
  <1>6. PICK p \in Nat, w \in Nat, ww \in Nat : p = m * (Word - 1) /\ w = Word /\ ww = Word * Word
    BY WordRange
  <1> QED BY <1>3, <1>4, <1>5, <1>6

LEMMA HToNRange ==
  ASSUME NEW w \in 0 .. Word - 1
  PROVE  /\ HToN(w)[1] \in 0 .. Byte - 1 /\ HToN(w)[2] \in 0 .. Byte - 1
         /\ HToN(w) = <<HToN(w)[1], HToN(w)[2]>>
         /\ HToN(w)[1] * Byte + HToN(w)[2] = w
  <1>1. CASE Byte = 16
    <2>1. w \in Nat /\ w < 16 * 16
      BY <1>1 DEF Word
    <2>2. PICK hi, lo : hi = w \div 16 /\ lo = w % 16
      OBVIOUS
    <2>3. hi \in 0 .. 15 /\ lo \in 0 .. 15 /\ hi * 16 + lo = w
      BY <2>1, <2>2
    <2>4. HToN(w) = <<hi, lo>>
      BY <1>1, <2>2 DEF HToN
    <2> QED BY <1>1, <2>3, <2>4
  <1>2. CASE Byte = 32
    <2>1. w \in Nat /\ w < 32 * 32
      BY <1>2 DEF Word
    <2>2. PICK hi, lo : hi = w \div 32 /\ lo = w % 32
      OBVIOUS
    <2>3. hi \in 0 .. 31 /\ lo \in 0 .. 31 /\ hi * 32 + lo = w
      BY <2>1, <2>2
    <2>4. HToN(w) = <<hi, lo>>
      BY <1>2, <2>2 DEF HToN
    <2> QED BY <1>2, <2>3, <2>4
  <1>3. CASE Byte = 64
    <2>1. w \in Nat /\ w < 64 * 64
      BY <1>3 DEF Word
    <2>2. PICK hi, lo : hi = w \div 64 /\ lo = w % 64
      OBVIOUS
    <2>3. hi \in 0 .. 63 /\ lo \in 0 .. 63 /\ hi * 64 + lo = w
      BY <2>1, <2>2
    <2>4. HToN(w) = <<hi, lo>>
      BY <1>3, <2>2 DEF HToN
    <2> QED BY <1>3, <2>3, <2>4
  <1>4. CASE Byte = 128
    <2>1. w \in Nat /\ w < 128 * 128
      BY <1>4 DEF Word
    <2>2. PICK hi, lo : hi = w \div 128 /\ lo = w % 128
      OBVIOUS
    <2>3. hi \in 0 .. 127 /\ lo \in 0 .. 127 /\ hi * 128 + lo = w
      BY <2>1, <2>2
    <2>4. HToN(w) = <<hi, lo>>
      BY <1>4, <2>2 DEF HToN
    <2> QED BY <1>4, <2>3, <2>4
  <1>5. CASE Byte = 256
    <2>0. w \in Nat /\ w < Word /\ Word = Byte * Byte
      BY WordRange DEF Word
    <2>1. w \in Nat /\ w < 256 * 256
      BY <1>5, <2>0
    <2>2. PICK hi, lo : hi = w \div 256 /\ lo = w % 256
      OBVIOUS
    <2>3. hi \in 0 .. 255 /\ lo \in 0 .. 255 /\ hi * 256 + lo = w
      BY <2>1, <2>2
    <2>4. HToN(w) = <<hi, lo>>
      BY <1>5, <2>2 DEF HToN
    <2> QED BY <1>5, <2>3, <2>4
  <1> QED BY <1>1, <1>2, <1>3, <1>4, <1>5, ByteAssumption

LEMMA PairOn ==
  ASSUME NEW S, NEW q, q \in Seq(S), NEW a \in S, NEW b \in S, NEW u, u = q \o <<a, b>>
  PROVE  /\ u \in Seq(S) /\ Len(u) = Len(q) + 2
         /\ \A k \in 1 .. Len(q) : u[k] = q[k]
         /\ u[Len(q) + 1] = a /\ u[Len(q) + 2] = b
  <1>1. <<a, b>> \in Seq(S) /\ Len(<<a, b>>) = 2 /\ <<a, b>>[1] = a /\ <<a, b>>[2] = b
    OBVIOUS
  <1>2. PICK n \in Nat : n = Len(q)
    OBVIOUS
  <1>3. /\ q \o <<a, b>> \in Seq(S) /\ Len(q \o <<a, b>>) = n + 2
        /\ \A k \in 1 .. n + 2 : (q \o <<a, b>>)[k] = IF k <= n THEN q[k] ELSE <<a, b>>[k - n]
    BY <1>1, <1>2, ConcatProperties
  <1>4. /\ n + 1 \in 1 .. n + 2 /\ n + 2 \in 1 .. n + 2 /\ n + 1 - n = 1 /\ n + 2 - n = 2
        /\ ~(n + 1 <= n) /\ ~(n + 2 <= n) /\ \A k \in 1 .. n : k \in 1 .. n + 2 /\ k <= n
    OBVIOUS
  <1> QED BY <1>1, <1>2, <1>3, <1>4

LEMMA Pairs ==
  ASSUME NEW S, NEW a \in S, NEW b \in S, NEW c \in S, NEW d \in S, NEW e \in S, NEW f \in S,
         NEW g \in S, NEW h \in S, NEW q, q = <<a, b>> \o <<c, d>> \o <<e, f>> \o <<g, h>>
  PROVE  q \in Seq(S) /\ Len(q) = 8 /\ q[5] = e /\ q[6] = f /\ q[7] = g /\ q[8] = h
  <1>1. PICK q1, q2, q3, q4 :
          q1 = <<a, b>> /\ q2 = q1 \o <<c, d>> /\ q3 = q2 \o <<e, f>> /\ q4 = q3 \o <<g, h>>
    OBVIOUS
  <1>2. q1 \in Seq(S)
    BY <1>1
  <1>3. q2 \in Seq(S) /\ Len(q2) = Len(q1) + 2
    BY <1>1, <1>2, PairOn
  <1>4. q2 \in Seq(S)
    BY <1>3
  <1>5. /\ q3 \in Seq(S) /\ Len(q3) = Len(q2) + 2
        /\ q3[Len(q2) + 1] = e /\ q3[Len(q2) + 2] = f
    BY <1>1, <1>4, PairOn
  <1>6. q3 \in Seq(S)
    BY <1>5
  <1>7. /\ q4 \in Seq(S) /\ Len(q4) = Len(q3) + 2 /\ \A k \in 1 .. Len(q3) : q4[k] = q3[k]
        /\ q4[Len(q3) + 1] = g /\ q4[Len(q3) + 2] = h
    BY <1>1, <1>6, PairOn
  <1>8. Len(q1) = 2
    BY <1>1
  <1>9. Len(q2) = 4 /\ Len(q3) = 6 /\ Len(q4) = 8
    BY <1>3, <1>5, <1>7, <1>8
  <1>10. q = q4
    BY <1>1
  <1> QED BY <1>5, <1>7, <1>9, <1>10

LEMMA AndOne ==
  ASSUME NEW S, NEW q, q \in Seq(S), NEW i \in S, NEW body \in Seq(S), NEW u, u = q \o <<i>> \o body
  PROVE  /\ u \in Seq(S) /\ Len(u) = Len(q) + 1 + Len(body) /\ u[Len(q) + 1] = i
         /\ \A k \in 1 .. Len(q) : u[k] = q[k]
  <1>1. PICK n \in Nat, m \in Nat : n = Len(body) /\ m = Len(q)
    OBVIOUS
  <1>2. <<i>> \in Seq(S) /\ Len(<<i>>) = 1 /\ <<i>>[1] = i
    OBVIOUS
  <1>3. PICK p : p = q \o <<i>>
    OBVIOUS
  <1>4. p \in Seq(S) /\ Len(p) = m + 1 /\ p[m + 1] = i /\ \A k \in 1 .. m : p[k] = q[k]
    BY <1>1, <1>3, AppendProperties
  <1>5. /\ u \in Seq(S) /\ Len(u) = m + 1 + n
        /\ \A k \in 1 .. m + 1 + n : u[k] = IF k <= m + 1 THEN p[k] ELSE body[k - (m + 1)]
    <2>1. u = p \o body
      BY <1>3
    <2>2. PICK l \in Nat : l = m + 1
      OBVIOUS
    <2>3. p \in Seq(S) /\ Len(p) = l
      BY <1>4, <2>2
    <2>4. /\ p \o body \in Seq(S) /\ Len(p \o body) = l + n
          /\ \A k \in 1 .. l + n : (p \o body)[k] = IF k <= l THEN p[k] ELSE body[k - l]
      BY <1>1, <2>3, ConcatProperties
    <2> QED BY <2>1, <2>2, <2>4
  <1>6. \A k \in 1 .. m + 1 : k \in 1 .. m + 1 + n /\ k <= m + 1
    OBVIOUS
  <1>7. \A k \in 1 .. m + 1 : u[k] = p[k]
    BY <1>5, <1>6
  <1> QED BY <1>1, <1>4, <1>5, <1>7
(* A packet before its sum is set. *)
Unsummed(number, window, size, flags, body) ==
  HToN(number) \o HToN(window) \o HToN(0) \o HToN(size) \o <<flags>> \o body

IsHead(x, size, flags, body) ==
  /\ x \in Seq(0 .. Byte - 1) /\ Len(x) = 9 + Len(body)
  /\ x[5] = 0 /\ x[6] = 0 /\ x[9] = flags /\ BodySize(x) = size

LEMMA HeadOf ==
  ASSUME NEW number \in 0 .. Word - 1, NEW window \in 0 .. Word - 1, NEW size \in 0 .. Word - 1,
         NEW flags \in 0 .. Byte - 1, NEW body \in Seq(0 .. Byte - 1),
         NEW x, x = Unsummed(number, window, size, flags, body)
  PROVE  IsHead(x, size, flags, body)
  <1>1. PICK S : S = 0 .. Byte - 1
    OBVIOUS
  <1>2. \A w \in 0 .. Word - 1 : \E a \in S, b \in S : HToN(w) = <<a, b>> /\ a * Byte + b = w
    BY <1>1, HToNRange
  <1>3. PICK a \in S, b \in S : HToN(number) = <<a, b>>
    BY <1>2, Zenon
  <1>4. PICK c \in S, d \in S : HToN(window) = <<c, d>>
    BY <1>2, Zenon
  <1>5. PICK g \in S, h \in S : HToN(size) = <<g, h>> /\ g * Byte + h = size
    BY <1>2, Zenon
  <1>6. HToN(0) = <<0, 0>> /\ 0 \in S
    BY <1>1, ByteAssumption DEF HToN
  <1>7. PICK q, u : q = <<a, b>> \o <<c, d>> \o <<0, 0>> \o <<g, h>> /\ u = q \o <<flags>> \o body
    OBVIOUS
  <1>8. q \in Seq(S) /\ Len(q) = 8 /\ q[5] = 0 /\ q[6] = 0 /\ q[7] = g /\ q[8] = h
    BY <1>3, <1>4, <1>5, <1>6, <1>7, Pairs
  <1>9. /\ u \in Seq(S) /\ Len(u) = 9 + Len(body)
        /\ u[5] = 0 /\ u[6] = 0 /\ u[7] = g /\ u[8] = h /\ u[9] = flags
    <2>1. q \in Seq(S) /\ flags \in S /\ body \in Seq(S)
      BY <1>1, <1>8
    <2>2. u = q \o <<flags>> \o body
      BY <1>7
    <2>3. /\ u \in Seq(S) /\ Len(u) = Len(q) + 1 + Len(body) /\ u[Len(q) + 1] = flags
          /\ \A k \in 1 .. Len(q) : u[k] = q[k]
      BY <2>1, <2>2, AndOne, SMTT(30)
    <2>4. PICK n \in Nat : n = Len(body)
      BY <2>1
    <2>5. Len(u) = 8 + 1 + n /\ u[8 + 1] = flags /\ \A k \in 1 .. 8 : u[k] = q[k]
      BY <1>8, <2>3, <2>4, Zenon
    <2>6. /\ 8 + 1 = 9 /\ 8 + 1 + n = 9 + n
          /\ 5 \in 1 .. 8 /\ 6 \in 1 .. 8 /\ 7 \in 1 .. 8 /\ 8 \in 1 .. 8
      OBVIOUS
    <2>7. u[5] = q[5] /\ u[6] = q[6] /\ u[7] = q[7] /\ u[8] = q[8]
      BY <2>5, <2>6, Zenon
    <2> QED BY <1>8, <2>3, <2>4, <2>5, <2>6, <2>7, Zenon
  <1>10. BodySize(u) = size
    BY <1>5, <1>9 DEF BodySize, NToH
  <1>11. u = Unsummed(number, window, size, flags, body)
    BY <1>3, <1>4, <1>5, <1>6, <1>7, Zenon DEF Unsummed
  <1> QED BY <1>1, <1>9, <1>10, <1>11, Zenon DEF IsHead

(* What the four constructors make. *)
Intact(d) ==
  /\ d \in Seq(0 .. Byte - 1) /\ Len(d) <= Word + 8 /\ Len(d) >= 9 /\ Size(d) = Len(d)
  /\ Folded(ByteSum(d, Len(d))) = Word - 1

LEMMA MadeIntact ==
  ASSUME NEW number \in 0 .. Word - 1, NEW window \in 0 .. Word - 1,
         NEW flags \in 0 .. Byte - 1, NEW body \in Seq(0 .. Byte - 1), Len(body) < Word
  PROVE  /\ Intact(Made(number, window, flags, body))
         /\ FlagsOf(Made(number, window, flags, body)) = flags
  <1> DEFINE u == Unsummed(number, window, Len(body), flags, body)
             sum == HToN(CalCheckSum(u))
             w == [u EXCEPT ![5] = sum[1]]
             d == [w EXCEPT ![6] = sum[2]]
             S == 0 .. Byte - 1
  <1>1. PICK n \in Nat : n = Len(body) /\ n <= Word - 1
    BY WordRange
  <1>2. /\ u \in Seq(S) /\ Len(u) = 9 + n /\ u[5] = 0 /\ u[6] = 0 /\ u[9] = flags
        /\ BodySize(u) = n
    <2>1. Len(body) \in 0 .. Word - 1
      BY <1>1
    <2>2. /\ u \in Seq(0 .. Byte - 1) /\ Len(u) = 9 + Len(body)
          /\ u[5] = 0 /\ u[6] = 0 /\ u[9] = flags /\ BodySize(u) = Len(body)
      <3>1. PICK size \in 0 .. Word - 1 : size = Len(body)
        BY <2>1
      <3>2. PICK x : x = Unsummed(number, window, size, flags, body)
        OBVIOUS
      <3>3. IsHead(x, size, flags, body)
        BY <3>1, <3>2, HeadOf
      <3> QED BY <3>1, <3>2, <3>3, Zenon DEF IsHead
    <2> HIDE DEF u
    <2> QED BY <1>1, <2>2
  <1>3. Made(number, window, flags, body) = d
    BY DEF Made, Unsummed
  <1> HIDE DEF u
  <1>4. PICK L \in Nat : L = Len(u) /\ L >= 9 /\ L <= Word + 8 /\ Size(u) = L
    BY <1>1, <1>2, WordRange DEF Size, HeaderSize
  <1>5. Bytes(u, L) /\ DOMAIN u = 1 .. L
    <2>1. DOMAIN u = 1 .. L /\ \A k \in 1 .. Len(u) : u[k] \in S
      BY <1>2, <1>4, LenProperties, ElementOfSeq
    <2> QED BY <1>4, <2>1 DEF Bytes
  <1>6. PICK s \in Nat : s = ByteSum(u, L) /\ s < Word * Word
    BY <1>4, <1>5, ByteSumRange
  <1>7. PICK c \in 0 .. Word - 1 : c = CalCheckSum(u) /\ c = Word - 1 - Folded(s)
    BY <1>4, <1>6, FoldedResidue, WordRange DEF CalCheckSum
  <1>8. sum[1] \in S /\ sum[2] \in S /\ sum[1] * Byte + sum[2] = c
    BY <1>7, HToNRange
  <1> HIDE DEF sum
  <1>9. /\ w \in Seq(S) /\ Len(w) = L /\ DOMAIN w = 1 .. L
        /\ w[5] = sum[1] /\ \A k \in 1 .. L : k # 5 => w[k] = u[k]
    BY <1>2, <1>4, <1>5, <1>8
  <1> HIDE DEF w
  <1>10. /\ d \in Seq(S) /\ Len(d) = L
         /\ d[6] = sum[2] /\ \A k \in 1 .. L : k # 6 => d[k] = w[k]
    BY <1>4, <1>8, <1>9
  <1> HIDE DEF d
  <1>11. Bytes(w, L) /\ Bytes(d, L)
    <2>1. \A k \in 1 .. L : u[k] \in S
      BY <1>5 DEF Bytes
    <2>2. \A k \in 1 .. L : w[k] \in S
      BY <1>8, <1>9, <2>1
    <2>3. \A k \in 1 .. L : d[k] \in S
      BY <1>8, <1>10, <2>2
    <2> QED BY <2>2, <2>3 DEF Bytes
  <1>12. ByteSum(w, L) = s + sum[1] * Byte
    <2>1. 5 \in 1 .. L /\ w[5] - u[5] = sum[1] /\ Weight(5) = Byte
      BY <1>2, <1>4, <1>8, <1>9 DEF Weight
    <2>2. ByteSum(w, L) = ByteSum(u, L) + (w[5] - u[5]) * Weight(5)
      BY <1>5, <1>9, <1>11, <2>1, ByteSumChange, SMTT(30)
    <2> QED BY <1>6, <2>1, <2>2
  <1>13. ByteSum(d, L) = ByteSum(w, L) + sum[2]
    <2>1. 6 \in 1 .. L /\ d[6] - w[6] = sum[2] /\ Weight(6) = 1 /\ sum[2] * 1 = sum[2]
      BY <1>2, <1>4, <1>8, <1>9, <1>10 DEF Weight
    <2>2. ByteSum(d, L) = ByteSum(w, L) + (d[6] - w[6]) * Weight(6)
      BY <1>9, <1>10, <1>11, <2>1, ByteSumChange
    <2> QED BY <2>1, <2>2
  <1>14. ByteSum(d, L) = s + c
    <2>1. PICK hi \in Nat, lo \in Nat : hi = sum[1] * Byte /\ lo = sum[2]
      BY <1>8, WordRange
    <2>2. ByteSum(w, L) = s + hi /\ ByteSum(d, L) = ByteSum(w, L) + lo /\ hi + lo = c
      BY <1>8, <1>12, <1>13, <2>1
    <2> QED BY <2>2
  <1>15. Folded(ByteSum(d, L)) = Word - 1
    <2>1. s + c < Word * Word
      BY <1>4, <1>11, <1>14, ByteSumRange
    <2>2. c \in Nat /\ c = Word - 1 - Folded(s)
      BY <1>7
    <2> QED BY <1>6, <1>14, <2>1, <2>2, IntactFold
  <1>16. Size(d) = L /\ FlagsOf(d) = flags
    <2>1. d[7] = u[7] /\ d[8] = u[8] /\ d[9] = u[9]
      <3>1. 7 \in 1 .. L /\ 8 \in 1 .. L /\ 9 \in 1 .. L
        BY <1>4
      <3> QED BY <1>9, <1>10, <3>1
    <2>2. Size(d) = Size(u)
      BY <2>1 DEF Size, BodySize, NToH
    <2> QED BY <1>2, <1>4, <2>1, <2>2 DEF FlagsOf
  <1> QED BY <1>3, <1>4, <1>10, <1>15, <1>16 DEF Intact

-----------------------------------------------------------------------------
LEMMA IntactSum ==
  ASSUME NEW d, Intact(d)
  PROVE  CalCheckSum(d) = 0
  <1>1. Folded(ByteSum(d, Size(d))) = Word - 1
    BY DEF Intact
  <1>2. PICK v \in Nat : v = Word - 1
    BY WordRange
  <1> QED BY <1>1, <1>2 DEF CalCheckSum

LEMMA ChangedSum ==
  ASSUME NEW L \in Nat, L <= Word + 8, NEW d, NEW e, Bytes(d, L), Bytes(e, L), NEW i \in 1 .. L,
         \A k \in 1 .. L : k # i => e[k] = d[k], e[i] # d[i],
         Size(e) = L, Folded(ByteSum(d, L)) = Word - 1
  PROVE  CalCheckSum(e) # 0
  <1>1. PICK a \in 0 .. Byte - 1, v \in 0 .. Byte - 1 : a = d[i] /\ v = e[i] /\ v # a
    BY DEF Bytes
  <1>2. PICK x \in Int : x = (v - a) * Weight(i) /\ x # 0 /\ -(Word - 1) < x /\ x < Word - 1
    <2>1. PICK c \in Int : c = v - a /\ c # 0 /\ -Byte < c /\ c < Byte
      BY <1>1, WordRange
    <2>2. \A W \in {1, Byte} : c * W \in Int /\ c * W # 0 /\ -(Word - 1) < c * W /\ c * W < Word - 1
      <3>2. CASE Byte = 16
        BY <2>1, <3>2 DEF Word
      <3>3. CASE Byte = 32
        BY <2>1, <3>3 DEF Word
      <3>4. CASE Byte = 64
        BY <2>1, <3>4 DEF Word
      <3>5. CASE Byte = 128
        BY <2>1, <3>5 DEF Word
      <3>6. CASE Byte = 256
        BY <2>1, <3>6 DEF Word
      <3> QED BY <3>2, <3>3, <3>4, <3>5, <3>6, ByteAssumption
    <2>3. Weight(i) \in {1, Byte}
      BY DEF Weight
    <2>4. PICK W \in {1, Byte} : W = Weight(i)
      BY <2>3
    <2> QED BY <2>1, <2>2, <2>4
  <1>3. PICK s \in Nat, t \in Nat :
          s = ByteSum(d, L) /\ t = ByteSum(e, L) /\ s < Word * Word /\ t < Word * Word
    BY ByteSumRange
  <1>4. t = s + x
    <2>1. ByteSum(e, L) = ByteSum(d, L) + (e[i] - d[i]) * Weight(i)
      BY ByteSumChange
    <2> QED BY <1>1, <1>2, <1>3, <2>1
  <1>5. Folded(t) # Word - 1
    BY <1>2, <1>3, <1>4, DamagedFold
  <1>6. PICK f \in Nat, w \in Nat : f = Folded(t) /\ w = Word
    BY <1>3, FoldedResidue, WordRange
  <1>7. CalCheckSum(e) = w - 1 - f
    BY <1>3, <1>6 DEF CalCheckSum
  <1> QED BY <1>5, <1>6, <1>7

(* One damaged byte is noticed, where the size it gives is still right. *)
LEMMA DamagedSum ==
  ASSUME NEW d, Intact(d), NEW i \in DOMAIN d, NEW v \in 0 .. Byte - 1,
         NEW e, e = [d EXCEPT ![i] = v], e # d, Size(e) = Size(d)
  PROVE  CalCheckSum(e) # 0
  <1>1. PICK L \in Nat : L = Len(d) /\ L >= 9 /\ L <= Word + 8 /\ Size(d) = L
    BY DEF Intact
  <1>2. DOMAIN d = 1 .. L /\ Bytes(d, L)
    <2>1. d \in Seq(0 .. Byte - 1)
      BY DEF Intact
    <2>2. DOMAIN d = 1 .. L /\ \A k \in 1 .. Len(d) : d[k] \in 0 .. Byte - 1
      BY <1>1, <2>1, LenProperties, ElementOfSeq
    <2> QED BY <1>1, <2>2 DEF Bytes
  <1>3. e[i] = v /\ \A k \in 1 .. L : k # i => e[k] = d[k]
    BY <1>2
  <1>4. Bytes(e, L)
    <2>1. \A k \in 1 .. L : e[k] \in 0 .. Byte - 1
      BY <1>2, <1>3 DEF Bytes
    <2> QED BY <2>1 DEF Bytes
  <1>5. PICK a \in 0 .. Byte - 1 : a = d[i]
    BY <1>2 DEF Bytes
  <1>6. v # a
    <2> SUFFICES ASSUME v = a PROVE e = d
      OBVIOUS
    <2>1. d = [k \in 1 .. L |-> d[k]]
      BY <1>1, <1>2 DEF Intact
    <2> QED BY <1>2, <1>5, <2>1
  <1>7. e[i] # d[i] /\ i \in 1 .. L
    BY <1>2, <1>3, <1>5, <1>6
  <1>8. Folded(ByteSum(d, L)) = Word - 1 /\ Size(e) = L
    BY <1>1 DEF Intact
  <1>9. \A y : /\ Bytes(y, L) /\ \A k \in 1 .. L : k # i => y[k] = d[k]
               /\ y[i] # d[i] /\ Size(y) = L
               => CalCheckSum(y) # 0
    <2> SUFFICES ASSUME NEW y, Bytes(y, L), \A k \in 1 .. L : k # i => y[k] = d[k],
                        y[i] # d[i], Size(y) = L
                 PROVE  CalCheckSum(y) # 0
      OBVIOUS
    <2> QED BY <1>1, <1>2, <1>7, <1>8, ChangedSum
  <1> QED BY <1>3, <1>4, <1>7, <1>8, <1>9

(* What the programs send is intact. *)
LEMMA FlagsAreBytes ==
  F_SEQ \in 0 .. Byte - 1 /\ F_ACK \in 0 .. Byte - 1 /\ F_SYN \in 0 .. Byte - 1 /\ F_FIN \in 0 .. Byte - 1
  BY WordRange DEF F_SEQ, F_ACK, F_SYN, F_FIN

LEMMA EmptyBody == <<>> \in Seq(0 .. Byte - 1) /\ Len(<<>>) < Word /\ 0 \in 0 .. Word - 1
  BY WordRange

LEMMA PacketsIntact == \A p \in Packets : Intact(p)
  <1> SUFFICES ASSUME NEW p \in Packets PROVE Intact(p)
    OBVIOUS
  <1>1. CASE \E n \in Numbers, f \in {F_SYN, F_FIN} : p = Made(n, 0, f, <<>>)
    <2>1. PICK n \in Numbers, f \in {F_SYN, F_FIN} : p = Made(n, 0, f, <<>>)
      BY <1>1
    <2>2. n \in 0 .. Word - 1 /\ f \in 0 .. Byte - 1
      BY <2>1, PacketsAssumption, FlagsAreBytes
    <2> QED BY <2>1, <2>2, EmptyBody, MadeIntact
  <1>2. CASE \E n \in Numbers, b \in Bodies : p = Made(n, 0, F_SEQ, b)
    <2>1. PICK n \in Numbers, b \in Bodies : p = Made(n, 0, F_SEQ, b)
      BY <1>2
    <2>2. n \in 0 .. Word - 1 /\ b \in Seq(0 .. Byte - 1) /\ Len(b) < Word
      BY <2>1, PacketsAssumption
    <2> QED BY <2>1, <2>2, EmptyBody, FlagsAreBytes, MadeIntact
  <1> QED BY <1>1, <1>2 DEF Packets

LEMMA AcksIntact == \A a \in Acks : Intact(a) /\ FlagsOf(a) = F_ACK
  <1> SUFFICES ASSUME NEW a \in Acks PROVE Intact(a) /\ FlagsOf(a) = F_ACK
    OBVIOUS
  <1>1. PICK n \in Numbers, w \in Windows : a = Made(n, w, F_ACK, <<>>)
    BY DEF Acks
  <1>2. n \in 0 .. Word - 1 /\ w \in 0 .. Word - 1
    BY <1>1, PacketsAssumption
  <1>3. PICK f \in 0 .. Byte - 1, b \in Seq(0 .. Byte - 1) : f = F_ACK /\ b = <<>> /\ Len(b) < Word
    BY EmptyBody, FlagsAreBytes
  <1>4. a = Made(n, w, f, b)
    BY <1>1, <1>3, Zenon
  <1>5. Intact(a) /\ FlagsOf(a) = f
    BY <1>2, <1>3, <1>4, MadeIntact, ZenonT(30)
  <1> QED BY <1>3, <1>5, Zenon

(* A datagram that was damaged keeps its length and all its other bytes. *)
LEMMA Arrived ==
  ASSUME NEW d, Intact(d), NEW e \in Arriving(d), e # d
  PROVE  /\ Len(e) = Len(d)
         /\ Size(e) = Size(d) => CalCheckSum(e) # 0
         /\ Size(e) # Size(d) => Number(e) = Number(d) /\ Window(e) = Window(d) /\ FlagsOf(e) = FlagsOf(d)
  <1>1. PICK i \in DOMAIN d, v \in 0 .. Byte - 1 : e = [d EXCEPT ![i] = v]
    BY DEF Arriving
  <1>2. PICK L \in Nat : L = Len(d) /\ L >= 9 /\ d \in Seq(0 .. Byte - 1)
    BY DEF Intact
  <1>3. DOMAIN d = 1 .. L
    BY <1>2, LenProperties
  <1>4. Len(e) = Len(d)
    <2>1. e \in Seq(0 .. Byte - 1) /\ Len(e) = Len(d)
      BY <1>1, <1>2, <1>3
    <2> QED BY <2>1
  <1>5. Size(e) = Size(d) => CalCheckSum(e) # 0
    BY <1>1, DamagedSum
  <1>6. \A k \in 1 .. 9 : k # i => e[k] = d[k]
    BY <1>1, <1>2, <1>3
  <1>7. i \notin {7, 8} => Size(e) = Size(d)
    BY <1>6 DEF Size, BodySize, NToH
  <1>8. i \in {7, 8} => Number(e) = Number(d) /\ Window(e) = Window(d) /\ FlagsOf(e) = FlagsOf(d)
    BY <1>6 DEF Number, Window, FlagsOf, NToH
  <1> QED BY <1>4, <1>5, <1>7, <1>8

(* What recvPkg makes of a packet. *)
LEMMA RecvPkgSees ==
  ASSUME NEW from \in Sources, NEW p \in Packets, NEW d \in Arriving(p), RecvPkg(from, p, d)
  PROVE  DamageIsCaught' /\ IntactPasses'
  <1>1. seen'.sent = p /\ seen'.got = d
    BY DEF RecvPkg
  <1>2. /\ seen'.verdict = "accepted" => Len(d) = Size(d) /\ Passes(d)
        /\ seen'.verdict = "dropped" => ~Passes(d)
        /\ seen'.verdict = "exit" => Len(d) # Size(d)
    BY DEF RecvPkg
  <1>3. Intact(p) /\ Len(p) = Size(p)
    BY PacketsIntact DEF Intact
  <1>4. CASE d = p
    <2>1. Passes(d)
      BY <1>3, <1>4, IntactSum DEF Passes
    <2> QED BY <1>1, <1>2, <1>3, <1>4, <2>1 DEF DamageIsCaught, IntactPasses, SameContent
  <1>5. CASE d # p
    <2>1. Len(d) = Size(d) /\ Passes(d) => CheckSum(d) = 0
      BY <1>3, <1>5, Arrived DEF Passes
    <2> QED BY <1>1, <1>2, <1>5, <2>1 DEF DamageIsCaught, IntactPasses
  <1> QED BY <1>4, <1>5

(* What recvACK makes of an ACK: a damaged size leaves what is read.       *)
LEMMA RecvAckSees ==
  ASSUME NEW a \in Acks, NEW d \in Arriving(a), RecvAck(a, d)
  PROVE  DamageIsCaught' /\ IntactPasses'
  <1>1. seen'.sent = a /\ seen'.got = d
    BY DEF RecvAck
  <1>2. /\ seen'.verdict = "accepted" => AckPasses(d)
        /\ seen'.verdict \in {"dropped", "exit"} => AckFails(d)
    BY DEF RecvAck
  <1>3. PICK L \in Nat : Intact(a) /\ Len(a) = L /\ Size(a) = L /\ FlagsOf(a) = F_ACK
    BY AcksIntact DEF Intact
  <1>4. CASE d = a
    <2>1. Passes(d) /\ ~(Size(d) > Len(d))
      BY <1>3, <1>4, IntactSum DEF Passes
    <2>2. ~AckFails(d)
      BY <1>3, <1>4, <2>1 DEF AckFails
    <2> QED BY <1>1, <1>2, <1>4, <2>2 DEF DamageIsCaught, IntactPasses, SameContent
  <1>5. CASE d # a /\ Size(d) = Size(a)
    <2>1. ~(Size(d) > Len(d)) /\ CalCheckSum(d) # 0
      BY <1>3, <1>5, Arrived
    <2>2. AckPasses(d) => CheckSum(d) = 0
      BY <2>1 DEF AckPasses, Passes
    <2> QED BY <1>1, <1>2, <1>5, <2>2 DEF DamageIsCaught, IntactPasses
  <1>6. CASE d # a /\ Size(d) # Size(a)
    <2>1. SameContent(d, a)
      BY <1>3, <1>6, Arrived DEF SameContent
    <2> QED BY <1>1, <1>6, <2>1 DEF DamageIsCaught, IntactPasses
  <1> QED BY <1>4, <1>5, <1>6

LEMMA SeenKeeps ==
  DamageIsCaught /\ IntactPasses /\ [Next]_vars => DamageIsCaught' /\ IntactPasses'
  <1> SUFFICES ASSUME DamageIsCaught, IntactPasses, [Next]_vars
               PROVE  DamageIsCaught' /\ IntactPasses'
    OBVIOUS
  <1>1. CASE \E from \in Sources, p \in Packets : \E d \in Arriving(p) : RecvPkg(from, p, d)
    BY <1>1, RecvPkgSees
  <1>2. CASE \E a \in Acks : \E d \in Arriving(a) : RecvAck(a, d)
    BY <1>2, RecvAckSees
  <1>3. CASE UNCHANGED seen
    BY <1>3 DEF DamageIsCaught, IntactPasses
  <1>4. CASE seen' = Nothing
    BY <1>4 DEF Nothing, DamageIsCaught, IntactPasses
  <1> QED BY <1>1, <1>2, <1>3, <1>4 DEF Next, SocketFails, Again, vars

LEMMA SeenFromInit == Init => DamageIsCaught /\ IntactPasses
  BY DEF Init, Nothing, DamageIsCaught, IntactPasses

(* A damaged byte is never taken for the truth, for bytes of every size    *)
(* and packets of every length.                                            *)
THEOREM DamageAlwaysCaught == Spec => []DamageIsCaught
<1> QED BY SeenFromInit, SeenKeeps, PTL DEF Spec

(* An intact packet is never dropped for its checksum. *)
THEOREM IntactAlwaysPasses == Spec => []IntactPasses
<1> QED BY SeenFromInit, SeenKeeps, PTL DEF Spec

=============================================================================
