----------------------------- MODULE RingBuffer -----------------------------
(***************************************************************************)
(* The arithmetic and the copies of Common/RingBuffer.h.                   *)
(*                                                                         *)
(* A buffer is a ring of N slots with two free-running uint32 cursors, in  *)
(* (next slot to fill) and out (next slot to drain).  Positions are never  *)
(* reduced modulo N; only the slot they address is.  The operators below   *)
(* are the buffer's member functions without the cursor update, so that    *)
(* the two components that own a buffer (RSend, RRecv) can use them on     *)
(* their own variables.                                                    *)
(***************************************************************************)
EXTENDS Integers, Sequences

CONSTANTS
  N,     (* nSize, the number of slots: 32K in the program                 *)
  Word   (* 2^32: cursors and sizes are uint32_t                           *)

ASSUME RingAssumption ==
  /\ N \in Nat \ {0}
  /\ \E k \in 0 .. 31 : N = 2^k     \* AlignedRoundup: begin & (N - 1) is begin % N
  /\ Word \in Nat
  /\ N < Word

Slots == 0 .. N - 1

\* What an uninitialised slot holds: no byte of any stream.
Junk == -1

AtMost(a, b) == IF a <= b THEN a ELSE b

(* uint32 subtraction: it wraps below zero. *)
Minus(a, b) == (a - b) % Word

\* Mutant of FreeSize: one slot too many.
FreeSizeOffByOne(in, out) == Minus(N + out, in) + 1

(* freeSize(): nSize - in + out. *)
FreeSize(in, out) == Minus(N + out, in)

(* How much set(begin, data, wSize) copies; push is set at begin = in. *)
SetSize(begin, out, wSize) == AtMost(wSize, FreeSize(begin, out))

(* How much get(begin, buf, rSize) copies; pop is get at begin = out. *)
GetSize(in, begin, rSize) == AtMost(rSize, Minus(in, begin))

(* The two memcpy of set(): data goes to the slots from begin on, wrapping *)
(* at the end of the ring.                                                 *)
Set(ring, begin, data) ==
  [i \in Slots |-> LET k == (i - begin) % N
                   IN  IF k < Len(data) THEN data[k + 1] ELSE ring[i]]

(* The two memcpy of get(): size bytes from the slots from begin on. *)
Get(ring, begin, size) == [k \in 1 .. size |-> ring[(begin + k - 1) % N]]

=============================================================================
