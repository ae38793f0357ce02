--------------------------------- MODULE RPkg ---------------------------------
(***************************************************************************)
(* The packet format of Common/RPkg.h, byte by byte, over small bytes.     *)
(*                                                                         *)
(* A datagram is a sequence of bytes: a packed header of an odd number of  *)
(* bytes, as in the program, and the body.  A packet uses one of ack and   *)
(* seq and leaves the other 0, so they share the word Number here.         *)
(***************************************************************************)
EXTENDS Integers, SequencesExt

CONSTANT Byte    (* values of a byte: 256 in the program *)

ASSUME ByteAssumption == Byte \in {16, 32, 64, 128, 256}    \* room for the flags

Word == Byte * Byte    \* 2^16

F_SEQ == 1
F_ACK == 2
F_SYN == 4
F_FIN == 8

HeaderSize == 9

(* A word in network order, and back. *)
HToN(w) == <<w \div Byte, w % Byte>>
NToH(bytes, at) == bytes[at] * Byte + bytes[at + 1]

Number(d) == NToH(d, 1)
Window(d) == NToH(d, 3)
CheckSum(d) == NToH(d, 5)
BodySize(d) == NToH(d, 7)
FlagsOf(d) == d[9]

Size(d) == HeaderSize + BodySize(d)
Body(d) == SubSeq(d, HeaderSize + 1, Size(d))

(* The sum of the words of a datagram, and of its first size bytes: an odd *)
(* byte at the end is the high half of a word.                             *)
WordSum(d, words) ==
  LET sum[n \in Nat] == IF n = 0 THEN 0 ELSE sum[n - 1] + NToH(d, 2 * n - 1)
  IN  sum[words]

\* Mutant of ByteSum: the odd byte at the end is left out.
ByteSumEven(d, size) == WordSum(d, size \div 2)

ByteSum(d, size) ==
  WordSum(d, size \div 2) + IF size % 2 = 1 THEN d[size] * Byte ELSE 0

\* Mutant of Folded: the carry of the first fold is lost.
FoldedOnce(sum) == ((sum \div Word) + (sum % Word)) % Word

(* The carries are folded in, twice. *)
Folded(sum) ==
  LET once == (sum \div Word) + (sum % Word)
  IN  ((once \div Word) + once) % Word

(* calCheckSum(): the complement of the folded sum. *)
CalCheckSum(d) == Word - 1 - Folded(ByteSum(d, Size(d)))

(* makeSYN, makeFIN, makeACK, makeSEQ and setCheckSum(calCheckSum()). *)
Made(number, window, flags, body) ==
  LET unsummed == HToN(number) \o HToN(window) \o HToN(0) \o HToN(Len(body))
                    \o <<flags>> \o body
      sum == HToN(CalCheckSum(unsummed))
  IN  [unsummed EXCEPT ![5] = sum[1], ![6] = sum[2]]

=============================================================================
