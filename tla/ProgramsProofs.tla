--------------------------- MODULE ProgramsProofs ---------------------------
(***************************************************************************)
(* The copy that the recipient writes is the sender's file, for all files, *)
(* names and sizes, however the stream is cut into chunks, packets and the *)
(* pieces that recv() returns; and the options that the two programs run   *)
(* with are the ones that their arguments give, for all command lines.     *)
(***************************************************************************)
EXTENDS Programs, WellFoundedInduction, SequenceTheorems, TLAPS

(* The stream of a transfer that is not given up: the name, a NUL, the     *)
(* file.                                                                   *)
Name == Chars[FileName]
Total == (Name \o <<NUL>>) \o Files[FileName]

(* What the sender has written is the beginning of it, and the rest of the *)
(* file is the rest.                                                       *)
SentInv ==
  /\ written = <<>> => sMain \notin {"read", "close", "done"}
  /\ written # <<>> =>
       /\ sMain \in {"read", "close", "done", "failed"}
       /\ FileName \in DOMAIN Files
       /\ Len(written) \in Len(Name) + 1 .. Len(Total)
       /\ written = SubSeq(Total, 1, Len(written))
       /\ unread = SubSeq(Total, Len(written) + 1, Len(Total))
  /\ sMain \in {"connect", "name"} =>
       FileName \in DOMAIN Files /\ unread = Files[FileName]
  /\ sMain \in {"close", "done"} \/ fin => written # <<>> /\ Len(written) = Len(Total)
  /\ fin => arrived = Len(written) /\ sMain \in {"close", "done", "failed"}
  /\ closed => fin

(* What the recipient has taken begins with the whole name and its NUL;    *)
(* all behind them is in the file.                                         *)
TakenInv ==
  /\ taken \in Nat /\ arrived \in Nat /\ taken <= arrived /\ arrived <= Len(written)
  /\ arrived > 0 => arrived > Len(Name)
  /\ rMain \in {"args", "run", "usage", "error", "first"} => taken = 0
  /\ rMain \in {"more", "done"} =>
       /\ taken > 0 /\ taken > Len(Name)
       /\ outName = Name /\ outFile = SubSeq(Total, Len(Name) + 2, taken)
  /\ rMain = "done" => closed

CopyInv == SentInv /\ TakenInv

-----------------------------------------------------------------------------
(* The first NUL of a sequence, which is what strlen() finds. *)
LEMMA FirstNul ==
  ASSUME NEW q, Len(q) \in Nat, NEW k \in 1 .. Len(q), q[k] = NUL,
         \A i \in 1 .. k - 1 : q[i] # NUL
  PROVE  SelectInSeq(q, LAMBDA c : c = NUL) = k
  <1> DEFINE I == {i \in 1 .. Len(q) : q[i] = NUL}
  <1>1. k \in I /\ \A y \in I : k <= y /\ y \in Int
    OBVIOUS
  <1>2. \A x \in I : (\A y \in I : x <= y) => x = k
    BY <1>1
  <1> HIDE DEF I
  <1>3. Min(I) = k
    BY <1>1, <1>2 DEF Min
  <1>4. SelectInSeq(q, LAMBDA c : c = NUL) = IF I # {} THEN Min(I) ELSE 0
    BY DEF SelectInSeq, I
  <1> QED BY <1>1, <1>3, <1>4

(* A part of a part. *)
LEMMA Inner ==
  ASSUME NEW S, NEW t \in Seq(S), NEW i \in Nat \ {0}, NEW j \in Nat, j <= Len(t), i <= j + 1,
         NEW m \in Nat \ {0}, NEW n \in Nat, n <= j - i + 1, m <= n + 1
  PROVE  SubSeq(SubSeq(t, i, j), m, n) = SubSeq(t, i + m - 1, i + n - 1)
  <1> DEFINE u == SubSeq(t, i, j)
             v == SubSeq(u, m, n)
             w == SubSeq(t, i + m - 1, i + n - 1)
  <1>1. \A k \in i .. j : t[k] \in S
    BY LenProperties
  <1>2. /\ u \in Seq(S) /\ Len(u) = j - i + 1
        /\ \A k \in 1 .. j - i + 1 : u[k] = t[i + k - 1]
    BY <1>1, SubSeqProperties
  <1> HIDE DEF u
  <1>3. /\ v \in Seq(S) /\ Len(v) = n - m + 1
        /\ \A k \in 1 .. n - m + 1 : v[k] = u[m + k - 1]
    <2>1. \A k \in m .. n : u[k] \in S
      BY <1>2, LenProperties
    <2> QED BY <2>1, SubSeqProperties
  <1>4. /\ w \in Seq(S) /\ Len(w) = n - m + 1
        /\ \A k \in 1 .. n - m + 1 : w[k] = t[i + m - 1 + k - 1]
    <2> DEFINE from == i + m - 1
               to   == i + n - 1
    <2>1. \A k \in from .. to : t[k] \in S
      BY <1>1
    <2>2. from \in Int /\ to \in Int /\ to - from + 1 = n - m + 1 /\ (from <= to <=> m <= n)
      OBVIOUS
    <2> HIDE DEF from, to
    <2>3. /\ SubSeq(t, from, to) \in Seq(S)
          /\ Len(SubSeq(t, from, to)) = IF from <= to THEN to - from + 1 ELSE 0
          /\ \A k \in 1 .. to - from + 1 : SubSeq(t, from, to)[k] = t[from + k - 1]
      BY <2>1, <2>2, SubSeqProperties
    <2> QED BY <2>2, <2>3 DEF from, to
  <1> HIDE DEF v, w
  <1>5. \A k \in 1 .. Len(v) : v[k] = w[k]
    <2> SUFFICES ASSUME NEW k \in 1 .. n - m + 1 PROVE v[k] = w[k]
      BY <1>3
    <2>1. m + k - 1 \in 1 .. j - i + 1 /\ i + (m + k - 1) - 1 = i + m - 1 + k - 1
      OBVIOUS
    <2> QED BY <1>2, <1>3, <1>4, <2>1
  <1>6. v = w
    BY <1>3, <1>4, <1>5, SeqEqual
  <1> QED BY <1>6 DEF u, v, w

-----------------------------------------------------------------------------
(* The parts of the stream. *)
Symbols == (Range(Name) \cup {NUL}) \cup Range(Files[FileName])

LEMMA TotalParts ==
  ASSUME FileName \in DOMAIN Files
  PROVE  /\ Name \in Seq(Symbols) /\ Len(Name) \in Nat /\ Len(Name) > 0 /\ Len(Name) < MSS
         /\ Files[FileName] \in Seq(Symbols) /\ Len(Files[FileName]) \in Nat
         /\ Total \in Seq(Symbols) /\ Len(Total) = Len(Name) + 1 + Len(Files[FileName])
         /\ SubSeq(Total, 1, Len(Name)) = Name
         /\ SubSeq(Total, 1, Len(Name) + 1) = Name \o <<NUL>>
         /\ SubSeq(Total, Len(Name) + 2, Len(Total)) = Files[FileName]
         /\ \A i \in 1 .. Len(Name) : Total[i] # NUL
         /\ Total[Len(Name) + 1] = NUL
  <1> DEFINE S    == Symbols
             data == Files[FileName]
             head == Name \o <<NUL>>
  <1>1. /\ Name \in Seq(Range(Name)) /\ Name # <<>> /\ NUL \notin Range(Name)
        /\ Len(Name) < MSS /\ data \in Seq(Range(data))
    BY FilesAssumption DEF Name
  <1>2. Name \in Seq(S) /\ data \in Seq(S) /\ <<NUL>> \in Seq(S) /\ Len(<<NUL>>) = 1
    <2>1. Range(Name) \subseteq S /\ Range(data) \subseteq S /\ NUL \in S
      BY DEF Symbols
    <2>2. Name \in Seq(S)
      BY <1>1, <2>1, SeqMonotonic
    <2>3. data \in Seq(S)
      BY <1>1, <2>1, SeqMonotonic
    <2> QED BY <2>1, <2>2, <2>3
  <1> HIDE DEF S, data
  <1>3. PICK n \in Nat, d \in Nat : n = Len(Name) /\ d = Len(data)
    BY <1>2
  <1>4. n > 0 /\ \A i \in 1 .. n : Name[i] # NUL
    <2>1. n > 0
      BY <1>1, <1>2, <1>3, EmptySeq
    <2>2. \A i \in 1 .. n : Name[i] \in Range(Name)
      BY <1>1, <1>3, ElementOfSeq
    <2> QED BY <1>1, <2>1, <2>2
  <1>5. /\ head \in Seq(S) /\ Len(head) = n + 1
        /\ \A i \in 1 .. n + 1 : head[i] = IF i <= n THEN Name[i] ELSE <<NUL>>[i - n]
    BY <1>2, <1>3, ConcatProperties
  <1>6. (\A i \in 1 .. n : head[i] = Name[i]) /\ head[n + 1] = NUL
    <2>1. \A i \in 1 .. n : i <= n /\ i \in 1 .. n + 1
      BY <1>3
    <2>2. head[n + 1] = <<NUL>>[1]
      <3>1. n + 1 \in 1 .. n + 1 /\ ~(n + 1 <= n) /\ (n + 1) - n = 1
        BY <1>3
      <3> QED BY <1>5, <3>1
    <2> QED BY <1>5, <2>1, <2>2
  <1> HIDE DEF head
  <1>7. /\ Total \in Seq(S) /\ Len(Total) = n + 1 + d
        /\ \A i \in 1 .. n + 1 + d : Total[i] = IF i <= n + 1 THEN head[i] ELSE data[i - (n + 1)]
    <2>1. Total = head \o data
      BY DEF Total, head, data
    <2>2. PICK h \in Nat : h = n + 1 /\ Len(head) = h /\ Len(data) = d
      BY <1>3, <1>5
    <2>3. /\ head \o data \in Seq(S) /\ Len(head \o data) = Len(head) + Len(data)
          /\ \A i \in 1 .. Len(head) + Len(data) :
               (head \o data)[i] = IF i <= Len(head) THEN head[i] ELSE data[i - Len(head)]
      <3>1. head \in Seq(S) /\ data \in Seq(S)
        BY <1>2, <1>5
      <3> QED BY <3>1, ConcatProperties
    <2>4. /\ Total \in Seq(S) /\ Len(Total) = h + d
          /\ \A i \in 1 .. h + d : Total[i] = IF i <= h THEN head[i] ELSE data[i - h]
      BY <2>1, <2>2, <2>3
    <2> QED BY <2>2, <2>4
  <1>8. \A i \in 1 .. n + 1 : Total[i] = head[i]
    BY <1>3, <1>7
  <1>9. (\A i \in 1 .. n : Total[i] = Name[i]) /\ Total[n + 1] = NUL
    BY <1>3, <1>6, <1>8
  <1>10. SubSeq(Total, 1, n) = Name /\ SubSeq(Total, 1, n + 1) = head
    <2>1. /\ SubSeq(Total, 1, n) \in Seq(S) /\ Len(SubSeq(Total, 1, n)) = n
          /\ \A i \in 1 .. n : SubSeq(Total, 1, n)[i] = Total[i]
      BY <1>3, <1>7
    <2>2. /\ SubSeq(Total, 1, n + 1) \in Seq(S) /\ Len(SubSeq(Total, 1, n + 1)) = n + 1
          /\ \A i \in 1 .. n + 1 : SubSeq(Total, 1, n + 1)[i] = Total[i]
      BY <1>3, <1>7
    <2>3. SubSeq(Total, 1, n) = Name
      BY <1>2, <1>3, <1>9, <2>1, SeqEqual
    <2>4. SubSeq(Total, 1, n + 1) = head
      BY <1>5, <1>8, <2>2, SeqEqual
    <2> QED BY <2>3, <2>4
  <1>11. SubSeq(Total, n + 2, n + 1 + d) = data
    <2> DEFINE rest == SubSeq(Total, n + 2, n + 1 + d)
    <2>1. \A i \in n + 2 .. n + 1 + d : Total[i] \in S
      BY <1>3, <1>7, LenProperties
    <2>2. /\ rest \in Seq(S) /\ Len(rest) = d
          /\ \A i \in 1 .. d : rest[i] = Total[n + 2 + i - 1]
      <3> DEFINE from == n + 2
                 to   == n + 1 + d
      <3>1. from \in Int /\ to \in Int /\ to - from + 1 = d /\ (from <= to <=> d > 0)
        BY <1>3
      <3>2. \A i \in from .. to : Total[i] \in S
        BY <2>1
      <3> HIDE DEF from, to
      <3>3. /\ SubSeq(Total, from, to) \in Seq(S)
            /\ Len(SubSeq(Total, from, to)) = IF from <= to THEN to - from + 1 ELSE 0
            /\ \A i \in 1 .. to - from + 1 : SubSeq(Total, from, to)[i] = Total[from + i - 1]
        BY <3>1, <3>2, SubSeqProperties
      <3>4. (IF from <= to THEN to - from + 1 ELSE 0) = d
        BY <1>3, <3>1
      <3> QED BY <3>1, <3>3, <3>4 DEF from, to
    <2> HIDE DEF rest
    <2>3. ASSUME NEW i \in 1 .. d PROVE rest[i] = data[i]
      <3>1. n + 2 + i - 1 \in 1 .. n + 1 + d /\ ~(n + 2 + i - 1 <= n + 1)
            /\ (n + 2 + i - 1) - (n + 1) = i
        BY <1>3
      <3> QED BY <1>7, <2>2, <3>1
    <2>4. rest = data
      BY <1>2, <1>3, <2>2, <2>3, SeqEqual
    <2> QED BY <2>4 DEF rest
  <1> QED BY <1>1, <1>2, <1>3, <1>4, <1>7, <1>9, <1>10, <1>11 DEF S, data, head

-----------------------------------------------------------------------------
(* Steps.                                                                  *)
LEMMA CopyInit == Init => CopyInv
  BY DEF Init, CopyInv, SentInv, TakenInv

LEMMA Underway ==
  ASSUME CopyInv, written # <<>>
  PROVE  \E n \in Nat \ {0}, k \in Nat, l \in Nat :
           /\ n = Len(Name) /\ k = Len(written) /\ l = Len(Total)
           /\ n < MSS /\ n + 1 <= k /\ k <= l
           /\ Total \in Seq(Symbols) /\ FileName \in DOMAIN Files
           /\ SubSeq(Total, 1, n) = Name
           /\ SubSeq(Total, n + 2, l) = Files[FileName]
           /\ \A i \in 1 .. n : Total[i] # NUL
           /\ Total[n + 1] = NUL
  <1>1. FileName \in DOMAIN Files /\ Len(written) \in Len(Name) + 1 .. Len(Total)
    BY DEF CopyInv, SentInv
  <1>2. PICK n \in Nat, d \in Nat : n = Len(Name) /\ d = Len(Files[FileName])
    BY <1>1, TotalParts
  <1>3. PICK l \in Nat : l = Len(Total)
    BY <1>1, TotalParts
  <1>4. PICK k \in Nat : k = Len(written) /\ n + 1 <= k /\ k <= l
    BY <1>1, <1>2, <1>3
  <1>5. n > 0 /\ n < MSS
    BY <1>1, <1>2, TotalParts
  <1>6. /\ Total \in Seq(Symbols) /\ SubSeq(Total, 1, n) = Name
        /\ SubSeq(Total, n + 2, l) = Files[FileName]
        /\ (\A i \in 1 .. n : Total[i] # NUL) /\ Total[n + 1] = NUL
    BY <1>1, <1>2, <1>3, TotalParts
  <1>7. n \in Nat \ {0}
    BY <1>5
  <1> WITNESS n \in Nat \ {0}, k \in Nat, l \in Nat
  <1> QED BY <1>1, <1>2, <1>3, <1>4, <1>5, <1>6

(* Before the name is sent nothing has happened to the stream. *)
LEMMA NotUnderway ==
  ASSUME CopyInv, written = <<>>
  PROVE  /\ arrived = 0 /\ taken = 0 /\ ~fin /\ ~closed /\ rMain \notin {"more", "done"}
         /\ sMain \notin {"read", "close", "done"}
  <1>1. arrived = 0 /\ taken = 0
    BY DEF CopyInv, TakenInv
  <1> QED BY <1>1 DEF CopyInv, SentInv, TakenInv

LEMMA CheckAnswers ==
  ASSUME NEW p, NEW args
  PROVE  Check(p, args) \in {"usage", "run", "error"}
  BY DEF Check

(* The sender's steps that write nothing. *)
LEMMA SenderQuiet ==
  ASSUME CopyInv, SenderParses \/ Open \/ Connect \/ GiveUp \/ Close
  PROVE  CopyInv'
  <1> USE DEF CopyInv
  <1>1. CASE SenderParses
    <2>1. written = <<>> /\ sMain = "args"
      BY <1>1 DEF SenderParses, SentInv
    <2>2. /\ UNCHANGED <<unread, streamVars, recipientVars>>
          /\ sMain' \in {"args", "usage", "run", "error"}
      BY <1>1, <2>1, CheckAnswers DEF SenderParses
    <2> QED BY <2>1, <2>2, NotUnderway
        DEF SentInv, TakenInv, streamVars, recipientVars
  <1>2. CASE Open
    <2>1. written = <<>>
      BY <1>2 DEF Open, SentInv
    <2> QED BY <1>2, <2>1, NotUnderway
        DEF Open, SentInv, TakenInv, streamVars, recipientVars, FileName, GetOption
  <1>3. CASE Connect
    <2>1. written = <<>>
      BY <1>3 DEF Connect, SentInv
    <2> QED BY <1>3, <2>1, NotUnderway
        DEF Connect, SentInv, TakenInv, streamVars, recipientVars, FileName, GetOption
  <1>4. CASE GiveUp \/ Close
    <2>1. /\ UNCHANGED <<sParser, unread, streamVars, recipientVars>>
          /\ \/ sMain' = "failed"
             \/ sMain = "close" /\ sMain' = "done"
      BY <1>4 DEF GiveUp, Close
    <2>2. FileName' = FileName /\ Name' = Name /\ Total' = Total
      BY <2>1 DEF FileName, Name, Total, GetOption
    <2>3. TakenInv'
      BY <2>1, <2>2 DEF TakenInv, streamVars, recipientVars
    <2>4. SentInv'
      BY <2>1, <2>2 DEF SentInv, streamVars, recipientVars
    <2> QED BY <2>3, <2>4
  <1> QED BY <1>1, <1>2, <1>3, <1>4

LEMMA SendNameKeeps ==
  ASSUME CopyInv, SendName
  PROVE  CopyInv'
  <1>1. written = <<>> /\ FileName \in DOMAIN Files /\ unread = Files[FileName]
    BY DEF SendName, CopyInv, SentInv
  <1>2. /\ written' = Name \o <<NUL>> /\ sMain' = "read"
        /\ UNCHANGED <<sParser, unread, arrived, fin, closed, rMain, taken, outName, outFile>>
    BY DEF SendName, Name, recipientVars
  <1>3. FileName' = FileName /\ Name' = Name /\ Total' = Total
    BY <1>2 DEF FileName, Name, Total, GetOption
  <1>4. PICK n \in Nat, l \in Nat :
          /\ n = Len(Name) /\ l = Len(Total) /\ n + 1 <= l
          /\ SubSeq(Total, 1, n + 1) = Name \o <<NUL>>
          /\ SubSeq(Total, n + 2, l) = Files[FileName]
          /\ Total \in Seq(Symbols)
    <2>1. PICK n \in Nat, d \in Nat : n = Len(Name) /\ d = Len(Files[FileName])
      BY <1>1, TotalParts
    <2>2. n + 1 + d \in Nat /\ Len(Total) = n + 1 + d /\ n + 1 <= n + 1 + d
      BY <1>1, <2>1, TotalParts
    <2> QED BY <1>1, <2>1, <2>2, TotalParts
  <1>5. Len(written') = n + 1 /\ written' # <<>> /\ written' = SubSeq(Total, 1, n + 1)
    <2>1. Len(SubSeq(Total, 1, n + 1)) = n + 1
      BY <1>4
    <2> QED BY <1>2, <1>4, <2>1
  <1>6. SentInv'
    BY <1>1, <1>2, <1>3, <1>4, <1>5, NotUnderway DEF SentInv
  <1>7. TakenInv'
    BY <1>1, <1>2, <1>5, NotUnderway DEF CopyInv, TakenInv
  <1> QED BY <1>6, <1>7 DEF CopyInv

(* A chunk is the next part of the stream, and leaves the one behind it. *)
LEMMA SendChunkKeeps ==
  ASSUME CopyInv, SendChunk
  PROVE  CopyInv'
  <1> DEFINE m == IF Len(unread) < ChunkSize THEN Len(unread) ELSE ChunkSize
  <1>1. sMain = "read" /\ written # <<>> /\ ~fin /\ ~closed
    BY DEF SendChunk, CopyInv, SentInv
  <1>2. PICK n \in Nat \ {0}, k \in Nat, l \in Nat :
          /\ n = Len(Name) /\ k = Len(written) /\ l = Len(Total)
          /\ n + 1 <= k /\ k <= l /\ Total \in Seq(Symbols) /\ FileName \in DOMAIN Files
    BY <1>1, Underway
  <1>3. written = SubSeq(Total, 1, k) /\ unread = SubSeq(Total, k + 1, l)
    BY <1>1, <1>2 DEF CopyInv, SentInv
  <1>4. Len(unread) = l - k
    <2>1. PICK from \in Nat : from = k + 1
      OBVIOUS
    <2>2. Len(SubSeq(Total, from, l)) = IF from <= l THEN l - from + 1 ELSE 0
      <3>1. \A i \in from .. l : Total[i] \in Symbols
        BY <1>2, <2>1, LenProperties
      <3> QED BY <2>1, <3>1, SubSeqProperties
    <2>3. (IF from <= l THEN l - from + 1 ELSE 0) = l - k
      BY <1>2, <2>1
    <2>4. unread = SubSeq(Total, from, l)
      BY <1>3, <2>1
    <2> QED BY <2>2, <2>3, <2>4
  <1>5. /\ written' = written \o SubSeq(unread, 1, m)
        /\ unread' = SubSeq(unread, m + 1, Len(unread))
        /\ sMain' = IF m < ChunkSize THEN "close" ELSE "read"
        /\ UNCHANGED <<sParser, arrived, fin, closed, rMain, taken, outName, outFile>>
    BY DEF SendChunk, recipientVars
  <1>6. m \in Nat /\ m <= l - k /\ (m < ChunkSize => m = l - k)
    BY <1>2, <1>4, FilesAssumption
  <1> HIDE DEF m
  <1>7. PICK end \in Nat : end = k + m /\ k <= end /\ end <= l
    BY <1>2, <1>6
  <1>8. written' = SubSeq(Total, 1, end)
    <2>1. SubSeq(SubSeq(Total, k + 1, l), 1, m) = SubSeq(Total, (k + 1) + 1 - 1, (k + 1) + m - 1)
      <3>1. /\ k + 1 \in Nat \ {0} /\ l \in Nat /\ l <= Len(Total) /\ k + 1 <= l + 1
            /\ 1 \in Nat \ {0} /\ m <= l - (k + 1) + 1 /\ 1 <= m + 1
        BY <1>2, <1>6
      <3> QED BY <1>2, <1>6, <3>1, Inner
    <2>2. (k + 1) + 1 - 1 = k + 1 /\ (k + 1) + m - 1 = end
      BY <1>6, <1>7
    <2>3. SubSeq(Total, 1, k) \o SubSeq(Total, k + 1, end) = SubSeq(Total, 1, end)
      <3>1. /\ 1 \in 1 .. Len(Total) + 1 /\ k \in 1 - 1 .. Len(Total)
            /\ end \in k .. Len(Total)
        BY <1>2, <1>7
      <3> QED BY <1>2, <3>1, ConcatAdjacentSubSeq
    <2>4. SubSeq(unread, 1, m) = SubSeq(Total, k + 1, end)
      BY <1>3, <2>1, <2>2
    <2> QED BY <1>3, <1>5, <2>3, <2>4
  <1>9. unread' = SubSeq(Total, end + 1, l)
    <2>1. PICK from \in Nat \ {0} : from = k + 1
      BY <1>2
    <2>2. PICK first \in Nat \ {0} : first = m + 1
      BY <1>6
    <2>3. PICK last \in Nat : last = l - k
      BY <1>2
    <2>4. SubSeq(SubSeq(Total, from, l), first, last)
            = SubSeq(Total, from + first - 1, from + last - 1)
      <3>1. l <= Len(Total) /\ from <= l + 1 /\ last <= l - from + 1 /\ first <= last + 1
        BY <1>2, <1>6, <2>1, <2>2, <2>3
      <3> QED BY <1>2, <3>1, Inner
    <2>5. from + first - 1 = end + 1 /\ from + last - 1 = l
      BY <1>2, <1>6, <1>7, <2>1, <2>2, <2>3
    <2>6. unread' = SubSeq(SubSeq(Total, from, l), first, last)
      BY <1>3, <1>4, <1>5, <2>1, <2>2, <2>3
    <2> QED BY <2>4, <2>5, <2>6
  <1>10. FileName' = FileName /\ Name' = Name /\ Total' = Total
    BY <1>5 DEF FileName, Name, Total, GetOption
  <1>11. Len(written') = end /\ written' # <<>>
    <2>1. Len(SubSeq(Total, 1, end)) = end
      BY <1>2, <1>7
    <2>2. end # 0
      BY <1>2, <1>7
    <2> QED BY <1>8, <2>1, <2>2
  <1>12. Len(written') \in Len(Name') + 1 .. Len(Total')
    BY <1>2, <1>7, <1>10, <1>11
  <1>13. sMain' \in {"close", "read"} /\ (sMain' = "close" => Len(written') = Len(Total'))
    BY <1>2, <1>5, <1>6, <1>7, <1>10, <1>11
  <1>14. SentInv'
    BY <1>1, <1>2, <1>5, <1>8, <1>9, <1>10, <1>11, <1>12, <1>13 DEF SentInv
  <1>15. arrived \in Nat /\ arrived <= Len(written')
    <2>1. arrived \in Nat /\ arrived <= k
      BY <1>2 DEF CopyInv, TakenInv
    <2> QED BY <1>7, <1>11, <2>1
  <1>16. TakenInv'
    BY <1>5, <1>10, <1>15 DEF CopyInv, TakenInv
  <1> QED BY <1>14, <1>16 DEF CopyInv

(* Bytes arrive, the first of them with the whole name; the FIN behind all. *)
LEMMA TransportKeeps ==
  ASSUME CopyInv, Arrive \/ SendFin \/ Finish
  PROVE  CopyInv'
  <1>1. UNCHANGED <<written, senderVars, recipientVars>>
    BY DEF Arrive, SendFin, Finish
  <1>2. FileName' = FileName /\ Name' = Name /\ Total' = Total
    BY <1>1 DEF FileName, Name, Total, GetOption, senderVars
  <1>3. arrived \in Nat /\ taken \in Nat /\ taken <= arrived /\ arrived <= Len(written)
    BY DEF CopyInv, TakenInv
  <1>4. CASE Arrive
    <2>1. PICK k \in 1 .. Len(written) - arrived :
            /\ arrived = 0 => k > Len(Name)
            /\ arrived' = arrived + k /\ UNCHANGED <<fin, closed>>
      BY <1>4 DEF Arrive, Name
    <2>2. written # <<>>
      <3>1. Len(written) > 0 /\ Len(<<>>) = 0
        <4>1. Len(written) \in Int
          BY <1>3, <2>1, NotUnderway, Underway
        <4> QED BY <1>3, <2>1, <4>1
      <3> QED BY <3>1
    <2>3. PICK n \in Nat, l \in Nat : n = Len(Name) /\ l = Len(written)
      BY <2>2, Underway
    <2>4. arrived' \in Nat /\ arrived < arrived' /\ arrived' <= l /\ k \in Nat
      BY <1>3, <2>1, <2>3
    <2>5. ~fin /\ ~closed
      BY <1>3, <2>3, <2>4 DEF CopyInv, SentInv
    <2>6. arrived' > n
      <3>1. CASE arrived = 0
        BY <2>1, <2>3, <2>4, <3>1
      <3>2. CASE arrived # 0
        <4>1. arrived > n
          BY <1>3, <2>3, <3>2 DEF CopyInv, TakenInv
        <4> QED BY <1>3, <2>3, <2>4, <4>1
      <3> QED BY <3>1, <3>2
    <2>7. taken <= arrived'
      BY <1>3, <2>4
    <2>8. TakenInv'
      BY <1>1, <1>2, <1>3, <2>1, <2>3, <2>4, <2>6, <2>7
      DEF CopyInv, TakenInv, recipientVars
    <2>9. SentInv'
      BY <1>1, <1>2, <2>1, <2>5 DEF CopyInv, SentInv, senderVars
    <2> QED BY <2>8, <2>9 DEF CopyInv
  <1>5. CASE Finish
    <2>1. fin /\ closed' = TRUE /\ UNCHANGED <<arrived, fin>>
      BY <1>5 DEF Finish
    <2>2. SentInv'
      BY <1>1, <1>2, <2>1 DEF CopyInv, SentInv, senderVars
    <2>3. TakenInv'
      BY <1>1, <1>2, <2>1 DEF CopyInv, TakenInv, recipientVars
    <2> QED BY <2>2, <2>3 DEF CopyInv
  <1>6. CASE SendFin
    <2>1. sMain = "close" /\ arrived = Len(written) /\ fin' = TRUE /\ UNCHANGED <<arrived, closed>>
      BY <1>6 DEF SendFin
    <2>2. SentInv'
      BY <1>1, <1>2, <2>1 DEF CopyInv, SentInv, senderVars
    <2>3. TakenInv'
      BY <1>1, <1>2, <2>1 DEF CopyInv, TakenInv, recipientVars
    <2> QED BY <2>2, <2>3 DEF CopyInv
  <1> QED BY <1>4, <1>5, <1>6

-----------------------------------------------------------------------------
(* The recipient's steps that take nothing. *)
LEMMA RecipientQuiet ==
  ASSUME CopyInv, RecipientParses \/ Listen \/ Test \/ PopNothing \/ TakeEnd
  PROVE  CopyInv'
  <1>1. UNCHANGED <<sParser, sMain, unread, written, arrived, fin, closed, taken, outName, outFile>>
    BY DEF RecipientParses, Listen, Test, PopNothing, TakeEnd, senderVars, streamVars
  <1>2. FileName' = FileName /\ Name' = Name /\ Total' = Total
    BY <1>1 DEF FileName, Name, Total, GetOption
  <1>3. SentInv'
    BY <1>1, <1>2 DEF CopyInv, SentInv
  <1>4. \/ rMain' = rMain
        \/ rMain \in {"args", "run"} /\ rMain' \in {"usage", "run", "error", "first", "failed"}
        \/ rMain' = "failed"
        \/ rMain = "more" /\ rMain' = "done" /\ closed
    <2>1. RecipientParses => rMain' = rMain \/ (rMain = "args" /\ rMain' \in {"usage", "run", "error"})
      <3> SUFFICES ASSUME RecipientParses
                   PROVE  rMain' = rMain \/ (rMain = "args" /\ rMain' \in {"usage", "run", "error"})
        OBVIOUS
      <3>1. rMain = "args" /\ (rMain' = Check(rParser, rArgs) \/ rMain' = rMain)
        BY DEF RecipientParses
      <3> QED BY <3>1, CheckAnswers
    <2>2. Listen => rMain = "run" /\ rMain' \in {"first", "failed"}
      BY DEF Listen
    <2>3. Test \/ PopNothing => rMain' = rMain
      BY DEF Test, PopNothing
    <2>4. TakeEnd => rMain' = "failed" \/ (rMain = "more" /\ rMain' = "done" /\ closed)
      <3>1. TakeEnd => closed /\ (rMain = "first" \/ rMain = "more")
        BY DEF TakeEnd
      <3>2. TakeEnd => rMain' = IF rMain = "first" THEN "failed" ELSE "done"
        BY DEF TakeEnd
      <3> QED BY <3>1, <3>2
    <2> QED BY <2>1, <2>2, <2>3, <2>4
  <1>5. TakenInv'
    BY <1>1, <1>2, <1>4 DEF CopyInv, TakenInv
  <1> QED BY <1>3, <1>5 DEF CopyInv

(* What recv() pops is the next part of the stream. *)
LEMMA PoppedIsNext ==
  ASSUME CopyInv, taken < arrived
  PROVE  /\ written # <<>>
         /\ PopSize \in Nat \ {0} /\ taken + PopSize <= arrived /\ arrived <= Len(Total)
         /\ PopSize = arrived - taken \/ PopSize = RecvSize
         /\ Popped = SubSeq(Total, taken + 1, taken + PopSize)
  <1>1. arrived \in Nat /\ taken \in Nat /\ arrived <= Len(written)
    BY DEF CopyInv, TakenInv
  <1>2. written # <<>>
    BY <1>1, NotUnderway
  <1>3. PICK k \in Nat, l \in Nat :
          k = Len(written) /\ l = Len(Total) /\ k <= l /\ Total \in Seq(Symbols)
    BY <1>2, Underway
  <1>4. written = SubSeq(Total, 1, k)
    BY <1>2, <1>3 DEF CopyInv, SentInv
  <1>5. /\ PopSize \in Nat \ {0} /\ PopSize <= arrived - taken
        /\ PopSize = arrived - taken \/ PopSize = RecvSize
    <2>1. RecvSize \in Nat \ {0}
      <3>1. MSS \in Nat /\ RecvSize \in Nat /\ RecvSize >= MSS
        BY FilesAssumption
      <3>2. Len(Name) < MSS /\ Len(Name) \in Nat
        BY <1>2, Underway
      <3> QED BY <3>1, <3>2
    <2> QED BY <1>1, <2>1 DEF PopSize
  <1>6. PICK first \in Nat \ {0}, last \in Nat :
          /\ first = taken + 1 /\ last = taken + PopSize
          /\ first <= last + 1 /\ last <= k /\ last <= arrived
    BY <1>1, <1>3, <1>5
  <1>7. SubSeq(SubSeq(Total, 1, k), first, last) = SubSeq(Total, first, last)
    <2>1. SubSeq(SubSeq(Total, 1, k), first, last) = SubSeq(Total, 1 + first - 1, 1 + last - 1)
      <3>1. 1 \in Nat \ {0} /\ k <= Len(Total) /\ 1 <= k + 1 /\ last <= k - 1 + 1
        BY <1>3, <1>6
      <3>2. Total \in Seq(Symbols) /\ k \in Nat /\ first \in Nat \ {0} /\ last \in Nat
            /\ first <= last + 1
        BY <1>3, <1>6
      <3> QED BY <3>1, <3>2, Inner
    <2>2. 1 + first - 1 = first /\ 1 + last - 1 = last
      BY <1>6
    <2> QED BY <2>1, <2>2
  <1>8. Popped = SubSeq(Total, taken + 1, taken + PopSize)
    BY <1>4, <1>6, <1>7 DEF Popped
  <1>9. taken + PopSize <= arrived /\ arrived <= Len(Total)
    BY <1>1, <1>3, <1>5
  <1> QED BY <1>2, <1>5, <1>8, <1>9

LEMMA TakeNameKeeps ==
  ASSUME CopyInv, TakeName
  PROVE  CopyInv'
  <1>1. /\ UNCHANGED <<sParser, sMain, unread, written, arrived, fin, closed>>
        /\ rMain = "first" /\ taken < arrived /\ rMain' = "more" /\ taken' = taken + PopSize
    BY DEF TakeName, senderVars, streamVars
  <1>2. FileName' = FileName /\ Name' = Name /\ Total' = Total
    BY <1>1 DEF FileName, Name, Total, GetOption
  <1>3. taken = 0 /\ arrived \in Nat /\ arrived > 0 /\ arrived > Len(Name) /\ arrived <= Len(written)
    BY <1>1 DEF CopyInv, TakenInv
  <1>4. PICK n \in Nat \ {0}, k \in Nat, l \in Nat :
          /\ n = Len(Name) /\ k = Len(written) /\ l = Len(Total)
          /\ n < MSS /\ k <= l /\ Total \in Seq(Symbols)
          /\ SubSeq(Total, 1, n) = Name
          /\ \A i \in 1 .. n : Total[i] # NUL
          /\ Total[n + 1] = NUL
    BY <1>1, PoppedIsNext, Underway
  <1>5. PICK size \in Nat : /\ size = PopSize /\ size <= arrived /\ n + 1 <= size /\ size <= l
                            /\ Popped = SubSeq(Total, 1, size)
    <2>1. MSS \in Nat /\ RecvSize \in Nat /\ RecvSize >= MSS
      BY FilesAssumption
    <2>2. PICK size \in Nat : size = PopSize /\ 0 + size <= arrived /\ arrived <= l
                              /\ (size = arrived - 0 \/ size = RecvSize)
                              /\ Popped = SubSeq(Total, 0 + 1, 0 + size)
      BY <1>1, <1>3, <1>4, PoppedIsNext
    <2>3. n + 1 <= size /\ size <= l /\ size <= arrived
      BY <1>3, <1>4, <2>1, <2>2
    <2>4. Popped = SubSeq(Total, 1, size)
      BY <2>2
    <2> QED BY <2>2, <2>3, <2>4
  <1>6. PICK q : q = Popped
    OBVIOUS
  <1>7. Len(q) = size /\ \A i \in 1 .. size : q[i] = Total[i]
    BY <1>4, <1>5, <1>6
  <1>8. SelectInSeq(q, LAMBDA c : c = NUL) = n + 1
    <2>1. PICK at \in Nat : at = n + 1
      BY <1>4
    <2>2. /\ Len(q) \in Nat /\ at \in 1 .. Len(q) /\ q[at] = NUL
          /\ \A i \in 1 .. at - 1 : q[i] # NUL
      <3>1. at \in 1 .. size /\ \A i \in 1 .. at - 1 : i \in 1 .. size /\ i \in 1 .. n
        BY <1>5, <2>1
      <3> QED BY <1>4, <1>7, <2>1, <3>1
    <2> QED BY <2>1, <2>2, FirstNul
  <1>9. outName' = SubSeq(q, 1, (n + 1) - 1) /\ outFile' = SubSeq(q, (n + 1) + 1, Len(q))
    BY <1>6, <1>8 DEF TakeName
  <1>10. outName' = Name
    <2>1. SubSeq(SubSeq(Total, 1, size), 1, n) = SubSeq(Total, 1 + 1 - 1, 1 + n - 1)
      <3>1. 1 \in Nat \ {0} /\ size <= Len(Total) /\ 1 <= size + 1 /\ n <= size - 1 + 1 /\ 1 <= n + 1
        BY <1>4, <1>5
      <3> QED BY <1>4, <1>5, <3>1, Inner
    <2>2. 1 + 1 - 1 = 1 /\ 1 + n - 1 = n /\ (n + 1) - 1 = n
      BY <1>4
    <2> QED BY <1>4, <1>5, <1>6, <1>9, <2>1, <2>2
  <1>11. outFile' = SubSeq(Total, n + 2, size)
    <2>1. PICK first \in Nat \ {0} : first = n + 2 /\ first <= size + 1
      BY <1>4, <1>5
    <2>2. SubSeq(SubSeq(Total, 1, size), first, size) = SubSeq(Total, 1 + first - 1, 1 + size - 1)
      <3>1. 1 \in Nat \ {0} /\ size <= Len(Total) /\ 1 <= size + 1 /\ size <= size - 1 + 1
        BY <1>4, <1>5
      <3> QED BY <1>4, <1>5, <2>1, <3>1, Inner
    <2>3. 1 + first - 1 = first /\ 1 + size - 1 = size /\ (n + 1) + 1 = first
      BY <1>4, <1>5, <2>1
    <2> QED BY <1>5, <1>6, <1>7, <1>9, <2>1, <2>2, <2>3
  <1>12. taken' = size
    BY <1>1, <1>3, <1>5
  <1>13. taken' \in Nat /\ taken' <= arrived /\ taken' > 0 /\ taken' > n
    BY <1>4, <1>5, <1>12
  <1>14. TakenInv'
    BY <1>1, <1>2, <1>3, <1>4, <1>10, <1>11, <1>12, <1>13 DEF CopyInv, TakenInv
  <1>15. SentInv'
    BY <1>1, <1>2 DEF CopyInv, SentInv
  <1> QED BY <1>14, <1>15 DEF CopyInv

LEMMA NameRefusedKeeps ==
  ASSUME CopyInv, NameRefused
  PROVE  CopyInv'
  <1>1. /\ UNCHANGED <<sParser, sMain, unread, written, arrived, fin, closed>>
        /\ taken < arrived /\ rMain' = "failed" /\ taken' = taken + PopSize
    BY DEF NameRefused, senderVars, streamVars
  <1>2. FileName' = FileName /\ Name' = Name /\ Total' = Total
    BY <1>1 DEF FileName, Name, Total, GetOption
  <1>3. taken' \in Nat /\ taken' <= arrived
    <2>1. taken \in Nat
      BY DEF CopyInv, TakenInv
    <2> QED BY <1>1, <2>1, PoppedIsNext
  <1>4. TakenInv'
    BY <1>1, <1>2, <1>3 DEF CopyInv, TakenInv
  <1>5. SentInv'
    BY <1>1, <1>2 DEF CopyInv, SentInv
  <1> QED BY <1>4, <1>5 DEF CopyInv

LEMMA TakeChunkKeeps ==
  ASSUME CopyInv, TakeChunk
  PROVE  CopyInv'
  <1>1. /\ UNCHANGED <<sParser, sMain, unread, written, arrived, fin, closed, rMain, outName>>
        /\ rMain = "more" /\ taken < arrived /\ taken' = taken + PopSize
        /\ outFile' = outFile \o Popped
    BY DEF TakeChunk, senderVars, streamVars
  <1>2. FileName' = FileName /\ Name' = Name /\ Total' = Total
    BY <1>1 DEF FileName, Name, Total, GetOption
  <1>3. /\ taken \in Nat /\ arrived \in Nat /\ taken > Len(Name) /\ outName = Name
        /\ outFile = SubSeq(Total, Len(Name) + 2, taken)
    BY <1>1 DEF CopyInv, TakenInv
  <1>4. PICK n \in Nat \ {0}, l \in Nat :
          n = Len(Name) /\ l = Len(Total) /\ Total \in Seq(Symbols)
    BY <1>1, PoppedIsNext, Underway
  <1>5. PICK end \in Nat : /\ end = taken + PopSize /\ taken < end /\ end <= arrived /\ end <= l
                           /\ Popped = SubSeq(Total, taken + 1, end)
    <2>1. PICK size \in Nat \ {0} : size = PopSize /\ taken + size <= arrived /\ arrived <= l
                                    /\ Popped = SubSeq(Total, taken + 1, taken + size)
      BY <1>1, <1>4, PoppedIsNext
    <2>2. PICK end \in Nat : end = taken + size
      BY <1>3
    <2>3. taken < end /\ end <= arrived /\ end <= l
      BY <1>3, <1>4, <2>1, <2>2
    <2> QED BY <2>1, <2>2, <2>3
  <1>6. outFile' = SubSeq(Total, n + 2, end)
    <2>1. PICK first \in Nat : first = n + 2
      BY <1>4
    <2>2. /\ first \in 1 .. Len(Total) + 1 /\ taken \in first - 1 .. Len(Total)
          /\ end \in taken .. Len(Total)
      BY <1>3, <1>4, <1>5, <2>1
    <2>3. SubSeq(Total, first, taken) \o SubSeq(Total, taken + 1, end) = SubSeq(Total, first, end)
      BY <1>4, <2>2, ConcatAdjacentSubSeq
    <2> QED BY <1>1, <1>3, <1>4, <1>5, <2>1, <2>3
  <1>7. taken' = end /\ taken' \in Nat /\ taken' <= arrived /\ taken' > 0 /\ taken' > n
    BY <1>1, <1>3, <1>4, <1>5
  <1>8. TakenInv'
    BY <1>1, <1>2, <1>3, <1>4, <1>6, <1>7 DEF CopyInv, TakenInv
  <1>9. SentInv'
    BY <1>1, <1>2 DEF CopyInv, SentInv
  <1> QED BY <1>8, <1>9 DEF CopyInv

LEMMA CopyNext == CopyInv /\ [Next]_vars => CopyInv'
  <1> SUFFICES ASSUME CopyInv, [Next]_vars PROVE CopyInv'
    OBVIOUS
  <1>1. CASE UNCHANGED vars
    BY <1>1 DEF vars, senderVars, streamVars, recipientVars, CopyInv, SentInv, TakenInv,
                FileName, Name, Total, GetOption
  <1>2. CASE SenderMain
    BY <1>2, SenderQuiet, SendNameKeeps, SendChunkKeeps DEF SenderMain
  <1>3. CASE Arrive \/ SendFin \/ Finish
    BY <1>3, TransportKeeps
  <1>4. CASE RecipientMain
    BY <1>4, RecipientQuiet, TakeNameKeeps, NameRefusedKeeps, TakeChunkKeeps DEF RecipientMain
  <1> QED BY <1>1, <1>2, <1>3, <1>4 DEF Next

LEMMA CopyAlways == Spec => []CopyInv
  BY CopyInit, CopyNext, PTL DEF Spec

-----------------------------------------------------------------------------
(* For all files and names, and however the stream is cut, the output has  *)
(* the name of the input and begins as it does: Sender.cpp:40-55 and       *)
(* Recipient.cpp:28-46 agree on the format of the stream.                  *)
THEOREM CopyAlwaysFaithful == Spec => []CopyIsFaithful
  <1>1. ASSUME CopyInv PROVE CopyIsFaithful
    <2> SUFFICES ASSUME rMain \in {"more", "done"}
                 PROVE  outName = Name /\ IsPrefix(outFile, Files[FileName])
      BY DEF CopyIsFaithful, Name
    <2>1. /\ taken \in Nat /\ taken > 0 /\ taken <= arrived /\ arrived <= Len(written)
          /\ arrived \in Nat /\ taken > Len(Name)
          /\ outName = Name /\ outFile = SubSeq(Total, Len(Name) + 2, taken)
      BY <1>1 DEF CopyInv, TakenInv
    <2>2. PICK n \in Nat \ {0}, k \in Nat, l \in Nat :
            /\ n = Len(Name) /\ k = Len(written) /\ l = Len(Total) /\ k <= l
            /\ Total \in Seq(Symbols) /\ FileName \in DOMAIN Files
            /\ SubSeq(Total, n + 2, l) = Files[FileName]
      BY <1>1, NotUnderway, Underway
    <2>3. PICK first \in Nat \ {0}, len \in Nat :
            first = n + 2 /\ len = taken - (n + 1) /\ first <= l + 1 /\ len <= l - first + 1
      <3>1. taken > n /\ taken \in Nat /\ taken <= l
        BY <2>1, <2>2
      <3>2. PICK first \in Nat \ {0} : first = n + 2
        <4>1. n + 2 \in Nat \ {0}
          BY <2>2
        <4> QED BY <4>1
      <3>3. PICK len \in Nat : len = taken - (n + 1)
        <4>1. taken - (n + 1) \in Nat
          BY <2>2, <3>1
        <4> QED BY <4>1
      <3>4. first <= l + 1 /\ len <= l - first + 1
        BY <2>2, <3>1, <3>2, <3>3
      <3> QED BY <3>2, <3>3, <3>4
    <2>4. Len(outFile) = len /\ outFile \in Seq(Symbols)
      <3>1. \A i \in first .. taken : Total[i] \in Symbols
        <4>1. \A i \in first .. taken : i \in 1 .. l
          BY <2>1, <2>2, <2>3
        <4> QED BY <2>2, <4>1, ElementOfSeq
      <3>2. /\ SubSeq(Total, first, taken) \in Seq(Symbols)
            /\ Len(SubSeq(Total, first, taken)) = IF first <= taken THEN taken - first + 1 ELSE 0
        BY <2>1, <3>1, SubSeqProperties
      <3>3. (IF first <= taken THEN taken - first + 1 ELSE 0) = len
        BY <2>1, <2>2, <2>3
      <3> QED BY <2>1, <2>2, <2>3, <3>2, <3>3
    <2>5. SubSeq(outFile, 1, Len(outFile)) = outFile
      BY <2>4, SubSeqFull
    <2>6. SubSeq(SubSeq(Total, first, l), 1, len) = SubSeq(Total, first + 1 - 1, first + len - 1)
      <3>1. 1 \in Nat \ {0} /\ l <= Len(Total) /\ 1 <= len + 1
        BY <2>2, <2>3
      <3>2. first <= l + 1 /\ len <= l - first + 1
        BY <2>3
      <3>3. Total \in Seq(Symbols) /\ l \in Nat /\ len \in Nat /\ first \in Nat \ {0}
        BY <2>2
      <3> QED BY <3>1, <3>2, <3>3, Inner
    <2>7. first + 1 - 1 = first /\ first + len - 1 = taken
      BY <2>1, <2>2, <2>3
    <2>8. SubSeq(Files[FileName], 1, len) = outFile
      BY <2>1, <2>2, <2>3, <2>6, <2>7
    <2>9. Len(outFile) <= Len(Files[FileName])
      <3>1. Len(Total) = Len(Name) + 1 + Len(Files[FileName]) /\ Len(Files[FileName]) \in Nat
        BY <2>2, TotalParts
      <3> QED BY <2>1, <2>2, <2>3, <2>4, <3>1
    <2> QED BY <2>1, <2>4, <2>5, <2>8, <2>9 DEF IsPrefix
  <1> QED BY <1>1, CopyAlways, PTL

(* A recipient that ends and has taken all that arrived has the whole      *)
(* file: the FIN is behind it, and a file that ends with a chunk is not    *)
(* cut short (Sender.cpp:48).                                              *)
THEOREM NothingElseIsLost == Spec => []OnlyUnreadIsLost
  <1>1. ASSUME CopyInv PROVE OnlyUnreadIsLost
    <2> SUFFICES ASSUME rMain = "done", taken = arrived PROVE outFile = Files[FileName]
      BY DEF OnlyUnreadIsLost
    <2>1. closed /\ outFile = SubSeq(Total, Len(Name) + 2, taken)
      BY <1>1 DEF CopyInv, TakenInv
    <2>2. taken = Len(Total) /\ written # <<>>
      BY <1>1, <2>1 DEF CopyInv, SentInv
    <2> QED BY <1>1, <2>1, <2>2, Underway
  <1> QED BY <1>1, CopyAlways, PTL

-----------------------------------------------------------------------------
(* The options.  An argument is the value of the one before it exactly if  *)
(* that one is a name that asks for a value (NamesNext), and this is what  *)
(* the parser waits for: after k arguments the values given so far are     *)
(* set, the last of each option for good.                                  *)

(* Induction over the numbers, for a set instead of a predicate. *)
LEMMA Least ==
  ASSUME NEW T, T \subseteq Nat, T # {}
  PROVE  \E x \in T : \A y \in T : x <= y
  <1> DEFINE R == OpToRel(<, Nat)
  <1>1. IsWellFoundedOn(R, Nat)
    BY NatLessThanWellFounded, Zenon
  <1>2. \A x, y \in Nat : x < y => <<x, y>> \in R
    BY Zenon DEF OpToRel
  <1> HIDE DEF R
  <1>3. PICK x \in T : \A y \in T : ~ (<<y, x>> \in R)
    BY <1>1, WFMin
  <1>4. \A y \in T : ~(y < x)
    BY <1>2, <1>3
  <1> QED BY <1>3, <1>4

LEMMA SetInduction ==
  ASSUME NEW T, 0 \in T, \A n \in Nat : n \in T => n + 1 \in T
  PROVE  Nat \subseteq T
  <1> SUFFICES ASSUME Nat \ T # {} PROVE FALSE
    OBVIOUS
  <1>1. PICK x \in Nat \ T : \A y \in Nat \ T : x <= y
    BY Least
  <1>2. x # 0 /\ x - 1 \in Nat
    BY <1>1
  <1>3. x - 1 \in T
    BY <1>1, <1>2
  <1>4. (x - 1) + 1 \in T
    BY <1>2, <1>3
  <1> QED BY <1>1, <1>4

-----------------------------------------------------------------------------
(* An argument that asks for a value; where a run of them may start. *)
Asks(O, args, i) == AsksFor(O, args[i]) # {}
Start(O, args, j) == j = 1 \/ ~Asks(O, args, j - 1)

(* Every argument ends a run of arguments that ask. *)
LEMMA RunExists ==
  ASSUME NEW O, NEW args, NEW i \in Nat \ {0}
  PROVE  \E j \in 1 .. i : Start(O, args, j) /\ \A k \in j .. i - 1 : Asks(O, args, k)
  <1> DEFINE T == {n \in Nat : n = 0 \/ \E j \in 1 .. n :
                     Start(O, args, j) /\ \A k \in j .. n - 1 : Asks(O, args, k)}
  <1>1. 0 \in T
    OBVIOUS
  <1>2. ASSUME NEW n \in Nat, n \in T PROVE n + 1 \in T
    <2>1. CASE n = 0
      <3>1. Start(O, args, 1) /\ \A k \in 1 .. 1 - 1 : Asks(O, args, k)
        BY DEF Start
      <3> QED BY <2>1, <3>1
    <2>2. CASE n # 0 /\ Asks(O, args, n)
      <3>1. PICK j \in 1 .. n : Start(O, args, j) /\ \A k \in j .. n - 1 : Asks(O, args, k)
        BY <1>2, <2>2
      <3>2. j \in 1 .. n + 1 /\ \A k \in j .. (n + 1) - 1 : k = n \/ k \in j .. n - 1
        BY <3>1
      <3>3. \A k \in j .. (n + 1) - 1 : Asks(O, args, k)
        BY <2>2, <3>1, <3>2
      <3> QED BY <3>1, <3>2, <3>3
    <2>3. CASE n # 0 /\ ~Asks(O, args, n)
      <3>1. (n + 1) - 1 = n /\ n + 1 \in 1 .. n + 1 /\ \A k \in n + 1 .. (n + 1) - 1 : FALSE
        BY <2>3
      <3>2. Start(O, args, n + 1)
        BY <2>3, <3>1 DEF Start
      <3> QED BY <3>1, <3>2
    <2> QED BY <2>1, <2>2, <2>3
  <1> HIDE DEF T
  <1>3. i \in T
    BY <1>1, <1>2, SetInduction
  <1> QED BY <1>3 DEF T

LEMMA NamesIs ==
  ASSUME NEW O, NEW args, NEW i \in DOMAIN args
  PROVE  i \in Names(O, args) <=>
           \/ i = 1
           \/ \E j \in 1 .. i : /\ (i - j) % 2 = 0 /\ Start(O, args, j)
                                /\ \A k \in j .. i - 1 : Asks(O, args, k)
  BY DEF Names, Start, Asks

(* An argument is a value if the one before it names an option that takes one. *)
LEMMA NamesNext ==
  ASSUME NEW O, NEW args, NEW n \in Nat, DOMAIN args = 1 .. n, NEW i \in 1 .. n - 1
  PROVE  i + 1 \in Names(O, args) <=> ~(i \in Names(O, args) /\ Asks(O, args, i))
  <1>0. i \in DOMAIN args /\ i + 1 \in DOMAIN args /\ i \in Nat \ {0} /\ (i + 1) - 1 = i /\ i + 1 # 1
    OBVIOUS
  <1>1. CASE ~Asks(O, args, i)
    <2>1. Start(O, args, i + 1)
      BY <1>0, <1>1 DEF Start
    <2>2. ((i + 1) - (i + 1)) % 2 = 0 /\ i + 1 \in 1 .. i + 1 /\ \A k \in i + 1 .. (i + 1) - 1 : FALSE
      OBVIOUS
    <2> QED BY <1>0, <1>1, <2>1, <2>2, NamesIs
  <1>2. CASE Asks(O, args, i)
    <2>1. PICK j \in 1 .. i : Start(O, args, j) /\ \A k \in j .. i - 1 : Asks(O, args, k)
      BY <1>0, RunExists
    <2>2. ASSUME NEW m \in 1 .. i, Start(O, args, m), \A k \in m .. i - 1 : Asks(O, args, k)
          PROVE  m = j
      <3>1. CASE m < j
        <4>1. j - 1 \in m .. i - 1 /\ j # 1
          BY <3>1
        <4> QED BY <2>1, <2>2, <4>1 DEF Start
      <3>2. CASE j < m
        <4>1. m - 1 \in j .. i - 1 /\ m # 1
          BY <3>2
        <4> QED BY <2>1, <2>2, <4>1 DEF Start
      <3> QED BY <3>1, <3>2
    <2>3. i \in Names(O, args) <=> (i - j) % 2 = 0
      <3>1. i = 1 => j = 1 /\ (i - j) % 2 = 0
        OBVIOUS
      <3> QED BY <1>0, <2>1, <2>2, <3>1, NamesIs
    <2>4. \A m \in 1 .. i + 1 : Start(O, args, m) => m \in 1 .. i
      BY <1>0, <1>2 DEF Start
    <2>5. \A m \in 1 .. i : (\A k \in m .. (i + 1) - 1 : Asks(O, args, k))
                              <=> (\A k \in m .. i - 1 : Asks(O, args, k))
      <3> SUFFICES ASSUME NEW m \in 1 .. i
                   PROVE  (\A k \in m .. (i + 1) - 1 : Asks(O, args, k))
                            <=> (\A k \in m .. i - 1 : Asks(O, args, k))
        OBVIOUS
      <3>1. \A k : k \in m .. (i + 1) - 1 <=> k = i \/ k \in m .. i - 1
        OBVIOUS
      <3> QED BY <1>2, <3>1
    <2>6. i + 1 \in Names(O, args) <=> ((i + 1) - j) % 2 = 0
      <3>1. i + 1 \in Names(O, args) <=>
              \E m \in 1 .. i + 1 : /\ ((i + 1) - m) % 2 = 0 /\ Start(O, args, m)
                                    /\ \A k \in m .. (i + 1) - 1 : Asks(O, args, k)
        BY <1>0, NamesIs
      <3>2. \A m \in 1 .. i + 1 :
              Start(O, args, m) /\ (\A k \in m .. (i + 1) - 1 : Asks(O, args, k)) => m = j
        BY <2>2, <2>4, <2>5
      <3>3. j \in 1 .. i + 1 /\ \A k \in j .. (i + 1) - 1 : Asks(O, args, k)
        BY <2>1, <2>5
      <3> QED BY <2>1, <3>1, <3>2, <3>3
    <2>7. ((i + 1) - j) % 2 = 0 <=> (i - j) % 2 # 0
      OBVIOUS
    <2> QED BY <1>2, <2>3, <2>6, <2>7
  <1> QED BY <1>1, <1>2

LEMMA NamesFirst ==
  ASSUME NEW O, NEW args, 1 \in DOMAIN args
  PROVE  1 \in Names(O, args)
  BY NamesIs

LEMMA NamesPlaces ==
  ASSUME NEW O, NEW args
  PROVE  Names(O, args) \subseteq DOMAIN args
  BY DEF Names

-----------------------------------------------------------------------------
(* The value that an argument gives an option. *)
GivesNext(O, args, name, i) == i < Len(args) /\ name \in AsksFor(O, args[i])
GivesHere(O, args, name, i) ==
  Shape[args[i]].kind = "long" /\ Shape[args[i]].eq /\ Shape[args[i]].name = name

LEMMA GivenIs ==
  ASSUME NEW O, NEW args, NEW name, NEW g
  PROVE  g \in Given(O, args, name) <=>
           \E i \in Names(O, args) :
             \/ GivesNext(O, args, name, i) /\ g = <<i, args[i + 1]>>
             \/ GivesHere(O, args, name, i) /\ g = <<i, Shape[args[i]].value>>
  BY DEF Given, GivesNext, GivesHere

LEMMA GivenPlaces ==
  ASSUME NEW O, NEW args, NEW name, NEW g \in Given(O, args, name)
  PROVE  /\ g[1] \in Names(O, args)
         /\ \/ GivesNext(O, args, name, g[1]) /\ g = <<g[1], args[g[1] + 1]>>
            \/ GivesHere(O, args, name, g[1]) /\ g = <<g[1], Shape[args[g[1]]].value>>
  <1>1. PICK i \in Names(O, args) :
             \/ GivesNext(O, args, name, i) /\ g = <<i, args[i + 1]>>
             \/ GivesHere(O, args, name, i) /\ g = <<i, Shape[args[i]].value>>
    BY GivenIs
  <1>2. g[1] = i
    BY <1>1
  <1> QED BY <1>1, <1>2

(* The values given up to place b are set, the last of them for good. *)
Values(O, args, p, b) ==
  \A name \in DOMAIN O :
    /\ \A g \in Given(O, args, name) : g[1] <= b => Reads(O[name].reader, g[2])
    /\ (\A g \in Given(O, args, name) : ~(g[1] <= b)) =>
         p.options[name].actual = O[name].actual
    /\ \A g \in Given(O, args, name) :
         g[1] <= b /\ (\A h \in Given(O, args, name) : h[1] <= b => h[1] <= g[1]) =>
           p.options[name].actual = ReadAs(O[name].reader, g[2])

LEMMA ValuesQuiet ==
  ASSUME NEW O, NEW args, NEW p, NEW q, NEW b, NEW c, Values(O, args, p, b),
         \A name \in DOMAIN O : q.options[name].actual = p.options[name].actual,
         \A name \in DOMAIN O : \A g \in Given(O, args, name) : g[1] <= c <=> g[1] <= b
  PROVE  Values(O, args, q, c)
  BY DEF Values

(* The argument at place i, the only one that gives anything between b and *)
(* c, gives w the value v, which is set.                                   *)
Sets(O, args, p, q, b, c, w, i, v) ==
  /\ b \in Int /\ c \in Int /\ i \in Int /\ b < i /\ i <= c /\ w \in DOMAIN O
  /\ \A name \in DOMAIN O \ {w} : q.options[name].actual = p.options[name].actual
  /\ \A name \in DOMAIN O \ {w} : \A g \in Given(O, args, name) : g[1] <= c <=> g[1] <= b
  /\ \A g \in Given(O, args, w) : g[1] \in Int /\ (g[1] <= c <=> g[1] <= b \/ g[1] = i)
                                   /\ (g[1] = i => g[2] = v)
  /\ <<i, v>> \in Given(O, args, w)
  /\ Reads(O[w].reader, v) /\ q.options[w].actual = ReadAs(O[w].reader, v)

LEMMA ValuesSet ==
  ASSUME NEW O, NEW args, NEW p, NEW q, NEW b, NEW c, NEW w, NEW i, NEW v,
         Values(O, args, p, b), Sets(O, args, p, q, b, c, w, i, v)
  PROVE  Values(O, args, q, c)
  <1> SUFFICES ASSUME NEW name \in DOMAIN O
               PROVE  /\ \A g \in Given(O, args, name) : g[1] <= c => Reads(O[name].reader, g[2])
                      /\ (\A g \in Given(O, args, name) : ~(g[1] <= c)) =>
                           q.options[name].actual = O[name].actual
                      /\ \A g \in Given(O, args, name) :
                           g[1] <= c /\ (\A h \in Given(O, args, name) : h[1] <= c => h[1] <= g[1]) =>
                             q.options[name].actual = ReadAs(O[name].reader, g[2])
    BY DEF Values
  <1>0. /\ b \in Int /\ c \in Int /\ i \in Int /\ b < i /\ i <= c /\ w \in DOMAIN O
        /\ \A g \in Given(O, args, w) : g[1] \in Int /\ (g[1] <= c <=> g[1] <= b \/ g[1] = i)
                                         /\ (g[1] = i => g[2] = v)
        /\ <<i, v>> \in Given(O, args, w)
        /\ Reads(O[w].reader, v) /\ q.options[w].actual = ReadAs(O[w].reader, v)
    BY DEF Sets
  <1>1. CASE name # w
    <2>1. q.options[name].actual = p.options[name].actual
      BY <1>1 DEF Sets
    <2>2. \A g \in Given(O, args, name) : g[1] <= c <=> g[1] <= b
      BY <1>1 DEF Sets
    <2> QED BY <2>1, <2>2 DEF Values
  <1>2. CASE name = w
    <2>1. <<i, v>>[1] = i
      OBVIOUS
    <2>2. \A g \in Given(O, args, w) : g[1] <= c => Reads(O[w].reader, g[2])
      BY <1>0 DEF Values
    <2>3. \A g \in Given(O, args, w) :
            (\A h \in Given(O, args, w) : h[1] <= c => h[1] <= g[1]) /\ g[1] <= c => g[1] = i
      <3>1. \A g \in Given(O, args, w) :
              (\A h \in Given(O, args, w) : h[1] <= c => h[1] <= g[1]) => i <= g[1]
        BY <1>0, <2>1
      <3> QED BY <1>0, <3>1
    <2>4. \A g \in Given(O, args, w) :
            (\A h \in Given(O, args, w) : h[1] <= c => h[1] <= g[1]) /\ g[1] <= c => g[2] = v
      BY <1>0, <2>3
    <2> QED BY <1>0, <1>2, <2>1, <2>2, <2>4
  <1> QED BY <1>1, <1>2

-----------------------------------------------------------------------------
(* The records of the parser. *)
IsOption(o) ==
  o = [letter |-> o.letter, valued |-> o.valued, need |-> o.need, reader |-> o.reader,
       has |-> o.has, actual |-> o.actual]

IsParser(p) ==
  /\ p = [options |-> p.options, read |-> p.read, waits |-> p.waits, ok |-> p.ok]
  /\ p.options = [n \in DOMAIN p.options |-> p.options[n]]
  /\ \A n \in DOMAIN p.options : IsOption(p.options[n])

(* What nothing changes of an option. *)
SameOption(o, u) == u.letter = o.letter /\ u.valued = o.valued /\ u.reader = o.reader

SameParser(p, q) ==
  /\ IsParser(q) /\ DOMAIN q.options = DOMAIN p.options
  /\ \A n \in DOMAIN p.options : SameOption(p.options[n], q.options[n])
  /\ q.read = p.read

(* ... and what changes nothing but flags and errors. *)
Quiet(p, q) ==
  /\ SameParser(p, q) /\ q.waits = p.waits /\ (q.ok => p.ok)
  /\ \A n \in DOMAIN p.options : q.options[n].actual = p.options[n].actual

LEMMA ErrorQuiet ==
  ASSUME NEW p, IsParser(p)
  PROVE  Quiet(p, Error(p)) /\ ~Error(p).ok
  <1>1. PICK q : q = Error(p)
    OBVIOUS
  <1>2. /\ q.options = p.options /\ q.read = p.read /\ q.waits = p.waits /\ ~q.ok
        /\ q = [options |-> q.options, read |-> q.read, waits |-> q.waits, ok |-> q.ok]
    BY <1>1 DEF Error, IsParser
  <1>3. IsParser(q)
    BY <1>2 DEF IsParser
  <1> QED BY <1>1, <1>2, <1>3, Zenon DEF Quiet, SameParser, SameOption

LEMMA OptionHas ==
  ASSUME NEW o, IsOption(o), NEW u, u = [o EXCEPT !.has = TRUE]
  PROVE  IsOption(u) /\ SameOption(o, u) /\ u.actual = o.actual
  BY DEF IsOption, SameOption

LEMMA OptionActual ==
  ASSUME NEW o, IsOption(o), NEW a, NEW u, u = [o EXCEPT !.actual = a]
  PROVE  IsOption(u) /\ SameOption(o, u) /\ u.actual = a
  BY DEF IsOption, SameOption

(* One option changes. *)
LEMMA OneOption ==
  ASSUME NEW p, IsParser(p), NEW name \in DOMAIN p.options,
         NEW u, IsOption(u), SameOption(p.options[name], u),
         NEW q, q = [p EXCEPT !.options = [p.options EXCEPT ![name] = u]]
  PROVE  /\ SameParser(p, q) /\ q.waits = p.waits /\ q.ok = p.ok
         /\ q.options[name] = u
         /\ \A n \in DOMAIN p.options : n # name => q.options[n] = p.options[n]
  <1>1. /\ q.options = [p.options EXCEPT ![name] = u]
        /\ q.read = p.read /\ q.waits = p.waits /\ q.ok = p.ok
        /\ q = [options |-> q.options, read |-> q.read, waits |-> q.waits, ok |-> q.ok]
    BY DEF IsParser
  <1>2. PICK f : f = p.options
    OBVIOUS
  <1>3. PICK g : g = [f EXCEPT ![name] = u]
    OBVIOUS
  <1>4. /\ DOMAIN g = DOMAIN f /\ g[name] = u
        /\ \A n \in DOMAIN f : n # name => g[n] = f[n]
        /\ g = [n \in DOMAIN g |-> g[n]]
    BY <1>2, <1>3
  <1>5. \A n \in DOMAIN f : IsOption(g[n]) /\ SameOption(f[n], g[n])
    <2> SUFFICES ASSUME NEW n \in DOMAIN f PROVE IsOption(g[n]) /\ SameOption(f[n], g[n])
      OBVIOUS
    <2>1. CASE n = name
      BY <1>2, <1>4, <2>1
    <2>2. CASE n # name
      <3>1. g[n] = f[n] /\ IsOption(f[n])
        BY <1>2, <1>4, <2>2 DEF IsParser
      <3> QED BY <3>1 DEF SameOption
    <2> QED BY <2>1, <2>2
  <1>6. q.options = g
    BY <1>1, <1>2, <1>3
  <1>7. IsParser(q)
    BY <1>1, <1>4, <1>5, <1>6 DEF IsParser
  <1> QED BY <1>1, <1>2, <1>4, <1>5, <1>6, <1>7 DEF SameParser

LEMMA FlagQuiet ==
  ASSUME NEW p, IsParser(p), NEW name
  PROVE  Quiet(p, SetFlag(p, name))
  <1>1. CASE name \in DOMAIN p.options /\ ~p.options[name].valued
    <2>1. PICK u : u = [p.options[name] EXCEPT !.has = TRUE]
      OBVIOUS
    <2>2. IsOption(u) /\ SameOption(p.options[name], u) /\ u.actual = p.options[name].actual
      BY <1>1, <2>1, OptionHas DEF IsParser
    <2>3. PICK q : q = [p EXCEPT !.options = [p.options EXCEPT ![name] = u]]
      OBVIOUS
    <2>4. SetFlag(p, name) = q
      BY <1>1, <2>1, <2>3 DEF SetFlag
    <2>5. /\ SameParser(p, q) /\ q.waits = p.waits /\ q.ok = p.ok
          /\ q.options[name] = u
          /\ \A n \in DOMAIN p.options : n # name => q.options[n] = p.options[n]
      BY <1>1, <2>2, <2>3, OneOption
    <2> QED BY <2>2, <2>4, <2>5, Zenon DEF Quiet
  <1>2. CASE ~(name \in DOMAIN p.options /\ ~p.options[name].valued)
    BY <1>2, ErrorQuiet, Zenon DEF SetFlag
  <1> QED BY <1>1, <1>2

LEMMA LetterQuiet ==
  ASSUME NEW p, IsParser(p), NEW letter
  PROVE  Quiet(p, SetLetter(p, letter))
  BY ErrorQuiet, FlagQuiet, Zenon DEF SetLetter

LEMMA QuietQuiet ==
  ASSUME NEW p, NEW q, NEW r, Quiet(p, q), Quiet(q, r)
  PROVE  Quiet(p, r)
  BY Zenon DEF Quiet, SameParser, SameOption

(* A value is stored, if there is no error. *)
Stored(p, q, name, value) ==
  /\ SameParser(p, q) /\ q.waits = p.waits
  /\ q.ok => /\ p.ok /\ name \in DOMAIN p.options /\ p.options[name].valued
             /\ Reads(p.options[name].reader, value)
             /\ q.options[name].actual = ReadAs(p.options[name].reader, value)
             /\ \A n \in DOMAIN p.options : n # name => q.options[n].actual = p.options[n].actual

(* A value that is read is set. *)
LEMMA ValueSet ==
  ASSUME NEW p, IsParser(p), NEW name, NEW value, NEW q, q = SetValue(p, name, value)
  PROVE  Stored(p, q, name, value)
  <1> DEFINE good == /\ name \in DOMAIN p.options /\ p.options[name].valued
                     /\ Reads(p.options[name].reader, value)
  <1>1. CASE good
    <2>1. PICK a, u : /\ a = ReadAs(p.options[name].reader, value)
                      /\ u = [p.options[name] EXCEPT !.has = TRUE]
      OBVIOUS
    <2>1a. PICK v : v = [u EXCEPT !.actual = a]
      OBVIOUS
    <2>2. IsOption(u) /\ SameOption(p.options[name], u)
      BY <1>1, <2>1, OptionHas DEF IsParser
    <2>3. IsOption(v) /\ SameOption(u, v) /\ v.actual = a
      BY <2>1a, <2>2, OptionActual
    <2>4. SameOption(p.options[name], v)
      BY <2>2, <2>3, Zenon DEF SameOption
    <2>5. PICK r : r = [p EXCEPT !.options = [p.options EXCEPT ![name] = v]]
      OBVIOUS
    <2>6. q = r
      BY <1>1, <2>1, <2>1a, <2>5 DEF SetValue, IsParser
    <2>7. /\ SameParser(p, r) /\ r.waits = p.waits /\ r.ok = p.ok
          /\ r.options[name] = v
          /\ \A n \in DOMAIN p.options : n # name => r.options[n] = p.options[n]
      BY <1>1, <2>3, <2>4, <2>5, OneOption
    <2> QED BY <1>1, <2>1, <2>3, <2>6, <2>7, Zenon DEF Stored
  <1>2. CASE ~good
    <2>1. q = Error(p)
      BY <1>2, Zenon DEF SetValue
    <2> QED BY <2>1, ErrorQuiet, Zenon DEF Quiet, Stored
  <1> QED BY <1>1, <1>2

-----------------------------------------------------------------------------
(* The letters before the last one, whose parsers are defined by recursion. *)
Trail(p, w, m, g) ==
  g = [n \in 0 .. m |-> IF n = 0 THEN p ELSE SetLetter(g[n - 1], w[n])]

LEMMA TrailExists ==
  ASSUME NEW p, NEW w, NEW m \in Nat
  PROVE  \E g : Trail(p, w, m, g)
  <1> DEFINE T == {k \in Nat : \E g : Trail(p, w, k, g)}
  <1>1. 0 \in T
    <2>1. Trail(p, w, 0, [n \in 0 .. 0 |-> p])
      BY DEF Trail
    <2> QED BY <2>1
  <1>2. ASSUME NEW k \in Nat, k \in T PROVE k + 1 \in T
    <2>1. PICK g : Trail(p, w, k, g)
      BY <1>2
    <2> DEFINE h == [n \in 0 .. k + 1 |-> IF n = 0 THEN p ELSE SetLetter(g[n - 1], w[n])]
    <2>2. \A n \in 0 .. k : h[n] = g[n]
      BY <2>1 DEF Trail
    <2>3. \A n \in 0 .. k + 1 : n # 0 => g[n - 1] = h[n - 1]
      BY <2>2
    <2>4. \A n \in 0 .. k + 1 : h[n] = IF n = 0 THEN p ELSE SetLetter(h[n - 1], w[n])
      BY <2>3
    <2>5. h = [n \in 0 .. k + 1 |-> h[n]]
      OBVIOUS
    <2> HIDE DEF h
    <2>6. Trail(p, w, k + 1, h)
      BY <2>4, <2>5 DEF Trail
    <2> QED BY <2>6
  <1> HIDE DEF T
  <1>3. Nat \subseteq T
    BY <1>1, <1>2, SetInduction
  <1> QED BY <1>3 DEF T

LEMMA TrailsAgree ==
  ASSUME NEW p, NEW w, NEW m \in Nat, NEW k \in Nat, NEW g, NEW h,
         Trail(p, w, m, g), Trail(p, w, k, h)
  PROVE  \A n \in Nat : n <= m /\ n <= k => g[n] = h[n]
  <1> DEFINE T == {n \in Nat : n <= m /\ n <= k => g[n] = h[n]}
  <1>0. /\ g[0] = p /\ h[0] = p
        /\ \A n \in Nat : n + 1 <= m => g[n + 1] = SetLetter(g[n], w[n + 1])
        /\ \A n \in Nat : n + 1 <= k => h[n + 1] = SetLetter(h[n], w[n + 1])
    BY DEF Trail
  <1>1. 0 \in T
    BY <1>0
  <1>2. ASSUME NEW n \in Nat, n \in T PROVE n + 1 \in T
    BY <1>0, <1>2
  <1> HIDE DEF T
  <1>3. Nat \subseteq T
    BY <1>1, <1>2, SetInduction
  <1> QED BY <1>3 DEF T

TrailOf(p, w) == CHOOSE g : g = [n \in Nat |-> IF n = 0 THEN p ELSE SetLetter(g[n - 1], w[n])]

LEMMA TrailRecursion ==
  ASSUME NEW p, NEW w, NEW f, f = TrailOf(p, w)
  PROVE  f[0] = p /\ \A n \in Nat : f[n + 1] = SetLetter(f[n], w[n + 1])
  <1> DEFINE G(m) == CHOOSE g : Trail(p, w, m, g)
             h == [n \in Nat |-> G(n)[n]]
  <1>1. \A m \in Nat : Trail(p, w, m, G(m))
    BY TrailExists
  <1> HIDE DEF G
  <1>2. \A n \in Nat : n # 0 => G(n)[n] = SetLetter(G(n - 1)[n - 1], w[n])
    <2> SUFFICES ASSUME NEW n \in Nat, n # 0 PROVE G(n)[n] = SetLetter(G(n - 1)[n - 1], w[n])
      OBVIOUS
    <2>1. n - 1 \in Nat /\ n - 1 <= n
      OBVIOUS
    <2>2. Trail(p, w, n, G(n)) /\ Trail(p, w, n - 1, G(n - 1))
      BY <1>1, <2>1
    <2>3. G(n)[n - 1] = G(n - 1)[n - 1]
      BY <2>1, <2>2, TrailsAgree
    <2>4. G(n)[n] = SetLetter(G(n)[n - 1], w[n])
      BY <2>2 DEF Trail
    <2> QED BY <2>3, <2>4
  <1>3. G(0)[0] = p
    <2>1. Trail(p, w, 0, G(0))
      BY <1>1
    <2> QED BY <2>1 DEF Trail
  <1>4. \A n \in Nat : h[n] = IF n = 0 THEN p ELSE SetLetter(h[n - 1], w[n])
    BY <1>2, <1>3
  <1>5. h = [n \in Nat |-> h[n]]
    OBVIOUS
  <1> HIDE DEF h
  <1>6. h = [n \in Nat |-> IF n = 0 THEN p ELSE SetLetter(h[n - 1], w[n])]
    BY <1>4, <1>5
  <1>7. f = [n \in Nat |-> IF n = 0 THEN p ELSE SetLetter(f[n - 1], w[n])]
    BY <1>6 DEF TrailOf
  <1> QED BY <1>7

LEMMA TrailQuiet ==
  ASSUME NEW p, IsParser(p), NEW w, NEW f,
         f[0] = p, \A n \in Nat : f[n + 1] = SetLetter(f[n], w[n + 1])
  PROVE  \A n \in Nat : Quiet(p, f[n])
  <1> DEFINE T == {n \in Nat : Quiet(p, f[n])}
  <1>1. 0 \in T
    BY Zenon DEF Quiet, SameParser, SameOption
  <1>2. ASSUME NEW n \in Nat, n \in T PROVE n + 1 \in T
    <2>1. Quiet(p, f[n]) /\ IsParser(f[n])
      BY <1>2, Zenon DEF Quiet, SameParser
    <2>2. Quiet(p, f[n + 1])
      BY <2>1, LetterQuiet, QuietQuiet, Zenon
    <2> QED BY <2>2
  <1> HIDE DEF T
  <1>3. Nat \subseteq T
    BY <1>1, <1>2, SetInduction
  <1> QED BY <1>3 DEF T

(* What ParseShort does when its last letter is or is not an option that   *)
(* takes a value.                                                          *)
LEMMA ShortDoes ==
  ASSUME NEW p, IsParser(p), NEW arg, NEW isLast, Len(arg.letters) \in Nat \ {0}
  PROVE  LET valued(q) == {name \in Named(q, Last(arg.letters)) : q.options[name].valued}
         IN  \E before : /\ Quiet(p, before)
                         /\ valued(p) # {} /\ ~isLast =>
                              ParseShort(p, arg, isLast) = Waits(before, CHOOSE name \in valued(p) : TRUE)
                         /\ ~(valued(p) # {} /\ ~isLast) => Quiet(p, ParseShort(p, arg, isLast))
  <1> DEFINE w == arg.letters
             f == TrailOf(p, w)
             letter == Last(arg.letters)
             before == f[Len(arg.letters) - 1]
             valued == {name \in Named(p, letter) : p.options[name].valued}
  <1>1. Quiet(p, before)
    <2>1. Len(arg.letters) - 1 \in Nat
      OBVIOUS
    <2> HIDE DEF w
    <2>2. f[0] = p /\ \A n \in Nat : f[n + 1] = SetLetter(f[n], w[n + 1])
      BY TrailRecursion
    <2> HIDE DEF f
    <2>3. \A n \in Nat : Quiet(p, f[n])
      BY <2>2, TrailQuiet
    <2> QED BY <2>1, <2>3
  <1>2. ParseShort(p, arg, isLast) =
          IF valued # {} /\ ~isLast THEN Waits(before, CHOOSE name \in valued : TRUE)
          ELSE SetLetter(before, letter)
    BY DEF ParseShort, TrailOf
  <1> HIDE DEF before, letter
  <1>3. Quiet(p, SetLetter(before, letter))
    <2>1. IsParser(before)
      BY <1>1, Zenon DEF Quiet, SameParser
    <2> QED BY <1>1, <2>1, LetterQuiet, QuietQuiet, Zenon
  <1> HIDE DEF valued
  <1>4. \E b : /\ Quiet(p, b)
               /\ valued # {} /\ ~isLast =>
                    ParseShort(p, arg, isLast) = Waits(b, CHOOSE name \in valued : TRUE)
               /\ ~(valued # {} /\ ~isLast) => Quiet(p, ParseShort(p, arg, isLast))
    BY <1>1, <1>2, <1>3, Zenon
  <1> QED BY <1>4, Zenon DEF valued, letter

-----------------------------------------------------------------------------
(* The options that a program declares. *)
Declared(O) ==
  /\ "help" \notin DOMAIN O /\ None \notin DOMAIN O
  /\ \A n \in DOMAIN O : O[n].valued /\ O[n].letter # "?"
  /\ \A m \in DOMAIN O, n \in DOMAIN O : O[m].letter = O[n].letter => m = n

(* ... and that its parser has to the end. *)
Kept(O, p) ==
  /\ DOMAIN p.options = DOMAIN O \cup {"help"}
  /\ \A n \in DOMAIN O : SameOption(O[n], p.options[n])
  /\ ~p.options["help"].valued

(* A parser that has read k arguments. *)
At(O, args, p, k) ==
  /\ p.waits = None \/ p.waits \in DOMAIN O
  /\ p.waits # None =>
       k \in 1 .. Len(args) - 1 /\ k \in Names(O, args) /\ p.waits \in AsksFor(O, args[k])
  /\ p.waits = None /\ k < Len(args) => k + 1 \in Names(O, args)
  /\ p.ok => Values(O, args, p, IF p.waits = None THEN k ELSE k - 1)

ParserInv(O, args, p) ==
  IsParser(p) /\ Kept(O, p) /\ p.read \in 0 .. Len(args) /\ At(O, args, p, p.read)

LEMMA SameKept ==
  ASSUME NEW O, NEW p, NEW q, Kept(O, p), SameParser(p, q)
  PROVE  Kept(O, q)
  BY Zenon DEF Kept, SameParser, SameOption

LEMMA AsksOne ==
  ASSUME NEW O, Declared(O), NEW arg, NEW m \in AsksFor(O, arg), NEW n \in AsksFor(O, arg)
  PROVE  m = n
  BY DEF AsksFor, Declared

LEMMA AsksNotHere ==
  ASSUME NEW O, NEW args, NEW i, Asks(O, args, i), NEW name
  PROVE  ~GivesHere(O, args, name, i)
  BY DEF Asks, AsksFor, GivesHere

(* An argument that gives no value and asks for none. *)
LEMMA QuietStep ==
  ASSUME NEW O, NEW args, NEW n \in Nat, n = Len(args), DOMAIN args = 1 .. n,
         NEW p, NEW k \in Nat, k < n, At(O, args, p, k), p.waits = None,
         DOMAIN O \subseteq DOMAIN p.options,
         NEW q, Quiet(p, q), k + 1 < n => ~Asks(O, args, k + 1),
         q.ok => \A name \in DOMAIN O : ~GivesHere(O, args, name, k + 1)
  PROVE  At(O, args, q, k + 1)
  <1>1. q.waits = None /\ (q.ok => p.ok)
    BY Zenon DEF Quiet
  <1>2. ASSUME k + 1 < n PROVE (k + 1) + 1 \in Names(O, args)
    <2>1. PICK i \in 1 .. n - 1 : i = k + 1 /\ ~Asks(O, args, i)
      BY <1>2
    <2>2. i + 1 \in Names(O, args)
      BY <2>1, NamesNext
    <2> QED BY <2>1, <2>2
  <1>3. ASSUME q.ok PROVE Values(O, args, q, k + 1)
    <2>1. Values(O, args, p, k)
      BY <1>1, <1>3 DEF At
    <2>2. \A name \in DOMAIN O : q.options[name].actual = p.options[name].actual
      BY DEF Quiet
    <2>3. \A name \in DOMAIN O : \A g \in Given(O, args, name) : g[1] <= k + 1 <=> g[1] <= k
      <3> SUFFICES ASSUME NEW name \in DOMAIN O, NEW g \in Given(O, args, name)
                   PROVE  g[1] <= k + 1 <=> g[1] <= k
        OBVIOUS
      <3>1. g[1] \in 1 .. n
        BY GivenPlaces, NamesPlaces
      <3>2. g[1] # k + 1
        BY <1>3, GivenPlaces DEF GivesNext, Asks
      <3> QED BY <3>1, <3>2
    <2> QED BY <2>1, <2>2, <2>3, ValuesQuiet
  <1> QED BY <1>1, <1>2, <1>3 DEF At

(* One that asks for a value. *)
LEMMA WaitsStep ==
  ASSUME NEW O, Declared(O), NEW args, NEW n \in Nat, n = Len(args), DOMAIN args = 1 .. n,
         NEW p, NEW k \in Nat, k + 1 < n, At(O, args, p, k), p.waits = None,
         DOMAIN O \subseteq DOMAIN p.options,
         NEW b, Quiet(p, b), NEW name, name \in AsksFor(O, args[k + 1])
  PROVE  SameParser(p, Waits(b, name)) /\ At(O, args, Waits(b, name), k + 1)
  <1>1. PICK q : q = Waits(b, name)
    OBVIOUS
  <1>2. IsParser(b)
    BY Zenon DEF Quiet, SameParser
  <1>3. /\ q.options = b.options /\ q.read = b.read /\ q.waits = name /\ q.ok = b.ok
        /\ q = [options |-> q.options, read |-> q.read, waits |-> q.waits, ok |-> q.ok]
    BY <1>1, <1>2 DEF Waits, IsParser
  <1>4. IsParser(q)
    BY <1>2, <1>3 DEF IsParser
  <1>5. SameParser(p, q)
    BY <1>3, <1>4, Zenon DEF Quiet, SameParser
  <1>6. name \in DOMAIN O /\ name # None
    BY DEF AsksFor, Declared
  <1>7. k + 1 \in Names(O, args) /\ k + 1 \in 1 .. n - 1
    BY DEF At
  <1>8. ASSUME q.ok PROVE Values(O, args, q, k)
    <2>1. p.ok
      BY <1>3, <1>8, Zenon DEF Quiet
    <2>2. Values(O, args, p, k)
      BY <2>1 DEF At
    <2>3. \A m \in DOMAIN O : q.options[m].actual = p.options[m].actual
      BY <1>3 DEF Quiet
    <2> QED BY <2>2, <2>3, ValuesQuiet
  <1>9. (k + 1) - 1 = k
    OBVIOUS
  <1>10. At(O, args, q, k + 1)
    BY <1>3, <1>6, <1>7, <1>8, <1>9 DEF At
  <1> QED BY <1>1, <1>5, <1>10

(* The value that was asked for. *)
LEMMA ValueStep ==
  ASSUME NEW O, Declared(O), NEW args, NEW n \in Nat, n = Len(args), DOMAIN args = 1 .. n,
         NEW p, IsParser(p), Kept(O, p), NEW k \in Nat, k < n, At(O, args, p, k), p.waits # None,
         NEW q, q = [SetValue(p, p.waits, args[k + 1]) EXCEPT !.waits = None]
  PROVE  SameParser(p, q) /\ At(O, args, q, k + 1)
  <1>1. PICK w, v, s : w = p.waits /\ v = args[k + 1] /\ s = SetValue(p, w, v)
    OBVIOUS
  <1>2. /\ w \in DOMAIN O /\ w \in AsksFor(O, args[k])
        /\ k \in 1 .. n - 1 /\ k \in Names(O, args) /\ Asks(O, args, k)
    BY <1>1 DEF At, Asks
  <1>3. /\ SameParser(p, s)
        /\ s.ok => /\ p.ok /\ Reads(p.options[w].reader, v)
                   /\ s.options[w].actual = ReadAs(p.options[w].reader, v)
                   /\ \A m \in DOMAIN p.options : m # w => s.options[m].actual = p.options[m].actual
    <2>1. Stored(p, s, w, v)
      BY <1>1, ValueSet
    <2> QED BY <2>1, Zenon DEF Stored
  <1>4. /\ q.options = s.options /\ q.read = s.read /\ q.waits = None /\ q.ok = s.ok
        /\ q = [options |-> q.options, read |-> q.read, waits |-> q.waits, ok |-> q.ok]
    BY <1>1, <1>3 DEF SameParser, IsParser
  <1>5. IsParser(q)
    BY <1>3, <1>4 DEF SameParser, IsParser
  <1>6. SameParser(p, q)
    BY <1>3, <1>4, <1>5, Zenon DEF SameParser
  <1>7. k + 1 \notin Names(O, args)
    BY <1>2, NamesNext
  <1>8. k + 1 < n => (k + 1) + 1 \in Names(O, args)
    BY <1>7, NamesNext
  <1>9. ASSUME q.ok PROVE Values(O, args, q, k + 1)
    <2>1. s.ok /\ p.ok
      BY <1>3, <1>4, <1>9, Zenon
    <2>2. Values(O, args, p, k - 1)
      BY <1>1, <2>1 DEF At
    <2>3. p.options[w].reader = O[w].reader /\ w \in DOMAIN p.options
      BY <1>2 DEF Kept, SameOption
    <2>4. Reads(O[w].reader, v) /\ q.options[w].actual = ReadAs(O[w].reader, v)
      BY <1>3, <1>4, <2>1, <2>3, Zenon
    <2>5. \A m \in DOMAIN O \ {w} : q.options[m].actual = p.options[m].actual
      <3>1. \A m \in DOMAIN O : m \in DOMAIN p.options
        BY DEF Kept
      <3>2. \A m \in DOMAIN p.options : m # w => s.options[m].actual = p.options[m].actual
        BY <1>3, <2>1, Zenon
      <3>3. q.options = s.options
        BY <1>4, Zenon
      <3> QED BY <3>1, <3>2, <3>3, Zenon
    <2>6. ASSUME NEW m \in DOMAIN O, NEW g \in Given(O, args, m)
          PROVE  /\ g[1] \in Int /\ (g[1] <= k + 1 <=> g[1] <= k - 1 \/ g[1] = k)
                 /\ g[1] = k => m = w /\ g[2] = v
      <3>1. g[1] \in 1 .. n /\ g[1] # k + 1
        BY <1>7, GivenPlaces, NamesPlaces
      <3>2. ASSUME g[1] = k PROVE m = w /\ g[2] = v
        <4>1. ~GivesHere(O, args, m, k)
          BY <1>2, AsksNotHere
        <4>2. GivesNext(O, args, m, k) /\ g = <<k, args[k + 1]>>
          BY <3>2, <4>1, GivenPlaces
        <4>3. m \in AsksFor(O, args[k])
          BY <4>2 DEF GivesNext
        <4>4. m = w
          BY <1>2, <4>3, AsksOne
        <4>5. g[2] = args[k + 1]
          BY <4>2
        <4> QED BY <1>1, <4>4, <4>5
      <3> QED BY <3>1, <3>2
    <2>7. <<k, v>> \in Given(O, args, w)
      BY <1>1, <1>2, GivenIs DEF GivesNext
    <2>8. \A m \in DOMAIN O \ {w} : \A g \in Given(O, args, m) : g[1] <= k + 1 <=> g[1] <= k - 1
      BY <2>6
    <2>9. \A g \in Given(O, args, w) : g[1] \in Int /\ (g[1] <= k + 1 <=> g[1] <= k - 1 \/ g[1] = k)
                                       /\ (g[1] = k => g[2] = v)
      BY <1>2, <2>6
    <2>10. k - 1 \in Int /\ k + 1 \in Int /\ k \in Int /\ k - 1 < k /\ k <= k + 1
      OBVIOUS
    <2>11. Sets(O, args, p, q, k - 1, k + 1, w, k, v)
      BY <1>2, <2>4, <2>5, <2>7, <2>8, <2>9, <2>10, Zenon DEF Sets
    <2> QED BY <2>2, <2>11, ValuesSet, Zenon
  <1> QED BY <1>4, <1>6, <1>8, <1>9 DEF At

(* --name=value. *)
LEMMA HereStep ==
  ASSUME NEW O, Declared(O), NEW args, NEW n \in Nat, n = Len(args), DOMAIN args = 1 .. n,
         NEW p, IsParser(p), Kept(O, p), NEW k \in Nat, k < n, At(O, args, p, k), p.waits = None,
         NEW a, a = Shape[args[k + 1]], a.kind = "long", a.eq,
         NEW w, NEW v, w = a.name, v = a.value, NEW q, Stored(p, q, w, v)
  PROVE  SameParser(p, q) /\ At(O, args, q, k + 1)
  <1>2. /\ SameParser(p, q) /\ q.waits = p.waits
        /\ q.ok => /\ p.ok /\ w \in DOMAIN p.options /\ p.options[w].valued
                   /\ Reads(p.options[w].reader, v)
                   /\ q.options[w].actual = ReadAs(p.options[w].reader, v)
                   /\ \A m \in DOMAIN p.options : m # w => q.options[m].actual = p.options[m].actual
    BY Zenon DEF Stored
  <1>3. ~Asks(O, args, k + 1)
    BY DEF Asks, AsksFor
  <1>4. k + 1 < n => (k + 1) + 1 \in Names(O, args)
    BY <1>3, NamesNext
  <1>5. k + 1 \in Names(O, args)
    BY DEF At
  <1>6. ASSUME q.ok PROVE Values(O, args, q, k + 1)
    <2>1. p.ok /\ w \in DOMAIN O
      BY <1>2, <1>6, Zenon DEF Kept
    <2>2. Values(O, args, p, k)
      BY <2>1 DEF At
    <2>3. p.options[w].reader = O[w].reader
      BY <2>1 DEF Kept, SameOption
    <2>4. Reads(O[w].reader, v) /\ q.options[w].actual = ReadAs(O[w].reader, v)
      BY <1>2, <1>6, <2>3, Zenon
    <2>5. \A m \in DOMAIN O \ {w} : q.options[m].actual = p.options[m].actual
      <3>1. \A m \in DOMAIN O : m \in DOMAIN p.options
        BY DEF Kept
      <3> QED BY <1>2, <1>6, <3>1, Zenon
    <2>6. ASSUME NEW m \in DOMAIN O, NEW g \in Given(O, args, m)
          PROVE  /\ g[1] \in Int /\ (g[1] <= k + 1 <=> g[1] <= k \/ g[1] = k + 1)
                 /\ g[1] = k + 1 => m = w /\ g[2] = v
      <3>1. g[1] \in 1 .. n
        BY GivenPlaces, NamesPlaces
      <3>2. ASSUME g[1] = k + 1 PROVE m = w /\ g[2] = v
        <4>1. ~GivesNext(O, args, m, k + 1)
          BY <1>3 DEF GivesNext, Asks
        <4>2. GivesHere(O, args, m, k + 1) /\ g = <<k + 1, Shape[args[k + 1]].value>>
          BY <3>2, <4>1, GivenPlaces
        <4>3. m = w
          BY <4>2 DEF GivesHere
        <4>4. g[2] = Shape[args[k + 1]].value
          BY <4>2
        <4> QED BY <4>3, <4>4
      <3> QED BY <3>1, <3>2
    <2>7. <<k + 1, v>> \in Given(O, args, w)
      <3>1. GivesHere(O, args, w, k + 1)
        BY DEF GivesHere
      <3> QED BY <1>5, <3>1, GivenIs
    <2>8. \A m \in DOMAIN O \ {w} : \A g \in Given(O, args, m) : g[1] <= k + 1 <=> g[1] <= k
      BY <2>6
    <2>9. \A g \in Given(O, args, w) : g[1] \in Int /\ (g[1] <= k + 1 <=> g[1] <= k \/ g[1] = k + 1)
                                       /\ (g[1] = k + 1 => g[2] = v)
      BY <2>1, <2>6
    <2>10. k + 1 \in Int /\ k \in Int /\ k < k + 1 /\ k + 1 <= k + 1
      OBVIOUS
    <2>11. Sets(O, args, p, q, k, k + 1, w, k + 1, v)
      BY <2>1, <2>4, <2>5, <2>7, <2>8, <2>9, <2>10, Zenon DEF Sets
    <2> QED BY <2>2, <2>11, ValuesSet
  <1> QED BY <1>2, <1>4, <1>6 DEF At

-----------------------------------------------------------------------------
(* One argument. *)
LEMMA ArgStep ==
  ASSUME NEW O, Declared(O), NEW args, NEW n \in Nat, n = Len(args), DOMAIN args = 1 .. n,
         NEW p, IsParser(p), Kept(O, p), NEW k \in Nat, k < n, At(O, args, p, k),
         args[k + 1] \in DOMAIN Shape,
         NEW isLast, isLast <=> (k + 1 = n), NEW q, q = ParseArg(p, args[k + 1], isLast)
  PROVE  SameParser(p, q) /\ At(O, args, q, k + 1)
  <1>0. PICK arg, s : arg = args[k + 1] /\ s = Shape[arg]
    OBVIOUS
  <1>1. Quiet(p, p)
    BY Zenon DEF Quiet, SameParser, SameOption
  <1>2. DOMAIN O \subseteq DOMAIN p.options
    BY DEF Kept
  <1>3. ASSUME Quiet(p, q), p.waits = None, k + 1 < n => ~Asks(O, args, k + 1),
               q.ok => \A name \in DOMAIN O : ~GivesHere(O, args, name, k + 1)
        PROVE  SameParser(p, q) /\ At(O, args, q, k + 1)
    <2>1. At(O, args, q, k + 1)
      BY <1>2, <1>3, QuietStep
    <2> QED BY <1>3, <2>1, Zenon DEF Quiet
  <1>4. CASE p.waits # None
    <2>1. q = [SetValue(p, p.waits, args[k + 1]) EXCEPT !.waits = None]
      BY <1>4, Zenon DEF ParseArg
    <2> QED BY <1>4, <2>1, ValueStep
  <1>5. CASE p.waits = None /\ s.kind = "long" /\ s.eq
    <2>1. q = ParseLong(p, s, isLast)
      BY <1>0, <1>5, Zenon DEF ParseArg
    <2>2. PICK w, v : w = s.name /\ v = s.value
      OBVIOUS
    <2>3. Stored(p, q, w, v)
      <3>1. q = SetValue(p, w, v)
        BY <1>5, <2>1, <2>2, Zenon DEF ParseLong
      <3> QED BY <3>1, ValueSet
    <2>4. s = Shape[args[k + 1]]
      BY <1>0
    <2> QED BY <1>5, <2>2, <2>3, <2>4, HereStep
  <1>6. CASE p.waits = None /\ s.kind = "long" /\ ~s.eq
    <2>1. q = ParseLong(p, s, isLast)
      BY <1>0, <1>6, Zenon DEF ParseArg
    <2>2. \A name : ~GivesHere(O, args, name, k + 1)
      BY <1>0, <1>6, Zenon DEF GivesHere
    <2>3. CASE s.name \notin DOMAIN p.options
      <3>1. q = Error(p)
        BY <1>6, <2>1, <2>3, Zenon DEF ParseLong
      <3>2. ~Asks(O, args, k + 1)
        BY <1>0, <1>2, <1>6, <2>3 DEF Asks, AsksFor
      <3>3. Quiet(p, q)
        BY <3>1, ErrorQuiet, Zenon
      <3> QED BY <1>3, <1>6, <2>2, <3>2, <3>3, Zenon
    <2>4. CASE s.name \in DOMAIN p.options /\ ~p.options[s.name].valued
      <3>1. q = SetFlag(p, s.name)
        BY <1>6, <2>1, <2>4, Zenon DEF ParseLong
      <3>2. s.name \notin DOMAIN O
        BY <2>4, Zenon DEF Kept, Declared, SameOption
      <3>3. ~Asks(O, args, k + 1)
        BY <1>0, <1>6, <3>2 DEF Asks, AsksFor
      <3>4. Quiet(p, q)
        BY <3>1, FlagQuiet, Zenon
      <3> QED BY <1>3, <1>6, <2>2, <3>3, <3>4, Zenon
    <2>5. CASE s.name \in DOMAIN p.options /\ p.options[s.name].valued /\ isLast
      <3>1. q = Error(p)
        BY <1>6, <2>1, <2>5, Zenon DEF ParseLong
      <3>2. ~(k + 1 < n)
        BY <2>5
      <3>3. Quiet(p, q)
        BY <3>1, ErrorQuiet, Zenon
      <3> QED BY <1>3, <1>6, <2>2, <3>2, <3>3, Zenon
    <2>6. CASE s.name \in DOMAIN p.options /\ p.options[s.name].valued /\ ~isLast
      <3>1. q = Waits(p, s.name)
        BY <1>6, <2>1, <2>6, Zenon DEF ParseLong
      <3>2. s.name \in DOMAIN O
        BY <2>6, Zenon DEF Kept
      <3>3. s.name \in AsksFor(O, args[k + 1])
        BY <1>0, <1>6, <3>2 DEF AsksFor, Declared
      <3>4. k + 1 < n
        BY <2>6
      <3>5. PICK name : name = s.name
        OBVIOUS
      <3>6. SameParser(p, Waits(p, name)) /\ At(O, args, Waits(p, name), k + 1)
        BY <1>1, <1>2, <1>6, <3>3, <3>4, <3>5, WaitsStep
      <3> QED BY <3>1, <3>5, <3>6, Zenon
    <2> QED BY <2>3, <2>4, <2>5, <2>6
  <1>7. CASE p.waits = None /\ s.kind = "short"
    <2> DEFINE valued == {name \in Named(p, Last(s.letters)) : p.options[name].valued}
    <2>1. q = ParseShort(p, s, isLast)
      BY <1>0, <1>7, Zenon DEF ParseArg
    <2>2. \A name : ~GivesHere(O, args, name, k + 1)
      BY <1>0, <1>7 DEF GivesHere
    <2>3. valued = AsksFor(O, args[k + 1])
      <3>1. \A name : name \in valued <=> /\ name \in DOMAIN O /\ O[name].valued
                                          /\ O[name].letter = Last(s.letters)
        BY DEF Named, Kept, SameOption
      <3> HIDE DEF valued
      <3>2. \A name : name \in AsksFor(O, args[k + 1]) <=> name \in valued
        BY <1>0, <1>7, <3>1 DEF AsksFor
      <3>3. \A name \in valued : name \in AsksFor(O, args[k + 1])
        BY <3>2
      <3> QED BY <3>2
    <2>4. PICK before : /\ Quiet(p, before)
                        /\ valued # {} /\ ~isLast =>
                             ParseShort(p, s, isLast) = Waits(before, CHOOSE name \in valued : TRUE)
                        /\ ~(valued # {} /\ ~isLast) => Quiet(p, ParseShort(p, s, isLast))
      <3>1. Len(s.letters) \in Nat \ {0}
        BY <1>0, <1>7, CommandLineAssumption
      <3> QED BY <3>1, ShortDoes
    <2> HIDE DEF valued
    <2>5. CASE valued # {} /\ ~isLast
      <3>1. PICK name : name = CHOOSE x \in valued : TRUE
        OBVIOUS
      <3>2. name \in AsksFor(O, args[k + 1])
        BY <2>3, <2>5, <3>1
      <3>3. k + 1 < n
        BY <2>5
      <3>4. SameParser(p, Waits(before, name)) /\ At(O, args, Waits(before, name), k + 1)
        BY <1>2, <1>7, <2>4, <3>2, <3>3, WaitsStep
      <3> QED BY <2>1, <2>4, <2>5, <3>1, <3>4, Zenon
    <2>6. CASE ~(valued # {} /\ ~isLast)
      <3>1. Quiet(p, q)
        BY <2>1, <2>4, <2>6, Zenon
      <3>2. k + 1 < n => ~Asks(O, args, k + 1)
        BY <2>3, <2>6 DEF Asks
      <3> QED BY <1>3, <1>7, <2>2, <3>1, <3>2, Zenon
    <2> QED BY <2>5, <2>6
  <1>8. CASE p.waits = None /\ s.kind # "long" /\ s.kind # "short"
    <2>1. q = p
      BY <1>0, <1>8, Zenon DEF ParseArg
    <2>2. ~Asks(O, args, k + 1)
      BY <1>0, <1>8 DEF Asks, AsksFor
    <2>3. \A name : ~GivesHere(O, args, name, k + 1)
      BY <1>0, <1>8, Zenon DEF GivesHere
    <2> QED BY <1>1, <1>3, <1>8, <2>1, <2>2, <2>3, Zenon
  <1> QED BY <1>4, <1>5, <1>6, <1>7, <1>8, Zenon

(* Whatever the argument. *)
Reading(O, args, n, p, k) ==
  /\ n \in Nat /\ n = Len(args) /\ DOMAIN args = 1 .. n
  /\ IsParser(p) /\ Kept(O, p) /\ k \in Nat /\ k < n /\ At(O, args, p, k)
  /\ args[k + 1] \in DOMAIN Shape

LEMMA ArgRead ==
  ASSUME NEW O, Declared(O), NEW args, NEW n, NEW p, NEW k, Reading(O, args, n, p, k)
  PROVE  /\ SameParser(p, ParseArg(p, args[k + 1], k + 1 = n))
         /\ At(O, args, ParseArg(p, args[k + 1], k + 1 = n), k + 1)
  <1>1. /\ n \in Nat /\ n = Len(args) /\ DOMAIN args = 1 .. n
        /\ IsParser(p) /\ Kept(O, p) /\ k \in Nat /\ k < n /\ At(O, args, p, k)
        /\ args[k + 1] \in DOMAIN Shape
    BY DEF Reading
  <1>2. PICK isLast \in BOOLEAN : isLast <=> (k + 1 = n)
    OBVIOUS
  <1>3. PICK q : q = ParseArg(p, args[k + 1], isLast)
    OBVIOUS
  <1>4. SameParser(p, q) /\ At(O, args, q, k + 1)
    BY <1>1, <1>2, <1>3, ArgStep
  <1> QED BY <1>2, <1>3, <1>4

(* A round of the loop. *)
LEMMA ParseNextKeeps ==
  ASSUME NEW O, Declared(O), NEW args \in Seq(DOMAIN Shape),
         NEW p, ParserInv(O, args, p), ~IsParsed(p, args)
  PROVE  ParserInv(O, args, ParseNext(p, args))
  <1>1. PICK n \in Nat : n = Len(args) /\ DOMAIN args = 1 .. n
    OBVIOUS
  <1>2. PICK k \in Nat : k = p.read /\ k < n
    BY <1>1 DEF ParserInv, IsParsed
  <1>3. IsParser(p) /\ Kept(O, p) /\ At(O, args, p, k)
    BY <1>2 DEF ParserInv
  <1>4. PICK q : q = ParseArg(p, args[k + 1], k + 1 = n)
    OBVIOUS
  <1>6. SameParser(p, q) /\ At(O, args, q, k + 1)
    <2>1. args[k + 1] \in DOMAIN Shape
      BY <1>1, <1>2
    <2>2. Reading(O, args, n, p, k)
      BY <1>1, <1>2, <1>3, <2>1 DEF Reading
    <2> QED BY <1>4, <2>2, ArgRead, Zenon
  <1>7. PICK r : r = [q EXCEPT !.read = @ + 1]
    OBVIOUS
  <1>8. ParseNext(p, args) = r
    BY <1>1, <1>2, <1>4, <1>7 DEF ParseNext
  <1>9. /\ r.options = q.options /\ r.read = k + 1 /\ r.waits = q.waits /\ r.ok = q.ok
        /\ r = [options |-> r.options, read |-> r.read, waits |-> r.waits, ok |-> r.ok]
    BY <1>2, <1>6, <1>7 DEF SameParser, IsParser
  <1>10. IsParser(r)
    BY <1>6, <1>9 DEF SameParser, IsParser
  <1>11. Kept(O, r)
    <2>1. Kept(O, q)
      BY <1>3, <1>6, SameKept
    <2> QED BY <1>9, <2>1, Zenon DEF Kept
  <1>12. \A b : Values(O, args, q, b) => Values(O, args, r, b)
    BY <1>9, Zenon DEF Values
  <1>13. At(O, args, r, k + 1)
    BY <1>6, <1>9, <1>12, Zenon DEF At
  <1>14. r.read \in 0 .. Len(args)
    BY <1>1, <1>2, <1>9
  <1> QED BY <1>8, <1>9, <1>10, <1>11, <1>13, <1>14 DEF ParserInv

-----------------------------------------------------------------------------
(* The parsers of the two programs. *)
Made(O) == O = [n \in DOMAIN O |-> O[n]] /\ \A n \in DOMAIN O : IsOption(O[n])

LEMMA CommonDeclared == Declared(CommonOptions) /\ Made(CommonOptions)
  <1>1. /\ DOMAIN CommonOptions = {"addr", "port"}
        /\ CommonOptions["addr"] = Option("i", "string", DefaultAddr)
        /\ CommonOptions["port"] = Option("p", "port", DefaultPort)
        /\ CommonOptions = [n \in DOMAIN CommonOptions |-> CommonOptions[n]]
    BY DEF CommonOptions
  <1>2. \A l, r, d : IsOption(Option(l, r, d)) /\ Option(l, r, d).valued /\ Option(l, r, d).letter = l
    BY DEF IsOption, Option
  <1>3. \A n \in DOMAIN CommonOptions : IsOption(CommonOptions[n]) /\ CommonOptions[n].valued
    BY <1>1, <1>2
  <1>4. CommonOptions["addr"].letter = "i" /\ CommonOptions["port"].letter = "p"
    BY <1>1, <1>2
  <1>5. "help" \notin DOMAIN CommonOptions /\ None \notin DOMAIN CommonOptions
    BY <1>1 DEF None
  <1> QED BY <1>1, <1>3, <1>4, <1>5 DEF Declared, Made

LEMMA SenderDeclared == Declared(SenderOptions) /\ Made(SenderOptions)
  <1>0. /\ CommonOptions.addr = Option("i", "string", DefaultAddr)
        /\ CommonOptions.port = Option("p", "port", DefaultPort)
    BY DEF CommonOptions
  <1>1. /\ DOMAIN SenderOptions = {"addr", "port", "file"}
        /\ SenderOptions["addr"] = Option("i", "string", DefaultAddr)
        /\ SenderOptions["port"] = Option("p", "port", DefaultPort)
        /\ SenderOptions["file"] = Option("f", "string", DefaultFile)
        /\ SenderOptions = [n \in DOMAIN SenderOptions |-> SenderOptions[n]]
    BY <1>0 DEF SenderOptions
  <1>2. \A l, r, d : IsOption(Option(l, r, d)) /\ Option(l, r, d).valued /\ Option(l, r, d).letter = l
    BY DEF IsOption, Option
  <1>3. \A n \in DOMAIN SenderOptions : IsOption(SenderOptions[n]) /\ SenderOptions[n].valued
    BY <1>1, <1>2
  <1>4. /\ SenderOptions["addr"].letter = "i" /\ SenderOptions["port"].letter = "p"
        /\ SenderOptions["file"].letter = "f"
    BY <1>1, <1>2
  <1>5. "help" \notin DOMAIN SenderOptions /\ None \notin DOMAIN SenderOptions
    BY <1>1 DEF None
  <1> QED BY <1>1, <1>3, <1>4, <1>5 DEF Declared, Made

LEMMA ParserStarts ==
  ASSUME NEW O, Declared(O), Made(O), NEW args \in Seq(DOMAIN Shape)
  PROVE  ParserInv(O, args, Parser(O))
  <1>1. PICK n \in Nat : n = Len(args) /\ DOMAIN args = 1 .. n
    OBVIOUS
  <1>2. PICK p : p = Parser(O)
    OBVIOUS
  <1>3. /\ p = [options |-> p.options, read |-> p.read, waits |-> p.waits, ok |-> p.ok]
        /\ p.options = WithHelp(O) /\ p.read = 0 /\ p.waits = None
    BY <1>2 DEF Parser
  <1>4. /\ DOMAIN p.options = DOMAIN O \cup {"help"}
        /\ \A m \in DOMAIN O : p.options[m] = O[m]
        /\ p.options["help"] = Flag("?")
        /\ p.options = [m \in DOMAIN p.options |-> p.options[m]]
    BY <1>3 DEF WithHelp, Declared
  <1>5. IsOption(Flag("?")) /\ ~Flag("?").valued
    BY DEF IsOption, Flag
  <1>6. \A m \in DOMAIN p.options : IsOption(p.options[m])
    BY <1>4, <1>5 DEF Made
  <1>7. IsParser(p)
    BY <1>3, <1>4, <1>6 DEF IsParser
  <1>8. Kept(O, p)
    BY <1>4, <1>5, Zenon DEF Kept, SameOption
  <1>9. \A m \in DOMAIN O : \A g \in Given(O, args, m) : ~(g[1] <= 0)
    <2> SUFFICES ASSUME NEW m \in DOMAIN O, NEW g \in Given(O, args, m) PROVE ~(g[1] <= 0)
      OBVIOUS
    <2>1. g[1] \in 1 .. n
      BY <1>1, GivenPlaces, NamesPlaces
    <2> QED BY <2>1
  <1>10. Values(O, args, p, 0)
    BY <1>4, <1>9, Zenon DEF Values
  <1>11. 0 < n => 0 + 1 \in Names(O, args)
    <2>1. 0 < n => 1 \in DOMAIN args
      BY <1>1
    <2> QED BY <2>1, NamesFirst
  <1>12. At(O, args, p, 0)
    BY <1>1, <1>3, <1>10, <1>11 DEF At
  <1>13. p.read \in 0 .. Len(args)
    BY <1>1, <1>3
  <1> QED BY <1>2, <1>3, <1>7, <1>8, <1>12, <1>13 DEF ParserInv

(* What all this is for. *)
LEMMA ParsedRight ==
  ASSUME NEW O, NEW args \in Seq(DOMAIN Shape), NEW p, ParserInv(O, args, p),
         p.ok, p.read = Len(args)
  PROVE  RightOptions(O, args, p)
  <1>1. PICK n \in Nat : n = Len(args) /\ DOMAIN args = 1 .. n
    OBVIOUS
  <1>2. p.waits = None
    BY <1>1 DEF ParserInv, At
  <1>3. Values(O, args, p, n)
    BY <1>1, <1>2 DEF ParserInv, At
  <1>4. \A name \in DOMAIN O : \A g \in Given(O, args, name) : g[1] \in 1 .. n
    BY <1>1, GivenPlaces, NamesPlaces
  <1>5. \A name \in DOMAIN O : \A g \in Given(O, args, name) : g[1] <= n
    BY <1>4
  <1> SUFFICES ASSUME NEW name \in DOMAIN O, NEW given, given = Given(O, args, name)
               PROVE  /\ \A g \in given : O[name].reader = "port" =>
                           g[2] \in DOMAIN IntOf /\ IntOf[g[2]] > 0 /\ IntOf[g[2]] <= MaxPort
                      /\ given = {} => GetOption(p, name) = O[name].actual
                      /\ \A g \in given : (\A h \in given : h[1] <= g[1])
                           => GetOption(p, name) = ReadAs(O[name].reader, g[2])
    BY Zenon DEF RightOptions
  <1>6. ASSUME NEW g \in given, O[name].reader = "port"
        PROVE  g[2] \in DOMAIN IntOf /\ IntOf[g[2]] > 0 /\ IntOf[g[2]] <= MaxPort
    <2>1. Reads(O[name].reader, g[2])
      BY <1>3, <1>5, Zenon DEF Values
    <2>2. g[2] \in DOMAIN IntOf /\ IntOf[g[2]] \in 1 .. MaxPort
      BY <1>6, <2>1 DEF Reads
    <2> QED BY <2>2
  <1>7. given = {} => GetOption(p, name) = O[name].actual
    BY <1>3, Zenon DEF Values, GetOption
  <1>8. ASSUME NEW g \in given, \A h \in given : h[1] <= g[1]
        PROVE  GetOption(p, name) = ReadAs(O[name].reader, g[2])
    <2>1. g[1] <= n
      BY <1>5
    <2>2. g \in Given(O, args, name) /\ \A h \in Given(O, args, name) : h[1] <= g[1]
      BY <1>8
    <2> QED BY <1>3, <2>1, <2>2, Zenon DEF Values, GetOption
  <1> QED BY <1>6, <1>7, <1>8

(* Both parsers, until the programs run and after. *)
ArgsInv ==
  /\ sArgs \in Seq(DOMAIN Shape) /\ rArgs \in Seq(DOMAIN Shape)
  /\ ParserInv(SenderOptions, sArgs, sParser)
  /\ ParserInv(CommonOptions, rArgs, rParser)
  /\ sMain = "run" => sParser.ok /\ sParser.read = Len(sArgs)
  /\ rMain = "run" => rParser.ok /\ rParser.read = Len(rArgs)

LEMMA CheckRuns ==
  ASSUME NEW p, NEW args, IsParsed(p, args), Check(p, args) = "run"
  PROVE  p.ok /\ p.read = Len(args)
  <1>1. Parses(p)
    BY DEF Check
  <1> QED BY <1>1, Zenon DEF Parses, IsParsed

LEMMA ArgsInit == Init => ArgsInv
  <1> SUFFICES ASSUME Init PROVE ArgsInv
    OBVIOUS
  <1>1. sArgs \in Seq(DOMAIN Shape) /\ rArgs \in Seq(DOMAIN Shape)
    BY ArgumentsAssumption DEF Init
  <1>2. ParserInv(SenderOptions, sArgs, sParser)
    BY <1>1, SenderDeclared, ParserStarts DEF Init
  <1>3. ParserInv(CommonOptions, rArgs, rParser)
    BY <1>1, CommonDeclared, ParserStarts DEF Init
  <1> QED BY <1>1, <1>2, <1>3 DEF Init, ArgsInv

LEMMA ArgsNext == ArgsInv /\ [Next]_vars => ArgsInv'
  <1> SUFFICES ASSUME ArgsInv, [Next]_vars PROVE ArgsInv'
    OBVIOUS
  <1>1. ASSUME UNCHANGED <<sArgs, rArgs, sParser, rParser>>, sMain' = "run" => sMain = "run",
               rMain' = "run" => rMain = "run"
        PROVE  ArgsInv'
    <2>1. SenderOptions' = SenderOptions /\ CommonOptions' = CommonOptions
      BY DEF SenderOptions, CommonOptions
    <2> QED BY <1>1 DEF ArgsInv
  <1>2. CASE SenderParses
    <2>1. UNCHANGED <<sArgs, rArgs, rParser, rMain>>
      BY <1>2 DEF SenderParses, recipientVars
    <2>2. CASE IsParsed(sParser, sArgs)
      <3>1. sMain' = Check(sParser, sArgs) /\ UNCHANGED sParser
        BY <1>2, <2>2 DEF SenderParses
      <3>2. sMain' = "run" => sParser.ok /\ sParser.read = Len(sArgs)
        BY <2>2, <3>1, CheckRuns
      <3> QED BY <2>1, <3>1, <3>2 DEF ArgsInv
    <2>3. CASE ~IsParsed(sParser, sArgs)
      <3>1. sParser' = ParseNext(sParser, sArgs) /\ sMain' = sMain /\ sMain = "args"
        BY <1>2, <2>3 DEF SenderParses
      <3>2. ParserInv(SenderOptions, sArgs, ParseNext(sParser, sArgs))
        BY <2>3, SenderDeclared, ParseNextKeeps DEF ArgsInv
      <3>3. ParserInv(SenderOptions, sArgs, sParser)'
        BY <2>1, <3>1, <3>2
      <3> QED BY <2>1, <3>1, <3>3 DEF ArgsInv
    <2> QED BY <2>2, <2>3
  <1>3. CASE RecipientParses
    <2>1. UNCHANGED <<sArgs, rArgs, sParser, sMain>>
      BY <1>3 DEF RecipientParses, senderVars
    <2>2. CASE IsParsed(rParser, rArgs)
      <3>1. rMain' = Check(rParser, rArgs) /\ UNCHANGED rParser
        BY <1>3, <2>2 DEF RecipientParses
      <3>2. rMain' = "run" => rParser.ok /\ rParser.read = Len(rArgs)
        BY <2>2, <3>1, CheckRuns
      <3> QED BY <2>1, <3>1, <3>2 DEF ArgsInv
    <2>3. CASE ~IsParsed(rParser, rArgs)
      <3>1. rParser' = ParseNext(rParser, rArgs) /\ rMain' = rMain /\ rMain = "args"
        BY <1>3, <2>3 DEF RecipientParses
      <3>2. ParserInv(CommonOptions, rArgs, ParseNext(rParser, rArgs))
        BY <2>3, CommonDeclared, ParseNextKeeps DEF ArgsInv
      <3>3. ParserInv(CommonOptions, rArgs, rParser)'
        BY <2>1, <3>1, <3>2
      <3> QED BY <2>1, <3>1, <3>3 DEF ArgsInv
    <2> QED BY <2>2, <2>3
  <1>4. CASE Open \/ Connect \/ GiveUp \/ SendName \/ SendChunk \/ Close
    BY <1>1, <1>4 DEF Open, Connect, GiveUp, SendName, SendChunk, Close, recipientVars
  <1>5. CASE Arrive \/ SendFin \/ Finish \/ UNCHANGED vars
    BY <1>1, <1>5 DEF Arrive, SendFin, Finish, vars, senderVars, recipientVars
  <1>6. CASE Listen \/ Test \/ PopNothing \/ TakeName \/ NameRefused \/ TakeChunk \/ TakeEnd
    BY <1>1, <1>6 DEF Listen, Test, PopNothing, TakeName, NameRefused, TakeChunk, TakeEnd, senderVars
  <1> QED BY <1>2, <1>3, <1>4, <1>5, <1>6 DEF Next, SenderMain, RecipientMain

(* For every command line, what a program that runs works with is what its *)
(* arguments say: cmdline.h:434-533.                                       *)
THEOREM OptionsAlwaysRight == Spec => []OptionsAreRight
  <1>1. ASSUME ArgsInv PROVE OptionsAreRight
    <2>1. sMain = "run" => RightOptions(SenderOptions, sArgs, sParser)
      BY <1>1, ParsedRight DEF ArgsInv
    <2>2. rMain = "run" => RightOptions(CommonOptions, rArgs, rParser)
      BY <1>1, ParsedRight DEF ArgsInv
    <2> QED BY <2>1, <2>2 DEF OptionsAreRight
  <1> QED BY <1>1, ArgsInit, ArgsNext, PTL DEF Spec

=============================================================================
