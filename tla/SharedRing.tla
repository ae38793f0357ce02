------------------------------ MODULE SharedRing ------------------------------
(***************************************************************************)
(* One Common/RingBuffer between its two threads, at the level of single   *)
(* loads, stores and copied bytes.  A producer (the sending application,   *)
(* the receiver's manager) fills slots and moves in; a consumer (the       *)
(* sender's manager, the receiving application) drains them and moves out. *)
(*                                                                         *)
(* There is no lock and no atomic: in and out are plain fields.  The model *)
(* is of what an x64 build does with them.  Each thread's stores take      *)
(* effect in the order of the program, but late: until then the other      *)
(* thread goes on loading the old cursor (seenIn, seenOut).  memcpy is a   *)
(* call, so the cursor is stored after the bytes.                          *)
(*                                                                         *)
(* The bytes are those of a stream that never ends: the byte of position p *)
(* is p itself, a uint32.  Everything is finite, and the cursors wrap.     *)
(***************************************************************************)
EXTENDS RingBuffer

CONSTANT Sizes    (* what the callers ask of push, set, get and pop *)

ASSUME SharedAssumption ==
  /\ Sizes \subseteq 1 .. N
  /\ Word % N = 0        \* powers of two
  /\ 2 * N <= Word

VARIABLES
  ring, in, out,
  seenIn,    (* in as the consumer loads it                                 *)
  seenOut,   (* out as the producer loads it                                *)
  put,       (* the producer's call in progress                             *)
  cached,    (* positions filled ahead of in by set, and not pushed yet     *)
  take,      (* the consumer's call in progress                             *)
  buf,       (* the bytes that call has copied                              *)
  taken      (* what the last pop has returned                              *)

producerVars == <<put, cached, seenOut>>
consumerVars == <<take, buf, taken, seenIn>>
vars == <<ring, in, out, producerVars, consumerVars>>

Idle == [op |-> "idle", begin |-> 0, size |-> 0, done |-> 0]
Call(op, begin, size) == [op |-> op, begin |-> begin, size |-> size, done |-> 0]

(* uint32 addition. *)
Plus(p, n) == (p + n) % Word

(* The size positions from begin on. *)
Span(begin, size) == {Plus(begin, k) : k \in 0 .. size - 1}

Init ==
  /\ ring = [i \in Slots |-> Junk]
  /\ in = 0 /\ out = 0 /\ seenIn = 0 /\ seenOut = 0
  /\ put = Idle /\ cached = {}
  /\ take = Idle /\ buf = <<>> /\ taken = <<>>

-----------------------------------------------------------------------------
(* The producer.                                                           *)

(* push(data, wSize): set at in, which loads out. *)
StartPush(size) ==
  /\ put = Idle
  /\ put' = Call("push", in, SetSize(in, seenOut, size))
  /\ UNCHANGED <<ring, in, out, cached, seenOut, consumerVars>>

(* set(begin, data, wSize) ahead of in. *)
StartSet(ahead, size) ==
  /\ put = Idle
  /\ LET begin == Plus(in, ahead)
     IN  put' = Call("set", begin, SetSize(begin, seenOut, size))
  /\ UNCHANGED <<ring, in, out, cached, seenOut, consumerVars>>

(* set(): one byte of the two memcpy. *)
CopyIn ==
  /\ put.done < put.size
  /\ LET p == Plus(put.begin, put.done) IN ring' = [ring EXCEPT ![p % N] = p]
  /\ put' = [put EXCEPT !.done = @ + 1]
  /\ UNCHANGED <<in, out, cached, seenOut, consumerVars>>

\* Mutant of FinishPush: in is stored before the bytes.
FinishPushEarly ==
  /\ put.op = "push"
  /\ in' = Plus(in, put.size)
  /\ put' = [put EXCEPT !.op = "set"]
  /\ UNCHANGED <<ring, out, cached, seenOut, consumerVars>>

(* push(data, wSize): the store of in. *)
FinishPush ==
  /\ put.op = "push" /\ put.done = put.size
  /\ in' = Plus(in, put.size)
  /\ cached' = cached \ Span(put.begin, put.size)
  /\ put' = Idle
  /\ UNCHANGED <<ring, out, seenOut, consumerVars>>

FinishSet ==
  /\ put.op = "set" /\ put.done = put.size
  /\ cached' = cached \cup Span(put.begin, put.size)
  /\ put' = Idle
  /\ UNCHANGED <<ring, in, out, seenOut, consumerVars>>

(* push(wSize): what set has put in place becomes part of the queue.  The  *)
(* load of out and the store of in are one step: a load that came earlier  *)
(* is a late seenOut.                                                      *)
PushCached(size) ==
  /\ put = Idle
  /\ LET wSize == AtMost(size, FreeSize(in, seenOut))
     IN  /\ in' = Plus(in, wSize)
         /\ cached' = cached \ Span(in, wSize)
  /\ UNCHANGED <<ring, out, put, seenOut, consumerVars>>

-----------------------------------------------------------------------------
(* The consumer.                                                           *)

(* pop(buf, rSize): get at out, which loads in. *)
StartPop(size) ==
  /\ take = Idle
  /\ take' = Call("pop", out, GetSize(seenIn, out, size))
  /\ buf' = <<>>
  /\ UNCHANGED <<ring, in, out, taken, seenIn, producerVars>>

(* get(begin, buf, rSize) from ahead of out, or from behind it as          *)
(* processTimeout does for a packet of which a part is acknowledged.       *)
StartGet(begin, size) ==
  /\ take = Idle
  /\ take' = Call("get", begin, GetSize(seenIn, begin, size))
  /\ buf' = <<>>
  /\ UNCHANGED <<ring, in, out, taken, seenIn, producerVars>>

(* get(): one byte of the two memcpy. *)
CopyOut ==
  /\ take.done < take.size
  /\ buf' = Append(buf, ring[Plus(take.begin, take.done) % N])
  /\ take' = [take EXCEPT !.done = @ + 1]
  /\ UNCHANGED <<ring, in, out, taken, seenIn, producerVars>>

(* pop(buf, rSize): the store of out. *)
FinishPop ==
  /\ take.op = "pop" /\ take.done = take.size
  /\ out' = Plus(out, take.size)
  /\ taken' = buf
  /\ take' = Idle /\ buf' = <<>>
  /\ UNCHANGED <<ring, in, seenIn, producerVars>>

FinishGet ==
  /\ take.op = "get" /\ take.done = take.size
  /\ take' = Idle /\ buf' = <<>>
  /\ UNCHANGED <<ring, in, out, taken, seenIn, producerVars>>

(* pop(rSize): bytes that were read before, by get, are given up. *)
PopRead(size) ==
  /\ take = Idle
  /\ LET rSize == GetSize(seenIn, out, size)
     IN  /\ out' = Plus(out, rSize)
         /\ taken' = Get(ring, out, rSize)
  /\ UNCHANGED <<ring, in, take, buf, seenIn, producerVars>>

-----------------------------------------------------------------------------
(* A cursor's latest store takes effect in the other thread. *)
InArrives ==
  /\ seenIn' = in
  /\ UNCHANGED <<ring, in, out, take, buf, taken, producerVars>>

OutArrives ==
  /\ seenOut' = out
  /\ UNCHANGED <<ring, in, out, put, cached, consumerVars>>

(* What deliverData, the one caller of set and of push(wSize), owes them:  *)
(* it caches data that begins in the room it has offered (without that,    *)
(* nSize - begin + out is below zero; CacheableFits in RUDP says that it   *)
(* is kept on a path that keeps the order), and it pushes a range that set *)
(* has put in place.                                                       *)
InRoom(ahead) == ahead < FreeSize(in, seenOut)
Filled(size) == Span(in, size) \subseteq cached

Behind(n) == Minus(out, n)

Producer ==
  \/ CopyIn \/ FinishPush \/ FinishSet
  \/ \E size \in Sizes :
       \/ StartPush(size)
       \/ Filled(size) /\ PushCached(size)
       \/ \E ahead \in 1 .. N - 1 : InRoom(ahead) /\ StartSet(ahead, size)

Consumer ==
  \/ CopyOut \/ FinishPop \/ FinishGet
  \/ \E size \in Sizes :
       \/ StartPop(size) \/ PopRead(size)
       \/ \E n \in 1 .. N - 1 :
            StartGet(Behind(n), size) \/ StartGet(Plus(out, AtMost(n, Minus(seenIn, out))), size)

Next == Producer \/ Consumer \/ InArrives \/ OutArrives

Spec == Init /\ [][Next]_vars

-----------------------------------------------------------------------------
Unread == Span(out, Minus(in, out))

Ops == {"idle", "push", "set", "get", "pop"}
Positions == 0 .. Word - 1
Calls == [op : Ops, begin : Positions, size : 0 .. N, done : 0 .. N]

(* The types, and the order of the cursors: the out the producer sees, the *)
(* out there is, the in the consumer sees, the in there is lie in this     *)
(* order on the circle of uint32, the last at most N from the first.  So   *)
(* a stale cursor only ever makes freeSize() and the size of a pop too     *)
(* small.                                                                  *)
TypeOK ==
  /\ ring \in [Slots -> Positions \cup {Junk}]
  /\ {in, out, seenIn, seenOut} \subseteq Positions
  /\ put \in Calls /\ take \in Calls
  /\ cached \subseteq Positions
  /\ buf \in Seq(Positions \cup {Junk})
  /\ Minus(out, seenOut) + Minus(seenIn, out) + Minus(in, seenIn) <= N

(* No byte of a set or push in progress, by a thread that sees an old out, *)
(* goes to a slot whose byte is still to be read: RingBuffer.h:81 needs no *)
(* lock for this.                                                          *)
WritesMissUnread ==
  \A k \in put.done .. put.size - 1 : \A p \in Unread :
    Plus(put.begin, k) % N # p % N

(* Every byte that a get or pop in progress has copied from a position     *)
(* that is not behind out is the byte of the stream at that position, even *)
(* when the call began in slots that the producer is refilling.            *)
CopiesAreRight ==
  \A k \in 1 .. take.done :
    LET p == Plus(take.begin, k - 1)
    IN  Minus(p, out) < N => buf[k] = p

Fifo == INSTANCE BoundedFifo WITH
  Bound <- N,
  queue <- Get(ring, out, Minus(in, out))

(* The buffer is a bounded FIFO: in and out move one end of the queue each *)
(* and its bytes do not change while they wait.                            *)
ImplementsFifo == Fifo!Spec

=============================================================================
