# A verification development for RUDP

RUDP (`src/`) sends a file over UDP with a reliable byte stream of its own:
`RSend` numbers bytes, keeps them in a ring buffer until they are acknowledged,
retransmits on timers and duplicate ACKs, and closes with a FIN; `RRecv`
acknowledges cumulatively, caches what arrives ahead of order inside its own
ring buffer and hands the bytes to the application in order. This directory
holds TLA+ modules translated from that code, the TLC configurations that check
them on small instances, and TLAPS proofs for every value of the constants.
`PROJECT.json` maps each definition to its source lines.

Run, in this directory:

    tlasany RUDP.tla
    tlc -workers 2 -config lossy.cfg FifoInvariant.tla  # section 3 names the module of each .cfg
    tlapm RUDPProofs.tla                              # and the other modules of section 5

## 1. Inventory

| component | state it keeps | operations | interacts with |
|---|---|---|---|
| `Common/RingBuffer.h` | slots, free-running `uint32_t` cursors `in`, `out` | `push` (2), `pop` (2), `set`, `get`, `freeSize`, `empty` | shared by two threads of its owner without a lock |
| `Common/RPkg.h` | header and body of a packet, checksum | `makeSYN/SEQ/ACK/FIN`, `calCheckSum` | what the two endpoints exchange |
| `Common/UDPSock.*` | one socket | `bind`, `sendto`, `recvfrom` with a timeout in ms (0 = for ever) | the operating system |
| `Sender/RSend.*` | `state`, timer queue `timevts`, `nextSeq`, `rwnd`, send buffer, congestion record | application: constructor/`connect`, `send`, `close`; manager thread: `trySendPkg`, `wait`, `closeConnection`, all through `recvACK` → `handleTimer` → `processTimeout` | two threads share `state` and the buffer |
| congestion control (in `RSend`) | `cState`, `cwnd`, `ssthresh`, `dupACK`, `lastAck` | update on timeout, new ACK, duplicate ACK | called from `processTimeout` and `wait` |
| `Recipient/RRecv.*` | `state`, `targetPort`, receive buffer, `cacheRanges`, `nextACK` | manager thread: `recvPkg`, `deliverData`, `sendAck`; application: `recv`, `close` | two threads share `state` and the buffer |
| `Sender.cpp`, `Recipient.cpp` | the file, the statistics | parse the arguments; write name and file into the stream and close; read until 0 bytes, split off the name, write the file | use `cmdline`, `RSend`, `RRecv` |
| `Common/cmdline.h` | the declared options and their values | `add`, `parse`, `check`, `get` | used by both programs |
| `Common/magic_enum.hpp` | – | names of enumerators, for the log | vendored, not modelled |

What is hard here, with the properties that make the component correct:

* **Sender.** ACKs, timer expiries, pushes and the close request come in any
  order. Correct: every unacknowledged byte keeps a timer (`UnackedCovered`);
  retransmissions read bytes that are still the stream's (`SendBufferIntact`);
  the FIN waits for every byte (`ClosedMeansAccepted`); `connect` and
  `closeConnection` do not end the process on an old ACK (`RefusedAckIsNew`).
* **Timers.** The clock is sampled once, the queue is worked through against
  that sample, and each retransmission pushes before the top is popped.
  Correct: one event per packet (`OneTimerEach`), no packet is given up on before
  all of its doubled timeouts have passed (`Patient`), the thread wakes in time
  (`WakesInTime`), a deadline that passes is noticed (`DeadlinesAreNoticed`).
* **Congestion control.** Nothing but a timeout bounds the window from below,
  and the code divides by it (`WindowFloor`, `TrapTakesHalvings`).
* **Ring buffer.** Two threads, plain cursors, no lock. Correct: no unread byte
  is overwritten (`WritesMissUnread`), what is copied out is what was put in
  (`CopiesAreRight`), and the whole is a bounded queue (`ImplementsFifo`).
* **Receiver.** A packet may be old, next, overlapping, or ahead, and the merge
  loop relies on data having been put in place before. Correct: cached data is
  left alone (`CacheIntact`), merging pushes all of a range (`MergeAssert`, the
  code's own assertion), data is numbered (`WindowKept`) and kept (`CacheableFits`)
  only where there is room, the cumulative ACK does not retreat (`AckNeverRetreats`),
  the stream is delivered intact (`StreamIntact`).
* **Datagrams.** A checksum with a value that means "none", a length that is
  tested before it, a target set before it. Correct: damage is caught
  (`DamageIsCaught`), what is undamaged passes (`IntactPasses`), one sender is
  heard (`OneSource`).
* **The transfer.** The pair is one reliable stream (`ImplementsStream`), and a
  close comes to an end (`OnlyKnownStalls`, `FinReachesUser`).
* **The programs.** Options have several forms and consume each other
  (`OptionsAreRight`); the stream is cut into chunks, packets and pieces that
  have nothing to do with the name at its head (`CopyIsFaithful`,
  `OnlyUnreadIsLost`, `RecipientEnds`).

`PROJECT.json` lists the hazards behind these properties one by one, at the
line where each bites.

## 2. Modules

| module | models | notes |
|---|---|---|
| `RingBuffer` | `RingBuffer.h` | operators `FreeSize`, `SetSize`, `GetSize`, `Set`, `Get` on the owner's variables, with 32-bit subtraction (`Minus`) |
| `SharedRing` | one `RingBuffer` between its two threads | single loads, stores and copied bytes; each thread's view of the other's cursor may be old |
| `BoundedFifo` | abstract: what `SharedRing` promises | refined through `Fifo` |
| `CongestionControl` | the congestion record of `RSend` | `AfterTimeout`, `AfterNewAck`, `AfterOldAck`, `EntersRecovery`, `DividesByZero` |
| `CongestionMachine` | that record alone, at the program's MSS | any sequence of timeouts and ACKs |
| `Network` | UDP behind `UDPSock::sendto` and `recvfrom` | one path per direction, `toRecv` and `toSend` |
| `RSend` | `RSend.*` and the loop of `Sender.cpp` | one action per step of either thread, see below |
| `RRecv` | `RRecv.*` and the loop of `Recipient.cpp` | the same |
| `RUDP` | one transfer: `RSend`, `RRecv` and `Network` composed | also the instance the runs check: the properties and the fairness |
| `ReliableStream` | abstract: what the pair promises | refined by `RUDP` through `Abstract` |
| `FifoInvariant` | nothing of its own: the inductive invariant of `RUDP` on a path that keeps the order | what the proofs of `FifoProofs` rest on; its run checks it |
| `FirstPiece` | `RUDP` with a note of what the application wrote first (`firstPiece`) | what the recipient relies on when it splits off the name |
| `TimerQueue` | `timevts`, `setTimer`, `handleTimer` and `recvfrom`'s timeout in real time | what `RSend` leaves out: the clock |
| `RPkg` | `RPkg.h` byte by byte | no variables |
| `Datagrams`, `MCDatagrams` | `recvfrom`, `recvPkg`, the tests of `recvACK` | damaged and foreign datagrams; what `Network` leaves out |
| `CommandLine` | `cmdline.h` as the programs use it | no variables; the parser is a record |
| `Programs`, `MCPrograms` | the two `main` functions | the transport between them is what `ReliableStream` promises |
| `RUDPProofs`, `FifoProofs`, `RingBufferProofs`, `SharedRingProofs`, `CongestionProofs`, `TimerQueueProofs`, `DatagramsProofs`, `ProgramsProofs` | theorems and proofs | section 5 |

How they fit together: `RUDP` is the protocol with bytes as numbers and time as
nondeterminism. Each of `SharedRing`, `TimerQueue`, `CongestionMachine` and
`Datagrams` opens up one thing that `RUDP` takes for granted (an atomic push or
pop; a timer that may expire at any time; the window arithmetic at a large MSS;
that damage is loss), and `Programs` builds on what `RUDP` provides.

Most instances get the values of their constants in the `.cfg`; `MCDatagrams`
and `MCPrograms` hold the ones that a `.cfg` cannot write.

### State and actions of the sender (`RSend`)

`sPc` is where the protocol's thread is; it is the application's during
`connect` and the manager's afterwards. `sCall` remembers which of `connect`,
`wait`, `closeConnection` called `recvACK`.

| action | code |
|---|---|
| `Connect` | first SYN and its timer (`connect`, lines 53–61) |
| `Push(size)` | a round of `send`'s loop that copies something; a round that copies nothing is a spin |
| `Close` | `close` up to the join; the join ends when `sPc = "done"` |
| `TimerDropped`, `TimerResent`, `TimerExhausted` | one iteration of `handleTimer`'s loop: `processTimeout` ignores the event, retransmits (and resets the congestion record and the timer), or exits |
| `TimerReturns` | `handleTimer` returns; `"stuck"` is the case of a remaining time below 1 ms, which becomes a receive timeout of 0 |
| `RecvTimeout`, `RecvAck(i)` | `recvfrom` returns nothing, or datagram `i`, handled whole by `ConnectAck`, `NewAck`, `OldAck` or `CloseAck` |
| `ManagerSends`, `ManagerDrains` | the switch of `manager`, on `state` |
| `ManagerGoesOn`, `ManagerCloses` | in `closing`, its test of the buffer; the second includes the sending of the FIN |
| `TrySendPkg`, `TrySendDone` | a round of `trySendPkg`'s loop, its end |

The manager reads `state` and, when it is `closing`, then the buffer's cursors:
two steps, with the place `"drain"` between them, in which the application's
thread may run.

### State and actions of the receiver (`RRecv`)

| action | code |
|---|---|
| `DropForeign` | `recvPkg` drops a stranger's packet: every packet, when the uninitialised `targetPort` holds neither 0 nor the sender's port |
| `Receive(i)` | a packet is taken and handled up to the merge loop: `ReceiveSyn`, `ReceiveOld`, `ReceiveNext`, `ReceiveAhead`, `ReceiveFin` |
| `Merge(r)`, `MergeDone` | a round of `deliverData`'s merge loop, its end |
| `Reply` | `sendAck`, which samples the window, and `setState` |
| `UserChecks`, `UserPops` | the test and the body of `recv`'s loop: two steps, because the manager runs between them |

The handler is cut where the application's thread can make a difference: its
pops change the room between `Receive`, the rounds of `Merge` and the sampling
of the window in `Reply`.

### The ring between its threads (`SharedRing`)

`put` and `take` are the calls in progress of the producer and the consumer
(operation, first position, size, bytes done); `seenIn` and `seenOut` are the
cursors as the *other* thread loads them.

| action | code |
|---|---|
| `StartPush`, `StartSet`, `CopyIn`, `FinishPush`, `FinishSet` | `push(data, n)` and `set`: the loads, one byte of the two `memcpy`, the store of `in` |
| `PushCached` | `push(n)`: what `set` put in place becomes part of the queue |
| `StartPop`, `StartGet`, `CopyOut`, `FinishPop`, `FinishGet` | `pop(buf, n)` and `get` |
| `PopRead` | `pop(n)` |
| `InArrives`, `OutArrives` | a store of a cursor takes effect in the other thread |

What the code leaves to its caller is not a guard of these actions but a
condition in `Producer`: `deliverData` calls `set` only for data that begins in
the room it has offered (`InRoom`), and `push(n)` only for bytes it has put in
place (`Filled`). Without the first, line 81 of `RingBuffer.h` goes below zero; on
a path that keeps the order `CacheableFits` says that the condition is kept, and
`v_overrun` shows it broken on a path that does not.

A `get` may begin behind `out`, as `processTimeout` does for a packet of which a
part is acknowledged; the slots it reads there are being refilled, and
`CopiesAreRight` is about the bytes at and after `out` only.

The assumption on the hardware is that of an x64 build: a thread's stores take
effect in program order, and `memcpy` is a call before the store of the cursor.
On a machine or with a compiler that reorders the two, the code has no barrier.

### The timers in real time (`TimerQueue`)

`timevts` holds events with the time left to their deadlines (`rem`), `lag` is
the time since `handleTimer` sampled the clock, `left` what is left of the
receive timeout. `Enter`, `Resend(e)`, `Drop(e)`, `GiveUp(e)`, `Return` are
the rounds and exits of `handleTimer`; `RecvTimeout` and `RecvAck(ack)` end
`recvfrom`; `Tick` lets time pass and `SetBack(d)` sets the clock back, any number
of times (`MaxBack` bounds the sum), because the code uses `system_clock`. `calm`
says that it was never set back while `handleTimer` was running, and `age` how long
ago each packet was sent first. A fast retransmission sets no timer and is counted
nowhere (RSend.cpp:129); what there is of it in the module is that `RecvAck` takes
ACKs for packets that have no number yet. `Resend` keeps the order of the code: the new event
is pushed by `processTimeout`, and then `handleTimer` pops the top, whichever
that is.

### Datagrams and packets (`RPkg`, `Datagrams`)

`RPkg` has the layout, the sum with its two folds of the carry, and the four
constructors. `Datagrams` has the tests in the order of the code: `RecvPkg` looks
at the length (and ends the process), the target, the source, the checksum;
`RecvAck` at the checksum and the flag. In `RecvAck` a damaged body size makes
the sum run over bytes `recvfrom` has not written, so its verdict is either one.
`SocketFails` is an error of `recvfrom` that is no timeout, which ends the process;
it may come at any time.

### Command line and programs (`CommandLine`, `Programs`)

A parser is a record; `ParseArg` is a round of `parse`'s loop, in which an option
that takes its value from the next argument makes that argument a value
(`waits`). Strings are not taken apart: `Shape` says how an argument reads and
`IntOf` which number it is.

`Programs` has one action per step of each `main`: `SenderParses`, `Open`,
`Connect`, `SendName`, `SendChunk`, `Close`; `RecipientParses`, `Listen`, `Test`
and `PopNothing`/`TakeName`/`NameRefused`/`TakeChunk`/`TakeEnd` (the two halves of
`recv`, with what `main` does with the bytes; `NameRefused` is the exit when the
output file does not open). `GiveUp` is the sender's exit after too many
timeouts. `SendFin`, `Arrive` and `Finish` are the transport: the FIN is on its way
once `SendFin` has happened, and may be handled while `close` waits, after it has
returned (on an old ACK of the same number), or after the sender has given up.
`Arrive` lets the first bytes be
the whole name with its NUL, or more: `FirstAlwaysWhole` (section 5) proves of
`RUDP` that the first bytes in the receive buffer are the whole of the first piece
sent, or a segment of a longer one. That a name fits into a segment is true of every
name that Windows opens (260 characters against an MSS of 1024,
`FilesAssumption`) and would not be of a longer one.

### Abstractions

* **Bytes.** Byte *p* of the stream is the number *p*, so a wrong or misplaced
  byte is seen. `Junk` is the content of a slot never written. `Programs` has
  characters instead.
* **Time.** In `RUDP` a pending event may be found expired whenever `handleTimer`
  looks, and in any order. This covers every RTO, every delay and every backoff;
  the retry count, which ends the process, is kept. `TimerQueue` has the clock.
* **Numbers.** `Word` stands for 2^32 and every subtraction of the code that
  can go below zero wraps (`Minus`). In `RUDP` the streams stay below `Word`
  (`SenderAssumption`); RRecv.cpp:136 states the same limit of 4 GB. In
  `SharedRing` the cursors do wrap.
* **Corruption** is loss in `RUDP`: both ends drop a packet with a bad checksum,
  and `DamageIsCaught` says when that is what happens to a damaged one.
* **Copies.** The network makes none; those in the model come from
  retransmissions, which have all the effects of a copy on the receiver.
* **`cacheRanges`** is a set. The code only looks at the front of the sorted
  list, and merging a second copy of a range changes nothing.
* **Memory.** In `RUDP` each push and pop is one step and memory is sequentially
  consistent; `SharedRing` is finer, and `RingIsFifo` says that from outside it
  looks like one step.
* **Uninitialised fields.** `cState` and `targetPort` start from any value
  (`InitialCStates`, `InitialTargets`), and the slots of both rings are `Junk`.

## 3. Runs

| run | module, instance | distinct states | checks |
|---|---|---|---|
| `lossy` | `FifoInvariant` (extends `RUDP`): FIFO with loss, N=2, MSS=2, Total=3 in single bytes, threshold 1 | 6.3 M | `WindowKept`, `RefusedAckIsNew`, `CacheIntact`, `MergeAssert`, `CacheableFits`, `StreamIntact`, `ClosedMeansAccepted`, `FifoInv`, `AckNeverRetreats` |
| `reordering` | `RUDP`: loss and reordering, all uninitialised values, N=1, MSS=1, Total=2 | 1.1 M | `TypeOK`, `UnackedCovered`, `SendBufferIntact` |
| `termination` | `FirstPiece` (extends `RUDP`) with `FairFirstSpec`: FIFO with loss, N=2, MSS=2, Total=3 in pieces of 2, threshold 1 | 0.2 M | `FirstPieceWhole`, `ImplementsStream`, `OnlyKnownStalls`, `FinReachesUser` |
| `ring` | `SharedRing`: N=4, Word=16, calls for 1 or 3 bytes | 1.8 M | `TypeOK`, `WritesMissUnread`, `CopiesAreRight`, `ImplementsFifo` |
| `timers` | `TimerQueue` with `FairSpec`: 2 packets, 2 units per ms, RTO 1 ms, one copy by timer, a clock set back by up to 6 units in all | 399 k | `OneTimerEach`, `Patient`, `WakesInTime`, `DeadlinesAreNoticed` |
| `congestion` | `CongestionMachine`: MSS=1024, threshold 3 | 67 k | `WindowFloor`, `TrapTakesHalvings` |
| `datagrams` | `MCDatagrams`: bytes of 16 values, two senders | 56 k | `DamageIsCaught`, `IntactPasses`, `OneSource` |
| `programs` | `MCPrograms` with `FairSpec`: every command line of up to 3 of 13 arguments for the sender, 4 for the recipient, 2 files | 301 k | `OptionsAreRight`, `CopyIsFaithful`, `OnlyUnreadIsLost`, `RecipientEnds` |
| `v_truncated`, `v_zero_window`, `v_overrun`, `v_window` | `RUDP`: the smallest instances that show the disagreement | | section 6 |

**Bounds of `RUDP`.** `Total` bytes in pieces of `Chunks`; a ring of `N` slots;
packets of `MSS`; `Capacity` datagrams per direction;
`MaxNTimeout = 0`, that is, one retransmission per timer before the process
exits (`v_window` has the code's 6); `DupThreshold` duplicate ACKs until a fast
retransmission. The code has 3, and so have `reordering` and the `v_*` runs;
`lossy` and `termination` use 1, which gives more fast retransmissions, in more
situations, within the same bounds.

Why these are enough for the cases that matter: `Total > N` makes both rings
wrap and fill, so zero windows, partial pushes and split packets occur; a
packet that is lost lets the next one arrive ahead, where it is cached and merged
later, and a datagram waiting in each direction is enough for an ACK of the data
phase to be read by `closeConnection`; one retransmission per timer makes old
copies, and the giving-up, reachable. In `lossy` the application writes byte
by byte, so that a retransmission from `lastAck` is longer than the first packet
was, overlaps what has arrived, and crosses the end of the ring; what is cached there
is one byte long, and the theorems of section 5 cover longer ranges. In
`termination` the application writes pieces of exactly `MSS` bytes, the longest
first piece that has to arrive whole.

**The window.** That no data in flight lies beyond the receiver's room
(`WindowRespected`), and that `closeConnection` gets the ACK it expects or an old
one, are false of the program. After enough duplicates `wait` sends `MSS` bytes
from `lastAck` whatever the window and whatever has been sent. When
`lastAck = nextSeq` these are bytes that no timer covers and `nextSeq` does not
count; the receiver may have no room for them (`v_window`, at the code's
thresholds), and if it has, it acknowledges them and `begin()` runs past `nextSeq`.
What survives such overshoots is what the passing runs check and section 5 proves
without any condition on them: what `trySendPkg` numbers has room (`WindowKept`), what
`set` is asked to cache fits (`CacheableFits`), and `closeConnection` ends the process on
an ACK only when that ACK is for bytes an overshoot has sent, never on an old one
(`RefusedAckIsNew`). `lossy` reaches that exit.

**Bounds of the others.** In `ring`, `Word = 4 N` lets the cursors wrap after four
turns of the ring, and pieces of 1 and 3 bytes on 4 slots make calls that wrap,
are cut short by a full or an empty ring, and end at both. In `timers` two events
are enough for a top to be overtaken by an event that is pushed before the pop,
`Ms = 2` for a deadline less than a millisecond away; `MaxBack = 6`, in any number
of steps, for a clock that goes back by more than any deadline. With
`MaxNTimeout = 0` a packet has two timeouts, the second twice the first. Lateness is
told apart up to `2 * MaxLate`. In `congestion`, `cwnd` is followed up to 8 segments; the
division gives 0 above one. In
`datagrams` the word has 8 bits instead of 16 and the same odd header; numbers
and windows are chosen so that some packets have the checksum 0 and some sums
carry a second time when folded; one byte of a datagram, any, takes any value. In
`programs` the thirteen arguments are both forms of each kind of option, a
group of letters, unknown names, numbers outside the range, and values that look
like none of these; the two files end inside a chunk and with one, and one
holds a zero byte.

`CHECK_DEADLOCK FALSE` is said where the system stops by itself: a transfer ends,
an application need not write, a process exits, two `main`s return. `congestion`
stops at a trap and at its bounds. `SharedRing` never stops, and its run checks
that.

## 4. Fairness

`Fairness` in `RUDP` says no more than the code justifies:

* weak fairness of the sender's manager, the receiver's manager and the
  receiver's application: threads that can run do run;
* strong fairness of `TimerExpires`: a deadline passes and stays passed, so an
  event at which `handleTimer` looks again and again is found expired. Strong,
  because the thread leaves `handleTimer` in between;
* no fairness of the sending application, which may write nothing or never close;
* of the network, only on a lossless path: what is in flight arrives. A
  lossy path promises nothing, not even to deliver one of infinitely many
  retransmissions.

`OnlyKnownStalls` is the strongest termination result that holds: after a
close request the sender ends, or it stalls for ever on a zero window, or in a
`recvfrom` without a timeout.

`TimerQueue` assumes that its thread runs and that time passes (`WF_vars(Thread)`,
`WF_vars(Tick)`), not that ACKs arrive. That a run of `handleTimer` takes at most
`MaxLate` is a bound of the model.

`Programs` assumes that both `main`s run. `Arrive` and `Finish` are not fair: the
path need not deliver. `RecipientEnds` therefore begins where the FIN is handled.

## 5. What is proved

By TLAPS, for all values of the constants that satisfy the named assumptions
(`RingAssumption`, `SharedAssumption`, `CongestionAssumption`,
`NetworkAssumption`, `SenderAssumption`, `ReceiverAssumption`,
`TimerAssumption`, `ByteAssumption`, `SourcesAssumption`, `PacketsAssumption`,
`FilesAssumption`, `CommandLineAssumption`, `ArgumentsAssumption`). Each says what
kind of thing the constants are; four say more. `SenderAssumption` keeps
a stream below 4 GB and a segment no longer than the buffer. `TimerAssumption` includes
that 2^0 is 1 and that the powers of two up to the last timeout double, are positive
and at most the last: arithmetic, for which the prover has no axioms (it
leaves `^` uninterpreted) and which TLC evaluates.
`ByteAssumption` gives a byte 4 to 8 bits, room for the four flags.
`FilesAssumption` has file names shorter than a packet (Windows allows 260
characters, the MSS is 1024).

| theorem | statement | argument |
|---|---|---|
| `TypeCorrect` (`RUDPProofs`) | `Spec => []TypeOK` | `TypeOK` is inductive as it stands, because it carries the bounds of the buffers (`sOut <= sIn <= sOut + N`, the same for the receiver, windows in `0..N`): a push copies at most `FreeSize`, which under these bounds is the true room (`FreeSizeIsRoom`), a pop at most what is there (`GetSizeFits`) |
| `UnackedAlwaysCovered` | `Spec => []UnackedCovered` | inductive relative to `TypeOK`: an event is dropped only when all its bytes are below `begin()`, a retransmission replaces an event by one of the same range, and `nextSeq` moves only together with a new event; `begin()` only grows |
| `SendBufferAlwaysIntact` | `Spec => []SendBufferIntact` | strengthened by `sIn <= Total` (`SendBufferInv`), without which the cursors could wrap and the subtraction in `trySendPkg` would say nothing; a push writes only slots at and after `end()` (`SetReads`), and what it writes is the stream |
| `FirstAlwaysWhole` (`RUDPProofs`) | `FirstSpec => []FirstPieceWhole` | until the receiver has its first bytes, everything in flight, in the timers and in the cache that begins the stream holds the first piece, all else lies behind it, and every ACK says number 0 and a free buffer, so that no window cuts the first packet short (`UntilFirst`); before the first SYN is heard nothing but SYNs is on its way (`Unheard`), so `nextACK = 2^32 - 1` meets no data. In every network, one that reorders too |
| `SetReads` (`RingBufferProofs`) | after `Set(ring, begin, data)` position `begin + k` reads `data[k+1]`, and every position less than a turn before the end of the data, and before `begin`, reads as before | slots are equal exactly when positions differ by a multiple of `N` (`SlotUnique`, `SlotDistance`) |
| `CursorsKeepOrder` (`SharedRingProofs`) | `Spec => []TypeOK` of `SharedRing` | the four cursors lie in the order `seenOut`, `out`, `seenIn`, `in` on the circle of `Word`, within `N` of each other (`Cursors`); a stale cursor makes a call smaller, never larger (`PutFits`, `TakeFits`) |
| `NoUnreadByteOverwritten` | `Spec => []WritesMissUnread` | what the producer writes lies between `in` and `seenOut + N`, the unread bytes between `out` and `in`, all within one turn, so their slots differ (`SlotsDiffer`, which needs `Word % N = 0`) |
| `CopiesAlwaysRight` | `Spec => []CopiesAreRight` | `Contents` adds to the above what the ring holds: unread slots, slots set ahead and the part of a call already copied hold their own positions; a call reads in front of `seenIn` (`TakePlace`) |
| `RingIsFifo` | `Spec => ImplementsFifo` | under `Contents` the abstract queue is the stretch of the stream from `out` to `in`; storing `in` appends a stretch, storing `out` takes one off, and everything else leaves it alone |
| `FifoAlways` (`FifoProofs`) | without `Reordering`: `Spec => [](TypeOK /\ SendBufferInv /\ FifoInv)` | the inductive invariant, below |
| `StreamAlwaysIntact`, `ClosedAlwaysAccepted`, `CacheAlwaysIntact`, `MergeAlwaysWhole`, `CacheableAlwaysFits` | without `Reordering`: `Spec => []StreamIntact`, and so on for the properties named alike | consequences of `FifoInv`. `MergeAssert`, for one: a cached range ends within `out + N`, so merging the part at and after `end()` finds room |
| `AckNeverGoesBack` | without `Reordering`: `Spec => AckNeverRetreats` | between the first packet and the FIN `nextACK` is `end()`, which only grows; a SYN taken later finds it 0 |
| `ReliableTransfer` | without `Reordering`: `Spec => ImplementsStream` | the abstract stream is what has been popped and what waits in the buffer. A step of the manager that moves `end()` is one arrival, a pop moves a byte from one part to the other, and everything else is a stutter |
| `WindowAlwaysKept` | without `Reordering`: `Spec => []WindowKept` | `WindowInv` bounds `begin() + rwnd` and every window on its way, and `nextSeq` moves only within it |
| `RefusedAckAlwaysNew` | without `Reordering`: `Spec => []RefusedAckIsNew` | under `FifoInv` and `EndInv`: once the FIN is sent every ACK on its way is for the whole stream or numbered `nextSeq`, and `connect` never meets an ACK it refuses |
| `WindowKeepsFloor`, `TrapNeedsHalvings` (`CongestionProofs`) | `Spec => []WindowFloor`, `[]TrapTakesHalvings` | the two with the types and `floor <= MSS` are inductive: a timeout sets the window to one segment, `AvoidanceStep` shows that the odd rule for avoidance leaves at least one, and a recovery halves window and floor alike |
| `OneTimerAlways` (`TimerQueueProofs`) | `Spec => []OneTimerEach` | together with the types and the uniqueness of the events of *all* packets, acknowledged ones too (`OnePerPacket`, `Covered`), inductive: `Resend` puts an event of the same packet in and takes the top off, and whether that is the old event or, after the clock went back, the new one, one of the two stays |
| `AlwaysWakesInTime` | `Spec => []WakesInTime` | rounding down to milliseconds never adds (`RoundedDown`), the sample is at most `MaxLate` old, a clock set back moves deadlines away, time moves timeout and deadline alike |
| `AlwaysPatient` | `Spec => []Patient` | `Patience`: while the clock is calm, the age of an unacknowledged packet and the time left to its event's deadline add up to at least the timeouts it has had (`Waited`), and the sampled now is not ahead of the clock; so an expired event with the last count is that old (`LastIsLongest`). A clock set back makes deadlines later, and with a calm clock `Resend` takes the old event off, never the new |
| `OneSourceAlways` (`DatagramsProofs`) | `Spec => []OneSource` | all sources heard are the target once it is set, and a set target stays (`HeardTarget`); needs that no port of a sender is 0 |
| `IntactAlwaysPasses`, `DamageAlwaysCaught` | `Spec => []IntactPasses`, `[]DamageIsCaught` | the checksum, below |
| `OptionsAlwaysRight` (`ProgramsProofs`) | `Spec => []OptionsAreRight` | the parser, below |
| `CopyAlwaysFaithful`, `NothingElseIsLost` (`ProgramsProofs`) | `Spec => []CopyIsFaithful`, `[]OnlyUnreadIsLost` | the stream is always a beginning of name, NUL, file, and what is left of the file is the rest (`SentInv`); the recipient's `taken` is 0 or beyond the name, and its file is what lies between the NUL and `taken` (`TakenInv`). The first `recv` finds the name's own NUL, because a name has none (`FirstNul`) and is shorter than a packet (`FilesAssumption`) |

### The invariant of the transfer (`FifoInvariant`)

The hypothesis of the theorems of `FifoProofs` is that no datagram overtakes
another (`~Reordering`); any may be lost, and buffers, segments, the stream, its
pieces, the capacity of the path, the retries and the duplicate threshold are
arbitrary. Without the hypothesis the theorems are false: `v_overrun` has a
reordered ACK that makes the assertion of the merge loop fail.

None of the properties is inductive. What a packet does when it is taken depends
on what was true when it was sent, and on what the other side has done since, so
`FifoInv` says of everything in flight what it may still do:

* `ControlInv`, `GreetingInv`: which of `connect`, `wait`, `closeConnection` is
  running and in which `state`; until `connect` has its answer only SYNs exist.
* `CursorsInv`: the sender's `begin()` never passes the receiver's `end()`, and
  all is acknowledged once the FIN is sent. Hence `ClosedMeansAccepted`.
* `NextAckInv`: `nextACK` is the receiver's `end()` from its first packet to the
  FIN, between the merge rounds too. This is what a SYN could break, since it
  assigns `nextACK`.
* `PacketsInv`: data in flight is right *from the receiver's `end()` on*. Not
  everywhere: a retransmission may start before the sender's `begin()`, where
  its buffer holds other bytes by then, and the receiver skips those.
* `EventsInv`: what a timer event makes `processTimeout` send.
* `WindowInv`: the sender's `begin() + rwnd` is never beyond the receiver's
  `out + N`, and neither is an ACK's; ACKs in flight move it on in their order.
  This is where an overtaken ACK would do harm.
* `CacheInv`: a cached range lies in the buffer and holds its bytes, and between
  merges begins at or after `end()`.
* `FinIsLast`, `SynIsFirst`, `SynInv`: no data follows a FIN and no SYN follows
  data. The last needs that a SYN is retransmitted only while `nextSeq` is 0, and
  what a fast retransmission may have sent by then.

The second disjunct of `SynInv` is there because a fast retransmission can send
data while `nextSeq` is still 0. `FifoInv` is checked in `lossy`, where the
threshold of 1 makes such retransmissions frequent.

`EndInv` is added for `RefusedAckIsNew`: a FIN is numbered `nextSeq`, and once it is
sent the ACKs on their way are for the whole stream or for that FIN. A fast
retransmission beyond `nextSeq` is an ordinary step of all this: nothing in `FifoInv` says
that what is in flight has been numbered.

Each action of `Next` has its own lemma or step, with one sub-step per conjunct it
can disturb.

### The checksum and the parser

Two results are about computations over data of any length: the sum over the words
of a datagram, and the letters of a group of short options. Both are written as
recursive functions on `Nat`. The library's induction theorems take an operator as a
parameter, which the installed provers cannot instantiate; but that `<` is
well-founded on `Nat`, and that a set in a well-founded order has a minimal
element, take none. From these two facts follows `SetInduction`, induction for a *set* of
numbers: a set that holds 0 and, with each number, the next one holds all of
`Nat`. With it the proofs show that the recursive functions exist and are
unique, so that their equations may be used (`SumRecursion`, `TrailRecursion`), and
then what they compute.

*The checksum.* A byte at an odd place counts `Byte` in the sum, one at an even place 1,
and nothing else depends on it (`WordSumChange`). Folding twice leaves the residue
modulo `Word - 1`, as a number below `Word` that is 0 only if the sum is
(`FoldedResidue`), for every length below `Word`. The sum of an intact datagram,
field included, therefore folds to `Word - 1` (`IntactFold`), whose complement
is 0. One damaged byte moves the sum by a number that is no multiple of `Word - 1`
(`Residues`, `DamagedFold`), so the datagram is dropped: unless its field is 0,
which the code takes for "no checksum". That a damaged size field changes how much
is summed does no harm to `recvPkg`, which compares the length first, and is why
`recvACK`'s verdict on such a datagram is either one in the model.

*The parser.* `OptionsAreRight` says without parsing which arguments are values: those
behind a run of arguments that ask for one, by the parity of its length. The
first lemma turns this into a rule from one argument to the next (`NamesNext`): an
argument is a value exactly if the one before it is a name that asks. Every
argument ends exactly one such run (`RunExists`), which is what makes the two
agree. The invariant (`ParserInv`) says that after *k* arguments the parser
waits exactly if argument *k* is such a name, that without an error the values given so
far are set, the last one for good (`Values`), and that no round changes the
letters, readers and kinds of the options (`Kept`). It needs that no two options
share a letter and none is `?`, which holds of what the two programs declare
(`CommonDeclared`, `SenderDeclared`).

All safety and action properties of the passing runs are theorems, most of
them for every instance, those of `RUDP` named above under their conditions.
Only model-checked, and why:

* `OnlyKnownStalls`, `FinReachesUser`, `DeadlinesAreNoticed`, `RecipientEnds`:
  liveness under fairness is out of the prover's reach.
* On a path that reorders, `TypeOK`, `UnackedCovered` and `SendBufferIntact` are
  checked and proved, and `FirstPieceWhole` is proved. The other properties of
  `RUDP` rely on the order, several of them visibly (section 6), and are stated
  only where it is kept.

## 6. Where the program disagrees with its own words

Each is a run of its own, with the counterexample TLC finds.

| run | what happens |
|---|---|
| `v_truncated` | `recv` returns 0 once the FIN is handled, though bytes wait in the buffer: the file loses its end on a perfect network |
| `v_zero_window` | a window that closes stays closed: the receiver never announces room, the sender never probes |
| `v_overrun` | an overtaken ACK brings back an old, larger window; the assertion of the merge loop fails |
| `v_window` | a fast retransmission of bytes that were never sent goes beyond the offered window, which RSend.cpp:93 names as the limit |

Seen while modelling, and not made into runs:

* Any ACK numbered `nextSeq` passes for the FIN's, so `close` may succeed although
  the receiver never saw a FIN.
* With nothing sent after the SYN, the SYN's timer stays relevant although it is
  acknowledged, and the process exits.
* A deadline less than 1 ms away becomes a `recvfrom` without a timeout (`"stuck"`
  in `RSend` and `TimerQueue`); with nothing on its way back the sender blocks
  for ever. `DeadlinesAreNoticed` and `OnlyKnownStalls` name the exception.
* When the clock is set back while `handleTimer` runs, the new event may be the
  earlier one and is popped in place of the old: the packet is sent again in the
  next round, and the next, without its count growing (`Patient` says `calm`). One
  event per packet remains.
* `nTimeout` counts what the timer sends again; a fast retransmission is counted
  nowhere and has no bound.
* `cwnd` bounds nothing: `trySendPkg` (RSend.cpp:95) does not use it. It
  matters only through the division below.
* `cwnd += MSS * (MSS / cwnd)` (RSend.cpp:276) adds nothing once `cwnd > MSS`,
  and divides by zero when `cwnd` has been halved to 0: eleven recoveries in a row
  at 1024 (`TrapTakesHalvings`).
* A fast retransmission goes beyond `nextSeq` too (section 3). The ACK of such bytes
  is one that `closeConnection` does not expect, and `close` ends the process although
  every byte has arrived (`RefusedAckIsNew` names the case).
* A duplicate that counts must repeat `lastAck`, which the ACK of new data does
  not set, so four equal ACKs after the first are needed, not three.
* A SYN that arrives after data resets `nextACK`; it needs reordering.
* An old ACK still in flight ends `closeConnection` with an exit, under reordering.
* A receiver that is started again answers data with the ACK number 2^32 - 1.
* A packet whose length and header disagree ends the receiver (RRecv.cpp:100)
  before its checksum is looked at; a datagram longer than the buffer ends either
  process in `recvfrom`.
* A checksum field of 0 is accepted without a sum, and `calCheckSum` may produce 0
  (`DamageIsCaught`).
* `maxNTimeout` is compared after the fact: the eighth expiry ends the process.
* A recipient that has heard no name fails to open a file of an empty name.

## 7. Not modelled, and why

* `magic_enum.hpp`: vendored compile-time reflection for log lines; no state.
* Parts of `cmdline.h` that neither program calls: parsing of one string or a
  vector, `oneof`, `rest`, mandatory options beyond their test, the texts of usage
  and errors. How a string becomes a number is a table (`IntOf`).
* Logging and statistics; the reading and writing of files beyond their contents.
* Start-up of Winsock, `getMyaddrPort` (its result is printed), a failing
  `sendto`, which ends the process as a failing `recvfrom` does.
* `RRecv::close` destroys the socket and the object's destructor does so again.
  The second `closesocket` fails without effect, as neither program opens
  another socket.
* `RingBuffer::reset`, which nobody calls.
* Streams of 4 GB and more in `RUDP`.
* A clock set forward in `TimerQueue`: deadlines pass early and `recvfrom` sleeps on.
  `RUDP`, where any event may expire at any time, has its effect on the protocol.
* The to-do list at the head of Sender.cpp. Line 19, a pseudo-header: the checksum
  does not cover the addresses, so a datagram delivered to the wrong port is told
  only by `recvPkg`'s test of its source. Line 20 says that reliability is not
  guaranteed with an MSS of 10240. In the model the MSS makes no difference: the
  theorems of section 5 hold for every `MSS` of at most `N`, on a path that keeps the
  order. What such a segment meets outside the model is IP fragmentation (one lost
  fragment loses the datagram), the sockets' own buffers and a round trip that may
  be longer than the fixed 10 ms of `getRTO`; and inside it the limits named above,
  loss that ends the process after seven retransmissions and paths that reorder. Line 21, speed
  under loss: performance is not modelled.
* Machines and compilers that reorder a `memcpy` with the store of a cursor.

## 8. Plan

Done: the protocol (`RSend`, `RRecv`, `Network`, `RUDP`, `ReliableStream`), the
ring between its threads with its refinement proof, the timers in real time, the
congestion record at its real size, packets byte by byte, and both programs.

Every safety and action property that a passing run checks is proved for every
size (on a path that reorders: `TypeOK`, `UnackedCovered`, `SendBufferIntact`,
`FirstPieceWhole`);
the invariant of the transfer and the simulation of `ReliableStream` are done.

What is left:

1. Which of the theorems of `FifoProofs` survive reordering under a weaker
   hypothesis than order, for instance that only data, or only ACKs, keep it.
2. That whatever `RUDP` lets its two users see is a behaviour of the path between
   the two `main`s of `Programs`. What it takes is proved in parts
   (`ReliableTransfer` for the stream, `FirstAlwaysWhole` for the first arrival);
   that they add up is an argument (section 2), not a theorem.
3. Liveness: `OnlyKnownStalls` and its kin for larger instances, or by hand.
