# A TLA+ model of rude

rude is a header-only C++23 library that gives reliable and unreliable message
channels over UDP. This directory holds TLA+ modules that model its core, TLC
configurations that check them on small instances, and theorems that the TLAPS
proof system checks for every value of the constants. Paths below are relative
to `src/rude/` of the repository.

## 1. Inventory

| Part | Source | State it keeps | Operations | Modelled by |
|---|---|---|---|---|
| Sequence arithmetic, ACK word | `detail/channel/ChannelCommon.hpp` | `hasReceived_`, `latestSequence_`, `ackBits_` | `isNewerSequence`, `isStaleOrDuplicate`, `isAcknowledged`, `markReceived` | `ChannelCommon`, `AckTracker` |
| Receive queue | `detail/channel/ChannelCommon.hpp` | queued messages, one parked receive, closed flag and reason | `asyncRecv`, `deliver`, `close` | `RecvQueue` |
| Reliable channel, ordered and unordered | `detail/channel/ReliableChannel.hpp` | next number, send ring, in-flight counter; expected number, receive ring, ACK tracker | `asyncSend` and its completion, `onTick`, `flush`, `onRecv`, `buildAck` | `ReliableChannel` |
| Unreliable channel | `detail/channel/UnreliableChannel.hpp` | next number, last number delivered | `asyncSend`, `onRecv` | `UnreliableChannel` |
| Session | `session/BasicSession.hpp` | started and closed flags, receive loop, two timers, time of the last datagram, channels | `start`, `cancel`, `asyncSend`, `asyncRecv`, `asyncFlush`, `asyncDisconnect`, `onSocketRecv`, timer handlers, `close` | `Session` |
| Handshake, connector, acceptor | `detail/Handshake.hpp`, `endpoint/*.hpp` | done flag, retry timer, deadline, outstanding receive; `pending_`; listen socket, `sender_` | `asyncConnect`, `cancel`, `asyncAccept`, `openSession`, `close` | `Handshake` |
| Congestion controllers | `detail/congestion/*.hpp` | tokens and rate; phase, bandwidth, round trip and inflight cap | `onAck`, `onLoss`, `sendWindow`, `reset` | `Congestion`; any answer in `ReliableChannel` |
| Send guard | `detail/SendGuard.hpp` | job queue, busy flag, strand | `enqueue`, `pump`, `clear`, `reset` | `SendGuard` |
| Stand-alone helpers | `detail/AckedSet.hpp`, `ReorderBuffer.hpp`, `SlidingWindow.hpp` | bitmaps and rings | insert, drain, mark, test | `WindowHelpers` (the first two) |
| Codec | `detail/DefaultCodec.hpp` | none | `encode`, `decode` | `Codec` |
| Socket wrapper | `detail/UdpSocket.hpp` | the Asio socket | send, receive, `cancel`, `close` | where they are used: `Handshake`, `Session` |
| Configuration, statistics, errors | `session/*.hpp`, `core/*.hpp` | counters and tables | accessors | not modelled |

**How the parts interact.** A session owns a UDP socket, up to eight channels,
a retransmit timer and a keepalive timer, all on one strand. A datagram is
decoded by `handlePacket` and dispatched to its channel; a DATA packet is
answered with the ACK that the channel builds. The retransmit timer calls
`onTick` on every channel. `close` cancels the socket and the timers, closes
every channel's receive queue and tells the policy. The acceptor and the
connector create sessions and start them when the handshake has succeeded: the
client sends INIT to the listen socket until an ACK comes from the server's
address, the acceptor opens a session with a socket of its own for every INIT it
reads, and the ACK comes from that socket. A channel asks its congestion
controller for a window on every send and tells it of every ACK and loss.

**What is hard.** Handlers run one at a time, but in an order that nobody
chooses: a timer that expired, a datagram that arrived and a send that ended
may each wait behind a `close`. The path loses, duplicates, delays and reorders
datagrams in both directions. Sequence numbers wrap at 65536, the ACK word
remembers 32 numbers while the window holds up to 32768, and the rings are
indexed by `number % window`. Three steps of `asyncSend` can fail after the
sequence number is gone. The ACK, the deadline, a retry and `cancel` race for one
`asyncConnect`, and every INIT that arrives, a retry or a copy, makes one more
session on the server. A session calls the application in the middle of two of its
handlers, and the application may close it there. `PROJECT.json` lists these
hazards at their lines.

**What makes each part correct.** ACK word: it reports exactly what was
received among the newest numbers. Ordered channel: a FIFO stream. Unordered
channel: each message once. Both: an acknowledged message has been received, no
accepted message is forgotten, the counter that opens the window is exact.
Unreliable channel: deliveries only go forward. Receive queue: each receive is
completed exactly once, in order. Session: its loops run exactly while it is
open, it is torn down once, completely, and is quiet from then on. Handshake: one answer per
`asyncConnect`, in time; a started client and its server session agree on each
other, and what is left half open ends in time. Congestion control: BbrLite's
window never falls to stop-and-wait, and a cap that was lowered is lifted again. Send guard: one job at a
time, by priority, and never a queued job that nothing will start. Helpers: the
stream in order, each datagram once. Codec: what was encoded comes back, what was
damaged does not.

## 2. Modules

**`ChannelCommon`** has operators only: wrapping arithmetic on `0 .. SeqMod-1`
(`SeqMod` is 65536 in the code) and the ACK word as the set of its 1 bits
(`AckHistory` is 32). `ackBits_ << 32` is undefined in C++; `ShiftOutcomes`
gives the word as it was (x86 masks the shift count) or the empty word.

**`AckTracker`** drives `markReceived` with datagrams in any order and compares
the word with the set of what was really received.

**`ReliableChannel`** is one direction of a channel: the sending half on one
peer, the receiving half on the other, and the path in between. Each action is
one handler, or one event of the network.

| Action | Code |
|---|---|
| `AsyncSend`, `AsyncSendSlotTaken`, `AsyncSendEncodeFails` | the outcomes of `asyncSend` once a number is taken; a call that finds the window full changes nothing |
| `SendSucceeds`, `SendFails` | the completion of the first send, `eraseSentPacket` |
| `OnTick`, `Flush` | retransmission of expired packets, of all packets |
| `RecvAck` | `processAck` |
| `RecvOrderedOutside`, `RecvOrderedSlotTaken`, `RecvOrderedStore` | the three ends of `receiveOrdered`, each followed by the ACK of `handlePacket` |
| `RecvUnorderedDuplicate`, `RecvUnorderedNew` | the two ends of `receiveUnordered`, with the ACK |
| `Lose`, `LoseAck` | the path |

Deadlines are abstracted: `OnTick` finds any set of packets expired. What
`cc_.sendWindow()` answers is any member of `CongestionWindows`. Statistics and
payloads are left out; a message is known by its number. A datagram on the path
can be delivered any number of times before it is lost. ACK fields on DATA
packets are left out because `onRecv` never reads them.

**`FifoStream`** is the abstract specification of an ordered channel: messages
are issued, and delivered in the order of issue; with fairness, all of them.

**`UnreliableChannel`** is one direction of an unreliable sequenced channel.

**`RecvQueue`** is the receive side of every channel. **`Session`** extends it:
the session's open channel has this queue, its `close` closes the queue, and
its DATA packets deliver to it. An operation of Boost.Asio has three stages in
`Session`: under way, completed with its handler queued, and ended; `cancel`
only reaches those under way. One action is one handler from start to end, with
two exceptions: `start` calls `onConnected`, and a DATA packet calls the handler of
a parked receive, before they have done everything else. `dispatch` runs what the
application calls there at once, as it is on the strand, so that a `cancel` closes
the session in the middle of the handler. The model splits these two handlers at the
call: `Start` and `RecvDataCalls` put the handler on the stack (`onStack`), the
operations of the application and `Cancel` may follow, no other handler runs, and
`StartEnds`, or `RecvDataDrains` and `RecvDataEnds`, are the rest. What
a datagram does inside a channel is a choice here (a message is delivered or
not, an ACK is sent or not), because `ReliableChannel` and `UnreliableChannel`
treat it. `RecvDataDrains` is an ordered channel that has more packets ready when
the handler of the first one returns.

**`Handshake`** is a connector and an acceptor with the path between them. A
call of `asyncConnect` is a record: its outstanding receive and retry timer, each
idle, under way, or completed with its handler queued, and as history its age and
the results it reported.

| Action | Code |
|---|---|
| `AsyncConnect`, `ScheduleRetry` | `asyncConnect` up to the receive, and the arming of the timer; they run on the caller's thread, so handlers may come in between |
| `AckArrives`, `OtherArrives`, `OnReceive` | the receive completes; later, the handler of `receiveNext` |
| `TimerExpires`, `TimerIgnored`, `OnDeadline`, `OnRetry` | the retry timer and the three ends of its handler |
| `Cancel` | `Connector::cancel` |
| `AsyncAccept`, `InitArrives`, `OtherAccepted`, `AcceptFails`, `AcceptJunk` | `startAccept` and the ends of its handler |
| `OpenSession`, `OnAckSent` | `openSession` and the completion of its ACK |
| `StopAccepting` | `cancel` and `close` of the acceptor |
| `ClientKeepalive`, `ClientPeerSilent`, `ServerKeepalive`, `ServerPeerSilent` | the two ends of the keepalive timer's handler, in a session of either side after the handshake |
| `ClientHears`, `ServerHears` | `onSocketRecv` takes a datagram of the peer, and of nobody else |
| `ServerCancel` | `cancel` of a session the acceptor handed out (module `Session` has the rest of a session's life) |
| `LoseInit`, `LoseAck`, `Tick` | the path and the time |

Only the type and the sender of a datagram are kept. `sendInit` yields the
outcomes of one call. An INIT or an ACK on the path may arrive any number of times
before the path has lost its last copy, so that the sessions opened for one call
are bounded by nothing in the code, and by `MaxSessions` in the model. Each session
has a watch: what is left on its keepalive timer, the time since `lastRecv_`, and as
history how long it has had no peer that could be heard, because its client adopted
another session or none, or because the other end has closed. What a session sends
is heard within the unit of time or not at all; a datagram that takes longer would
add its delay to the bound of `HalfOpenBounded`.

**`SendGuard`** has the jobs that are queued, dispatched to the strand and
running. A job calls its completion at any time after it started. `interrupted`
counts the calls of `clear` and `reset` made while a job was out.

**`Congestion`** has the three controllers as one record each, tagged by `kind`.
Doubles are integers in units of 1/100; `BbrLite`'s bandwidth is `1/r` for the
smallest round trip `r > 0`, so `r` is kept. `QueryWindow` is the refill that
`sendWindow` makes.

**`WindowHelpers`** feeds `ReorderBuffer` and `AckedSet` with one stream.
**`Codec`** has `encode`, `decode`, the byte order and the checksum over bytes of
`ByteSize` values, and a path that changes one byte. The exclusive or of the
checksum is a constant operator, `^^` in the run; the module assumes that either
operand can be recovered from the other and the result, and that the FNV prime
has an inverse, as every odd number has modulo 2^32. The bytes are kept because
`DecodeSound` is about them: the layout decides which ones the checksum covers.

**`Parts`** puts the parts that share no state side by side, so that one run
checks them: a behaviour is a behaviour of one part, chosen at the start. It
covers `AckTracker`, `UnreliableChannel`, `SendGuard`, `Congestion`,
`WindowHelpers` and `Codec`.

The theorems are in modules of their own. **`ChannelCommonProofs`** has the
lemmas on wrapping numbers and on the ACK word that the other ones share.
**`ReliableChannelProofs`** (types, counter, numbers, accounting),
**`ReliableChannelStreamProofs`** (what is delivered and what an ACK promises,
while few numbers have been used) and **`ReliableChannelWrapProofs`** (the same
for streams of any length) build on each other. **`SessionProofs`** covers
`RecvQueue` and `Session`, **`HandshakeProofs`** `Handshake`,
**`SendGuardProofs`** `SendGuard`, and **`PartsProofs`** `AckTracker`,
`UnreliableChannel`, `Congestion`, `WindowHelpers` and `Codec`.

Definitions marked "A mutant" are deliberately wrong variants of the definition
that follows them; no specification uses them. Each one stands for a plausible
bug and makes the property it is paired with in `PROJECT.json` fail.

## 3. Runs

| Run | Shows |
|---|---|
| `parts`, ACK tracking | `BitsSound`, `BitsComplete`: the word reports exactly what came, past the wrap, when no jump is exactly as long as the word |
| `parts`, unreliable channel | `Sequenced`, `NewestDelivered`, past the wrap |
| `parts`, send guard | `Serialized`, `NeverStalls`, `QueueOrdered`, with `clear` and `reset` at any time |
| `parts`, congestion | `BbrFloor` under any mix of losses and round trips, those of 0 that retransmitted packets report included; `CapRestored` |
| `parts`, helpers | `DrainedInOrder`, `AcceptedOnce`, `RefusedOnlyBySlide`, past the wrap |
| `parts`, codec | `DecodeSound`: round trip, and every single changed byte is refused |
| `ack_tracker_full_shift` | `BitsSound` fails for a jump of exactly the word's width |
| `ordered` | `InFlightExact`, `NumbersSound`, `Accounted`, and `StreamSpec`: the channel implements `FifoStream` |
| `ordered_wrap` | `OrderedPrefix` and `AckSound` past the wrap of the numbers |
| `ordered_live` | `FairStreamSpec`, `EventuallyReleased`: with window 1 every message is delivered and acknowledged |
| `ordered_stall` | `EventuallyDelivered` fails with window 2 |
| `unordered` | `AtMostOnce`, `AckSound`, `EventuallyDelivered`, `EventuallyReleased` while the ACK word covers the stream |
| `unordered_stale` | `EventuallyDelivered` fails once the stream outruns the ACK word |
| `slot_collision` | `AckSound` fails at the wrap when the window does not divide the number of sequence numbers |
| `session` | `LoopAlive`, `DeadPeerDetected`, `TornDownOnce`, `QuietAfterClose`, `Released`, `DisconnectCloses`, and the queue's `NoneLost`, `Fifo`, `CompletedOnce` |
| `handshake` | `CompletesOnce`, `EndsByDeadline`, `PeersAgree`, `ConnectComesToRest`, with lost and repeated INITs and ACKs; `HalfOpenBounded`: a session without a peer is closed within the timeout and one keepalive interval |
| `connect_cancel` | `CancelAborts` fails when the ACK has been read before `cancel` |

**Bounds.** `MaxMsgs` bounds the numbers handed out, `NetCapacity` the
datagrams in transit in each direction (a full path loses what is sent into
it), `MaxIndex` the stream of `AckTracker`, `MaxRecvs`, `MaxSends` and
`MaxDisconnects` the operations of an application. A window of 2 is the
smallest in which packets overtake each other and a slot is reused while
another is held; four messages then fill the window twice. `unordered_stale` has
a window of 3 and an ACK word of 1 bit, as 128 and 32 in the code: the window
outruns the word. The wrap runs use 8
or 10 sequence numbers and go past them. The tracker of `parts` uses a word of 3
bits, 12 numbers and 16 datagrams: every bit is shifted out, and the numbers
wrap. In
`session` the keepalive interval is 1 and the timeout 2 units, so that a check
of the silence falls just before, at and after the timeout; two DISCONNECTs can
be outstanding at once, and two receives meet two messages. In `handshake` the
deadline is 3 units and the retry interval 2, so that the deadline falls between
two retries; two sessions are the fewest of which one can be an orphan. The keepalive
interval and the timeout are 1 unit, so that the check of the silence falls before
and after the timeout. `connect_cancel` has two calls on one connector, because
`cancel` reaches only the last one. In
`parts`, six jobs of two priorities meet two calls of `clear` or `reset`, the
probe interval of `BbrLite` is 3 ACKs and its minimum expires after 2 units so
that every phase recurs; `N` is 2 over 12 numbers and 16 datagrams. A byte of the
codec has four values, which keeps all its frames and all their damages within
reach; field values use every byte of their field.

`Lifetime` limits the age of a datagram, counted in sequence numbers handed out
since it was sent: a datagram a whole number space old cannot be told from a
new one, in the code as in any protocol with numbers that wrap. In runs that do
not wrap it is as large as `MaxMsgs` and has no effect. The wrap runs set it to
1 with a window of 2. `MaxOutage` in `parts` keeps outages shorter than
half the number space, beyond which a wrapping comparison cannot work.

**Deadlock.** The runs of the channels, of the session and of `parts` bound the
messages, so the model stops when they are used up; `CHECK_DEADLOCK FALSE` allows
it. The handshake runs check for deadlock.

**Fairness** in `ReliableChannel`: the socket completes every send and the
retransmit timer keeps finding expired packets (weak fairness; the timer is
armed again by every handler, see `LoopAlive`, and the back-off is capped at
eight times the timeout), and a datagram that is on the path again and again is
delivered again and again, per message and in both directions (strong fairness:
the usual assumption on a lossy path, without which no retransmission helps).
In `Session`: time passes, armed timers expire, queued handlers run, sends end.
The application returns when it is called back; nothing else is assumed of it, of
the peer or of the path there. In `Handshake`: queued handlers run, those of the
keepalive timers too (weak), and time passes (`SF_vars(Tick)`: strong, because datagrams that arrive
again and again disable a tick again and again, and time passes all the same).
`Tick` waits for the queued handlers of the clients and for the keepalive timers
that have run out: a handler runs within one unit of time.
`HalfOpenBounded` needs no fairness, as its bound is a safety property of the clocks. In `Parts`, `CapRestored` assumes that packets which were not
retransmitted keep being acknowledged; no path on which every packet is lost
forever can lift the cap.

## 4. What the violations show

Each is a disagreement between the code and its documentation, quoted in
`PROJECT.json` under "findings".

1. `ack_tracker_full_shift`: when 31 packets in a row are missing, the word is
   shifted by its own width. A build that masks the count keeps the old bits,
   and packets that never came are acknowledged.
2. `ordered_stall`: `asyncSend` takes its number before it finds the slot
   occupied (an older packet is unacknowledged while newer ones are
   acknowledged). The number is never sent; the receiver waits for it for ever.
3. `unordered_stale`: the receiver takes everything more than 32 numbers behind
   the newest one for a duplicate. A packet lost once, with the stream 33
   numbers ahead when it is sent again, is never delivered. The same packet, if
   it was delivered and its ACKs were lost, is delivered a second time once the
   newest number is half the number space ahead.
4. `slot_collision`: with a window such as 100, which does not divide 65536,
   two numbers of one receive window share a slot at the wrap; the second packet
   is marked as received, dropped and acknowledged.
5. `connect_cancel`: when the ACK has been read and its handler is queued,
   `cancel` closes the session and the handler still reports success, with a
   session that never starts.

Three more disagreements are a matter of reading, not of a run of their own.

- `LeakyBucket.hpp`, the default controller, says "Each packet costs one token", but
  nothing takes a token: the bucket stays full whatever is sent, and its window is
  the burst at all times. A lower bound on that window would hold by construction,
  so `BbrFloor` speaks of `BbrLite` alone.
- `AckedSet.hpp` says "Slide when the lower half is fully consumed" and of `seen`
  "Returns true if seq has already been delivered"; the code slides when one number
  of the upper half is marked, complete or not, and numbers of the lower half that
  have not come count as delivered from then on. `RefusedOnlyBySlide` says that
  nothing else is refused. No channel uses the class yet.
- The repository's README says in its protocol section that after a lost ACK "the
  client's retried INIT reaches the server session socket directly"; the code sends
  every INIT to the listen socket, and the same README admits under Known
  Limitations that a duplicate session appears. The model follows the code;
  `HalfOpenBounded` says what becomes of the duplicates.

`QuietAfterClose` names two things that the code does on a closed session and that
no document rules out: `start` arms its receive and both timers after an
`onConnected` that cancelled the session, and the ACK of a DATA packet is sent after
a receive's handler that did. Both end by themselves (`Released`).

Because of these, `ordered_live` uses window 1 and no failing sends, `unordered`
keeps the stream within the ACK word, and `ordered_wrap` uses a window that
divides the number space. The safety properties of `ordered` need none of that.

## 5. What is proved

Each theorem holds for every value of the constants that satisfies the `ASSUME`s
of its module: every window, number space, ACK width, set of congestion windows
and path capacity, with failing encodes and sends; every set of priorities; every
number of receives, calls and sessions; every timeout and interval; every rate and
round trip. The further hypotheses are in the table. An invariant with a name is
inductive: it holds initially, every step keeps it, and the property follows.

| Theorem | Statement | Inductive argument |
|---|---|---|
| `TypeCorrect` | `Spec => []TypeOK` | the counter can only be shown non-negative together with its exactness, so the invariant is `CountInv` = `TypeOK /\ InFlightExact` |
| `InFlightCorrect` | `Spec => []InFlightExact` | `CountInv`; releasing a set of slots, or one slot, changes the number of occupied slots by as much as the counter |
| `NumbersCorrect` | `Spec => []NumbersSound` | `NumberInv`: every copy of a packet, wherever it is, carries its message's number |
| `AccountedWhileTimely` | `Spec /\ []Timely => []Accounted` | `AccountInv`, with `NumberInv` and `SlotsAdvance`: a slot is never given to a packet older than one sent from it before, so while no first send stays pending for a whole number space, a slot that holds the number of a failed send holds that very packet |
| `AccountedCorrect` | `Spec => []Accounted`, if `MaxMsgs <= SeqMod` | until the numbers wrap, `Timely` holds of every state |
| `OrderedImplementsStream`, `OrderedPrefixCorrect` | `Spec => StreamSpec`, `Spec => []OrderedPrefix`, if `Ordered` and `MaxMsgs + Window <= SeqMod` | `StreamInv` adds that the expected number is the count of deliveries and that deliveries are a prefix of the stream; each step of the channel maps to a delivery of the packets drained, an issue, or a stutter |
| `AtMostOnceCorrect` | `Spec => []AtMostOnce`, if `~Ordered` and `MaxMsgs <= HalfSpace` | `OnceInv`: the ACK word has a bit for everything delivered within its reach, and what is beyond its reach is dropped, so nothing that is forgotten can come back |
| `AckSoundUnlessFullShift` | `Spec /\ [][NoFullShift]_vars => []AckSound`, if `MaxMsgs <= HalfSpace` | `AckInv`: the tracker's word and every ACK on the path cover only what was received; on an ordered channel the buffer holds messages of the receive window only (`ReceiveWindow`), so a message that finds its slot taken finds its own copy there |
| `AckSoundCorrect` | `Spec => []AckSound`, if moreover `MaxMsgs <= AckHistory`, or `Ordered` and `Window < AckHistory` | the latest number received is at most one behind the deliveries, so a message of the window is less than `AckHistory` ahead of it: `NoFullShift` holds of every step |
| `OrderedImplementsStreamWhileNear`, `OrderedPrefixWhileNear` | `Spec /\ []Ahead(R) => StreamSpec`, `[]OrderedPrefix`, if `Ordered`, `SeqMod % Window = 0` and `Lifetime + 2 Window + R <= SeqMod` | `FollowInv(R)`, see below |
| `AckSoundWhileNear` | `Spec /\ []Ahead(R) /\ [][NoFullShift]_vars => []AckSound`, if moreover `Window < HalfSpace`, `Window + R <= HalfSpace` and `Lifetime + R < HalfSpace` | `FollowInv(R) /\ LapPromise(R)`, see below |
| `OrderedImplementsStreamPastWrap`, `AckSoundPastWrap`, `AtMostOncePastWrap` | `Spec /\ []NoneBurnt /\ [][NoFullShift]_vars => StreamSpec` (if `Ordered`), `[]AckSound` (both kinds), `[]AtMostOnce` (if `~Ordered`), if `SeqMod % Window = 0` and `Lifetime + Window < HalfSpace` | `CleanInv` of an ordered channel, `LooseInv` of an unordered one, see below |
| `StopAndWaitImplementsStream`, `StopAndWaitAtMostOnce` | `Spec => StreamSpec` (if `Ordered`), `Spec => []AtMostOnce` (if `~Ordered`), if moreover `Window < AckHistory`, one packet may be in flight and neither encodes nor sends fail | with no packet in flight every slot is free (`InFlightExact`), so no number is burnt; the window excludes the full shift |
| `SessionUsesQueue` | `Spec => QueueSpec` (of `Session`) | every step of a handler makes at most one call on the queue |
| `NoneLostCorrect`, `FifoCorrect`, `CompletedOnceCorrect` | `Spec => []NoneLost`, `[]Fifo`, `CompletedOnce` | `QueueInv` of `QueueSpec`, carried over by `SessionUsesQueue`; it adds that no receive after a parked one has been given a message |
| `LoopAliveCorrect`, `DeadPeerDetectedCorrect`, `TornDownOnceCorrect`, `QuietAfterCloseCorrect` | `Spec => []LoopAlive`, `[]DeadPeerDetected`, `[]TornDownOnce`, `QuietAfterClose` | `SessionInv`: besides the types and `LoopAlive`, the silence plus what is left on the keepalive timer is bounded, also while the application is being called, and the policy has been told just when the session is closed |
| `HandshakeInvariant`, `CompletesOnceCorrect`, `EndsByDeadlineCorrect`, `PeersAgreeCorrect` | `Spec => []HandshakeInv`, `[]CompletesOnce`, `[]EndsByDeadline`, `[]PeersAgree` | `HandshakeInv`: a result is reported just when `done` is set; an unanswered call has its timer running, and its age plus what is left on the timer stays below the timeout and one interval; every ACK on the path, in a queued handler or adopted is of a session of that client that was not dropped |
| `HalfOpenBoundedCorrect` | `Spec => []HalfOpenBounded` | `WatchInv` on top of `HandshakeInv`: in an open session the silence plus what is left on the keepalive timer is at most the timeout and one interval; a session has been alone for no longer than it has been silent, and has been alone at all only if its peer is gone for good, so that nothing it accepts can end the silence |
| `SerializedCorrect` | `GuardSpec => []Serialized` | `GuardInv`: ids in the queue are distinct and not out, so a job is handed out once and its completion takes exactly one away; `active_` implies a job out |
| `NeverStallsCorrect` | `GuardSpec => []NeverStalls` | `GuardInv`; `pump` leaves a queue only behind a job that is out |
| `QueueOrderedCorrect` | `GuardSpec => []QueueOrdered` | `GuardInv`; the place `insertAt` exists in every sorted queue and keeps it sorted (the least job with a larger priority, by a well-founded argument) |
| `BitsSoundCorrect` | `TrackerSpec => []BitsSound`, if `AckHistory \notin Jumps` | `SoundInv`: every bit stands for a datagram received, across any number of wraps |
| `BitsCompleteCorrect` | `TrackerSpec => []BitsComplete` | `CompleteInv`: every datagram received within reach has its bit, also after a shift by the full width, whatever it leaves |
| `SequencedCorrect`, `NewestDeliveredCorrect` | `UnreliableSpec => []Sequenced`, `[]NewestDelivered`, if `MaxOutage < HalfSpace` and `Lifetime <= HalfSpace` | `UnreliableInv`: the last number delivered is that of the newest message that arrived |
| `BbrFloorCorrect` | `CongestionSpec => []BbrFloor` | `ControllerInv`: BbrLite's cap is 4 at least, in every state |
| `DrainedInOrderCorrect`, `AcceptedOnceCorrect`, `RefusedOnlyBySlideCorrect` | `HelpersSpec => []DrainedInOrder`, `[]AcceptedOnce`, `[]RefusedOnlyBySlide` | `HelpersInv`: the ring holds datagrams of the next `N` only, each in its slot; the bitmap starts at some datagram `b` of the stream, a multiple of `N`, only its lower half is in use between calls, and what was drained or is held lies below `b + N` |
| `DecodeSoundCorrect` | `CodecSpec => []DecodeSound` | `CodecInv`: a frame is empty, valid and the packet's, or refused; up to the changed byte the two checksums agree, there they part, and every later round keeps them apart because both the exclusive or and the multiplication can be undone |

**Past the wrap.** Once the numbers have wrapped, a number no longer says which
message is meant; a number and a bound on the distance do. Two distances matter.
`Ahead(R)`: the sender is at most `R` numbers ahead of what has been delivered.
`Recent(K)`: nothing in the send window is more than `K` numbers old, and so no
datagram is older than `K` when it is sent again (the last part of `LapInv`).
`Recent` needs no assumption. When the number `x + Window` is handed out while
`x` is unacknowledged, `asyncSend` finds the slot taken and the number gets no
packet, ever: this is the invariant `Skipped`. On an ordered channel every message
below the expected one has been delivered, so `x + Window` is not below it, and
`Ahead(R)` gives `Recent(Window + R)`. With both bounds a datagram that still
arrives and passes the window test is a message of the receive window
(`LapAdmitted`), and the rest is the argument of `StreamInv` with remainders.
`LapPromise(R)` says which message the tracker and each ACK on the path are about,
and that this message is at most `R + 1` behind the sender's next one when the ACK is
built; an ACK that still arrives is then within half of the numbers of
everything in the send window.

`Ahead` itself follows when no number has been used up without a packet
(`NoneBurnt`, that is `holes = {}`). Then every number is acknowledged or in the
send window (`Accounted`), what is acknowledged has been received (`AckSound`), so
the message that is due is in the send window, and `Recent` bounds the sender by it.
So `Accounted`, `AckSound` and the two bounds hold together or not at all, and
`CleanInv` and `LooseInv` are their conjunctions; `LooseInv` has the ACK word know
everything delivered within its reach instead of the receive window.

**The hypotheses.** Those on `MaxMsgs` say how many sequence numbers a channel
has used: 65536 less a window, or 32768, in the code. The theorems past the wrap
have none; in their place they have what a run must keep to. `Ahead(R)` allows
every failure, with a lead of up to 65536 less two windows and the age of a
datagram; it excludes the channel that has stalled (`ordered_stall`) and whose
sender goes on burning numbers until one comes round again. `NoneBurnt`
excludes failing sends and encodes, and the slot found taken. `Timely` says that
no first send stays incomplete while the next 65536 numbers are handed out.
`SeqMod % Window = 0` holds of every power of two, the default of 128 included;
`slot_collision` shows what happens without it. `Lifetime` bounds the age of a
datagram: one that is a whole number space old cannot be told from a new one.
`NoFullShift` says that no step advances the latest number received by exactly the
width of the ACK word, which is what `ack_tracker_full_shift` shows to break the
word; the theorems say that nothing else does. With the default window of 128
and a word of 32 bits the condition is needed; with a window below 32 it always
holds on an ordered channel, and on an unordered one that burns no number.
`MaxOutage` is that of section 3, and half of the number space is what a wrapping
comparison can bridge. The constants of `ordered_wrap` satisfy the hypotheses of
the theorems past the wrap, with `R = 2`.

**Model-checked only.** Liveness under fairness (`FairStreamSpec`,
`EventuallyDelivered`, `EventuallyReleased`, `Released`, `DisconnectCloses`,
`ConnectComesToRest`, `CapRestored`) is outside what the proof
system can do. Every safety property that a passing run checks is proved.
`ordered_wrap` also explores runs that burn numbers past the wrap.

## 6. What is not modelled

- `SlidingWindow`: nothing in the library constructs it, and its counter has no
  use that would say what it should count.
- `ChannelConfig`, `SessionConfig`, `SocketStats`, `Error`: plain data, setters,
  counters and tables without control flow. What is configured is a constant of
  the modules.
- `pacingDelay` and `rttEstimate` of the controllers: they change nothing and no
  code calls them.
- Payloads and their truncation in `completeRecv`; statistics; the deadline of a
  single packet and the value of its round trip sample (any set of packets may
  expire, any round trip be reported).
- Damaged datagrams outside `Codec`: one that does not verify is a lost one for a
  channel and an ignored one for a session and the handshake.
- Lifetimes of objects: the completion of `asyncSend` keeps a bare pointer to its
  channel, and `flush` a reference to a variable on a stack that is gone. Both are
  listed as hazards without a property.
- Allocation failure; several channels in one session, which share nothing but
  the socket; a second outstanding `asyncAccept`, which the repository rules out.

## 7. What could come next

- `AckSound` and `AtMostOnce` of an unordered channel past the wrap when numbers
  are burnt: the newest number received then is no bound on the sender by itself,
  and a condition such as `Ahead` has to be stated on what was received instead of
  what was delivered in order.
- Should the code come to compare a late packet with the send window instead of
  the ACK word, the run `unordered_stale` would no longer find its violation, and
  its property could join the passing runs.
