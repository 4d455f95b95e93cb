--------------------------- MODULE SessionProofs ---------------------------
(***************************************************************************)
(* Theorems about RecvQueue and Session, for every number of receives,     *)
(* messages and sends, and for every keepalive interval and timeout.       *)
(***************************************************************************)
EXTENDS Session, SequenceTheorems, TLAPS

-----------------------------------------------------------------------------
(* The receive queue *)

Outcomes == [kind : {"message", "failed", "busy", "parked"}, value : Nat \cup Reasons]

(* While a receive is parked, no later one has been given a message. *)
ParkedIsNext ==
  pendingRecv # NoRecv =>
    \A r \in 1 .. Len(outcomes) : r > pendingRecv => outcomes[r].kind # "message"

(* A channel that is closed knows why, and tells every receive it fails. *)
FailuresNamed ==
  /\ closed => closeReason \in Reasons
  /\ \A r \in 1 .. Len(outcomes) :
       outcomes[r].kind = "failed" => outcomes[r].value \in Reasons

QueueTypes ==
  /\ outcomes \in Seq(Outcomes)
  /\ queuedMessages \in Seq(Nat)
  /\ arrived \in Nat
  /\ closed \in BOOLEAN
  /\ pendingRecv \in (1 .. Len(outcomes)) \cup {NoRecv}

(* The inductive invariant of the queue *)
QueueInv ==
  /\ QueueTypes
  /\ NoneLost
  /\ Fifo
  /\ ParkedIsNext
  /\ FailuresNamed

(* What receives are completed with. *)
LEMMA OutcomeKinds ==
  /\ \A m \in Nat : /\ Message(m) \in Outcomes /\ Message(m) # Parked
                    /\ Message(m).kind = "message" /\ Message(m).value = m
  /\ \A reason \in Reasons : /\ Failed(reason) \in Outcomes /\ Failed(reason) # Parked
                             /\ Failed(reason).kind = "failed"
                             /\ Failed(reason).value = reason
  /\ Busy \in Outcomes /\ Busy # Parked /\ Busy.kind = "busy"
  /\ Parked \in Outcomes /\ Parked.kind = "parked"
  BY DEF Message, Failed, Busy, Parked, Outcomes

(* One more outcome leaves the earlier ones as they were. *)
LEMMA AppendedOutcome ==
  ASSUME outcomes \in Seq(Outcomes), NEW o \in Outcomes, outcomes' = Append(outcomes, o)
  PROVE  /\ outcomes' \in Seq(Outcomes)
         /\ Len(outcomes) \in Nat /\ Len(outcomes') = Len(outcomes) + 1
         /\ \A r \in 1 .. Len(outcomes) : outcomes'[r] = outcomes[r]
         /\ outcomes'[Len(outcomes) + 1] = o
  BY AppendProperties

(* An outcome that replaces another leaves the others as they were. *)
LEMMA ReplacedOutcome ==
  ASSUME outcomes \in Seq(Outcomes), NEW o \in Outcomes, NEW p \in 1 .. Len(outcomes),
         outcomes' = [outcomes EXCEPT ![p] = o]
  PROVE  /\ outcomes' \in Seq(Outcomes)
         /\ Len(outcomes) \in Nat /\ Len(outcomes') = Len(outcomes)
         /\ \A r \in 1 .. Len(outcomes) : r # p => outcomes'[r] = outcomes[r]
         /\ outcomes'[p] = o
  BY ExceptSeq

LEMMA QueueInitial == QueueInit => QueueInv
<1> SUFFICES ASSUME QueueInit PROVE QueueInv
  OBVIOUS
<1>1. /\ outcomes = <<>> /\ queuedMessages = <<>> /\ Len(outcomes) = 0 /\ Len(queuedMessages) = 0
      /\ arrived = 0 /\ closed = FALSE /\ pendingRecv = NoRecv
  BY DEF QueueInit
<1>2. Fifo
  BY <1>1 DEF Fifo, Served, Given
<1>3. QED
  <2>1. <<>> \in Seq(Outcomes) /\ <<>> \in Seq(Nat)
    OBVIOUS
  <2>2. QueueTypes
    BY <1>1, <2>1 DEF QueueTypes
  <2>3. NoneLost /\ ParkedIsNext /\ FailuresNamed
    BY <1>1 DEF NoneLost, ParkedIsNext, FailuresNamed
  <2>4. QED
    BY <1>2, <2>2, <2>3 DEF QueueInv

(* A receive that is completed or parked at once without a message leaves  *)
(* the order of the messages alone.                                        *)
LEMMA FifoKept ==
  ASSUME QueueInv, NEW o \in Outcomes, o.kind # "message",
         outcomes' = Append(outcomes, o),
         UNCHANGED <<queuedMessages, arrived>>
  PROVE  Fifo'
<1>1. /\ Len(outcomes) \in Nat /\ Len(outcomes') = Len(outcomes) + 1
      /\ \A r \in 1 .. Len(outcomes) : outcomes'[r] = outcomes[r]
      /\ outcomes'[Len(outcomes) + 1] = o
  BY AppendedOutcome DEF QueueInv, QueueTypes
<1>2. Served' = Served
  BY <1>1 DEF Served
<1>3. Served \subseteq 1 .. Len(outcomes) /\ Given' = Given
  BY DEF Served, Given
<1>4. QED
  BY <1>1, <1>2, <1>3 DEF QueueInv, Fifo

LEMMA QueueAsyncRecvQueued ==
  ASSUME QueueInv, AsyncRecvQueued PROVE QueueInv'
<1> DEFINE m == Head(queuedMessages)
           n == Len(outcomes) + 1
<1>1. /\ QueueTypes /\ NoneLost /\ Fifo /\ FailuresNamed
      /\ queuedMessages # <<>>
      /\ queuedMessages' = Tail(queuedMessages)
      /\ outcomes' = Append(outcomes, Message(m))
      /\ pendingRecv' = pendingRecv /\ closed' = closed
      /\ closeReason' = closeReason /\ arrived' = arrived
  BY DEF QueueInv, AsyncRecvQueued, Starts
<1>2. /\ Len(queuedMessages) \in Nat \ {0}
      /\ m \in Nat /\ m = queuedMessages[1]
      /\ queuedMessages' \in Seq(Nat)
      /\ Len(queuedMessages') = Len(queuedMessages) - 1
      /\ \A i \in 1 .. Len(queuedMessages) - 1 : queuedMessages'[i] = queuedMessages[i + 1]
  BY <1>1 DEF QueueTypes
<1>3. Message(m) \in Outcomes /\ Message(m) # Parked /\ Message(m).kind = "message" /\ Message(m).value = m
  BY <1>2, OutcomeKinds
<1>4. /\ outcomes' \in Seq(Outcomes)
      /\ Len(outcomes) \in Nat /\ Len(outcomes') = n
      /\ \A r \in 1 .. Len(outcomes) : outcomes'[r] = outcomes[r]
      /\ outcomes'[n] = Message(m)
  BY <1>1, <1>3, AppendedOutcome DEF QueueTypes
<1> HIDE DEF m
<1>5. pendingRecv = NoRecv /\ NoRecv \notin Nat
  BY <1>1, RecvQueueAssumption DEF NoneLost
<1>6. QueueTypes'
  BY <1>1, <1>2, <1>4, <1>5 DEF QueueTypes
<1>7. NoneLost'
  BY <1>1, <1>3, <1>4, <1>5 DEF NoneLost
<1>8. Fifo'
  <2>1. Given \in Nat /\ Given' = Given + 1 /\ m = Given + 1
    BY <1>1, <1>2 DEF QueueTypes, Given, Fifo
  <2>2. Served' = Served \cup {n} /\ Served \subseteq 1 .. Len(outcomes)
    BY <1>3, <1>4 DEF Served
  <2>3. /\ \A r \in Served : outcomes'[r].value = outcomes[r].value
        /\ outcomes'[n].value = Given + 1
    BY <1>3, <1>4, <2>1, <2>2
  <2>4. {outcomes'[r].value : r \in Served'} = {outcomes[r].value : r \in Served} \cup {Given + 1}
    BY <2>2, <2>3
  <2>5. {outcomes[r].value : r \in Served} = 1 .. Given
    BY <1>1 DEF Fifo
  <2>6. {outcomes'[r].value : r \in Served'} = 1 .. Given'
    <3>1. (1 .. Given) \cup {Given + 1} = 1 .. Given'
      BY <2>1
    <3>2. QED
      BY <2>4, <2>5, <3>1, Zenon
  <2>7. \A r \in Served : outcomes[r].value \in 1 .. Given /\ r < n
    BY <1>4, <2>2, <2>5
  <2>8. \A r, s \in Served' : r < s => outcomes'[r].value < outcomes'[s].value
    BY <1>1, <2>1, <2>2, <2>3, <2>7 DEF Fifo
  <2>9. \A i \in 1 .. Len(queuedMessages') : queuedMessages'[i] = Given' + i
    BY <1>1, <1>2, <2>1 DEF Fifo
  <2>10. QED
    BY <2>1, <2>6, <2>8, <2>9 DEF Fifo
<1>9. ParkedIsNext' /\ FailuresNamed'
  BY <1>1, <1>3, <1>4, <1>5 DEF ParkedIsNext, FailuresNamed
<1>10. QED
  BY <1>6, <1>7, <1>8, <1>9 DEF QueueInv

LEMMA QueueAsyncRecvClosed ==
  ASSUME QueueInv, AsyncRecvClosed \/ AsyncRecvBusy PROVE QueueInv'
<1>1. /\ QueueTypes /\ NoneLost /\ ParkedIsNext /\ FailuresNamed
      /\ queuedMessages' = queuedMessages /\ pendingRecv' = pendingRecv /\ closed' = closed
      /\ closeReason' = closeReason /\ arrived' = arrived
  BY DEF QueueInv, AsyncRecvClosed, AsyncRecvBusy
<1>2. PICK o \in Outcomes :
        /\ outcomes' = Append(outcomes, o)
        /\ o.kind # "message" /\ o # Parked
        /\ o.kind = "failed" => o.value \in Reasons
  BY <1>1, OutcomeKinds DEF AsyncRecvClosed, AsyncRecvBusy, Starts, FailuresNamed
<1>3. /\ outcomes' \in Seq(Outcomes)
      /\ Len(outcomes) \in Nat /\ Len(outcomes') = Len(outcomes) + 1
      /\ \A r \in 1 .. Len(outcomes) : outcomes'[r] = outcomes[r]
      /\ outcomes'[Len(outcomes) + 1] = o
  BY <1>1, <1>2, AppendedOutcome DEF QueueTypes
<1>4. NoRecv \notin Nat
  BY RecvQueueAssumption
<1>5. QueueTypes'
  BY <1>1, <1>3, <1>4 DEF QueueTypes
<1>6. NoneLost'
  BY <1>1, <1>2, <1>3, <1>4 DEF NoneLost, QueueTypes
<1>7. Fifo'
  BY <1>1, <1>2, FifoKept
<1>8. ParkedIsNext' /\ FailuresNamed'
  BY <1>1, <1>2, <1>3, <1>4 DEF ParkedIsNext, FailuresNamed
<1>9. QED
  BY <1>5, <1>6, <1>7, <1>8 DEF QueueInv

LEMMA QueueAsyncRecvPark ==
  ASSUME QueueInv, AsyncRecvPark PROVE QueueInv'
<1>1. /\ QueueTypes /\ NoneLost /\ FailuresNamed
      /\ queuedMessages = <<>> /\ ~closed /\ pendingRecv = NoRecv
      /\ queuedMessages' = queuedMessages /\ pendingRecv' = Len(outcomes) + 1 /\ closed' = closed
      /\ closeReason' = closeReason /\ arrived' = arrived
      /\ outcomes' = Append(outcomes, Parked)
  BY DEF QueueInv, AsyncRecvPark, Starts
<1>2. /\ outcomes' \in Seq(Outcomes)
      /\ Len(outcomes) \in Nat /\ Len(outcomes') = Len(outcomes) + 1
      /\ \A r \in 1 .. Len(outcomes) : outcomes'[r] = outcomes[r]
      /\ outcomes'[Len(outcomes) + 1] = Parked
  BY <1>1, OutcomeKinds, AppendedOutcome DEF QueueTypes
<1>3. NoRecv \notin Nat
  BY RecvQueueAssumption
<1>4. QueueTypes'
  BY <1>1, <1>2, <1>3 DEF QueueTypes
<1>5. NoneLost'
  BY <1>1, <1>2, <1>3 DEF NoneLost
<1>6. Fifo'
  BY <1>1, OutcomeKinds, FifoKept
<1>7. ParkedIsNext' /\ FailuresNamed'
  BY <1>1, <1>2, <1>3, OutcomeKinds DEF ParkedIsNext, FailuresNamed
<1>8. QED
  BY <1>4, <1>5, <1>6, <1>7 DEF QueueInv

LEMMA QueueDeliverQueued ==
  ASSUME QueueInv, DeliverQueued PROVE QueueInv'
<1>1. /\ QueueTypes /\ NoneLost /\ FailuresNamed /\ Fifo
      /\ pendingRecv = NoRecv
      /\ queuedMessages' = Append(queuedMessages, arrived + 1)
      /\ arrived' = arrived + 1
      /\ pendingRecv' = pendingRecv /\ closed' = closed
      /\ closeReason' = closeReason /\ outcomes' = outcomes
  BY DEF QueueInv, DeliverQueued
<1>2. /\ Len(queuedMessages) \in Nat /\ arrived + 1 \in Nat
      /\ queuedMessages' \in Seq(Nat)
      /\ Len(queuedMessages') = Len(queuedMessages) + 1
      /\ \A i \in 1 .. Len(queuedMessages) : queuedMessages'[i] = queuedMessages[i]
      /\ queuedMessages'[Len(queuedMessages) + 1] = arrived + 1
  BY <1>1, AppendProperties DEF QueueTypes
<1>3. QueueTypes'
  BY <1>1, <1>2 DEF QueueTypes
<1>4. NoneLost' /\ ParkedIsNext' /\ FailuresNamed'
  BY <1>1 DEF NoneLost, ParkedIsNext, FailuresNamed
<1>5. Fifo'
  <2>1. Given' = Given /\ Served' = Served /\ arrived + 1 = Given + Len(queuedMessages) + 1
    BY <1>1, <1>2 DEF Given, Served, QueueTypes
  <2>2. \A i \in 1 .. Len(queuedMessages') : queuedMessages'[i] = Given' + i
    <3>1. \A i \in 1 .. Len(queuedMessages) : queuedMessages'[i] = Given + i
      BY <1>1, <1>2 DEF Fifo
    <3>2. QED
      <4>1. Given \in Int
        BY <1>1, <1>2 DEF Given, QueueTypes
      <4>2. \A i \in 1 .. Len(queuedMessages) + 1 :
              i \in 1 .. Len(queuedMessages) \/ i = Len(queuedMessages) + 1
        BY <1>2
      <4>3. queuedMessages'[Len(queuedMessages) + 1] = Given + (Len(queuedMessages) + 1)
        BY <1>2, <2>1, <4>1
      <4>4. QED
        BY <1>2, <2>1, <3>1, <4>2, <4>3
  <2>3. QED
    BY <1>1, <2>1, <2>2 DEF Fifo
<1>6. QED
  BY <1>3, <1>4, <1>5 DEF QueueInv

LEMMA QueueDeliverToPending ==
  ASSUME QueueInv, DeliverToPending PROVE QueueInv'
<1> DEFINE p == pendingRecv
           m == arrived + 1
<1>1. /\ QueueTypes /\ NoneLost /\ FailuresNamed /\ Fifo /\ ParkedIsNext
      /\ p # NoRecv /\ NoRecv \notin Nat
      /\ outcomes' = [outcomes EXCEPT ![p] = Message(m)]
      /\ pendingRecv' = NoRecv /\ arrived' = m
      /\ queuedMessages' = queuedMessages /\ closed' = closed /\ closeReason' = closeReason
  BY RecvQueueAssumption DEF QueueInv, DeliverToPending
<1>2. /\ p \in 1 .. Len(outcomes) /\ m \in Nat
      /\ queuedMessages = <<>> /\ Len(queuedMessages) = 0 /\ outcomes[p] = Parked
  BY <1>1 DEF QueueTypes, NoneLost
<1>3. Message(m) \in Outcomes /\ Message(m) # Parked /\ Message(m).kind = "message" /\ Message(m).value = m
  BY <1>2, OutcomeKinds
<1>4. /\ outcomes' \in Seq(Outcomes)
      /\ Len(outcomes) \in Nat /\ Len(outcomes') = Len(outcomes)
      /\ \A r \in 1 .. Len(outcomes) : r # p => outcomes'[r] = outcomes[r]
      /\ outcomes'[p] = Message(m)
  BY <1>1, <1>2, <1>3, ReplacedOutcome DEF QueueTypes
<1>5. QueueTypes'
  BY <1>1, <1>2, <1>4 DEF QueueTypes
<1>6. NoneLost'
  BY <1>1, <1>2, <1>3, <1>4 DEF NoneLost
<1>7. ParkedIsNext' /\ FailuresNamed'
  BY <1>1, <1>2, <1>3, <1>4 DEF ParkedIsNext, FailuresNamed
<1>8. Fifo'
  <2>1. Given = arrived /\ Given' = m /\ Given \in Nat
    BY <1>1, <1>2 DEF Given, QueueTypes
  <2>2. p \notin Served
    BY <1>2, OutcomeKinds DEF Served
  <2>3. Served' = Served \cup {p} /\ Served \subseteq 1 .. Len(outcomes)
    BY <1>2, <1>3, <1>4 DEF Served
  <2>4. /\ \A r \in Served : outcomes'[r].value = outcomes[r].value
        /\ outcomes'[p].value = Given + 1
    BY <1>3, <1>4, <2>1, <2>2, <2>3
  <2>5. {outcomes'[r].value : r \in Served'} = {outcomes[r].value : r \in Served} \cup {Given + 1}
    BY <2>3, <2>4
  <2>6. {outcomes[r].value : r \in Served} = 1 .. Given
    BY <1>1 DEF Fifo
  <2>7. {outcomes'[r].value : r \in Served'} = 1 .. Given'
    <3>1. (1 .. Given) \cup {Given + 1} = 1 .. Given'
      BY <2>1
    <3>2. QED
      BY <2>5, <2>6, <3>1, Zenon
  <2>8. \A r \in Served : outcomes[r].value \in 1 .. Given /\ r < p
    BY <1>1, <1>2, <1>4, <2>2, <2>3, <2>6 DEF ParkedIsNext, Served
  <2>9. \A r, s \in Served' : r < s => outcomes'[r].value < outcomes'[s].value
    BY <1>1, <1>2, <1>4, <2>1, <2>3, <2>4, <2>8 DEF Fifo
  <2>10. QED
    BY <1>1, <1>2, <2>1, <2>7, <2>9 DEF Fifo
<1>9. QED
  BY <1>5, <1>6, <1>7, <1>8 DEF QueueInv

LEMMA QueueClose ==
  ASSUME QueueInv, NEW reason \in Reasons, Close(reason) PROVE QueueInv'
<1>1. /\ QueueTypes /\ NoneLost /\ FailuresNamed /\ Fifo /\ ParkedIsNext
      /\ closed' = TRUE /\ closeReason' = reason /\ pendingRecv' = NoRecv /\ NoRecv \notin Nat
      /\ queuedMessages' = queuedMessages /\ arrived' = arrived
  BY RecvQueueAssumption DEF QueueInv, Close
<1>2. CASE pendingRecv = NoRecv
  <2>1. outcomes' = outcomes
    BY <1>2 DEF Close
  <2>2. QED
    BY <1>1, <1>2, <2>1
       DEF QueueInv, QueueTypes, NoneLost, FailuresNamed, Fifo, ParkedIsNext, Served, Given
<1>3. CASE pendingRecv # NoRecv
  <2> DEFINE p == pendingRecv
  <2>1. outcomes' = [outcomes EXCEPT ![p] = Failed(reason)]
    BY <1>3 DEF Close
  <2>2. p \in 1 .. Len(outcomes) /\ outcomes[p] = Parked
    BY <1>1, <1>3 DEF QueueTypes, NoneLost
  <2>3. /\ Failed(reason) \in Outcomes /\ Failed(reason) # Parked
        /\ Failed(reason).kind = "failed" /\ Failed(reason).value = reason
    BY OutcomeKinds
  <2>4. /\ outcomes' \in Seq(Outcomes)
        /\ Len(outcomes) \in Nat /\ Len(outcomes') = Len(outcomes)
        /\ \A r \in 1 .. Len(outcomes) : r # p => outcomes'[r] = outcomes[r]
        /\ outcomes'[p] = Failed(reason)
    BY <1>1, <2>1, <2>2, <2>3, ReplacedOutcome DEF QueueTypes
  <2>5. QueueTypes'
    BY <1>1, <2>4 DEF QueueTypes
  <2>6. NoneLost' /\ ParkedIsNext' /\ FailuresNamed'
    BY <1>1, <1>3, <2>2, <2>3, <2>4 DEF NoneLost, ParkedIsNext, FailuresNamed
  <2>7. Fifo'
    <3>1. Served' = Served /\ p \notin Served /\ Given' = Given
      BY <1>1, <2>2, <2>3, <2>4, OutcomeKinds DEF Served, Given
    <3>2. \A r \in Served : outcomes'[r] = outcomes[r]
      BY <2>4, <3>1 DEF Served
    <3>3. QED
      BY <1>1, <3>1, <3>2 DEF Fifo
  <2>8. QED
    BY <2>5, <2>6, <2>7 DEF QueueInv
<1>4. QED
  BY <1>2, <1>3

LEMMA QueueStep ==
  QueueInv /\ [QueueNext]_queueVars => QueueInv'
<1> SUFFICES ASSUME QueueInv, [QueueNext]_queueVars PROVE QueueInv'
  OBVIOUS
<1>1. CASE UNCHANGED queueVars
  BY <1>1 DEF QueueInv, QueueTypes, NoneLost, FailuresNamed, Fifo, ParkedIsNext, Served, Given, queueVars
<1>2. QED
  BY <1>1, QueueAsyncRecvQueued, QueueAsyncRecvClosed, QueueAsyncRecvPark,
     QueueDeliverQueued, QueueDeliverToPending, QueueClose DEF QueueNext

(* What a receive was completed with stands, from the invariant. *)
LEMMA QueueStepOnce ==
  QueueInv /\ [QueueNext]_queueVars =>
    [\A r \in 1 .. Len(outcomes) : outcomes[r] # Parked => outcomes'[r] = outcomes[r]]_queueVars
<1> SUFFICES ASSUME QueueInv, QueueNext,
                    NEW r \in 1 .. Len(outcomes), outcomes[r] # Parked
             PROVE  outcomes'[r] = outcomes[r]
  OBVIOUS
<1>1. outcomes \in Seq(Outcomes) /\ NoneLost /\ FailuresNamed /\ queuedMessages \in Seq(Nat)
  BY DEF QueueInv, QueueTypes
<1>2. r # pendingRecv
  BY <1>1 DEF NoneLost
<1>3. ASSUME NEW o, Starts(o) PROVE outcomes'[r] = outcomes[r]
  BY <1>1, <1>3 DEF Starts
<1>4. ASSUME NEW o, outcomes' = [outcomes EXCEPT ![pendingRecv] = o] PROVE outcomes'[r] = outcomes[r]
  BY <1>1, <1>2, <1>4
<1>5. QED
  BY <1>3, <1>4 DEF QueueNext, AsyncRecvQueued, AsyncRecvClosed, AsyncRecvBusy, AsyncRecvPark,
     DeliverQueued, DeliverToPending, Close

-----------------------------------------------------------------------------
(* The session *)

(* Every reason a session closes with is one its channel may be closed with. *)
LEMMA ReasonsKnown ==
  /\ \A reason \in {"ConnectionReset", "Timeout", "aborted", "BadPacket", "socket", Success} :
       ChannelReason(reason) \in Reasons
  /\ Success \notin Reasons
  BY SessionAssumption, RecvQueueAssumption DEF ChannelReason, Success

(* What a session does to its channel is a step of the receive queue. *)
LEMMA SessionStepOfQueue == [Next]_vars => [QueueNext]_queueVars
<1> SUFFICES ASSUME [Next]_vars PROVE [QueueNext]_queueVars
  OBVIOUS
<1>1. ASSUME NEW reason \in {"ConnectionReset", "Timeout", "aborted", "BadPacket", "socket", Success},
             Close(ChannelReason(reason))
      PROVE  QueueNext
  BY <1>1, ReasonsKnown DEF QueueNext
<1>2. ASSUME NEW reason \in {"ConnectionReset", "Timeout", "aborted", "BadPacket", "socket", Success},
             NEW r, NEW k, CloseSession(reason, r, k)
      PROVE  [QueueNext]_queueVars
  BY <1>1, <1>2 DEF CloseSession, CloseFirst, CloseAgain
<1>3. CASE UNCHANGED vars
  BY <1>3 DEF vars
<1>4. CASE Start \/ StartEnds \/ Cancel
  BY <1>2, <1>4 DEF Start, StartEnds, Cancel
<1>5. CASE Receive \/ RecvDataDrains \/ RecvDataEnds
  <2>1. CASE RecvData \/ RecvDataCalls \/ RecvDataDrains \/ RecvDataEnds
    BY <2>1 DEF RecvData, RecvDataCalls, RecvDataDrains, RecvDataEnds, QueueNext
  <2>2. CASE RecvDisconnect \/ RecvError
    BY <1>1, <2>2 DEF RecvDisconnect, RecvError, CloseFirst
  <2>3. QED
    BY <1>5, <2>1, <2>2 DEF Receive, RecvAfterClose, RecvQuiet, RecvInit
<1>6. CASE OnKeepalive \/ OnRetransmit
  BY <1>1, <1>6 DEF OnKeepalive, OnRetransmit, KeepaliveEnds, KeepaliveTimesOut, KeepaliveTick,
                    CloseFirst, RetransmitEnds, RetransmitTick
<1>7. CASE DisconnectCompletes
  BY <1>2, <1>7 DEF DisconnectCompletes
<1>8. CASE Operations
  BY <1>1, <1>8 DEF Operations, AsyncSend, AsyncFlush, AsyncDisconnect, AsyncDisconnectEncodeFails,
                    AsyncRecv, CloseFirst, OpUnchanged, QueueNext
<1>9. CASE \/ \E d \in Arrivals : Arrive(d)
           \/ KeepaliveExpires \/ RetransmitExpires \/ Tick \/ SendCompletes \/ BareSendCompletes
  BY <1>9 DEF Arrive, KeepaliveExpires, RetransmitExpires, Tick, SendCompletes, BareSendCompletes,
              OpUnchanged
<1>10. QED
  BY <1>3, <1>4, <1>5, <1>6, <1>7, <1>8, <1>9 DEF Next

(* The keepalive timer that is armed fires before the silence has grown    *)
(* longer than a timeout and a keepalive interval.                         *)
SilenceBounded ==
  started /\ ~sessionClosed =>
    /\ silence <= Timeout + Keepalive
    /\ keepaliveTimer = "armed" => silence + keepaliveIn <= Timeout + Keepalive

SessionTypes ==
  /\ started \in BOOLEAN /\ sessionClosed \in BOOLEAN
  /\ keepaliveIn \in 0 .. Keepalive /\ silence \in Nat
  /\ sends \in Nat /\ disconnects \in Nat
  /\ notified \in Seq(Reasons \cup {Success})

(* The policy and the channel hear of the teardown when it happens. *)
ToldOnce ==
  /\ Len(notified) = IF sessionClosed THEN 1 ELSE 0
  /\ closed = sessionClosed

(* What the handler on the stack will find when the application returns: no *)
(* time has passed, and the timers of an open session are running.  Only a  *)
(* session that has started receives.                                       *)
MidHandler ==
  /\ onStack \in {"none", "start", "data"}
  /\ onStack = "start" => started /\ silence = 0
  /\ socketRecv # "idle" => started
  /\ onStack = "data" /\ ~sessionClosed =>
       started /\ Running(keepaliveTimer) /\ Running(retxTimer)

LEMMA StaysBelow ==
  ASSUME NEW a \in Nat, NEW b \in Nat, b <= a, NEW k \in Nat, NEW m \in Nat, NEW n \in Nat
  PROVE  (a <= m + n => b <= m + n) /\ (a + k <= m + n => b + k <= m + n)
  OBVIOUS

(* The inductive invariant of the session, beside that of its queue *)
SessionInv ==
  /\ SessionTypes
  /\ ToldOnce
  /\ LoopAlive
  /\ MidHandler
  /\ SilenceBounded

LEMMA SessionInitial == Init => SessionInv
<1> SUFFICES ASSUME Init PROVE SessionInv
  OBVIOUS
<1>1. <<>> \in Seq(Reasons \cup {Success}) /\ 0 \in 0 .. Keepalive
  BY SessionAssumption
<1>2. SessionTypes
  BY <1>1 DEF Init, SessionTypes
<1>3. ToldOnce /\ LoopAlive /\ MidHandler /\ SilenceBounded
  BY DEF Init, QueueInit, ToldOnce, LoopAlive, MidHandler, SilenceBounded
<1>4. QED
  BY <1>2, <1>3 DEF SessionInv

(* close, called for the first time by a handler that leaves the receive   *)
(* in state r and the keepalive timer in state k                           *)
LEMMA SessionCloseFirst ==
  ASSUME SessionInv,
         NEW reason \in {"ConnectionReset", "Timeout", "aborted", "BadPacket", "socket", Success},
         NEW r \in {socketRecv, "idle"}, NEW k, CloseFirst(reason, r, k),
         UNCHANGED lifeVars, keepaliveIn' \in 0 .. Keepalive, silence' \in Nat,
         silence' = silence \/ StrandFree, sends' \in Nat, disconnects' \in Nat
  PROVE  SessionInv'
<1>1. /\ sessionClosed' = TRUE /\ closed' = TRUE /\ ~sessionClosed
      /\ notified' = Append(notified, reason)
      /\ notified \in Seq(Reasons \cup {Success}) /\ Len(notified) = 0
      /\ socketRecv' # "idle" => socketRecv # "idle"
  BY DEF SessionInv, SessionTypes, ToldOnce, CloseFirst, Close, Cancelled
<1>2. reason \in Reasons \cup {Success}
  BY SessionAssumption
<1>3. notified' \in Seq(Reasons \cup {Success}) /\ Len(notified') = 1
  BY <1>1, <1>2, AppendProperties
<1>4. QED
  BY <1>1, <1>3
     DEF SessionInv, SessionTypes, ToldOnce, LoopAlive, MidHandler, SilenceBounded, lifeVars, StrandFree

(* What close and start leave alone, and nothing is armed or started again: *)
(* a step that keeps the timers and the receive of an open session.         *)
LEMMA SessionQuietStep ==
  ASSUME SessionInv, SessionTypes',
         UNCHANGED <<lifeVars, sessionClosed, closed, socketRecv, timerVars, notified>>
  PROVE  SessionInv'
  BY DEF SessionInv, ToldOnce, LoopAlive, MidHandler, SilenceBounded, lifeVars, timerVars, Running,
         StrandFree

LEMMA SessionStarts ==
  ASSUME SessionInv, Start \/ StartEnds PROVE SessionInv'
<1>1. SessionTypes /\ ToldOnce /\ LoopAlive /\ MidHandler
  BY DEF SessionInv
<1>2. Timeout \in Nat /\ Keepalive \in Nat
  BY SessionAssumption
<1>3. CASE Start
  <2>1. /\ started' = TRUE /\ onStack' = "start" /\ silence' = 0
        /\ UNCHANGED <<sessionClosed, closed, socketRecv, keepaliveTimer, keepaliveIn, retxTimer,
                       sends, disconnects, notified>>
    BY <1>3 DEF Start, queueVars, sendVars
  <2>2. SessionTypes' /\ ToldOnce' /\ LoopAlive' /\ MidHandler'
    BY <1>1, <2>1 DEF SessionTypes, ToldOnce, LoopAlive, MidHandler, StrandFree
  <2>3. SilenceBounded'
    BY <1>1, <1>2, <2>1 DEF SilenceBounded, SessionTypes
  <2>4. QED
    BY <2>2, <2>3 DEF SessionInv
<1>4. CASE StartEnds
  <2>1. /\ onStack = "start" /\ onStack' = "none"
        /\ socketRecv' = IF sessionClosed THEN "aborted" ELSE "waiting"
        /\ retxTimer' = "armed" /\ keepaliveTimer' = "armed" /\ keepaliveIn' = Keepalive
        /\ UNCHANGED <<started, sessionClosed, closed, silence, sends, disconnects, notified>>
    BY <1>4 DEF StartEnds, queueVars, sendVars
  <2>2. silence = 0
    BY <1>1, <2>1 DEF MidHandler
  <2>3. SessionTypes' /\ ToldOnce' /\ LoopAlive' /\ MidHandler'
    BY <1>1, <1>2, <2>1 DEF SessionTypes, ToldOnce, LoopAlive, MidHandler, Running
  <2>4. SilenceBounded'
    BY <1>2, <2>1, <2>2 DEF SilenceBounded
  <2>5. QED
    BY <2>3, <2>4 DEF SessionInv
<1>5. QED
  BY <1>3, <1>4

(* Cancel and the completion of a DISCONNECT may find the session closed. *)
LEMMA SessionCloses ==
  ASSUME SessionInv,
         NEW reason \in {"aborted", Success},
         CloseSession(reason, socketRecv, keepaliveTimer),
         UNCHANGED <<lifeVars, keepaliveIn, silence>>, sends' \in Nat, disconnects' \in Nat
  PROVE  SessionInv'
<1>1. SessionTypes
  BY DEF SessionInv
<1>2. CASE CloseFirst(reason, socketRecv, keepaliveTimer)
  BY <1>1, <1>2, SessionCloseFirst DEF SessionTypes
<1>3. CASE CloseAgain(socketRecv, keepaliveTimer)
  BY <1>1, <1>3, SessionQuietStep DEF CloseAgain, SessionTypes, lifeVars, timerVars, queueVars
<1>4. QED
  BY <1>2, <1>3 DEF CloseSession

(* The handler of a receive, in one go or around calls of the application *)
LEMMA SessionReceives ==
  ASSUME SessionInv, Receive \/ RecvDataDrains \/ RecvDataEnds PROVE SessionInv'
<1>1. SessionTypes /\ ToldOnce /\ LoopAlive /\ MidHandler /\ SilenceBounded
  BY DEF SessionInv
<1>2. CASE StrandFree /\ RecvAfterClose
  BY <1>1, <1>2 DEF RecvAfterClose, SessionInv, SessionTypes, ToldOnce, LoopAlive, MidHandler,
                    SilenceBounded, StrandFree, lifeVars, timerVars, sendVars, queueVars
<1>3. CASE StrandFree /\ (\/ \E d \in Arrivals : RecvQuiet(d)
                          \/ RecvInit \/ RecvData \/ RecvDataCalls)
  <2>1. PICK d \in Arrivals : socketRecv = d /\ ~sessionClosed
    BY <1>3 DEF RecvQuiet, RecvInit, RecvData, RecvDataCalls, OnSocketRecv, Arrivals, FromPeer
  <2>2. /\ UNCHANGED <<started, sessionClosed, keepaliveTimer, keepaliveIn, retxTimer, sends, disconnects, notified>>
        /\ closed' = closed
    BY <1>3 DEF RecvQuiet, RecvInit, RecvData, RecvDataCalls, RecvUnchanged, lifeVars, sendVars,
                queueVars, DeliverQueued, DeliverToPending
  <2>3. silence' \in Nat /\ silence' <= silence
    BY <1>1, <1>3 DEF RecvQuiet, RecvInit, RecvData, RecvDataCalls, OnSocketRecv, SessionTypes
  <2>4. \/ socketRecv' = "waiting" /\ onStack' = onStack
        \/ socketRecv' = "idle" /\ onStack' = "data"
    BY <1>3 DEF RecvQuiet, RecvInit, RecvData, RecvDataCalls, OnSocketRecv, RecvUnchanged, lifeVars
  <2>5. SessionTypes' /\ ToldOnce'
    BY <1>1, <2>2, <2>3 DEF SessionTypes, ToldOnce
  <2>6. SilenceBounded'
    <3>1. silence \in Nat /\ keepaliveIn \in Nat /\ Timeout \in Nat /\ Keepalive \in Nat
      BY <1>1, SessionAssumption DEF SessionTypes
    <3>2. /\ silence <= Timeout + Keepalive => silence' <= Timeout + Keepalive
          /\ silence + keepaliveIn <= Timeout + Keepalive =>
               silence' + keepaliveIn <= Timeout + Keepalive
      BY <2>3, <3>1, StaysBelow
    <3>3. QED
      BY <1>1, <2>2, <3>2 DEF SilenceBounded
  <2>7. CASE started
    <3>1. Running(keepaliveTimer) /\ Running(retxTimer)
      BY <1>1, <1>3, <2>1, <2>7 DEF LoopAlive
    <3>2. LoopAlive' /\ MidHandler'
      BY <1>3, <2>2, <2>4, <2>7, <3>1 DEF LoopAlive, MidHandler, Running, StrandFree
    <3>3. QED
      BY <2>5, <2>6, <3>2 DEF SessionInv
  <2>8. CASE ~started
    BY <1>1, <2>1, <2>8 DEF MidHandler, Arrivals, FromPeer
  <2>9. QED
    BY <2>7, <2>8
<1>4. CASE StrandFree /\ (RecvDisconnect \/ RecvError)
  <2>1. PICK reason \in {"ConnectionReset", "socket"} : CloseFirst(reason, "idle", keepaliveTimer)
    BY <1>4 DEF RecvDisconnect, RecvError
  <2>2. /\ UNCHANGED lifeVars /\ keepaliveIn' \in 0 .. Keepalive /\ silence' \in Nat
        /\ sends' \in Nat /\ disconnects' \in Nat
    BY <1>1, <1>4 DEF RecvDisconnect, RecvError, SessionTypes, sendVars
  <2>3. QED
    BY <1>4, <2>1, <2>2, SessionCloseFirst
<1>5. CASE RecvDataDrains
  <2>1. UNCHANGED <<lifeVars, sessionClosed, closed, socketRecv, timerVars, sendVars, notified>>
    BY <1>5 DEF RecvDataDrains, DeliverQueued, DeliverToPending
  <2>2. QED
    BY <1>1, <2>1, SessionQuietStep DEF SessionTypes, lifeVars, timerVars, sendVars
<1>6. CASE RecvDataEnds
  <2>1. /\ onStack = "data" /\ onStack' = "none"
        /\ socketRecv' = IF sessionClosed THEN "idle" ELSE "waiting"
        /\ UNCHANGED <<started, sessionClosed, closed, keepaliveTimer, keepaliveIn, retxTimer, silence,
                       sends, disconnects, notified>>
    BY <1>6 DEF RecvDataEnds, queueVars, timerVars
  <2>2. SessionTypes' /\ ToldOnce' /\ SilenceBounded'
    BY <1>1, <2>1 DEF SessionTypes, ToldOnce, SilenceBounded
  <2>3. LoopAlive' /\ MidHandler'
    BY <1>1, <2>1 DEF LoopAlive, MidHandler, Running
  <2>4. QED
    BY <2>2, <2>3 DEF SessionInv
<1>7. QED
  BY <1>2, <1>3, <1>4, <1>5, <1>6 DEF Receive

(* The timers, and the time that passes between them *)
LEMMA SessionTimers ==
  ASSUME SessionInv, KeepaliveExpires \/ RetransmitExpires \/ OnKeepalive \/ OnRetransmit \/ Tick
  PROVE  SessionInv'
<1>1. SessionTypes /\ ToldOnce /\ LoopAlive /\ MidHandler /\ SilenceBounded
  BY DEF SessionInv
<1>2. CASE StrandFree /\ KeepaliveTimesOut
  BY <1>1, <1>2, SessionCloseFirst DEF KeepaliveTimesOut, SessionTypes, sendVars
<1>3. CASE \/ KeepaliveExpires \/ RetransmitExpires
           \/ KeepaliveEnds \/ RetransmitEnds \/ RetransmitTick
  <2>1. UNCHANGED <<lifeVars, sessionClosed, closed, socketRecv, keepaliveIn, silence, sends, disconnects, notified>>
    BY <1>3 DEF KeepaliveExpires, RetransmitExpires, KeepaliveEnds, RetransmitEnds, RetransmitTick,
                sendVars, queueVars
  <2>2. /\ \/ keepaliveTimer' \in {keepaliveTimer, "fired"} \/ sessionClosed
           \/ ~Running(keepaliveTimer) /\ keepaliveTimer' = "idle"
        /\ Running(retxTimer) => Running(retxTimer') \/ sessionClosed
    BY <1>3 DEF KeepaliveExpires, RetransmitExpires, KeepaliveEnds, RetransmitEnds, RetransmitTick, Running
  <2>3. SessionTypes' /\ ToldOnce'
    BY <1>1, <2>1 DEF SessionTypes, ToldOnce, lifeVars
  <2>4. LoopAlive'
    BY <1>1, <2>1, <2>2 DEF LoopAlive, Running, lifeVars, StrandFree
  <2>5. MidHandler'
    BY <1>1, <2>1, <2>2 DEF MidHandler, Running, lifeVars
  <2>6. SilenceBounded'
    BY <1>1, <2>1, <2>2 DEF SilenceBounded, Running, lifeVars
  <2>7. QED
    BY <2>3, <2>4, <2>5, <2>6 DEF SessionInv
<1>4. CASE StrandFree /\ KeepaliveTick
  <2>1. /\ UNCHANGED <<lifeVars, sessionClosed, closed, socketRecv, retxTimer, silence, sends, disconnects, notified>>
        /\ keepaliveTimer' = "armed" /\ keepaliveIn' = Keepalive /\ ~(silence > Timeout)
    BY <1>4 DEF KeepaliveTick, queueVars, PeerSilent
  <2>2. SessionTypes' /\ ToldOnce'
    BY <1>1, <2>1, SessionAssumption DEF SessionTypes, ToldOnce, lifeVars
  <2>3. LoopAlive' /\ MidHandler'
    BY <1>1, <1>4, <2>1 DEF LoopAlive, MidHandler, Running, lifeVars, StrandFree
  <2>4. SilenceBounded'
    BY <1>1, <2>1, SessionAssumption DEF SilenceBounded, SessionTypes
  <2>5. QED
    BY <2>2, <2>3, <2>4 DEF SessionInv
<1>5. CASE Tick
  <2>1. /\ UNCHANGED <<lifeVars, sessionClosed, closed, socketRecv, keepaliveTimer, retxTimer, sends, disconnects, notified>>
        /\ keepaliveTimer # "fired" /\ ~ (keepaliveTimer = "armed" /\ keepaliveIn = 0)
        /\ keepaliveIn' = IF keepaliveTimer = "armed" THEN keepaliveIn - 1 ELSE keepaliveIn
        /\ silence' = IF sessionClosed THEN silence ELSE silence + 1
        /\ StrandFree /\ started
    BY <1>5 DEF Tick, queueVars, sendVars
  <2>2. SessionTypes' /\ ToldOnce'
    BY <1>1, <2>1, SessionAssumption DEF SessionTypes, ToldOnce, lifeVars
  <2>3. LoopAlive' /\ MidHandler'
    BY <1>1, <2>1 DEF LoopAlive, MidHandler, Running, lifeVars, StrandFree
  <2>4. SilenceBounded'
    BY <1>1, <2>1, SessionAssumption DEF LoopAlive, SilenceBounded, Running, SessionTypes, lifeVars
  <2>5. QED
    BY <2>2, <2>3, <2>4 DEF SessionInv
<1>6. QED
  BY <1>2, <1>3, <1>4, <1>5 DEF OnKeepalive, OnRetransmit

(* Operations of the application and the ends of its sends *)
LEMMA SessionOperations ==
  ASSUME SessionInv, SendCompletes \/ BareSendCompletes \/ Operations \/ \E d \in Arrivals : Arrive(d)
  PROVE  SessionInv'
<1>1. SessionTypes
  BY DEF SessionInv
<1>2. CASE SendCompletes \/ BareSendCompletes \/ AsyncSend \/ AsyncFlush \/ AsyncDisconnect
  <2>1. UNCHANGED <<lifeVars, sessionClosed, closed, socketRecv, timerVars, notified>>
    BY <1>2 DEF SendCompletes, BareSendCompletes, AsyncSend, AsyncFlush, AsyncDisconnect,
                OpUnchanged, queueVars
  <2>2. sends' \in Nat /\ disconnects' \in Nat
    BY <1>1, <1>2 DEF SendCompletes, BareSendCompletes, AsyncSend, AsyncFlush, AsyncDisconnect, SessionTypes
  <2>3. QED
    BY <1>1, <2>1, <2>2, SessionQuietStep DEF SessionTypes, lifeVars, timerVars
<1>3. CASE AsyncDisconnectEncodeFails
  BY <1>1, <1>3, SessionCloseFirst DEF AsyncDisconnectEncodeFails, SessionTypes, sendVars
<1>4. CASE AsyncRecv
  <2>1. UNCHANGED <<lifeVars, sessionClosed, closed, socketRecv, timerVars, sendVars, notified>>
    BY <1>4 DEF AsyncRecv, AsyncRecvQueued, AsyncRecvClosed, AsyncRecvBusy, AsyncRecvPark
  <2>2. QED
    BY <1>1, <2>1, SessionQuietStep DEF SessionTypes, lifeVars, timerVars, sendVars
<1>5. CASE \E d \in Arrivals : Arrive(d)
  <2>1. /\ UNCHANGED <<lifeVars, sessionClosed, closed, timerVars, sendVars, notified>>
        /\ socketRecv = "waiting" /\ socketRecv' \in Arrivals
    BY <1>5 DEF Arrive, queueVars
  <2>2. "aborted" \notin Arrivals
    BY DEF Arrivals, FromPeer
  <2>3. QED
    BY <2>1, <2>2
       DEF SessionInv, SessionTypes, ToldOnce, LoopAlive, MidHandler, SilenceBounded, lifeVars, timerVars,
           sendVars, Running, StrandFree
<1>6. QED
  BY <1>2, <1>3, <1>4, <1>5 DEF Operations

LEMMA SessionStep ==
  SessionInv /\ [Next]_vars => SessionInv'
<1> SUFFICES ASSUME SessionInv, [Next]_vars PROVE SessionInv'
  OBVIOUS
<1>1. SessionTypes
  BY DEF SessionInv
<1>2. CASE UNCHANGED vars
  BY <1>1, <1>2, SessionQuietStep DEF vars, SessionTypes, lifeVars, timerVars, sendVars, queueVars
<1>3. CASE Cancel
  BY <1>1, <1>3, SessionCloses DEF Cancel, SessionTypes, sendVars
<1>4. CASE DisconnectCompletes
  BY <1>1, <1>4, SessionCloses DEF DisconnectCompletes, SessionTypes
<1>5. QED
  BY <1>2, <1>3, <1>4, SessionStarts, SessionReceives, SessionTimers, SessionOperations DEF Next

-----------------------------------------------------------------------------
(* The session uses its channel's queue by its operations only. *)
THEOREM SessionUsesQueue == Spec => QueueSpec
<1>1. Init => QueueInit
  BY DEF Init
<1>2. QED
  BY <1>1, SessionStepOfQueue, PTL DEF Spec, QueueSpec

LEMMA QueueInvariant == QueueSpec => []QueueInv
  BY QueueInitial, QueueStep, PTL DEF QueueSpec

LEMMA SessionInvariant == Spec => []SessionInv
  BY SessionInitial, SessionStep, PTL DEF Spec

(* No handler of asyncRecv is lost, whatever the order of receives,        *)
(* messages and close, for any number of them.                             *)
THEOREM NoneLostCorrect == Spec => []NoneLost
<1>1. QueueInv => NoneLost
  BY DEF QueueInv
<1>2. QED
  BY <1>1, SessionUsesQueue, QueueInvariant, PTL

(* Receives get the messages in the order of arrival, none twice, none     *)
(* skipped.                                                                *)
THEOREM FifoCorrect == Spec => []Fifo
<1>1. QueueInv => Fifo
  BY DEF QueueInv
<1>2. QED
  BY <1>1, SessionUsesQueue, QueueInvariant, PTL

(* The handler of a receive is called once. *)
THEOREM CompletedOnceCorrect == Spec => CompletedOnce
<1>1. QueueSpec => CompletedOnce
  BY QueueInvariant, QueueStepOnce, PTL DEF QueueSpec, CompletedOnce
<1>2. QED
  BY <1>1, SessionUsesQueue, PTL

(* The receive loop and both timers of an open session never stop, after   *)
(* every early return of every handler.                                    *)
THEOREM LoopAliveCorrect == Spec => []LoopAlive
<1>1. SessionInv => LoopAlive
  BY DEF SessionInv
<1>2. QED
  BY <1>1, SessionInvariant, PTL

(* A peer that is gone is noticed at most one keepalive interval after     *)
(* timeoutMs_, for every interval and timeout.                             *)
THEOREM DeadPeerDetectedCorrect == Spec => []DeadPeerDetected
<1>1. SessionInv => DeadPeerDetected
  BY DEF SessionInv, SilenceBounded, DeadPeerDetected
<1>2. QED
  BY <1>1, SessionInvariant, PTL

(* The session is torn down once, whoever closes it. *)
THEOREM TornDownOnceCorrect == Spec => []TornDownOnce
<1>1. SessionInv /\ QueueInv => TornDownOnce
  BY ReasonsKnown DEF SessionInv, ToldOnce, QueueInv, FailuresNamed, TornDownOnce
<1>2. QED
  BY <1>1, SessionInvariant, SessionUsesQueue, QueueInvariant, PTL

(* A closed session starts nothing but what the handler that was on the    *)
(* stack when the application closed it still starts, and no operation of  *)
(* the application.                                                        *)
THEOREM QuietAfterCloseCorrect == Spec => QuietAfterClose
<1> DEFINE A == sessionClosed => /\ Outstanding' \subseteq Outstanding \cup StillStarts
                                 /\ sends' <= sends /\ disconnects' <= disconnects
<1>1. SessionInv /\ [Next]_vars => [A]_vars
  <2> SUFFICES ASSUME SessionInv, Next, sessionClosed
               PROVE  /\ Outstanding' \subseteq Outstanding \cup StillStarts
                      /\ sends' <= sends /\ disconnects' <= disconnects
    OBVIOUS
  <2>1. sends \in Nat /\ disconnects \in Nat
    BY DEF SessionInv, SessionTypes
  <2> DEFINE Kept == /\ socketRecv = "idle" => socketRecv' = "idle"
                     /\ keepaliveTimer = "idle" => keepaliveTimer' = "idle"
                     /\ retxTimer = "idle" => retxTimer' = "idle"
                     /\ bareSends' = bareSends \/ bareSends' = FALSE
                     /\ sends' = sends \/ sends' = sends - 1
                     /\ disconnects' = disconnects \/ disconnects' = disconnects - 1
  <2>2. Kept => /\ Outstanding' \subseteq Outstanding \cup StillStarts
                /\ sends' <= sends /\ disconnects' <= disconnects
    BY <2>1 DEF Outstanding
  <2>3. ASSUME Cancel \/ DisconnectCompletes
        PROVE  Kept
    BY <2>1, <2>3 DEF Cancel, DisconnectCompletes, CloseSession, CloseFirst, CloseAgain, sendVars
  <2>4. ASSUME RecvAfterClose \/ RecvDataDrains \/ \E d \in Arrivals : Arrive(d)
        PROVE  Kept
    BY <2>1, <2>4 DEF RecvAfterClose, RecvDataDrains, Arrive, timerVars, sendVars
  <2>5. ASSUME KeepaliveExpires \/ RetransmitExpires \/ KeepaliveEnds \/ RetransmitEnds \/ Tick
        PROVE  Kept
    BY <2>1, <2>5 DEF KeepaliveExpires, RetransmitExpires, KeepaliveEnds, RetransmitEnds, Tick, sendVars
  <2>6. ASSUME SendCompletes \/ BareSendCompletes \/ AsyncRecv
        PROVE  Kept
    BY <2>1, <2>6 DEF SendCompletes, BareSendCompletes, AsyncRecv, OpUnchanged, timerVars, sendVars
  <2>7. CASE StartEnds
    <3>1. UNCHANGED <<bareSends, sends, disconnects>>
      BY <2>7 DEF StartEnds, sendVars
    <3>2. StillStarts = {"receive", "retransmit", "keepalive"}
      BY <2>7 DEF StartEnds, StillStarts
    <3>3. QED
      BY <2>1, <3>1, <3>2 DEF Outstanding
  <2>8. CASE RecvDataEnds
    <3>1. /\ socketRecv' = "idle" /\ keepaliveTimer' = keepaliveTimer /\ retxTimer' = retxTimer
          /\ sends' = sends /\ disconnects' = disconnects
      BY <2>8 DEF RecvDataEnds, timerVars
    <3>2. StillStarts = {"send"}
      BY <2>8 DEF RecvDataEnds, StillStarts
    <3>3. QED
      BY <2>1, <3>1, <3>2 DEF Outstanding
  <2>9. QED
    BY <2>2, <2>3, <2>4, <2>5, <2>6, <2>7, <2>8
       DEF Next, Receive, RecvQuiet, RecvInit, RecvData, RecvDataCalls, OnSocketRecv, RecvDisconnect,
           RecvError, CloseFirst, OnKeepalive, KeepaliveTimesOut, KeepaliveTick, OnRetransmit,
           RetransmitTick, Operations, AsyncSend, AsyncFlush, AsyncDisconnect,
           AsyncDisconnectEncodeFails, Start
<1>2. QED
  BY <1>1, SessionInvariant, PTL DEF Spec, QuietAfterClose
=============================================================================
