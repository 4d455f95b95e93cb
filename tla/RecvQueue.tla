----------------------------- MODULE RecvQueue -----------------------------
(***************************************************************************)
(* The receive side that every channel shares (RecvQueue, asyncRecv,       *)
(* deliverOrQueue and completeRecv of detail/channel/ChannelCommon.hpp):   *)
(* messages wait in a queue, and at most one receive waits for a message.  *)
(*                                                                         *)
(* Every operation runs on the session's strand and calls a handler only   *)
(* as the last thing it does to the queue, so a handler that starts the    *)
(* next receive finds the state that the operation left: its call is a     *)
(* later step.                                                             *)
(* Receives and messages are known by their numbers, in order of arrival;  *)
(* copying into the caller's buffer is left out.                           *)
(***************************************************************************)
EXTENDS Integers, Sequences, FiniteSets

CONSTANTS
  NoRecv,      (* std::nullopt in pendingRecv_                             *)
  Reasons,     (* the error codes a channel may be closed with             *)
  MaxRecvs,    (* bound: receives started                                  *)
  MaxMsgs      (* bound: messages delivered                                *)

(* a default-constructed error_code *)
Success == "success"

ASSUME RecvQueueAssumption ==
  /\ NoRecv \notin Nat
  /\ Success \notin Reasons
  /\ MaxRecvs \in Nat
  /\ MaxMsgs \in Nat

VARIABLES
  queuedMessages,   (* queuedMessages_                                     *)
  pendingRecv,      (* pendingRecv_: the parked receive, or NoRecv         *)
  closed,           (* closed_                                             *)
  closeReason,      (* closeReason_                                        *)
  arrived,          (* history: number of messages delivered to the queue  *)
  outcomes          (* history: what each receive was completed with       *)

queueVars == <<queuedMessages, pendingRecv, closed, closeReason, arrived, outcomes>>

(* What a handler is called with, and Parked before it is called. *)
Message(m) == [kind |-> "message", value |-> m]
Failed(reason) == [kind |-> "failed", value |-> reason]
Busy == [kind |-> "busy", value |-> 0]
Parked == [kind |-> "parked", value |-> 0]

QueueInit ==
  /\ queuedMessages = <<>>
  /\ pendingRecv = NoRecv
  /\ closed = FALSE
  /\ closeReason = Success
  /\ arrived = 0
  /\ outcomes = <<>>

-----------------------------------------------------------------------------
(* asyncRecv *)

Starts(outcome) ==
  /\ Len(outcomes) < MaxRecvs
  /\ outcomes' = Append(outcomes, outcome)

(* A message is waiting: the receive takes it, closed or not. *)
AsyncRecvQueued ==
  /\ queuedMessages # <<>>
  /\ Starts(Message(Head(queuedMessages)))
  /\ queuedMessages' = Tail(queuedMessages)
  /\ UNCHANGED <<pendingRecv, closed, closeReason, arrived>>

AsyncRecvClosed ==
  /\ queuedMessages = <<>>
  /\ closed
  /\ Starts(Failed(closeReason))
  /\ UNCHANGED <<queuedMessages, pendingRecv, closed, closeReason, arrived>>

(* Another receive is parked: this one fails with ChannelClosed. *)
AsyncRecvBusy ==
  /\ queuedMessages = <<>>
  /\ ~closed
  /\ pendingRecv # NoRecv
  /\ Starts(Busy)
  /\ UNCHANGED <<queuedMessages, pendingRecv, closed, closeReason, arrived>>

AsyncRecvPark ==
  /\ queuedMessages = <<>>
  /\ ~closed
  /\ pendingRecv = NoRecv
  /\ Starts(Parked)
  /\ pendingRecv' = Len(outcomes) + 1
  /\ UNCHANGED <<queuedMessages, closed, closeReason, arrived>>

(* A mutant: the queue is a stack. *)
DeliverQueuedFront ==
  /\ arrived < MaxMsgs
  /\ pendingRecv = NoRecv
  /\ queuedMessages' = <<arrived + 1>> \o queuedMessages
  /\ arrived' = arrived + 1
  /\ UNCHANGED <<pendingRecv, closed, closeReason, outcomes>>

(* deliver, with no receive parked *)
DeliverQueued ==
  /\ arrived < MaxMsgs
  /\ pendingRecv = NoRecv
  /\ queuedMessages' = Append(queuedMessages, arrived + 1)
  /\ arrived' = arrived + 1
  /\ UNCHANGED <<pendingRecv, closed, closeReason, outcomes>>

(* A mutant: the parked receive stays parked. *)
DeliverToPendingKeeps ==
  /\ arrived < MaxMsgs
  /\ pendingRecv # NoRecv
  /\ outcomes' = [outcomes EXCEPT ![pendingRecv] = Message(arrived + 1)]
  /\ arrived' = arrived + 1
  /\ UNCHANGED <<queuedMessages, pendingRecv, closed, closeReason>>

(* deliver, with a receive parked: it is completed *)
DeliverToPending ==
  /\ arrived < MaxMsgs
  /\ pendingRecv # NoRecv
  /\ outcomes' = [outcomes EXCEPT ![pendingRecv] = Message(arrived + 1)]
  /\ pendingRecv' = NoRecv
  /\ arrived' = arrived + 1
  /\ UNCHANGED <<queuedMessages, closed, closeReason>>

(* A mutant: close forgets the parked receive. *)
CloseForgets(reason) ==
  /\ closed' = TRUE
  /\ closeReason' = reason
  /\ UNCHANGED <<queuedMessages, pendingRecv, arrived, outcomes>>

(* close: the parked receive fails, and so will the later ones. *)
Close(reason) ==
  /\ closed' = TRUE
  /\ closeReason' = reason
  /\ pendingRecv' = NoRecv
  /\ outcomes' = IF pendingRecv = NoRecv THEN outcomes
                 ELSE [outcomes EXCEPT ![pendingRecv] = Failed(reason)]
  /\ UNCHANGED <<queuedMessages, arrived>>

QueueNext ==
  \/ AsyncRecvQueued
  \/ AsyncRecvClosed
  \/ AsyncRecvBusy
  \/ AsyncRecvPark
  \/ DeliverQueued
  \/ DeliverToPending
  \/ \E reason \in Reasons : Close(reason)

QueueSpec == QueueInit /\ [][QueueNext]_queueVars

-----------------------------------------------------------------------------
(* No handler is lost: every receive that was started has been completed,  *)
(* except the parked one, which waits only while the queue is empty and    *)
(* the channel open.                                                       *)
NoneLost ==
  /\ \A r \in 1 .. Len(outcomes) : outcomes[r] = Parked <=> r = pendingRecv
  /\ pendingRecv # NoRecv => queuedMessages = <<>> /\ ~closed

(* The receives that were given a message, and how many messages were given *)
Served == {r \in 1 .. Len(outcomes) : outcomes[r].kind = "message"}
Given == arrived - Len(queuedMessages)

(* Receives are given the messages in the order of both: those given out,  *)
(* in the order in which the receives were started, followed by those      *)
(* still queued, are all the messages, in the order of their arrival.      *)
Fifo ==
  /\ Given >= 0
  /\ {outcomes[r].value : r \in Served} = 1 .. Given
  /\ \A r, s \in Served : r < s => outcomes[r].value < outcomes[s].value
  /\ \A i \in 1 .. Len(queuedMessages) : queuedMessages[i] = Given + i

(* A handler is called once: what a receive was completed with stands. *)
CompletedOnce ==
  [][\A r \in 1 .. Len(outcomes) : outcomes[r] # Parked => outcomes'[r] = outcomes[r]]_queueVars
=============================================================================
