------------------------------ MODULE Session ------------------------------
(***************************************************************************)
(* The life of one session (session/BasicSession.hpp): its receive loop,   *)
(* its two timers, its asynchronous operations and its teardown, with one  *)
(* open channel whose receive queue is module RecvQueue.                   *)
(*                                                                         *)
(* Every handler runs to its end on the session's strand.  What can        *)
(* interleave is the order of the handlers: an asynchronous operation      *)
(* first completes (a datagram arrives, a timer expires, a send ends), its *)
(* handler is queued, and other handlers may run before it.  close cancels *)
(* the operations that have not completed; a handler that is already       *)
(* queued runs all the same, as if nothing had happened.                   *)
(*                                                                         *)
(* Two handlers call the application before their end: start calls         *)
(* onConnected, and a DATA packet calls the handler of a parked receive.   *)
(* The application may use the session there, and even close it: dispatch  *)
(* runs what it calls at once, since it is on the strand, and the handler  *)
(* goes on when the application returns.  The other handlers call it last, *)
(* or from close, when every operation is refused already.                 *)
(*                                                                         *)
(* Time passes in units, and a queued handler runs within one.  What a     *)
(* datagram does to the channel is the subject of ReliableChannel and      *)
(* UnreliableChannel: here DATA delivers a message or does not, and is     *)
(* acknowledged or is not.                                                 *)
(***************************************************************************)
EXTENDS RecvQueue

CONSTANTS
  Keepalive,       (* keepaliveMs_, in units of time                       *)
  Timeout,         (* timeoutMs_, in units of time                         *)
  EncodeCanFail,   (* may codec.encode answer 0?                           *)
  MaxSends,        (* bound: outstanding sends of asyncSend                *)
  MaxDisconnects   (* bound: outstanding sends of asyncDisconnect          *)

ASSUME SessionAssumption ==
  /\ Keepalive \in Nat \ {0}
  /\ Timeout \in Nat
  /\ EncodeCanFail \in BOOLEAN
  /\ MaxSends \in Nat
  /\ MaxDisconnects \in Nat
  /\ {"ConnectionReset", "Timeout", "aborted", "BadPacket", "socket", "ChannelClosed"}
       \subseteq Reasons

VARIABLES
  started,          (* started_                                            *)
  onStack,          (* the handler that has called the application and     *)
                    (* waits for its return: "start", "data" or "none"     *)
  sessionClosed,    (* closed_                                             *)
  socketRecv,       (* the asyncRecvFrom of receiveNext                    *)
  keepaliveTimer,   (* the async_wait of scheduleKeepalive                 *)
  keepaliveIn,      (* units until the armed keepalive timer expires       *)
  retxTimer,        (* the async_wait of scheduleRetransmit                *)
  silence,          (* Clock::now() - lastRecv_                            *)
  bareSends,        (* is a send with an empty handler outstanding?        *)
  sends,            (* number of sends of asyncSend outstanding            *)
  disconnects,      (* number of sends of DISCONNECT outstanding           *)
  notified          (* history: the reasons passed to onDisconnected       *)

lifeVars == <<started, onStack>>
timerVars == <<keepaliveTimer, keepaliveIn, retxTimer, silence>>
sendVars == <<bareSends, sends, disconnects>>
vars == <<queueVars, lifeVars, sessionClosed, socketRecv, timerVars, sendVars, notified>>

(* What a completed receive hands to onSocketRecv: "ignored" is a datagram *)
(* from another sender or one that does not decode, "quiet" a KEEPALIVE, a *)
(* HANDSHAKE_ACK, an ACK or a packet for a channel that is not open,       *)
(* "error" an error of the socket.                                         *)
FromPeer == {"disconnect", "init", "data", "quiet"}
Arrivals == FromPeer \cup {"ignored", "error"}

Init ==
  /\ QueueInit
  /\ started = FALSE
  /\ onStack = "none"
  /\ sessionClosed = FALSE
  /\ socketRecv = "idle"
  /\ keepaliveTimer = "idle"
  /\ keepaliveIn = 0
  /\ retxTimer = "idle"
  /\ silence = 0
  /\ bareSends = FALSE
  /\ sends = 0
  /\ disconnects = 0
  /\ notified = <<>>

(* No handler is on the stack: the strand may run the next one. *)
StrandFree == onStack = "none"

-----------------------------------------------------------------------------
(* cancel() on a socket or a timer: what has not completed completes with  *)
(* operation_aborted, what has completed is not touched.                   *)
Cancelled(state) == IF state \in {"waiting", "armed"} THEN "aborted" ELSE state

(* reason ? reason : makeErrorCode(Error::ChannelClosed) *)
ChannelReason(reason) == IF reason = Success THEN "ChannelClosed" ELSE reason

(* close(reason), called when the receive is in state r and the keepalive  *)
(* timer in state k.                                                       *)
CloseFirst(reason, r, k) ==
  /\ ~sessionClosed
  /\ sessionClosed' = TRUE
  /\ keepaliveTimer' = Cancelled(k)
  /\ retxTimer' = Cancelled(retxTimer)
  /\ socketRecv' = Cancelled(r)
  /\ Close(ChannelReason(reason))
  /\ notified' = Append(notified, reason)

(* A mutant: the policy hears of every call of close. *)
CloseAgainNotifies(r, k) ==
  /\ sessionClosed
  /\ keepaliveTimer' = k
  /\ socketRecv' = r
  /\ Len(notified) < 2
  /\ notified' = Append(notified, "aborted")
  /\ UNCHANGED <<sessionClosed, retxTimer, queueVars>>

CloseAgain(r, k) ==
  /\ sessionClosed
  /\ keepaliveTimer' = k
  /\ socketRecv' = r
  /\ UNCHANGED <<sessionClosed, retxTimer, queueVars, notified>>

CloseSession(reason, r, k) == CloseFirst(reason, r, k) \/ CloseAgain(r, k)

(* sendPacket: nothing waits for the end of the send. *)
SendPacket == bareSends' \in {TRUE} \cup (IF EncodeCanFail THEN {bareSends} ELSE {})

-----------------------------------------------------------------------------
(* start.  It returns at once when the session was started or closed before. *)

(* Up to the call of onConnected *)
Start ==
  /\ StrandFree
  /\ ~started
  /\ ~sessionClosed
  /\ started' = TRUE
  /\ silence' = 0
  /\ onStack' = "start"
  /\ UNCHANGED <<queueVars, sessionClosed, socketRecv, keepaliveTimer, keepaliveIn,
                 retxTimer, sendVars, notified>>

(* onConnected has returned.  start does not ask whether it has closed the *)
(* session: a receive from the closed socket fails at once.                *)
StartEnds ==
  /\ onStack = "start"
  /\ onStack' = "none"
  /\ socketRecv' = IF sessionClosed THEN "aborted" ELSE "waiting"
  /\ retxTimer' = "armed"
  /\ keepaliveTimer' = "armed"
  /\ keepaliveIn' = Keepalive
  /\ UNCHANGED <<queueVars, started, sessionClosed, silence, sendVars, notified>>

Cancel ==
  /\ CloseSession("aborted", socketRecv, keepaliveTimer)
  /\ UNCHANGED <<lifeVars, keepaliveIn, silence, sendVars>>

-----------------------------------------------------------------------------
(* The receive loop: onSocketRecv and handlePacket.  receiveNext starts    *)
(* the next receive at the end of the handler, unless the session closed.  *)

(* A datagram or an error completes the receive. *)
Arrive(d) ==
  /\ socketRecv = "waiting"
  /\ socketRecv' = d
  /\ UNCHANGED <<queueVars, lifeVars, sessionClosed, timerVars, sendVars, notified>>

(* onSocketRecv finds the session closed. *)
RecvAfterClose ==
  /\ socketRecv \in Arrivals \cup {"aborted"}
  /\ sessionClosed
  /\ socketRecv' = "idle"
  /\ UNCHANGED <<queueVars, lifeVars, sessionClosed, timerVars, sendVars, notified>>

(* A mutant: handlePacket's early returns end the loop. *)
OnSocketRecvStops(d) ==
  /\ socketRecv = d
  /\ ~sessionClosed
  /\ socketRecv' = "idle"
  /\ silence' = IF d \in FromPeer THEN 0 ELSE silence

(* onSocketRecv for a datagram that leaves the session open *)
OnSocketRecv(d) ==
  /\ socketRecv = d
  /\ ~sessionClosed
  /\ socketRecv' = "waiting"
  /\ silence' = IF d \in FromPeer THEN 0 ELSE silence

RecvUnchanged == <<lifeVars, sessionClosed, keepaliveTimer, keepaliveIn, retxTimer, sends, disconnects, notified>>

(* Nothing is sent and nothing delivered. *)
RecvQuiet(d) ==
  /\ d \in {"ignored", "quiet"}
  /\ OnSocketRecv(d)
  /\ UNCHANGED <<RecvUnchanged, queueVars, bareSends>>

(* HANDSHAKE_INIT is answered again. *)
RecvInit ==
  /\ OnSocketRecv("init")
  /\ SendPacket
  /\ UNCHANGED <<RecvUnchanged, queueVars>>

(* DATA: the channel queues a message or drops it, and a reliable one      *)
(* acknowledges it.                                                        *)
RecvData ==
  /\ OnSocketRecv("data")
  /\ DeliverQueued \/ UNCHANGED queueVars
  /\ SendPacket \/ UNCHANGED bareSends
  /\ UNCHANGED RecvUnchanged

(* DATA for a parked receive, up to the call of its handler *)
RecvDataCalls ==
  /\ socketRecv = "data"
  /\ ~sessionClosed
  /\ DeliverToPending
  /\ socketRecv' = "idle"
  /\ silence' = 0
  /\ onStack' = "data"
  /\ UNCHANGED <<started, sessionClosed, keepaliveTimer, keepaliveIn, retxTimer, sendVars,
                 notified>>

(* The handler has returned, and drainReadyPackets finds the next packet:  *)
(* it delivers to the queue, closed or not.                                *)
RecvDataDrains ==
  /\ onStack = "data"
  /\ DeliverQueued \/ DeliverToPending
  /\ UNCHANGED <<lifeVars, sessionClosed, socketRecv, timerVars, sendVars, notified>>

(* A mutant: the loop goes on though the handler has closed the session. *)
RecvDataEndsUnchecked ==
  /\ onStack = "data"
  /\ onStack' = "none"
  /\ SendPacket \/ UNCHANGED bareSends
  /\ socketRecv' = IF sessionClosed THEN "aborted" ELSE "waiting"
  /\ UNCHANGED <<queueVars, started, sessionClosed, timerVars, sends, disconnects, notified>>

(* The handler has returned, and nothing is left to deliver.  The ACK is   *)
(* sent, although the handler may have closed the session.                 *)
RecvDataEnds ==
  /\ onStack = "data"
  /\ onStack' = "none"
  /\ SendPacket \/ UNCHANGED bareSends
  /\ socketRecv' = IF sessionClosed THEN "idle" ELSE "waiting"
  /\ UNCHANGED <<queueVars, started, sessionClosed, timerVars, sends, disconnects, notified>>

RecvDisconnect ==
  /\ socketRecv = "disconnect"
  /\ silence' = 0
  /\ CloseFirst("ConnectionReset", "idle", keepaliveTimer)
  /\ UNCHANGED <<lifeVars, keepaliveIn, sendVars>>

RecvError ==
  /\ socketRecv = "error"
  /\ CloseFirst("socket", "idle", keepaliveTimer)
  /\ UNCHANGED <<lifeVars, keepaliveIn, silence, sendVars>>

-----------------------------------------------------------------------------
(* Timers *)

KeepaliveExpires ==
  /\ keepaliveTimer = "armed"
  /\ keepaliveIn = 0
  /\ keepaliveTimer' = "fired"
  /\ UNCHANGED <<queueVars, lifeVars, sessionClosed, socketRecv, keepaliveIn, retxTimer,
                 silence, sendVars, notified>>

RetransmitExpires ==
  /\ retxTimer = "armed"
  /\ retxTimer' = "fired"
  /\ UNCHANGED <<queueVars, lifeVars, sessionClosed, socketRecv, keepaliveTimer,
                 keepaliveIn, silence, sendVars, notified>>

(* The handlers' early return: aborted, or the session has been closed. *)
KeepaliveEnds ==
  /\ keepaliveTimer = "aborted" \/ (keepaliveTimer = "fired" /\ sessionClosed)
  /\ keepaliveTimer' = "idle"
  /\ UNCHANGED <<queueVars, lifeVars, sessionClosed, socketRecv, keepaliveIn, retxTimer,
                 silence, sendVars, notified>>

RetransmitEnds ==
  /\ retxTimer = "aborted" \/ (retxTimer = "fired" /\ sessionClosed)
  /\ retxTimer' = "idle"
  /\ UNCHANGED <<queueVars, lifeVars, sessionClosed, socketRecv, keepaliveTimer,
                 keepaliveIn, silence, sendVars, notified>>

(* A mutant: the wait is restarted without looking at closed_. *)
RetransmitTickUnchecked ==
  /\ retxTimer = "fired"
  /\ retxTimer' = "armed"
  /\ bareSends' \in {bareSends, TRUE}
  /\ UNCHANGED <<queueVars, lifeVars, sessionClosed, socketRecv, keepaliveTimer,
                 keepaliveIn, silence, sends, disconnects, notified>>

(* onTick on every channel sends what is overdue. *)
RetransmitTick ==
  /\ retxTimer = "fired"
  /\ ~sessionClosed
  /\ retxTimer' = "armed"
  /\ bareSends' \in {bareSends, TRUE}
  /\ UNCHANGED <<queueVars, lifeVars, sessionClosed, socketRecv, keepaliveTimer,
                 keepaliveIn, silence, sends, disconnects, notified>>

(* A mutant: the silence is measured in keepalive intervals. *)
PeerSilentLate == silence > Timeout + Keepalive

PeerSilent == silence > Timeout

KeepaliveTimesOut ==
  /\ keepaliveTimer = "fired"
  /\ PeerSilent
  /\ CloseFirst("Timeout", socketRecv, "idle")
  /\ UNCHANGED <<lifeVars, keepaliveIn, silence, sendVars>>

KeepaliveTick ==
  /\ keepaliveTimer = "fired"
  /\ ~sessionClosed
  /\ ~PeerSilent
  /\ SendPacket
  /\ keepaliveTimer' = "armed"
  /\ keepaliveIn' = Keepalive
  /\ UNCHANGED <<queueVars, lifeVars, sessionClosed, socketRecv, retxTimer, silence,
                 sends, disconnects, notified>>

(* A unit of time passes.  The handlers that were queued have run. *)
Tick ==
  /\ started
  /\ StrandFree
  /\ keepaliveTimer # "fired"
  /\ socketRecv \notin Arrivals
  /\ ~ (keepaliveTimer = "armed" /\ keepaliveIn = 0)
  /\ keepaliveIn' = IF keepaliveTimer = "armed" THEN keepaliveIn - 1 ELSE keepaliveIn
  /\ silence' = IF sessionClosed THEN silence ELSE silence + 1
  /\ UNCHANGED <<queueVars, lifeVars, sessionClosed, socketRecv, keepaliveTimer, retxTimer,
                 sendVars, notified>>

-----------------------------------------------------------------------------
(* Operations of the application.  One that fails at once (the session or  *)
(* the channel closed, the payload too large, the window full), and        *)
(* asyncDisconnect on a closed session, change nothing.                    *)

OpUnchanged == <<queueVars, lifeVars, sessionClosed, socketRecv, timerVars, notified>>

AsyncSend ==
  /\ ~sessionClosed
  /\ sends < MaxSends
  /\ sends' = sends + 1
  /\ UNCHANGED <<OpUnchanged, bareSends, disconnects>>

(* asyncFlush starts its sends and completes without waiting for them. *)
AsyncFlush ==
  /\ ~sessionClosed
  /\ bareSends' = TRUE
  /\ UNCHANGED <<OpUnchanged, sends, disconnects>>

(* asyncDisconnect starts to send DISCONNECT.  The session stays open. *)
AsyncDisconnect ==
  /\ ~sessionClosed
  /\ disconnects < MaxDisconnects
  /\ disconnects' = disconnects + 1
  /\ UNCHANGED <<OpUnchanged, bareSends, sends>>

AsyncDisconnectEncodeFails ==
  /\ EncodeCanFail
  /\ CloseFirst("BadPacket", socketRecv, keepaliveTimer)
  /\ UNCHANGED <<lifeVars, keepaliveIn, silence, sendVars>>

(* The socket completes a send of asyncSend, with or without an error. *)
SendCompletes ==
  /\ StrandFree
  /\ sends > 0
  /\ sends' = sends - 1
  /\ UNCHANGED <<OpUnchanged, bareSends, disconnects>>

(* A mutant: a failed DISCONNECT does not close the session. *)
DisconnectCompletesOnSuccess ==
  /\ StrandFree
  /\ disconnects > 0
  /\ disconnects' = disconnects - 1
  /\ \/ CloseSession(Success, socketRecv, keepaliveTimer)
     \/ UNCHANGED <<sessionClosed, keepaliveTimer, retxTimer, socketRecv, queueVars, notified>>
  /\ UNCHANGED <<lifeVars, keepaliveIn, silence, bareSends, sends>>

(* The socket completes a send of DISCONNECT, with or without an error:    *)
(* the session is closed, then the handler of asyncDisconnect is called.   *)
DisconnectCompletes ==
  /\ StrandFree
  /\ disconnects > 0
  /\ disconnects' = disconnects - 1
  /\ CloseSession(Success, socketRecv, keepaliveTimer)
  /\ UNCHANGED <<lifeVars, keepaliveIn, silence, bareSends, sends>>

BareSendCompletes ==
  /\ StrandFree
  /\ bareSends
  /\ bareSends' = FALSE
  /\ UNCHANGED <<OpUnchanged, sends, disconnects>>

(* asyncRecv goes to the queue of the channel, closed or not. *)
AsyncRecv ==
  /\ AsyncRecvQueued \/ AsyncRecvClosed \/ AsyncRecvBusy \/ AsyncRecvPark
  /\ UNCHANGED <<lifeVars, sessionClosed, socketRecv, timerVars, sendVars, notified>>

(* The handlers the strand runs one after the other *)

Receive ==
  /\ StrandFree
  /\ \/ RecvAfterClose
     \/ \E d \in Arrivals : RecvQuiet(d)
     \/ RecvInit
     \/ RecvData
     \/ RecvDataCalls
     \/ RecvDisconnect
     \/ RecvError

OnKeepalive == StrandFree /\ (KeepaliveEnds \/ KeepaliveTimesOut \/ KeepaliveTick)

OnRetransmit == StrandFree /\ (RetransmitEnds \/ RetransmitTick)

(* What the application does, in a handler of its own or in one that       *)
(* called it                                                               *)
Operations ==
  \/ AsyncSend
  \/ AsyncFlush
  \/ AsyncDisconnect
  \/ AsyncDisconnectEncodeFails
  \/ AsyncRecv

Next ==
  \/ Start
  \/ StartEnds
  \/ Cancel
  \/ \E d \in Arrivals : Arrive(d)
  \/ Receive
  \/ RecvDataDrains
  \/ RecvDataEnds
  \/ KeepaliveExpires
  \/ RetransmitExpires
  \/ OnKeepalive
  \/ OnRetransmit
  \/ Tick
  \/ SendCompletes
  \/ DisconnectCompletes
  \/ BareSendCompletes
  \/ Operations

Spec == Init /\ [][Next]_vars

(***************************************************************************)
(* Fairness.  Time passes, armed timers expire, the io_context runs every  *)
(* handler that is queued on the strand, and the socket completes every    *)
(* send.  The application returns when it is called; nothing else is       *)
(* assumed of it, of the peer or of the path.                              *)
(***************************************************************************)
Fairness ==
  /\ WF_vars(Tick)
  /\ WF_vars(KeepaliveExpires)
  /\ WF_vars(RetransmitExpires)
  /\ WF_vars(StartEnds)
  /\ WF_vars(Receive)
  /\ WF_vars(RecvDataEnds)
  /\ WF_vars(OnKeepalive)
  /\ WF_vars(OnRetransmit)
  /\ WF_vars(BareSendCompletes)
  /\ WF_vars(SendCompletes)
  /\ WF_vars(DisconnectCompletes)

FairSpec == Spec /\ Fairness

-----------------------------------------------------------------------------
Running(timer) == timer \in {"armed", "fired"}

(* Between two handlers, a session that has started and is not closed has  *)
(* one receive under way and both timers running, after every early return *)
(* of every handler: it never goes deaf, never stops retransmitting and    *)
(* never stops looking for a dead peer.  And, as the comment in            *)
(* onSocketRecv has it, "an aborted receive always lands here with closed_ *)
(* set".                                                                   *)
LoopAlive ==
  /\ started /\ StrandFree /\ ~sessionClosed =>
       /\ socketRecv \in Arrivals \cup {"waiting"}
       /\ Running(keepaliveTimer)
       /\ Running(retxTimer)
  /\ socketRecv = "aborted" => sessionClosed

(* timeoutMs_ is "Duration of silence after which the session is declared  *)
(* dead".  The silence is looked at only when the keepalive timer fires,   *)
(* so a peer that is gone is noticed one keepalive interval late at most.  *)
DeadPeerDetected ==
  started /\ ~sessionClosed => silence <= Timeout + Keepalive

(* close: "Tear down the session exactly once".  Whoever closes it, and    *)
(* however many of them meet (the peer, a timeout, the application, the    *)
(* completion of a DISCONNECT), the policy is told once, the channel is    *)
(* closed just when the session is, and a receive that yields no message   *)
(* is told why, also by an orderly close, whose error code is empty.       *)
TornDownOnce ==
  /\ Len(notified) = IF sessionClosed THEN 1 ELSE 0
  /\ closed = sessionClosed
  /\ \A r \in 1 .. Len(outcomes) :
       outcomes[r].kind = "failed" => outcomes[r].value # Success

(* The operations of the session's own that have not ended.                *)
Outstanding ==
  {v \in {"receive", "keepalive", "retransmit", "send"} :
     \/ v = "receive" /\ socketRecv # "idle"
     \/ v = "keepalive" /\ keepaliveTimer # "idle"
     \/ v = "retransmit" /\ retxTimer # "idle"
     \/ v = "send" /\ bareSends}

(* What the handler on the stack starts when the application returns,      *)
(* whatever the application has done                                       *)
StillStarts ==
  CASE onStack = "start" -> {"receive", "retransmit", "keepalive"}
    [] onStack = "data"  -> {"send"}
    [] OTHER             -> {}

(* A closed session starts nothing, with two exceptions that the code has: *)
(* when onConnected closes it, start still starts its receive and its      *)
(* timers; when the handler of a receive closes it, the ACK is still sent, *)
(* but no receive follows.  Once that handler has ended, handlers that     *)
(* were queued before the close do not continue their loops.  Operations   *)
(* of the application are refused from the moment of the close, also in    *)
(* the callback that closed the session.                                   *)
QuietAfterClose ==
  [][sessionClosed => /\ Outstanding' \subseteq Outstanding \cup StillStarts
                      /\ sends' <= sends /\ disconnects' <= disconnects]_vars

(* A closed session comes to rest: the handlers of its receive and timers, *)
(* which hold references to it, and its sends all end, also those that     *)
(* start still arms when the policy cancels the session from onConnected.  *)
Released == sessionClosed ~> (Outstanding = {} /\ sends = 0 /\ disconnects = 0)

(* asyncDisconnect: "Send DISCONNECT to the peer and close the session".   *)
(* The session is closed in the end, whether or not the send succeeds.     *)
DisconnectCloses == disconnects > 0 ~> sessionClosed
=============================================================================
