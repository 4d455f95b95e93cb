----------------------------- MODULE Handshake -----------------------------
(***************************************************************************)
(* The two-packet handshake (detail/Handshake.hpp) between a connector     *)
(* (endpoint/Connector.hpp) and an acceptor (endpoint/Acceptor.hpp), over  *)
(* a path that loses, repeats and reorders datagrams.                      *)
(*                                                                         *)
(* Call a of asyncConnect has a session with a socket of its own.  Every   *)
(* INIT goes to the listen socket, where each one that arrives opens a     *)
(* server session; session s answers from its own socket, and the client   *)
(* adopts whichever ACK it reads first.  An asynchronous operation first   *)
(* completes, then its handler is queued, then it runs: cancelling stops   *)
(* an operation that has not completed and nothing else.                   *)
(*                                                                         *)
(* Time passes in units, and a queued handler of a client runs within one. *)
(* After the handshake a session lives until it is cancelled or until its  *)
(* keepalive timer finds that its peer has been silent for more than       *)
(* timeoutMs_.  The rest of its life is the subject of module Session.     *)
(***************************************************************************)
EXTENDS Integers, Sequences, FiniteSets

CONSTANTS
  MaxConnects,         (* bound: calls of asyncConnect                     *)
  maxHandshakeMs,      (* SessionConfig::maxHandshakeMs_, in units of time *)
  DefaultTimeout,      (* 5000 ms                                          *)
  MinRetry, MaxRetry,  (* 100 ms and 1000 ms                               *)
  EncodeCanFail,       (* may codec.encode answer 0?                       *)
  keepaliveMs,         (* SessionConfig::keepaliveMs_, in units of time    *)
  timeoutMs,           (* SessionConfig::timeoutMs_, in units of time      *)
  MaxSessions          (* bound: sessions the acceptor opens               *)

ASSUME HandshakeAssumption ==
  /\ MaxConnects \in Nat
  /\ maxHandshakeMs \in Nat
  /\ DefaultTimeout \in Nat \ {0}
  /\ MinRetry \in Nat \ {0} /\ MaxRetry \in Nat /\ MinRetry <= MaxRetry
  /\ EncodeCanFail \in BOOLEAN
  /\ keepaliveMs \in Nat \ {0} /\ timeoutMs \in Nat
  /\ MaxSessions \in Nat

VARIABLES
  client,      (* for each call of asyncConnect: its ClientState, session  *)
               (* and, as history, how it completed                        *)
  pending,     (* pending_: the last call of asyncConnect, 0 before any    *)
  inits,       (* the calls that have an INIT in transit: all of a call's  *)
               (* INITs are alike                                          *)
  acks,        (* the server sessions whose ACK is in transit              *)
  listening,   (* is the listen socket open?                               *)
  accept,      (* the outstanding asyncAccept                              *)
  sender,      (* sender_ of the acceptor: the call whose INIT it read     *)
  server,      (* the sessions the acceptor has created                    *)
  clientWatch, (* the keepalive timer of the session of each call          *)
  serverWatch  (* and of each session of the acceptor                      *)

clientVars == <<client, pending>>
acceptVars == <<listening, accept, sender, server>>
watchVars == <<clientWatch, serverWatch>>
vars == <<clientVars, inits, acks, acceptVars, watchVars>>

Connects == 1 .. MaxConnects

timeout == IF maxHandshakeMs = 0 THEN DefaultTimeout ELSE maxHandshakeMs

(* A mutant: the default interval, whatever the timeout. *)
retryFixed == MaxRetry

(* std::clamp(timeout / 5, 100ms, 1000ms) *)
retry ==
  CASE timeout \div 5 < MinRetry -> MinRetry
    [] timeout \div 5 > MaxRetry -> MaxRetry
    [] OTHER -> timeout \div 5

(* recv is the asyncRecvFrom of receiveNext ("junk" is a datagram that is  *)
(* no ACK or comes from another address), timer the async_wait of          *)
(* scheduleRetry, from the sender of the datagram read, age the time that  *)
(* has passed without an answer.                                           *)
Fresh == [phase |-> "unused", done |-> FALSE, recv |-> "idle", from |-> 0,
          timer |-> "idle", timerIn |-> 0, age |-> 0, results |-> <<>>,
          remote |-> 0, started |-> FALSE, closed |-> FALSE, aborted |-> FALSE]

(* The keepalive timer as start arms it: keepaliveIn units are left until  *)
(* it expires, silence is Clock::now() - lastRecv_, and alone is history:  *)
(* for how long there has been no peer that could be heard.                *)
NewWatch == [keepaliveIn |-> keepaliveMs, silence |-> 0, alone |-> 0]

Init ==
  /\ client = [a \in Connects |-> Fresh]
  /\ pending = 0
  /\ inits = {}
  /\ acks = {}
  /\ listening = TRUE
  /\ accept = "idle"
  /\ sender = 0
  /\ server = <<>>
  /\ clientWatch = [a \in Connects |-> NewWatch]
  /\ serverWatch = [s \in 1 .. MaxSessions |-> NewWatch]

-----------------------------------------------------------------------------
(* The client *)

Cancelled(state) == IF state \in {"waiting", "armed"} THEN "aborted" ELSE state

(* A mutant: done is not set. *)
CompleteAgain(c, result, adopted) ==
  [c EXCEPT !.timer = Cancelled(@), !.results = Append(@, result)]

(* complete, with the handler that asyncConnect passes: it starts the      *)
(* session, which a session that is closed declines.                       *)
Complete(c, result, adopted) ==
  IF c.done THEN c
  ELSE LET starts == result = "success" /\ ~c.closed
       IN  [c EXCEPT !.done = TRUE,
                     !.timer = Cancelled(@),
                     !.age = 0,
                     !.results = Append(@, result),
                     !.started = starts,
                     !.remote = IF starts THEN adopted ELSE @]

(* A receive started on a closed socket fails at once. *)
Receiving(c) == [c EXCEPT !.recv = IF c.closed THEN "aborted" ELSE "waiting"]

Rearmed(c) == [c EXCEPT !.timer = "armed", !.timerIn = retry]

(* sendInit in state c: the state after it, and whether an INIT left.  An  *)
(* INIT sent on a closed socket goes nowhere, and nobody is told.          *)
sendInit(c) ==
  {[state |-> c, sent |-> ~c.closed]} \cup
  {o \in {[state |-> Complete(c, "BadPacket", 0), sent |-> FALSE]} : EncodeCanFail}

(* asyncConnect and the first two calls of asyncClientHandshake.  These run *)
(* on the caller's thread: handlers on the strand may come before the last. *)
AsyncConnect(a) ==
  /\ a = pending + 1
  /\ pending' = a
  /\ \E o \in sendInit([client[a] EXCEPT !.phase = "connecting"]) :
       /\ client' = [client EXCEPT ![a] = Receiving(o.state)]
       /\ inits' = inits \cup {b \in {a} : o.sent}
  /\ UNCHANGED <<acks, acceptVars, watchVars>>

ScheduleRetry(a) ==
  /\ client[a].phase = "connecting"
  /\ client' = [client EXCEPT ![a] = [Rearmed(@) EXCEPT !.phase = "connected"]]
  /\ UNCHANGED <<pending, inits, acks, acceptVars, watchVars>>

(* The receive completes: with an ACK, with anything else, or with an error. *)
AckArrives(a, s) ==
  /\ client[a].recv = "waiting"
  /\ server[s].client = a
  /\ client' = [client EXCEPT ![a].recv = "ack", ![a].from = s]
  /\ UNCHANGED <<pending, inits, acks, acceptVars, watchVars>>

OtherArrives(a, what) ==
  /\ client[a].recv = "waiting"
  /\ client' = [client EXCEPT ![a].recv = what, ![a].from = 0]
  /\ UNCHANGED <<pending, inits, acks, acceptVars, watchVars>>

(* A mutant: any datagram completes the handshake. *)
HandledAny(c) ==
  LET idle == [c EXCEPT !.recv = "idle"]
  IN  CASE c.recv = "aborted"        -> Complete(idle, "error", 0)
        [] c.recv \in {"ack", "junk"} -> Complete(idle, "success", c.from)

(* The handler of receiveNext *)
Handled(c) ==
  LET idle == [c EXCEPT !.recv = "idle"]
  IN  IF c.done THEN idle
      ELSE CASE c.recv = "aborted" -> Complete(idle, "error", 0)
             [] c.recv = "ack"     -> Complete(idle, "success", c.from)
             [] OTHER              -> Receiving(c)

OnReceive(a) ==
  /\ client[a].recv \in {"ack", "junk", "aborted"}
  /\ client' = [client EXCEPT ![a] = Handled(@)]
  /\ UNCHANGED <<pending, inits, acks, acceptVars, watchVars>>

TimerExpires(a) ==
  /\ client[a].timer = "armed"
  /\ client[a].timerIn = 0
  /\ client' = [client EXCEPT ![a].timer = "fired"]
  /\ UNCHANGED <<pending, inits, acks, acceptVars, watchVars>>

(* The handler of scheduleRetry, when the wait was cancelled or is over *)
TimerIgnored(a) ==
  /\ \/ client[a].timer = "aborted"
     \/ client[a].timer = "fired" /\ client[a].done
  /\ client' = [client EXCEPT ![a].timer = "idle"]
  /\ UNCHANGED <<pending, inits, acks, acceptVars, watchVars>>

PastDeadline(c) == c.age >= timeout

(* A mutant: the receive is left outstanding. *)
TimedOutNoCancel(c) == Complete([c EXCEPT !.timer = "idle"], "Timeout", 0)

(* complete, then sock.cancel() *)
TimedOut(c) ==
  [Complete([c EXCEPT !.timer = "idle"], "Timeout", 0) EXCEPT !.recv = Cancelled(@)]

OnDeadline(a) ==
  /\ client[a].timer = "fired" /\ ~client[a].done
  /\ PastDeadline(client[a])
  /\ client' = [client EXCEPT ![a] = TimedOut(@)]
  /\ UNCHANGED <<pending, inits, acks, acceptVars, watchVars>>

OnRetry(a) ==
  /\ client[a].timer = "fired" /\ ~client[a].done
  /\ ~PastDeadline(client[a])
  /\ \E o \in sendInit(client[a]) :
       /\ client' = [client EXCEPT ![a] = Rearmed(o.state)]
       /\ inits' = inits \cup {b \in {a} : o.sent}
  /\ UNCHANGED <<pending, acks, acceptVars, watchVars>>

(* Connector::cancel: close of the last session.  aborted records that the *)
(* call was in flight.                                                     *)
Cancel ==
  /\ pending # 0
  /\ ~client[pending].closed
  /\ client' = [client EXCEPT ![pending].closed = TRUE,
                              ![pending].recv = Cancelled(@),
                              ![pending].aborted = client[pending].results = <<>>]
  /\ clientWatch' = [clientWatch EXCEPT ![pending] = NewWatch]
  /\ UNCHANGED <<pending, inits, acks, acceptVars, serverWatch>>

-----------------------------------------------------------------------------
(* The acceptor *)

(* asyncRecvFrom on the listen socket *)
Listen == accept' = IF listening THEN "waiting" ELSE "aborted"

AsyncAccept ==
  /\ accept = "idle"
  /\ Listen
  /\ UNCHANGED <<clientVars, inits, acks, listening, sender, server, watchVars>>

InitArrives(a) ==
  /\ accept = "waiting"
  /\ a \in inits
  /\ Len(server) < MaxSessions
  /\ accept' = "init"
  /\ sender' = a
  /\ UNCHANGED <<clientVars, inits, acks, listening, server, watchVars>>

OtherAccepted(what) ==
  /\ accept = "waiting"
  /\ accept' = what
  /\ UNCHANGED <<clientVars, inits, acks, listening, sender, server, watchVars>>

(* The handler of startAccept: an error ends the asyncAccept, junk is      *)
(* dropped.                                                                *)
AcceptFails ==
  /\ accept = "aborted"
  /\ accept' = "idle"
  /\ UNCHANGED <<clientVars, inits, acks, listening, sender, server, watchVars>>

AcceptJunk ==
  /\ accept = "junk"
  /\ Listen
  /\ UNCHANGED <<clientVars, inits, acks, listening, sender, server, watchVars>>

(* openSession: the ACK is on its way before the completion of its send    *)
(* runs, or the send fails, or the ACK does not encode.                    *)
OpenSession ==
  /\ accept = "init"
  /\ \/ /\ accept' = "sent"
        /\ server' = Append(server, [client |-> sender, state |-> "created"])
        /\ acks' = acks \cup {Len(server) + 1}
     \/ /\ accept' = "unsent"
        /\ server' = Append(server, [client |-> sender, state |-> "created"])
        /\ UNCHANGED acks
     \/ /\ EncodeCanFail
        /\ accept' = "idle"
        /\ UNCHANGED <<server, acks>>
  /\ UNCHANGED <<clientVars, inits, listening, sender, watchVars>>

(* The completion of the send of the ACK ends the asyncAccept. *)
OnAckSent ==
  /\ accept \in {"sent", "unsent"}
  /\ accept' = "idle"
  /\ server' = [server EXCEPT ![Len(server)].state =
                  IF accept = "sent" THEN "started" ELSE "dropped"]
  /\ UNCHANGED <<clientVars, inits, acks, listening, sender, watchVars>>

(* cancel() and close() of the acceptor *)
StopAccepting(stillOpen) ==
  /\ listening
  /\ listening' = stillOpen
  /\ accept' = Cancelled(accept)
  /\ UNCHANGED <<clientVars, inits, acks, sender, server, watchVars>>

-----------------------------------------------------------------------------
(* The path, the time and the sessions after the handshake *)

(* A datagram may arrive any number of times before the path has lost its  *)
(* last copy.                                                              *)
LoseInit(a) ==
  /\ a \in inits
  /\ inits' = inits \ {a}
  /\ UNCHANGED <<clientVars, acks, acceptVars, watchVars>>

LoseAck(s) ==
  /\ acks' = acks \ {s}
  /\ UNCHANGED <<clientVars, inits, acceptVars, watchVars>>

HandlerQueued(c) ==
  \/ c.phase = "connecting"
  \/ c.recv \in {"ack", "junk", "aborted"}
  \/ c.timer \in {"fired", "aborted"}
  \/ c.timer = "armed" /\ c.timerIn = 0

Alive(a) == client[a].started /\ ~client[a].closed

Serving(s) == s \in DOMAIN server /\ server[s].state = "started"

(* A client sends to the session it adopted, and to no other. *)
Adopted(s) == Alive(server[s].client) /\ client[server[s].client].remote = s

(* The peer of a session is gone for good: its client has adopted another  *)
(* session or none, or has closed its own; the session adopted has closed. *)
Orphan(s) == client[server[s].client].results # <<>> /\ ~Adopted(s)
Abandoned(a) == server[client[a].remote].state = "closed"

(* A unit of time for the watch w of a session that is open *)
Waits(w, gone) ==
  [w EXCEPT !.keepaliveIn = @ - 1, !.silence = @ + 1, !.alone = IF gone THEN @ + 1 ELSE @]

Tick ==
  /\ \A a \in Connects : /\ ~HandlerQueued(client[a])
                         /\ Alive(a) => clientWatch[a].keepaliveIn > 0
  /\ \A s \in 1 .. MaxSessions : Serving(s) => serverWatch[s].keepaliveIn > 0
  /\ \/ \E a \in Connects : client[a].timer = "armed" \/ Alive(a)
     \/ \E s \in 1 .. MaxSessions : Serving(s)
  /\ client' = [a \in Connects |->
                  IF client[a].timer = "armed"
                    THEN [client[a] EXCEPT !.age = @ + 1, !.timerIn = @ - 1]
                    ELSE client[a]]
  /\ clientWatch' = [a \in Connects |->
                       IF Alive(a) THEN Waits(clientWatch[a], Abandoned(a)) ELSE clientWatch[a]]
  /\ serverWatch' = [s \in 1 .. MaxSessions |->
                       IF Serving(s) THEN Waits(serverWatch[s], Orphan(s)) ELSE serverWatch[s]]
  /\ UNCHANGED <<pending, inits, acks, acceptVars>>

(* The handler of scheduleKeepalive.  What it sends is heard, if at all,   *)
(* within the unit, and so is everything else a session sends.             *)

Rearms(w) == [w EXCEPT !.keepaliveIn = keepaliveMs]

PeerSilent(w) == w.silence > timeoutMs

ClientKeepalive(a) ==
  /\ Alive(a)
  /\ clientWatch[a].keepaliveIn = 0
  /\ ~PeerSilent(clientWatch[a])
  /\ clientWatch' = [clientWatch EXCEPT ![a] = Rearms(@)]
  /\ UNCHANGED <<clientVars, inits, acks, acceptVars, serverWatch>>

ClientPeerSilent(a) ==
  /\ Alive(a)
  /\ clientWatch[a].keepaliveIn = 0
  /\ PeerSilent(clientWatch[a])
  /\ client' = [client EXCEPT ![a].closed = TRUE]
  /\ clientWatch' = [clientWatch EXCEPT ![a] = NewWatch]
  /\ UNCHANGED <<pending, inits, acks, acceptVars, serverWatch>>

ServerKeepalive(s) ==
  /\ Serving(s)
  /\ serverWatch[s].keepaliveIn = 0
  /\ ~PeerSilent(serverWatch[s])
  /\ serverWatch' = [serverWatch EXCEPT ![s] = Rearms(@)]
  /\ UNCHANGED <<clientVars, inits, acks, acceptVars, clientWatch>>

ServerPeerSilent(s) ==
  /\ Serving(s)
  /\ serverWatch[s].keepaliveIn = 0
  /\ PeerSilent(serverWatch[s])
  /\ server' = [server EXCEPT ![s].state = "closed"]
  /\ serverWatch' = [serverWatch EXCEPT ![s] = NewWatch]
  /\ UNCHANGED <<clientVars, inits, acks, listening, accept, sender, clientWatch>>

(* A mutant: onSocketRecv does not look at the sender. *)
IsRemoteAny(a, s) == TRUE

(* sender_ == remote_ *)
IsRemote(a, s) == client[a].remote = s

(* A datagram of the server's session s reaches its client. *)
ClientHears(s) ==
  LET a == server[s].client
  IN  /\ Serving(s)
      /\ Alive(a)
      /\ IsRemote(a, s)
      /\ clientWatch' = [clientWatch EXCEPT ![a].silence = 0]
      /\ UNCHANGED <<clientVars, inits, acks, acceptVars, serverWatch>>

(* A datagram of the client reaches the server's session s. *)
ServerHears(s) ==
  /\ Serving(s)
  /\ Adopted(s)
  /\ serverWatch' = [serverWatch EXCEPT ![s].silence = 0]
  /\ UNCHANGED <<clientVars, inits, acks, acceptVars, clientWatch>>

(* cancel() of a session the acceptor handed out *)
ServerCancel(s) ==
  /\ Serving(s)
  /\ server' = [server EXCEPT ![s].state = "closed"]
  /\ serverWatch' = [serverWatch EXCEPT ![s] = NewWatch]
  /\ UNCHANGED <<clientVars, inits, acks, listening, accept, sender, clientWatch>>

ClientStep(a) ==
  \/ AsyncConnect(a)
  \/ ScheduleRetry(a)
  \/ \E s \in acks : AckArrives(a, s)
  \/ \E what \in {"junk", "aborted"} : OtherArrives(a, what)
  \/ OnReceive(a)
  \/ TimerExpires(a)
  \/ TimerIgnored(a)
  \/ OnDeadline(a)
  \/ OnRetry(a)
  \/ ClientKeepalive(a)
  \/ ClientPeerSilent(a)
  \/ InitArrives(a)
  \/ LoseInit(a)

ServerStep(s) ==
  \/ ServerKeepalive(s)
  \/ ServerPeerSilent(s)
  \/ ServerCancel(s)
  \/ ClientHears(s)
  \/ ServerHears(s)

Next ==
  \/ \E a \in Connects : ClientStep(a)
  \/ Cancel
  \/ AsyncAccept
  \/ \E what \in {"junk", "aborted"} : OtherAccepted(what)
  \/ AcceptFails
  \/ AcceptJunk
  \/ OpenSession
  \/ OnAckSent
  \/ \E stillOpen \in BOOLEAN : StopAccepting(stillOpen)
  \/ \E s \in acks : LoseAck(s)
  \/ Tick
  \/ \E s \in DOMAIN server : ServerStep(s)

Spec == Init /\ [][Next]_vars

(* Queued handlers run, those of the keepalive timers too, and time passes *)
(* however many datagrams arrive.                                          *)
FairSpec ==
  /\ Spec
  /\ \A a \in Connects :
       /\ WF_vars(ScheduleRetry(a))
       /\ WF_vars(OnReceive(a))
       /\ WF_vars(TimerExpires(a))
       /\ WF_vars(TimerIgnored(a) \/ OnDeadline(a) \/ OnRetry(a))
       /\ WF_vars(ClientKeepalive(a) \/ ClientPeerSilent(a))
  /\ SF_vars(Tick)
  /\ WF_vars(OnAckSent)
  /\ \A s \in 1 .. MaxSessions : WF_vars(ServerKeepalive(s) \/ ServerPeerSilent(s))

-----------------------------------------------------------------------------
(* Connector.hpp promises one completion per asyncConnect.  An ACK, the    *)
(* deadline, cancel, an error of the socket and a failing encode may all   *)
(* be queued at once: the handler is called by one of them, and a result   *)
(* other than success leaves no session running.                           *)
CompletesOnce ==
  \A a \in Connects :
    /\ Len(client[a].results) <= 1
    /\ client[a].started => client[a].results = <<"success">>

(* Handshake.hpp looks at the deadline only when the retry timer fires.    *)
(* asyncConnect is still answered less than one retry interval, that is a  *)
(* fifth of the timeout or the shortest interval, after the deadline.      *)
EndsByDeadline ==
  \A a \in Connects :
    client[a].results = <<>> =>
      \/ client[a].age < timeout + MinRetry
      \/ client[a].age < timeout + timeout \div 5

(* A started client talks to a session that was opened for its own INIT    *)
(* and that has answered, never to the sender of a stray datagram or to a  *)
(* session whose ACK could not be sent; one session has one client.        *)
PeersAgree ==
  \A a \in Connects : client[a].started =>
    /\ client[a].remote \in DOMAIN server
    /\ server[client[a].remote].client = a
    /\ server[client[a].remote].state # "dropped"

(* Whatever is lost, every asyncConnect is answered, and then neither the  *)
(* receive nor the timer of the handshake is left behind to keep the       *)
(* session and its socket in memory (after a failing encode, the receive   *)
(* is).                                                                    *)
ConnectComesToRest ==
  \A a \in Connects :
    client[a].phase # "unused" ~>
      /\ client[a].results # <<>>
      /\ client[a].timer = "idle"
      /\ client[a].recv = "idle" \/ client[a].results = <<"BadPacket">>

(* Every INIT that arrives, a retry or a copy, opens one more session, and *)
(* each end may outlive the other.  README.md, Known Limitations: "the     *)
(* orphan times out via SessionConfig::timeoutMs_".  A session that no      *)
(* client has adopted, or whose peer has closed, is closed at most         *)
(* timeoutMs_ and one keepalive interval later, though what orphans send   *)
(* goes on reaching the client, and the client goes on sending to the      *)
(* session it adopted.                                                     *)
HalfOpenBounded ==
  /\ \A s \in DOMAIN server : Serving(s) => serverWatch[s].alone <= timeoutMs + keepaliveMs
  /\ \A a \in Connects : Alive(a) => clientWatch[a].alone <= timeoutMs + keepaliveMs

(* Connector.hpp: cancel() will "abort an in-flight asyncConnect (its      *)
(* handler completes with an error)".                                      *)
CancelAborts ==
  \A a \in Connects : client[a].aborted => client[a].results # <<"success">>
=============================================================================
