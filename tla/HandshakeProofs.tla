-------------------------- MODULE HandshakeProofs --------------------------
(***************************************************************************)
(* Theorems about Handshake, for any number of calls of asyncConnect and   *)
(* of sessions, and for every timeout and retry interval.                  *)
(***************************************************************************)
EXTENDS Handshake, SequenceTheorems, TLAPS

Results == {"success", "error", "BadPacket", "Timeout"}

ClientStates ==
  [phase   : {"unused", "connecting", "connected"},
   done    : BOOLEAN,
   recv    : {"idle", "waiting", "ack", "junk", "aborted"},
   from    : Nat,
   timer   : {"idle", "armed", "fired", "aborted"},
   timerIn : Nat,
   age     : Nat,
   results : Seq(Results),
   remote  : Nat,
   started : BOOLEAN,
   closed  : BOOLEAN,
   aborted : BOOLEAN]

ServerSessions ==
  [client : Connects, state : {"created", "started", "dropped", "closed"}]

(* A call has been answered just when it is done. *)
Answered(c) ==
  /\ Len(c.results) = IF c.done THEN 1 ELSE 0
  /\ c.started => c.results = <<"success">>

(* A call that has not been answered has its timer running, and the timer  *)
(* fires before the deadline and one interval have passed.                 *)
Timed(c) ==
  /\ c.phase = "connected" /\ ~c.done => c.timer \in {"armed", "fired"}
  /\ c.phase # "connected" => c.age = 0 /\ c.timer = "idle"
  /\ c.timer = "fired" => c.timerIn = 0
  /\ c.timer \in {"armed", "fired"} => c.age + c.timerIn < timeout + retry

(* A session whose ACK has left for its client *)
Answering(s) ==
  /\ s \in DOMAIN server
  /\ server[s].state # "dropped"
  /\ accept = "unsent" => s # Len(server)

(* Whom the client has heard from, and whom it adopted *)
Talks(a, c) ==
  /\ c.recv = "ack" => Answering(c.from) /\ server[c.from].client = a
  /\ c.started => Answering(c.remote) /\ server[c.remote].client = a

Types ==
  /\ client \in [Connects -> ClientStates]
  /\ pending \in 0 .. MaxConnects
  /\ \A a \in Connects : a > pending => client[a] = Fresh
  /\ server \in Seq(ServerSessions)
  /\ accept \in {"idle", "waiting", "init", "junk", "aborted", "sent", "unsent"}
  /\ accept = "init" => sender \in Connects
  /\ accept \in {"sent", "unsent"} => server # <<>>

(* The inductive invariant *)
HandshakeInv ==
  /\ Types
  /\ \A s \in acks : Answering(s)
  /\ \A a \in Connects : /\ Answered(client[a])
                         /\ Timed(client[a])
                         /\ Talks(a, client[a])

-----------------------------------------------------------------------------
(* Times *)

LEMMA TimeoutPositive == timeout \in Nat /\ timeout >= 1
  BY HandshakeAssumption DEF timeout

(* std::clamp leaves an interval that is not empty, and no longer than the *)
(* shortest one or a fifth of the timeout.                                 *)
LEMMA RetryRange ==
  /\ retry \in Nat /\ retry >= 1
  /\ retry <= MinRetry \/ retry <= timeout \div 5
  /\ timeout \div 5 \in Nat
<1>1. timeout \div 5 \in Nat
  BY TimeoutPositive
<1>2. QED
  BY <1>1, HandshakeAssumption DEF retry

-----------------------------------------------------------------------------
(* The steps of one call, as functions of its state *)

LEMMA EndedType ==
  ASSUME NEW c \in ClientStates, NEW t \in {"idle", "armed", "fired", "aborted"},
         NEW res \in Seq(Results), NEW b \in BOOLEAN, NEW rem \in Nat
  PROVE  [c EXCEPT !.done = TRUE, !.timer = t, !.age = 0, !.results = res,
                   !.started = b, !.remote = rem] \in ClientStates
  BY DEF ClientStates

LEMMA CompleteSound ==
  ASSUME NEW c \in ClientStates, Answered(c), NEW r \in Results, NEW adopted \in Nat,
         NEW d, d = Complete(c, r, adopted)
  PROVE  /\ d \in ClientStates /\ Answered(d) /\ d.done
         /\ d.phase = c.phase /\ d.recv = c.recv /\ d.from = c.from
         /\ d.timerIn = c.timerIn /\ d.age \in {0, c.age} /\ d.closed = c.closed
         /\ d.timer = c.timer \/ (d.timer = "aborted" /\ c.timer = "armed")
         /\ d.started => \/ c.started /\ d.remote = c.remote
                         \/ r = "success" /\ d.remote = adopted
<1>1. CASE c.done
  BY <1>1 DEF Complete
<1>2. CASE ~c.done
  <2> DEFINE starts == r = "success" /\ ~c.closed
  <2>1. d = [c EXCEPT !.done = TRUE, !.timer = Cancelled(@), !.age = 0, !.results = Append(@, r),
                      !.started = starts, !.remote = IF starts THEN adopted ELSE @]
    BY <1>2 DEF Complete
  <2>2. c.results \in Seq(Results) /\ Len(c.results) = 0
    BY <1>2 DEF ClientStates, Answered
  <2>3. c.results = <<>>
    BY <2>2
  <2>4. Append(c.results, r) = <<r>> /\ <<r>> \in Seq(Results) /\ Len(<<r>>) = 1
    BY <2>3
  <2>5. Cancelled(c.timer) \in {"idle", "armed", "fired", "aborted"}
        /\ (Cancelled(c.timer) = c.timer \/ (Cancelled(c.timer) = "aborted" /\ c.timer = "armed"))
    BY DEF Cancelled, ClientStates
  <2>6. /\ d.results = <<r>> /\ d.done = TRUE /\ d.timer = Cancelled(c.timer)
        /\ d.started = starts /\ d.remote = IF starts THEN adopted ELSE c.remote
        /\ d.phase = c.phase /\ d.recv = c.recv /\ d.from = c.from
        /\ d.timerIn = c.timerIn /\ d.age \in {0, c.age} /\ d.closed = c.closed
    BY <2>1, <2>4 DEF ClientStates
  <2>7. d \in ClientStates
    <3> DEFINE t == Cancelled(c.timer)
               rem == IF starts THEN adopted ELSE c.remote
    <3>1. starts \in BOOLEAN /\ rem \in Nat /\ t \in {"idle", "armed", "fired", "aborted"}
      BY <2>5 DEF ClientStates
    <3>2. d = [c EXCEPT !.done = TRUE, !.timer = t, !.age = 0, !.results = <<r>>,
                        !.started = starts, !.remote = rem]
      BY <2>1, <2>4
    <3> HIDE DEF starts, t, rem
    <3>3. [c EXCEPT !.done = TRUE, !.timer = t, !.age = 0, !.results = <<r>>,
                    !.started = starts, !.remote = rem] \in ClientStates
      BY <2>4, <3>1, EndedType
    <3>4. QED
      BY <3>2, <3>3
  <2>8. Answered(d)
    BY <2>4, <2>6 DEF Answered
  <2>9. d.started => r = "success" /\ d.remote = adopted
    BY <2>6
  <2>10. QED
    BY <2>5, <2>6, <2>7, <2>8, <2>9
<1>3. QED
  BY <1>1, <1>2 DEF ClientStates

(* A completed call has its timer cancelled and leaves the rest alone. *)
LEMMA CompleteTimed ==
  ASSUME NEW c \in ClientStates, Answered(c), Timed(c), NEW r \in Results, NEW adopted \in Nat
  PROVE  Timed(Complete(c, r, adopted))
<1> DEFINE d == Complete(c, r, adopted)
<1>1. /\ d.done /\ d.phase = c.phase /\ d.timerIn = c.timerIn /\ d.age \in {0, c.age}
      /\ d.timer = c.timer \/ (d.timer = "aborted" /\ c.timer = "armed")
  BY CompleteSound
<1> HIDE DEF d
<1>2. c.age \in Nat /\ c.timerIn \in Nat
  BY DEF ClientStates
<1>3. timeout \in Nat /\ retry \in Nat
  BY TimeoutPositive, RetryRange
<1>4. c.timer \in {"armed", "fired"} => d.age + d.timerIn < timeout + retry
  BY <1>1, <1>2, <1>3 DEF Timed
<1>5. Timed(d)
  BY <1>1, <1>4 DEF Timed
<1>6. QED
  BY <1>5 DEF d

(* A change of the receive alone *)
SameButRecv(c, d) ==
  /\ d \in ClientStates
  /\ d.phase = c.phase /\ d.done = c.done /\ d.timer = c.timer /\ d.timerIn = c.timerIn
  /\ d.age = c.age /\ d.results = c.results /\ d.remote = c.remote
  /\ d.started = c.started

LEMMA RecvSound ==
  ASSUME NEW c \in ClientStates, NEW d, SameButRecv(c, d),
         Answered(c), Timed(c)
  PROVE  d \in ClientStates /\ Answered(d) /\ Timed(d)
  BY DEF SameButRecv, Answered, Timed

-----------------------------------------------------------------------------
(* What a step does to the invariant *)

(* One call moves. *)
LEMMA CallMoves ==
  ASSUME HandshakeInv, NEW a \in Connects, NEW c \in ClientStates,
         client' = [client EXCEPT ![a] = c],
         pending' \in 0 .. MaxConnects, pending <= pending', a <= pending',
         Answered(c), Timed(c), Talks(a, c),
         acks' \subseteq acks, UNCHANGED acceptVars
  PROVE  HandshakeInv'
<1>1. /\ Types /\ \A s \in acks : Answering(s)
      /\ \A b \in Connects : /\ Answered(client[b]) /\ Timed(client[b]) /\ Talks(b, client[b])
  BY DEF HandshakeInv
<1>2. accept' = accept /\ sender' = sender /\ server' = server
  BY DEF acceptVars
<1>3. client'[a] = c /\ \A b \in Connects : b # a => client'[b] = client[b]
  BY <1>1 DEF Types
<1>4. Types'
  BY <1>1, <1>2, <1>3 DEF Types, Connects
<1>5. \A s : Answering(s) => Answering(s)'
  BY <1>2 DEF Answering
<1>6. \A s \in acks' : Answering(s)'
  BY <1>1, <1>5
<1>7. ASSUME NEW b \in Connects
      PROVE  Answered(client[b])' /\ Timed(client[b])' /\ Talks(b, client[b])'
  <2>1. CASE b = a
    <3>1. Answered(client'[a]) /\ Timed(client'[a])
      BY <1>3
    <3>2. Talks(a, client[a])'
      BY <1>2, <1>3, <1>5 DEF Talks
    <3>3. QED
      BY <2>1, <3>1, <3>2 DEF Answered, Timed
  <2>2. CASE b # a
    <3>2. client'[b] = client[b]
      BY <1>3, <2>2
    <3>3. Talks(b, client[b])'
      BY <1>1, <1>2, <1>5, <3>2 DEF Talks
    <3>4. QED
      BY <1>1, <3>2, <3>3 DEF Answered, Timed
  <2>3. QED
    BY <2>1, <2>2
<1>8. QED
  BY <1>4, <1>6, <1>7 DEF HandshakeInv

(* The invariant at one call *)
LEMMA AtCall ==
  ASSUME HandshakeInv, NEW a \in Connects
  PROVE  /\ client[a] \in ClientStates /\ Answered(client[a]) /\ Timed(client[a])
         /\ Talks(a, client[a])
         /\ client \in [Connects -> ClientStates]
         /\ client[a] # Fresh => a <= pending
<1>1. Types
  BY DEF HandshakeInv
<1>2. client[a] # Fresh => a <= pending
  BY <1>1, HandshakeAssumption DEF Types, Connects
<1>3. QED
  BY <1>1, <1>2 DEF HandshakeInv, Types

(* A call that has begun moves. *)
LEMMA CallMovesOnly ==
  ASSUME HandshakeInv, NEW a \in Connects, NEW c \in ClientStates,
         client' = [client EXCEPT ![a] = c], client[a] # Fresh \/ a = pending,
         UNCHANGED <<pending, acceptVars>>, acks' \subseteq acks,
         Answered(c), Timed(c), Talks(a, c)
  PROVE  HandshakeInv'
<1>1. pending' \in 0 .. MaxConnects /\ pending <= pending' /\ a <= pending'
  BY AtCall DEF HandshakeInv, Types
<1>2. UNCHANGED acceptVars
  OBVIOUS
<1>3. QED
  BY <1>1, <1>2, CallMoves

LEMMA AsyncConnectStep ==
  ASSUME HandshakeInv, NEW a \in Connects, AsyncConnect(a)
  PROVE  HandshakeInv'
<1> DEFINE c0 == [client[a] EXCEPT !.phase = "connecting"]
<1>1. a = pending + 1 /\ pending' = a /\ acks' = acks /\ UNCHANGED acceptVars
  BY DEF AsyncConnect
<1>2. PICK o \in sendInit(c0) : client' = [client EXCEPT ![a] = Receiving(o.state)]
  BY DEF AsyncConnect
<1>3. client[a] = Fresh /\ pending \in Nat
  BY <1>1 DEF HandshakeInv, Types, Connects
<1>4. /\ c0 \in ClientStates /\ c0.phase = "connecting" /\ ~c0.done /\ ~c0.started
      /\ c0.timer = "idle" /\ c0.age = 0 /\ c0.timerIn = 0 /\ c0.results = <<>>
      /\ c0.recv = "idle" /\ c0.closed = FALSE
  <2>1. c0 = [Fresh EXCEPT !.phase = "connecting"]
    BY <1>3
  <2>2. <<>> \in Seq(Results) /\ 0 \in Nat
    OBVIOUS
  <2>3. Fresh \in ClientStates
    BY <2>2 DEF Fresh, ClientStates
  <2>4. c0 \in ClientStates
    BY <2>1, <2>3 DEF ClientStates
  <2>5. QED
    BY <2>1, <2>4 DEF Fresh
<1>6. Answered(c0) /\ Timed(c0)
  BY <1>4 DEF Answered, Timed
<1> HIDE DEF c0
<1>7. /\ o.state \in ClientStates /\ Answered(o.state) /\ Timed(o.state)
      /\ o.state.phase = "connecting" /\ ~o.state.started /\ o.state.timer = "idle"
  <2>1. CASE o = [state |-> c0, sent |-> ~c0.closed]
    BY <2>1, <1>4, <1>6
  <2>2. CASE o = [state |-> Complete(c0, "BadPacket", 0), sent |-> FALSE]
    <3>0. PICK d : d = Complete(c0, "BadPacket", 0)
      OBVIOUS
    <3>1. /\ d \in ClientStates /\ Answered(d) /\ d.phase = c0.phase
          /\ d.age \in {0, c0.age} /\ d.timerIn = c0.timerIn
          /\ d.timer = c0.timer \/ (d.timer = "aborted" /\ c0.timer = "armed")
          /\ d.started => \/ c0.started /\ d.remote = c0.remote
                          \/ "BadPacket" = "success" /\ d.remote = 0
      <4>1. "BadPacket" \in Results /\ 0 \in Nat /\ c0 \in ClientStates /\ Answered(c0)
        BY <1>4, <1>6 DEF Results
      <4>2. QED
        BY <3>0, <4>1, CompleteSound
    <3>2. o.state = d
      BY <2>2, <3>0
    <3>3. d.phase = "connecting" /\ d.age = 0 /\ d.timer = "idle" /\ ~d.started
      BY <3>1, <1>4
    <3>4. Timed(d)
      BY <3>3 DEF Timed
    <3>5. QED
      BY <3>1, <3>2, <3>3, <3>4
  <2>3. QED
    BY <2>1, <2>2 DEF sendInit
<1>8. PICK c : c = Receiving(o.state)
  OBVIOUS
<1>9. /\ c \in ClientStates /\ Answered(c) /\ Timed(c) /\ c.phase = "connecting"
      /\ c.started = o.state.started /\ c.timer = "idle" /\ c.recv \in {"aborted", "waiting"}
  BY <1>7, <1>8 DEF Receiving, ClientStates, Answered, Timed
<1>10. Talks(a, c)
  BY <1>7, <1>9 DEF Talks
<1>14. pending' \in 0 .. MaxConnects /\ pending <= pending' /\ a <= pending'
  BY <1>1, <1>3, HandshakeAssumption DEF Connects
<1>15. client' = [client EXCEPT ![a] = c]
  BY <1>2, <1>8
<1>16. QED
  BY <1>1, <1>9, <1>10, <1>14, <1>15, CallMoves

LEMMA ScheduleRetryStep ==
  ASSUME HandshakeInv, NEW a \in Connects, ScheduleRetry(a)
  PROVE  HandshakeInv'
<1>1. PICK c : c = [Rearmed(client[a]) EXCEPT !.phase = "connected"]
  OBVIOUS
<1>2. /\ client[a].phase = "connecting" /\ client' = [client EXCEPT ![a] = c]
      /\ UNCHANGED <<pending, acks, acceptVars>>
  BY <1>1, AtCall DEF ScheduleRetry
<1>3. client[a] \in ClientStates /\ Answered(client[a]) /\ Timed(client[a])
      /\ Talks(a, client[a])
  BY AtCall
<1>4. client[a].age = 0
  BY <1>2, <1>3 DEF Timed
<1>5. timeout \in Nat /\ timeout >= 1 /\ retry \in Nat /\ retry >= 1
  BY TimeoutPositive, RetryRange
<1>6. /\ c \in ClientStates /\ c.phase = "connected" /\ c.timer = "armed" /\ c.timerIn = retry
      /\ c.age = client[a].age /\ c.done = client[a].done /\ c.results = client[a].results
      /\ c.started = client[a].started /\ c.recv = client[a].recv
      /\ c.from = client[a].from /\ c.remote = client[a].remote
  BY <1>1, <1>3, <1>5 DEF Rearmed, ClientStates
<1>7. Answered(c) /\ Talks(a, c)
  BY <1>3, <1>6 DEF Answered, Talks
<1>8. Timed(c)
  BY <1>4, <1>5, <1>6 DEF Timed
<1>10. client[a] # Fresh
  BY <1>2 DEF Fresh
<1>11. QED
  BY <1>2, <1>6, <1>7, <1>8, <1>10, CallMovesOnly

(* A call completes, with the sender of an ACK if it succeeds. *)
LEMMA CompleteKeeps ==
  ASSUME NEW c \in ClientStates, NEW a, NEW r \in Results, NEW adopted \in Nat,
         Answered(c), Timed(c), Talks(a, c),
         r = "success" => Answering(adopted) /\ server[adopted].client = a,
         NEW d, d = Complete(c, r, adopted)
  PROVE  d \in ClientStates /\ Answered(d) /\ Timed(d) /\ Talks(a, d)
<1>1. /\ d \in ClientStates /\ Answered(d) /\ d.recv = c.recv /\ d.from = c.from
      /\ d.started => \/ c.started /\ d.remote = c.remote
                      \/ r = "success" /\ d.remote = adopted
  BY CompleteSound
<1>2. Timed(d)
  BY CompleteTimed
<1>3. Talks(a, d)
  BY <1>1 DEF Talks
<1>4. QED
  BY <1>1, <1>2, <1>3

LEMMA AckArrivesStep ==
  ASSUME HandshakeInv, NEW a \in Connects, NEW s \in acks, AckArrives(a, s)
  PROVE  HandshakeInv'
<1>1. PICK c : c = [client[a] EXCEPT !.recv = "ack", !.from = s]
  OBVIOUS
<1>2. /\ client[a].recv = "waiting" /\ server[s].client = a /\ acks' \subseteq acks
      /\ UNCHANGED <<pending, acceptVars>>
      /\ client' = [client EXCEPT ![a] = c]
  BY <1>1, AtCall DEF AckArrives
<1>3. /\ client[a] \in ClientStates /\ Answered(client[a]) /\ Timed(client[a])
      /\ Talks(a, client[a])
  BY AtCall
<1>4. Answering(s) /\ s \in Nat
  <2>1. Answering(s) /\ server \in Seq(ServerSessions)
    BY DEF HandshakeInv, Types
  <2>2. QED
    BY <2>1 DEF Answering
<1>5. /\ c \in ClientStates /\ Answered(c) /\ Timed(c)
      /\ c.recv = "ack" /\ c.from = s /\ c.started = client[a].started
      /\ c.remote = client[a].remote
  <2>1. c.recv = "ack" /\ c.from = s /\ SameButRecv(client[a], c)
    BY <1>1, <1>3, <1>4 DEF SameButRecv, ClientStates
  <2>2. QED
    BY <2>1, <1>3, RecvSound DEF SameButRecv
<1>6. Talks(a, c)
  BY <1>2, <1>3, <1>4, <1>5 DEF Talks
<1>7. client[a] # Fresh
  BY <1>2 DEF Fresh
<1>8. QED
  BY <1>2, <1>5, <1>6, <1>7, CallMovesOnly

LEMMA OtherArrivesStep ==
  ASSUME HandshakeInv, NEW a \in Connects, NEW what \in {"junk", "aborted"}, OtherArrives(a, what)
  PROVE  HandshakeInv'
<1>1. PICK c : c = [client[a] EXCEPT !.recv = what, !.from = 0]
  OBVIOUS
<1>2. /\ client[a].recv = "waiting" /\ acks' \subseteq acks
      /\ UNCHANGED <<pending, acceptVars>>
      /\ client' = [client EXCEPT ![a] = c]
  BY <1>1, AtCall DEF OtherArrives
<1>3. /\ client[a] \in ClientStates /\ Answered(client[a]) /\ Timed(client[a])
      /\ Talks(a, client[a])
  BY AtCall
<1>4. /\ c \in ClientStates /\ Answered(c) /\ Timed(c)
      /\ c.recv = what /\ c.started = client[a].started /\ c.remote = client[a].remote
  <2>1. c.recv = what /\ SameButRecv(client[a], c)
    BY <1>1, <1>3 DEF SameButRecv, ClientStates
  <2>2. QED
    BY <2>1, <1>3, RecvSound DEF SameButRecv
<1>5. Talks(a, c)
  BY <1>3, <1>4 DEF Talks
<1>6. client[a] # Fresh
  BY <1>2 DEF Fresh
<1>7. QED
  BY <1>2, <1>4, <1>5, <1>6, CallMovesOnly

LEMMA OnReceiveStep ==
  ASSUME HandshakeInv, NEW a \in Connects, OnReceive(a)
  PROVE  HandshakeInv'
<1>1. PICK c : c = client[a]
  OBVIOUS
<1>2. PICK d : d = Handled(c)
  OBVIOUS
<1>3. /\ c.recv \in {"ack", "junk", "aborted"} /\ acks' \subseteq acks
      /\ UNCHANGED <<pending, acceptVars>>
      /\ client' = [client EXCEPT ![a] = d]
  BY <1>1, <1>2, AtCall DEF OnReceive
<1>4. /\ c \in ClientStates /\ Answered(c) /\ Timed(c) /\ Talks(a, c)
  BY <1>1, AtCall
<1>5. PICK idle : idle = [c EXCEPT !.recv = "idle"]
  OBVIOUS
<1>6. /\ idle \in ClientStates /\ Answered(idle) /\ Timed(idle)
      /\ Talks(a, idle) /\ idle.from = c.from
  <2>1. idle.recv = "idle" /\ idle.from = c.from /\ SameButRecv(c, idle)
    BY <1>4, <1>5 DEF SameButRecv, ClientStates
  <2>2. /\ idle \in ClientStates /\ Answered(idle) /\ Timed(idle)
        /\ idle.recv = "idle" /\ idle.from = c.from
        /\ idle.started = c.started /\ idle.remote = c.remote
    BY <2>1, <1>4, RecvSound DEF SameButRecv
  <2>3. QED
    BY <2>2, <1>4 DEF Talks
<1>7. d \in ClientStates /\ Answered(d) /\ Timed(d) /\ Talks(a, d)
  <2>1. CASE c.done
    <3>1. d = idle
      BY <2>1, <1>2, <1>5 DEF Handled
    <3>2. QED
      BY <3>1, <1>6
  <2>2. CASE ~c.done /\ c.recv = "aborted"
    <3>1. d = Complete(idle, "error", 0)
      BY <2>2, <1>2, <1>5 DEF Handled
    <3>2. "error" \in Results /\ "error" # "success" /\ 0 \in Nat
      BY DEF Results
    <3>3. QED
      BY <3>1, <3>2, <1>6, CompleteKeeps
  <2>3. CASE ~c.done /\ c.recv = "ack"
    <3>1. d = Complete(idle, "success", c.from)
      BY <2>3, <1>2, <1>5 DEF Handled
    <3>2. "success" \in Results /\ c.from \in Nat
      BY <1>4 DEF Results, ClientStates
    <3>3. Answering(c.from) /\ server[c.from].client = a
      BY <2>3, <1>4 DEF Talks
    <3>4. QED
      BY <3>1, <3>2, <3>3, <1>6, CompleteKeeps
  <2>4. CASE ~c.done /\ c.recv = "junk"
    <3>1. d = Receiving(c)
      BY <2>4, <1>2 DEF Handled
    <3>2. PICK r \in {"waiting", "aborted"} : d = [c EXCEPT !.recv = r]
      BY <3>1 DEF Receiving
    <3>3. d.recv = r /\ d.from = c.from /\ SameButRecv(c, d)
      BY <1>4, <3>2 DEF SameButRecv, ClientStates
    <3>4. /\ d \in ClientStates /\ Answered(d) /\ Timed(d)
          /\ d.recv = r /\ d.from = c.from
          /\ d.started = c.started /\ d.remote = c.remote
      BY <3>3, <1>4, RecvSound DEF SameButRecv
    <3>5. QED
      BY <3>4, <1>4 DEF Talks
  <2>5. QED
    BY <2>1, <2>2, <2>3, <2>4, <1>3
<1>8. client[a] # Fresh
  BY <1>1, <1>3 DEF Fresh
<1>9. QED
  BY <1>3, <1>7, <1>8, CallMovesOnly

(* The timer stops, or fires. *)
LEMMA TimerStep ==
  ASSUME HandshakeInv, NEW a \in Connects, TimerExpires(a) \/ TimerIgnored(a)
  PROVE  HandshakeInv'
<1>1. PICK t \in {"fired", "idle"} :
         /\ t = "fired" => client[a].timer = "armed" /\ client[a].timerIn = 0
         /\ t = "idle" => client[a].timer = "aborted" \/ (client[a].timer = "fired" /\ client[a].done)
         /\ client' = [client EXCEPT ![a].timer = t]
         /\ UNCHANGED <<pending, acks, acceptVars>>
  BY DEF TimerExpires, TimerIgnored
<1>2. PICK c : c = [client[a] EXCEPT !.timer = t]
  OBVIOUS
<1>3. /\ client[a] \in ClientStates /\ Answered(client[a]) /\ Timed(client[a])
      /\ Talks(a, client[a]) /\ client \in [Connects -> ClientStates]
  BY AtCall
<1>4. /\ c \in ClientStates /\ c.timer = t /\ c.timerIn = client[a].timerIn
      /\ c.age = client[a].age /\ c.done = client[a].done /\ c.results = client[a].results
      /\ c.started = client[a].started /\ c.recv = client[a].recv /\ c.phase = client[a].phase
      /\ c.from = client[a].from /\ c.remote = client[a].remote
  BY <1>2, <1>3 DEF ClientStates
<1>5. Answered(c) /\ Talks(a, c)
  BY <1>3, <1>4 DEF Answered, Talks
<1>6. Timed(c)
  BY <1>1, <1>3, <1>4 DEF Timed
<1>8. client[a] # Fresh /\ client' = [client EXCEPT ![a] = c]
  BY <1>1, <1>2, <1>3 DEF Fresh
<1>9. acks' \subseteq acks /\ UNCHANGED <<pending, acceptVars>>
  BY <1>1
<1>10. QED
  BY <1>4, <1>5, <1>6, <1>8, <1>9, CallMovesOnly

LEMMA OnDeadlineStep ==
  ASSUME HandshakeInv, NEW a \in Connects, OnDeadline(a)
  PROVE  HandshakeInv'
<1>1. PICK c : c = client[a]
  OBVIOUS
<1>2. PICK d : d = TimedOut(c)
  OBVIOUS
<1>3. /\ c.timer = "fired" /\ ~c.done /\ acks' \subseteq acks
      /\ UNCHANGED <<pending, acceptVars>>
      /\ client' = [client EXCEPT ![a] = d]
  BY <1>1, <1>2, AtCall DEF OnDeadline
<1>4. /\ c \in ClientStates /\ Answered(c) /\ Timed(c) /\ Talks(a, c)
  BY <1>1, AtCall
<1>5. PICK idle : idle = [c EXCEPT !.timer = "idle"]
  OBVIOUS
<1>6. /\ idle \in ClientStates /\ idle.timer = "idle" /\ idle.results = c.results
      /\ idle.done = c.done /\ idle.started = c.started /\ idle.phase = c.phase
      /\ idle.recv = c.recv /\ idle.from = c.from /\ idle.remote = c.remote
  BY <1>4, <1>5 DEF ClientStates
<1>7. Answered(idle) /\ "Timeout" \in Results /\ 0 \in Nat
  BY <1>4, <1>6 DEF Answered, Results
<1>8. PICK e : e = Complete(idle, "Timeout", 0)
  OBVIOUS
<1>9. /\ e \in ClientStates /\ Answered(e) /\ e.done
      /\ e.phase = idle.phase /\ e.recv = idle.recv /\ e.from = idle.from
      /\ e.timer = idle.timer \/ (e.timer = "aborted" /\ idle.timer = "armed")
      /\ e.started => \/ idle.started /\ e.remote = idle.remote
                      \/ "Timeout" = "success" /\ e.remote = 0
  BY <1>6, <1>7, <1>8, CompleteSound
<1>10. d = [e EXCEPT !.recv = Cancelled(@)]
  BY <1>2, <1>5, <1>8 DEF TimedOut
<1>11. SameButRecv(e, d) /\ d.recv = Cancelled(e.recv) /\ d.from = e.from
  BY <1>9, <1>10 DEF SameButRecv, ClientStates, Cancelled
<1>12. d \in ClientStates /\ Answered(d) /\ d.done /\ d.phase = c.phase /\ d.timer = "idle"
  BY <1>6, <1>9, <1>11 DEF SameButRecv, Answered
<1>13. c.phase = "connected"
  BY <1>3, <1>4 DEF Timed
<1>14. Timed(d)
  BY <1>12, <1>13 DEF Timed
<1>16. d.recv = "ack" => c.recv = "ack" /\ d.from = c.from
  BY <1>6, <1>9, <1>11 DEF Cancelled
<1>17. d.started => c.started /\ d.remote = c.remote
  BY <1>6, <1>9, <1>11 DEF SameButRecv
<1>18. Talks(a, d)
  BY <1>4, <1>16, <1>17 DEF Talks
<1>19. client[a] # Fresh
  BY <1>1, <1>3 DEF Fresh
<1>20. QED
  BY <1>3, <1>12, <1>14, <1>18, <1>19, CallMovesOnly

LEMMA OnRetryStep ==
  ASSUME HandshakeInv, NEW a \in Connects, OnRetry(a)
  PROVE  HandshakeInv'
<1>1. PICK c : c = client[a]
  OBVIOUS
<1>2. PICK o \in sendInit(c) : client' = [client EXCEPT ![a] = Rearmed(o.state)]
  BY <1>1 DEF OnRetry
<1>3. /\ c.timer = "fired" /\ ~c.done /\ ~(c.age >= timeout)
      /\ UNCHANGED <<pending, acks, acceptVars>>
  BY <1>1 DEF OnRetry, PastDeadline
<1>4. /\ c \in ClientStates /\ Answered(c) /\ Timed(c) /\ Talks(a, c)
  BY <1>1, AtCall
<1>5. PICK e : e = o.state
  OBVIOUS
<1>6. /\ e \in ClientStates /\ Answered(e) /\ Talks(a, e)
      /\ e.phase = c.phase /\ e.age \in {0, c.age}
  <2>1. CASE o = [state |-> c, sent |-> ~c.closed]
    BY <2>1, <1>4, <1>5
  <2>2. CASE o = [state |-> Complete(c, "BadPacket", 0), sent |-> FALSE]
    <3>1. e = Complete(c, "BadPacket", 0)
      BY <2>2, <1>5
    <3>2. "BadPacket" \in Results /\ "BadPacket" # "success" /\ 0 \in Nat
      BY DEF Results
    <3>3. e \in ClientStates /\ Answered(e) /\ Talks(a, e)
      BY <3>1, <3>2, <1>4, CompleteKeeps
    <3>4. e.phase = c.phase /\ e.age \in {0, c.age}
      BY <3>1, <3>2, <1>4, CompleteSound
    <3>5. QED
      BY <3>1, <3>3, <3>4
  <2>3. QED
    BY <2>1, <2>2 DEF sendInit
<1>7. PICK d : d = Rearmed(e)
  OBVIOUS
<1>8. timeout \in Nat /\ timeout >= 1 /\ retry \in Nat /\ retry >= 1
  BY TimeoutPositive, RetryRange
<1>9. /\ d \in ClientStates /\ d.phase = c.phase /\ d.timer = "armed" /\ d.timerIn = retry
      /\ d.age = e.age /\ d.done = e.done /\ d.results = e.results
      /\ d.started = e.started /\ d.recv = e.recv /\ d.from = e.from /\ d.remote = e.remote
  BY <1>6, <1>7, <1>8 DEF Rearmed, ClientStates
<1>10. Answered(d) /\ Talks(a, d)
  BY <1>6, <1>9 DEF Answered, Talks
<1>11. c.phase = "connected" /\ c.age \in Nat /\ c.age < timeout
  BY <1>3, <1>4, <1>8 DEF Timed, ClientStates
<1>12. d.age + d.timerIn < timeout + retry
  BY <1>6, <1>8, <1>9, <1>11
<1>13. Timed(d)
  BY <1>9, <1>11, <1>12 DEF Timed
<1>16. pending' \in 0 .. MaxConnects /\ pending <= pending' /\ a <= pending'
  <2>1. client[a] # Fresh
    BY <1>1, <1>3 DEF Fresh
  <2>2. QED
    BY <2>1, <1>3, AtCall DEF HandshakeInv, Types
<1>17. client' = [client EXCEPT ![a] = d] /\ acks' \subseteq acks /\ UNCHANGED acceptVars
  BY <1>2, <1>3, <1>5, <1>7
<1>18. QED
  BY <1>9, <1>10, <1>13, <1>16, <1>17, CallMoves

(* A session is closed. *)
LEMMA ClosedCall ==
  ASSUME HandshakeInv, NEW a \in Connects, NEW r, NEW b \in BOOLEAN,
         client' = [client EXCEPT ![a].closed = TRUE, ![a].recv = r, ![a].aborted = b],
         r = Cancelled(client[a].recv) \/ r = client[a].recv,
         client[a].started \/ a = pending,
         UNCHANGED <<pending, acks, acceptVars>>
  PROVE  HandshakeInv'
<1>1. /\ client[a] \in ClientStates /\ Answered(client[a]) /\ Timed(client[a])
      /\ Talks(a, client[a]) /\ client \in [Connects -> ClientStates]
  BY AtCall
<1>2. PICK c : c = [client[a] EXCEPT !.closed = TRUE, !.recv = r, !.aborted = b]
  OBVIOUS
<1>3. r \in {"idle", "waiting", "ack", "junk", "aborted"} /\ (r = "ack" => client[a].recv = "ack")
  BY <1>1 DEF Cancelled, ClientStates
<1>4. SameButRecv(client[a], c) /\ c.recv = r /\ c.from = client[a].from
  BY <1>1, <1>2, <1>3 DEF SameButRecv, ClientStates
<1>5. c \in ClientStates /\ Answered(c) /\ Timed(c)
  BY <1>1, <1>4, RecvSound
<1>6. Talks(a, c)
  BY <1>1, <1>3, <1>4 DEF Talks, SameButRecv
<1>7. client[a] # Fresh \/ a = pending
  BY DEF Fresh
<1>8. client' = [client EXCEPT ![a] = c] /\ acks' \subseteq acks
  BY <1>1, <1>2
<1>9. UNCHANGED <<pending, acceptVars>>
  OBVIOUS
<1>10. QED
  BY <1>5, <1>6, <1>7, <1>8, <1>9, CallMovesOnly

LEMMA CancelStep ==
  ASSUME HandshakeInv, Cancel
  PROVE  HandshakeInv'
<1>1. pending \in Connects
  BY HandshakeAssumption DEF Cancel, HandshakeInv, Types, Connects
<1>2. client \in [Connects -> ClientStates] /\ client[pending] \in ClientStates
  BY <1>1, AtCall
<1>3. PICK b \in BOOLEAN : b = (client[pending].results = <<>>)
  OBVIOUS
<1>4. PICK r : r = Cancelled(client[pending].recv)
  OBVIOUS
<1>5. client' = [client EXCEPT ![pending].closed = TRUE, ![pending].recv = r,
                               ![pending].aborted = b]
  BY <1>1, <1>2, <1>3, <1>4 DEF Cancel, ClientStates
<1>6. UNCHANGED <<pending, acks, acceptVars>>
  BY DEF Cancel
<1>7. QED
  BY <1>1, <1>4, <1>5, <1>6, ClosedCall

LEMMA ClientPeerSilentStep ==
  ASSUME HandshakeInv, NEW a \in Connects, ClientPeerSilent(a)
  PROVE  HandshakeInv'
<1>1. client[a] \in ClientStates /\ client \in [Connects -> ClientStates]
  BY AtCall
<1>2. PICK b \in BOOLEAN : b = client[a].aborted
  BY <1>1 DEF ClientStates
<1>3. PICK r : r = client[a].recv
  OBVIOUS
<1>4. client' = [client EXCEPT ![a].closed = TRUE, ![a].recv = r, ![a].aborted = b]
  BY <1>1, <1>2, <1>3 DEF ClientPeerSilent, ClientStates
<1>5. client[a].started /\ UNCHANGED <<pending, acks, acceptVars>>
  BY DEF ClientPeerSilent, Alive
<1>6. QED
  BY <1>3, <1>4, <1>5, ClosedCall

(* Time passes for every call whose timer is armed. *)
LEMMA TickStep ==
  ASSUME HandshakeInv, Tick
  PROVE  HandshakeInv'
<1>1. /\ pending' = pending /\ acks' = acks
      /\ accept' = accept /\ sender' = sender /\ server' = server
  BY DEF Tick, acceptVars
<1>2. ASSUME NEW a \in Connects
      PROVE  /\ client'[a] \in ClientStates /\ (client[a] = Fresh => client'[a] = Fresh)
             /\ Answered(client'[a]) /\ Timed(client'[a]) /\ Talks(a, client'[a])
  <2>1. PICK c : c = client[a]
    OBVIOUS
  <2>2. PICK d : d = client'[a]
    OBVIOUS
  <2>3. /\ c \in ClientStates /\ Answered(c) /\ Timed(c) /\ Talks(a, c)
    BY <2>1, AtCall
  <2>4. CASE c.timer = "armed"
    <3>1. c.timerIn \in Nat /\ c.timerIn # 0 /\ c.age \in Nat
      BY <2>1, <2>3, <2>4 DEF Tick, HandlerQueued, ClientStates
    <3>2. d = [c EXCEPT !.age = @ + 1, !.timerIn = @ - 1]
      BY <2>1, <2>2, <2>4 DEF Tick
    <3>3. c.age + 1 \in Nat /\ c.timerIn - 1 \in Nat
          /\ (c.age + 1) + (c.timerIn - 1) = c.age + c.timerIn
      BY <3>1
    <3>4. /\ d \in ClientStates /\ d.age = c.age + 1 /\ d.timerIn = c.timerIn - 1
          /\ d.timer = c.timer /\ d.done = c.done /\ d.results = c.results
          /\ d.started = c.started /\ d.recv = c.recv /\ d.phase = c.phase
          /\ d.from = c.from /\ d.remote = c.remote
      BY <2>3, <3>2, <3>3 DEF ClientStates
    <3>5. Answered(d) /\ Talks(a, d)
      BY <2>3, <3>4 DEF Answered, Talks
    <3>6. c.phase = "connected" /\ d.age + d.timerIn = c.age + c.timerIn
      BY <2>3, <2>4, <3>3, <3>4 DEF Timed
    <3>7. Timed(d)
      BY <2>3, <2>4, <3>4, <3>6 DEF Timed
    <3>9. client[a] # Fresh
      BY <2>1, <2>4 DEF Fresh
    <3>10. QED
      BY <2>2, <3>4, <3>5, <3>7, <3>9
  <2>5. CASE c.timer # "armed"
    <3>1. d = c
      BY <2>1, <2>2, <2>5 DEF Tick
    <3>2. QED
      BY <2>1, <2>2, <2>3, <3>1
  <2>6. QED
    BY <2>4, <2>5
<1>3. client' \in [Connects -> ClientStates]
  <2>1. PICK f : f = client' /\ f = [a \in Connects |-> f[a]]
    BY DEF Tick
  <2>2. QED
    BY <1>2, <2>1
<1>4. Types /\ \A s \in acks : Answering(s)
  BY DEF HandshakeInv
<1>5. Types'
  BY <1>1, <1>2, <1>3, <1>4 DEF Types
<1>6. \A s : Answering(s) => Answering(s)'
  BY <1>1 DEF Answering
<1>7. \A s \in acks' : Answering(s)'
  BY <1>1, <1>4, <1>6
<1>8. ASSUME NEW a \in Connects
      PROVE  Answered(client[a])' /\ Timed(client[a])' /\ Talks(a, client[a])'
  <2>2. Talks(a, client[a])'
    BY <1>1, <1>2, <1>6 DEF Talks
  <2>3. QED
    BY <1>2, <2>2 DEF Answered, Timed
<1>9. QED
  BY <1>5, <1>7, <1>8 DEF HandshakeInv

-----------------------------------------------------------------------------
(* The acceptor and the path *)

(* The clients rest, and no session takes its answer back.                 *)
LEMMA AcceptorMoves ==
  ASSUME HandshakeInv, UNCHANGED clientVars, Types',
         \A s : Answering(s) => Answering(s)' /\ server'[s].client = server[s].client,
         \A s \in acks' : Answering(s)'
  PROVE  HandshakeInv'
<1>1. client' = client
  BY DEF clientVars
<1>2. ASSUME NEW a \in Connects
      PROVE  Answered(client[a])' /\ Timed(client[a])' /\ Talks(a, client[a])'
  <2>1. /\ client[a] \in ClientStates /\ Answered(client[a]) /\ Timed(client[a])
        /\ Talks(a, client[a])
    BY AtCall
  <2>6. Talks(a, client[a])'
    BY <1>1, <2>1 DEF Talks
  <2>7. QED
    BY <1>1, <2>1, <2>6 DEF Answered, Timed
<1>3. QED
  BY <1>2 DEF HandshakeInv

(* The asyncAccept moves on, and no INIT is read and no session opened. *)
LEMMA AcceptChanges ==
  ASSUME HandshakeInv, UNCHANGED <<clientVars, acks, sender, server>>,
         \/ accept' = accept
         \/ accept \in {"idle", "waiting", "junk", "aborted"}
            /\ accept' \in {"idle", "waiting", "junk", "aborted"}
  PROVE  HandshakeInv'
<1>1. /\ client' = client /\ pending' = pending /\ acks' = acks
      /\ sender' = sender /\ server' = server
  BY DEF clientVars
<1>2. Types /\ \A s \in acks : Answering(s)
  BY DEF HandshakeInv
<1>3. Types'
  BY <1>1, <1>2 DEF Types
<1>4. \A s : Answering(s) => Answering(s)' /\ server'[s].client = server[s].client
  BY <1>1 DEF Answering
<1>5. \A s \in acks' : Answering(s)'
  BY <1>1, <1>2, <1>4
<1>7. QED
  BY <1>3, <1>4, <1>5, AcceptorMoves

LEMMA AcceptStep ==
  ASSUME HandshakeInv,
         \/ AsyncAccept \/ AcceptFails \/ AcceptJunk
         \/ \E what \in {"junk", "aborted"} : OtherAccepted(what)
         \/ \E stillOpen \in BOOLEAN : StopAccepting(stillOpen)
  PROVE  HandshakeInv'
<1>1. accept \in {"idle", "waiting", "init", "junk", "aborted", "sent", "unsent"}
  BY DEF HandshakeInv, Types
<1>2. UNCHANGED <<clientVars, acks, sender, server>>
  BY DEF AsyncAccept, AcceptFails, AcceptJunk, OtherAccepted, StopAccepting
<1>3. \/ accept' = accept
      \/ accept \in {"idle", "waiting", "junk", "aborted"}
         /\ accept' \in {"idle", "waiting", "junk", "aborted"}
  BY <1>1 DEF AsyncAccept, AcceptFails, AcceptJunk, OtherAccepted, StopAccepting, Listen, Cancelled
<1>4. QED
  BY <1>2, <1>3, AcceptChanges

(* Datagrams are lost. *)
LEMMA LoseStep ==
  ASSUME HandshakeInv, (\E a \in Connects : LoseInit(a)) \/ (\E s \in acks : LoseAck(s))
  PROVE  HandshakeInv'
<1>1. UNCHANGED <<clientVars, acceptVars>> /\ acks' \subseteq acks
  BY DEF LoseInit, LoseAck
<1>2. client' = client /\ pending' = pending /\ accept' = accept /\ sender' = sender /\ server' = server
  BY <1>1 DEF clientVars, acceptVars
<1>3. Types /\ \A s \in acks : Answering(s)
  BY DEF HandshakeInv
<1>5. Types'
  BY <1>2, <1>3 DEF Types
<1>6. \A s : Answering(s) => Answering(s)' /\ server'[s].client = server[s].client
  BY <1>2 DEF Answering
<1>7. \A s \in acks' : Answering(s)'
  BY <1>1, <1>3, <1>6
<1>9. UNCHANGED clientVars
  BY <1>1
<1>10. QED
  BY <1>5, <1>6, <1>7, <1>9, AcceptorMoves

(* An INIT is read by the acceptor. *)
LEMMA InitArrivesStep ==
  ASSUME HandshakeInv, NEW a \in Connects, InitArrives(a)
  PROVE  HandshakeInv'
<1>1. /\ accept = "waiting"
      /\ accept' = "init" /\ sender' = a /\ acks' = acks /\ server' = server
      /\ UNCHANGED clientVars
  BY DEF InitArrives
<1>2. client' = client /\ pending' = pending
  BY <1>1 DEF clientVars
<1>3. Types /\ \A s \in acks : Answering(s)
  BY DEF HandshakeInv
<1>5. Types'
  BY <1>1, <1>2, <1>3 DEF Types
<1>6. \A s : Answering(s) => Answering(s)' /\ server'[s].client = server[s].client
  BY <1>1 DEF Answering
<1>7. \A s \in acks' : Answering(s)'
  BY <1>1, <1>3, <1>6
<1>9. QED
  BY <1>1, <1>5, <1>6, <1>7, AcceptorMoves

(* A session changes its state, and not from created to dropped unless its *)
(* ACK was not sent.                                                       *)
LEMMA SessionChanges ==
  ASSUME HandshakeInv, NEW s \in DOMAIN server,
         NEW st \in {"started", "dropped", "closed"},
         server' = [server EXCEPT ![s].state = st],
         UNCHANGED <<clientVars, acks, sender>>,
         accept' = accept \/ (accept \in {"sent", "unsent"} /\ accept' = "idle"),
         accept = "unsent" /\ accept' = "idle" => s = Len(server),
         st = "dropped" => accept = "unsent" /\ s = Len(server)
  PROVE  HandshakeInv'
<1>1. client' = client /\ pending' = pending /\ acks' = acks /\ sender' = sender
  BY DEF clientVars
<1>2. Types /\ \A t \in acks : Answering(t)
  BY DEF HandshakeInv
<1>3. server \in Seq(ServerSessions)
  BY <1>2 DEF Types, ServerSessions
<1>4. /\ server' \in Seq(ServerSessions) /\ Len(server') = Len(server)
      /\ DOMAIN server' = DOMAIN server
      /\ \A t \in DOMAIN server : /\ server'[t].client = server[t].client
                                  /\ server'[t].state = IF t = s THEN st ELSE server[t].state
  <2>1. DOMAIN server = 1 .. Len(server) /\ \A t \in DOMAIN server : server[t] \in ServerSessions
    BY <1>3
  <2>2. [server[s] EXCEPT !.state = st] \in ServerSessions
    BY <2>1 DEF ServerSessions
  <2>3. server' = [server EXCEPT ![s] = [server[s] EXCEPT !.state = st]]
    BY <1>3
  <2>4. server' \in Seq(ServerSessions) /\ Len(server') = Len(server)
    BY <1>3, <2>2, <2>3
  <2>5. DOMAIN server' = DOMAIN server
    BY <2>3
  <2>6. \A t \in DOMAIN server : server'[t] = IF t = s THEN [server[s] EXCEPT !.state = st] ELSE server[t]
    BY <2>3
  <2>7. QED
    BY <2>1, <2>4, <2>5, <2>6 DEF ServerSessions
<1>5. Types'
  <2>1. server # <<>> => server' # <<>>
    BY <1>3, <1>4
  <2>2. QED
    BY <1>1, <1>2, <1>4, <2>1 DEF Types, ServerSessions
<1>6. \A t : Answering(t) => Answering(t)' /\ server'[t].client = server[t].client
  BY <1>4 DEF Answering
<1>7. \A t \in acks' : Answering(t)'
  BY <1>1, <1>2, <1>6
<1>9. UNCHANGED clientVars
  OBVIOUS
<1>10. QED
  BY <1>5, <1>6, <1>7, <1>9, AcceptorMoves

LEMMA OnAckSentStep ==
  ASSUME HandshakeInv, OnAckSent
  PROVE  HandshakeInv'
<1>1. PICK st \in {"started", "dropped", "closed"} :
         /\ st = IF accept = "sent" THEN "started" ELSE "dropped"
         /\ server' = [server EXCEPT ![Len(server)].state = st]
  BY DEF OnAckSent
<1>2. accept \in {"sent", "unsent"} /\ accept' = "idle" /\ UNCHANGED <<clientVars, acks, sender>>
  BY DEF OnAckSent
<1>3. Len(server) \in DOMAIN server
  BY <1>2 DEF HandshakeInv, Types
<1>4. st = "dropped" => accept = "unsent"
  BY <1>1, <1>2
<1>5. QED
  BY <1>1, <1>2, <1>3, <1>4, SessionChanges

LEMMA ServerCloseStep ==
  ASSUME HandshakeInv, NEW s, ServerPeerSilent(s) \/ ServerCancel(s)
  PROVE  HandshakeInv'
<1>1. /\ s \in DOMAIN server /\ server' = [server EXCEPT ![s].state = "closed"]
      /\ accept' = accept /\ UNCHANGED <<clientVars, acks, sender>>
  BY DEF ServerPeerSilent, ServerCancel, Serving
<1>2. accept \in {"idle", "waiting", "init", "junk", "aborted", "sent", "unsent"}
  BY DEF HandshakeInv, Types
<1>3. ~(accept = "unsent" /\ accept' = "idle")
  BY <1>1, <1>2
<1>4. QED
  BY <1>1, <1>3, SessionChanges

LEMMA OpenSessionStep ==
  ASSUME HandshakeInv, OpenSession
  PROVE  HandshakeInv'
<1>1. accept = "init" /\ UNCHANGED <<clientVars, sender>>
  BY DEF OpenSession
<1>2. client' = client /\ pending' = pending /\ sender' = sender
  BY <1>1 DEF clientVars
<1>3. Types /\ \A s \in acks : Answering(s)
  BY DEF HandshakeInv
<1>4. sender \in Connects /\ server \in Seq(ServerSessions) /\ Len(server) \in Nat
      /\ DOMAIN server = 1 .. Len(server)
  BY <1>1, <1>3 DEF Types, ServerSessions
<1>5. ASSUME server' = server, acks' = acks, accept' = "idle"
      PROVE  HandshakeInv'
  <2>1. Types'
    BY <1>2, <1>3, <1>5 DEF Types
  <2>2. \A s : Answering(s) => Answering(s)' /\ server'[s].client = server[s].client
    BY <1>5 DEF Answering
  <2>3. \A s \in acks' : Answering(s)'
    BY <1>3, <1>5, <2>2
  <2>5. QED
    BY <1>1, <2>1, <2>2, <2>3, AcceptorMoves
<1>6. ASSUME server' = Append(server, [client |-> sender, state |-> "created"]),
             \/ accept' = "sent" /\ acks' = acks \cup {Len(server) + 1}
             \/ accept' = "unsent" /\ acks' = acks
      PROVE  HandshakeInv'
  <2>0. PICK new : new = Len(server) + 1
    OBVIOUS
  <2>1. [client |-> sender, state |-> "created"] \in ServerSessions
    BY <1>4 DEF ServerSessions
  <2>2. /\ server' \in Seq(ServerSessions) /\ Len(server') = new
        /\ DOMAIN server' = DOMAIN server \cup {new} /\ new \notin DOMAIN server
        /\ \A s \in DOMAIN server : server'[s] = server[s]
        /\ server'[new] = [client |-> sender, state |-> "created"]
    <3>1. server' \in Seq(ServerSessions) /\ Len(server') = new
      BY <1>4, <1>6, <2>0, <2>1
    <3>2. DOMAIN server' = 1 .. new
      BY <3>1
    <3>3. DOMAIN server' = DOMAIN server \cup {new} /\ new \notin DOMAIN server
      BY <1>4, <2>0, <3>2
    <3>4. \A s \in DOMAIN server : server'[s] = server[s]
      BY <1>4, <1>6, <2>1
    <3>5. server'[new] = [client |-> sender, state |-> "created"]
      BY <1>4, <1>6, <2>0, <2>1
    <3>6. QED
      BY <3>1, <3>3, <3>4, <3>5
  <2>3. Types'
    <3>1. server' # <<>>
      BY <1>4, <2>0, <2>2
    <3>2. accept' \in {"sent", "unsent"}
      BY <1>6
    <3>3. QED
      BY <1>2, <1>3, <2>2, <3>1, <3>2 DEF Types, ServerSessions
  <2>4. \A s : Answering(s) => Answering(s)' /\ server'[s].client = server[s].client
    BY <2>2 DEF Answering
  <2>5. \A s \in acks' : Answering(s)'
    <3>1. accept' = "sent" => Answering(new)'
      BY <2>2 DEF Answering
    <3>2. QED
      BY <1>3, <1>6, <2>0, <2>4, <3>1
  <2>7. QED
    BY <1>1, <2>3, <2>4, <2>5, AcceptorMoves
<1>7. QED
  BY <1>5, <1>6 DEF OpenSession

(* A keepalive, or a datagram of an open session *)
LEMMA KeepaliveStep ==
  ASSUME HandshakeInv,
         \/ \E a \in Connects : ClientKeepalive(a)
         \/ \E s : ServerKeepalive(s) \/ ClientHears(s) \/ ServerHears(s)
  PROVE  HandshakeInv'
<1>1. UNCHANGED <<clientVars, acks, acceptVars>>
  BY DEF ClientKeepalive, ServerKeepalive, ClientHears, ServerHears
<1>2. UNCHANGED <<clientVars, acks, sender, server>> /\ accept' = accept
  BY <1>1 DEF acceptVars
<1>3. QED
  BY <1>2, AcceptChanges

-----------------------------------------------------------------------------
(* The invariant *)

LEMMA HandshakeInit == Init => HandshakeInv
<1> SUFFICES ASSUME Init PROVE HandshakeInv
  OBVIOUS
<1>1. <<>> \in Seq(Results) /\ 0 \in Nat /\ Len(<<>>) = 0
  OBVIOUS
<1>2. Fresh \in ClientStates
  BY <1>1 DEF Fresh, ClientStates
<1>3. \A a \in Connects : client[a] = Fresh
  BY DEF Init
<1>4. Types
  <2>1. client \in [Connects -> ClientStates]
    BY <1>2 DEF Init
  <2>2. server = <<>> /\ accept = "idle" /\ pending = 0
    BY DEF Init
  <2>3. QED
    BY <1>3, <2>1, <2>2, HandshakeAssumption DEF Types
<1>5. ASSUME NEW a \in Connects
      PROVE  /\ Answered(client[a]) /\ Timed(client[a]) /\ Talks(a, client[a])

  <2>1. Answered(Fresh)
    BY <1>1 DEF Answered, Fresh
  <2>2. Timed(Fresh)
    BY DEF Timed, Fresh
  <2>3. Talks(a, Fresh)
    BY DEF Talks, Fresh
  <2>7. QED
    BY <1>3, <2>1, <2>2, <2>3
<1>6. acks = {}
  BY DEF Init
<1>7. QED
  BY <1>4, <1>5, <1>6 DEF HandshakeInv

LEMMA HandshakeNext == HandshakeInv /\ [Next]_vars => HandshakeInv'
<1> SUFFICES ASSUME HandshakeInv, [Next]_vars PROVE HandshakeInv'
  OBVIOUS
<1>1. ASSUME NEW a \in Connects, ClientStep(a) PROVE HandshakeInv'
  <2>1. CASE AsyncConnect(a)
    BY <2>1, AsyncConnectStep
  <2>2. CASE ScheduleRetry(a)
    BY <2>2, ScheduleRetryStep
  <2>3. CASE \E s \in acks : AckArrives(a, s)
    BY <2>3, AckArrivesStep
  <2>4. CASE \E what \in {"junk", "aborted"} : OtherArrives(a, what)
    BY <2>4, OtherArrivesStep
  <2>5. CASE OnReceive(a)
    BY <2>5, OnReceiveStep
  <2>6. CASE TimerExpires(a) \/ TimerIgnored(a)
    BY <2>6, TimerStep
  <2>7. CASE OnDeadline(a)
    BY <2>7, OnDeadlineStep
  <2>8. CASE OnRetry(a)
    BY <2>8, OnRetryStep
  <2>9. CASE ClientPeerSilent(a)
    BY <2>9, ClientPeerSilentStep
  <2>13. CASE ClientKeepalive(a)
    BY <2>13, KeepaliveStep
  <2>10. CASE InitArrives(a)
    BY <2>10, InitArrivesStep
  <2>11. CASE LoseInit(a)
    BY <2>11, LoseStep
  <2>12. QED
    BY <1>1, <2>1, <2>2, <2>3, <2>4, <2>5, <2>6, <2>7, <2>8, <2>9, <2>10, <2>11, <2>13 DEF ClientStep
<1>2. CASE Cancel
  BY <1>2, CancelStep
<1>3. CASE Tick
  BY <1>3, TickStep
<1>4. CASE \/ AsyncAccept \/ AcceptFails \/ AcceptJunk
           \/ \E what \in {"junk", "aborted"} : OtherAccepted(what)
           \/ \E stillOpen \in BOOLEAN : StopAccepting(stillOpen)
  BY <1>4, AcceptStep
<1>5. CASE OpenSession
  BY <1>5, OpenSessionStep
<1>6. CASE OnAckSent
  BY <1>6, OnAckSentStep
<1>7. CASE \E s \in acks : LoseAck(s)
  BY <1>7, LoseStep
<1>8. ASSUME NEW s \in DOMAIN server, ServerStep(s) PROVE HandshakeInv'
  BY <1>8, ServerCloseStep, KeepaliveStep DEF ServerStep
<1>9. CASE UNCHANGED vars
  <2>1. /\ client' = client /\ pending' = pending /\ acks' = acks
        /\ accept' = accept /\ sender' = sender /\ server' = server
    BY <1>9 DEF vars, clientVars, acceptVars
  <2>2. UNCHANGED <<clientVars, acks, sender, server>>
    BY <2>1 DEF clientVars
  <2>3. QED
    BY <2>1, <2>2, AcceptChanges
<1>10. QED
  BY <1>1, <1>2, <1>3, <1>4, <1>5, <1>6, <1>7, <1>8, <1>9 DEF Next

(* The invariant holds: the timer of a call runs until it is answered, and *)
(* what it adopts has answered it.                                         *)
THEOREM HandshakeInvariant == Spec => []HandshakeInv
  BY HandshakeInit, HandshakeNext, PTL DEF Spec

(* A call of asyncConnect has at most one answer, and only a success       *)
(* starts its session: the done flag of Handshake.hpp keeps the receive,   *)
(* the timer and a failing encode from answering twice.                    *)
THEOREM CompletesOnceCorrect == Spec => []CompletesOnce
<1>1. ASSUME HandshakeInv PROVE CompletesOnce
  <2>1. ASSUME NEW a \in Connects
        PROVE  Len(client[a].results) <= 1 /\ (client[a].started => client[a].results = <<"success">>)
    BY <1>1, AtCall DEF Answered
  <2>2. QED
    BY <2>1 DEF CompletesOnce
<1>2. QED
  BY <1>1, HandshakeInvariant, PTL

(* A call that has no answer yet is younger than the timeout and one       *)
(* interval, for every configured timeout.                                 *)
THEOREM EndsByDeadlineCorrect == Spec => []EndsByDeadline
<1>1. ASSUME HandshakeInv PROVE EndsByDeadline
  <2>1. ASSUME NEW a \in Connects, client[a].results = <<>>
        PROVE  \/ client[a].age < timeout + MinRetry
               \/ client[a].age < timeout + timeout \div 5
    <3>1. PICK c : c = client[a]
      OBVIOUS
    <3>2. c \in ClientStates /\ Answered(c) /\ Timed(c)
      BY <1>1, <3>1, AtCall
    <3>3. ~c.done
      BY <2>1, <3>1, <3>2 DEF Answered
    <3>4. c.age \in Nat /\ c.timerIn \in Nat
      BY <3>2 DEF ClientStates
    <3>5. c.age = 0 \/ c.age + c.timerIn < timeout + retry
      BY <3>2, <3>3 DEF Timed
    <3>6. c.age < timeout + retry
      BY <3>4, <3>5, TimeoutPositive, RetryRange
    <3>7. QED
      BY <3>1, <3>4, <3>6, TimeoutPositive, RetryRange, HandshakeAssumption
  <2>2. QED
    BY <2>1 DEF EndsByDeadline
<1>2. QED
  BY <1>1, HandshakeInvariant, PTL

(* A started client has adopted a session that was opened for its own INIT *)
(* and whose ACK was sent, whatever was lost, duplicated by retries or     *)
(* reordered.                                                              *)
THEOREM PeersAgreeCorrect == Spec => []PeersAgree
<1>1. ASSUME HandshakeInv PROVE PeersAgree
  <2>1. ASSUME NEW a \in Connects, client[a].started
        PROVE  /\ client[a].remote \in DOMAIN server
               /\ server[client[a].remote].client = a
               /\ server[client[a].remote].state # "dropped"
    BY <1>1, <2>1, AtCall DEF Talks, Answering
  <2>2. QED
    BY <2>1 DEF PeersAgree
<1>2. QED
  BY <1>1, HandshakeInvariant, PTL

-----------------------------------------------------------------------------
(* The sessions after the handshake *)

Watches == [keepaliveIn : Nat, silence : Nat, alone : Nat]

(* The timer of a session fires before the silence can outgrow the bound,  *)
(* and a session whose peer is gone hears nothing.                         *)
Watched(w, gone) ==
  /\ w.silence + w.keepaliveIn <= timeoutMs + keepaliveMs
  /\ w.alone <= w.silence
  /\ w.alone > 0 => gone

(* The sessions fit their bound, and one whose ACK is being sent has not   *)
(* started.                                                                *)
Opening ==
  /\ Len(server) <= MaxSessions
  /\ accept = "init" => Len(server) < MaxSessions
  /\ accept \in {"sent", "unsent"} => server[Len(server)].state = "created"

ClientsWatched ==
  /\ clientWatch \in [Connects -> Watches]
  /\ \A a \in Connects : IF Alive(a) THEN Watched(clientWatch[a], Abandoned(a))
                                     ELSE clientWatch[a] = NewWatch

ServersWatched ==
  /\ serverWatch \in [1 .. MaxSessions -> Watches]
  /\ \A s \in 1 .. MaxSessions : IF Serving(s) THEN Watched(serverWatch[s], Orphan(s))
                                               ELSE serverWatch[s] = NewWatch

WatchInv == Opening /\ ClientsWatched /\ ServersWatched

LEMMA NewWatchSound == NewWatch \in Watches /\ \A gone : Watched(NewWatch, gone)
  BY HandshakeAssumption DEF NewWatch, Watches, Watched

(* What the peer of a session may do without disturbing it: nothing that   *)
(* is gone comes back.                                                     *)
LEMMA WatchesKept ==
  ASSUME HandshakeInv, WatchInv, Opening', UNCHANGED watchVars,
         \A a \in Connects : Alive(a) => Alive(a)' /\ (Abandoned(a) => Abandoned(a)'),
         \A s \in 1 .. MaxSessions : Serving(s) => Serving(s)' /\ (Orphan(s) => Orphan(s)')
  PROVE  WatchInv'
<1>1. clientWatch' = clientWatch /\ serverWatch' = serverWatch
  BY DEF watchVars
<1>2. ASSUME NEW a \in Connects
      PROVE  IF Alive(a)' THEN Watched(clientWatch[a], Abandoned(a)') ELSE clientWatch[a] = NewWatch
  <2>1. CASE Alive(a)
    BY <2>1 DEF WatchInv, ClientsWatched, Watched
  <2>2. CASE ~Alive(a)
    BY <2>2, NewWatchSound DEF WatchInv, ClientsWatched
  <2>3. QED
    BY <2>1, <2>2
<1>3. ASSUME NEW s \in 1 .. MaxSessions
      PROVE  IF Serving(s)' THEN Watched(serverWatch[s], Orphan(s)') ELSE serverWatch[s] = NewWatch
  <2>1. CASE Serving(s)
    BY <2>1 DEF WatchInv, ServersWatched, Watched
  <2>2. CASE ~Serving(s)
    BY <2>2, NewWatchSound DEF WatchInv, ServersWatched
  <2>3. QED
    BY <2>1, <2>2
<1>4. ClientsWatched'
  BY <1>1, <1>2 DEF WatchInv, ClientsWatched, Watched
<1>5. ServersWatched'
  BY <1>1, <1>3 DEF WatchInv, ServersWatched, Watched
<1>6. QED
  BY <1>4, <1>5 DEF WatchInv

LEMMA AtSession ==
  ASSUME HandshakeInv, NEW s \in DOMAIN server
  PROVE  server[s] \in ServerSessions /\ server[s].client \in Connects
<1>1. server \in Seq(ServerSessions)
  BY DEF HandshakeInv, Types
<1>2. server[s] \in ServerSessions
  BY <1>1
<1>3. QED
  BY <1>2 DEF ServerSessions

(* A step of a call that leaves open or closed alone, and what an answer   *)
(* has settled                                                             *)
Settled(c, d) ==
  /\ d.closed = c.closed
  /\ c.results # <<>> => d.results # <<>> /\ d.started = c.started /\ d.remote = c.remote

LEMMA CallKeepsWatches ==
  ASSUME HandshakeInv, WatchInv, NEW a \in Connects, NEW d,
         client' = [client EXCEPT ![a] = d], Settled(client[a], d),
         UNCHANGED <<acceptVars, watchVars>>
  PROVE  WatchInv'
<1>1. /\ client \in [Connects -> ClientStates] /\ Answered(client[a])
      /\ accept' = accept /\ server' = server /\ UNCHANGED watchVars
  BY AtCall DEF acceptVars
<1>2. client'[a] = d /\ \A b \in Connects : b # a => client'[b] = client[b]
  BY <1>1
<1>3. client[a].results = <<>> => ~client[a].started
  BY <1>1 DEF Answered
<1>4. Opening'
  BY <1>1 DEF WatchInv, Opening
<1>5. ASSUME NEW b \in Connects, Alive(b)
      PROVE  Alive(b)' /\ (Abandoned(b) => Abandoned(b)')
  BY <1>1, <1>2, <1>3, <1>5 DEF Alive, Abandoned, Settled
<1>6. ASSUME NEW s \in 1 .. MaxSessions, Serving(s)
      PROVE  Serving(s)' /\ (Orphan(s) => Orphan(s)')
  <2>1. Serving(s)' /\ server[s].client \in Connects /\ server[s].client' = server[s].client
    BY <1>1, <1>6, AtSession DEF Serving
  <2>2. CASE server[s].client = a
    BY <1>1, <1>2, <2>1, <2>2 DEF Orphan, Adopted, Alive, Settled
  <2>3. CASE server[s].client # a
    BY <1>1, <1>2, <2>1, <2>3 DEF Orphan, Adopted, Alive
  <2>4. QED
    BY <2>1, <2>2, <2>3
<1>7. QED
  BY <1>1, <1>4, <1>5, <1>6, WatchesKept

LEMMA CompleteSettled ==
  ASSUME NEW c \in ClientStates, Answered(c), NEW r, NEW adopted
  PROVE  Settled(c, Complete(c, r, adopted))
<1>1. CASE c.done
  BY <1>1 DEF Complete, Settled
<1>2. CASE ~c.done
  <2>1. c.results = <<>>
    BY <1>2 DEF ClientStates, Answered
  <2>2. Complete(c, r, adopted).closed = c.closed
    BY <1>2 DEF Complete, ClientStates
  <2>3. QED
    BY <2>1, <2>2 DEF Settled
<1>3. QED
  BY <1>1, <1>2 DEF ClientStates

(* Changes of the phase, the receive and the timer settle nothing. *)
SameOutcome(c, d) ==
  /\ d.closed = c.closed /\ d.results = c.results /\ d.started = c.started
  /\ d.remote = c.remote

LEMMA SettledThrough ==
  ASSUME NEW c, NEW d, NEW e, NEW f, SameOutcome(c, d), Settled(d, e), SameOutcome(e, f)
  PROVE  Settled(c, f)
  BY DEF SameOutcome, Settled

(* The steps of a call *)
LEMMA CallStepWatched ==
  ASSUME HandshakeInv, WatchInv, NEW a \in Connects,
         \/ AsyncConnect(a) \/ ScheduleRetry(a)
         \/ \E s \in acks : AckArrives(a, s)
         \/ \E what \in {"junk", "aborted"} : OtherArrives(a, what)
         \/ OnReceive(a) \/ TimerExpires(a) \/ TimerIgnored(a)
         \/ OnDeadline(a) \/ OnRetry(a)
  PROVE  WatchInv'
<1>1. PICK c : c = client[a]
  OBVIOUS
<1>2. c \in ClientStates /\ Answered(c) /\ client \in [Connects -> ClientStates]
  BY <1>1, AtCall
<1>3. UNCHANGED <<acceptVars, watchVars>>
  BY DEF AsyncConnect, ScheduleRetry, AckArrives, OtherArrives, OnReceive, TimerExpires,
         TimerIgnored, OnDeadline, OnRetry
<1>4. ASSUME NEW d, client' = [client EXCEPT ![a] = d], SameOutcome(c, d)
      PROVE  WatchInv'
  <2>1. Settled(client[a], d)
    BY <1>1, <1>4 DEF SameOutcome, Settled
  <2>2. QED
    BY <1>3, <1>4, <2>1, CallKeepsWatches
<1>5. ASSUME NEW d, client' = [client EXCEPT ![a] = d], Settled(c, d)
      PROVE  WatchInv'
  BY <1>1, <1>3, <1>5, CallKeepsWatches
<1>6. CASE AsyncConnect(a)
  <2>1. PICK d : d = [c EXCEPT !.phase = "connecting"]
    OBVIOUS
  <2>2. d \in ClientStates /\ Answered(d) /\ SameOutcome(c, d)
    BY <1>2, <2>1 DEF ClientStates, Answered, SameOutcome
  <2>3. PICK o \in sendInit(d) : client' = [client EXCEPT ![a] = Receiving(o.state)]
    BY <1>1, <1>6, <2>1 DEF AsyncConnect
  <2>4. o.state = d \/ o.state = Complete(d, "BadPacket", 0)
    BY <2>3 DEF sendInit
  <2>5. Settled(d, o.state) /\ o.state \in ClientStates
    <3>1. "BadPacket" \in Results /\ 0 \in Nat
      BY DEF Results
    <3>2. Settled(d, Complete(d, "BadPacket", 0)) /\ Complete(d, "BadPacket", 0) \in ClientStates
      BY <2>2, <3>1, CompleteSettled, CompleteSound
    <3>3. Settled(d, d)
      BY DEF Settled
    <3>4. QED
      BY <2>2, <2>4, <3>2, <3>3
  <2>6. SameOutcome(o.state, Receiving(o.state))
    BY <2>5 DEF SameOutcome, Receiving, ClientStates
  <2>7. Settled(c, Receiving(o.state))
    BY <2>2, <2>5, <2>6, SettledThrough
  <2>8. QED
    BY <2>3, <2>7, <1>5
<1>7. CASE ScheduleRetry(a)
  <2>1. PICK d : d = [Rearmed(c) EXCEPT !.phase = "connected"]
    OBVIOUS
  <2>2. SameOutcome(c, d) /\ client' = [client EXCEPT ![a] = d]
    BY <1>1, <1>2, <1>7, <2>1 DEF ScheduleRetry, Rearmed, SameOutcome, ClientStates
  <2>3. QED
    BY <2>2, <1>4
<1>8. CASE (\E s \in acks : AckArrives(a, s)) \/ \E what \in {"junk", "aborted"} : OtherArrives(a, what)
  <2>1. PICK r, n : client' = [client EXCEPT ![a].recv = r, ![a].from = n]
    BY <1>8 DEF AckArrives, OtherArrives
  <2>2. PICK d : d = [c EXCEPT !.recv = r, !.from = n]
    OBVIOUS
  <2>3. SameOutcome(c, d) /\ client' = [client EXCEPT ![a] = d]
    BY <1>1, <1>2, <2>1, <2>2 DEF SameOutcome, ClientStates
  <2>4. QED
    BY <2>3, <1>4
<1>9. CASE TimerExpires(a) \/ TimerIgnored(a)
  <2>1. PICK t : client' = [client EXCEPT ![a].timer = t]
    BY <1>9 DEF TimerExpires, TimerIgnored
  <2>2. PICK d : d = [c EXCEPT !.timer = t]
    OBVIOUS
  <2>3. SameOutcome(c, d) /\ client' = [client EXCEPT ![a] = d]
    BY <1>1, <1>2, <2>1, <2>2 DEF SameOutcome, ClientStates
  <2>4. QED
    BY <2>3, <1>4
<1>10. CASE OnReceive(a)
  <2>1. PICK idle : idle = [c EXCEPT !.recv = "idle"]
    OBVIOUS
  <2>2. idle \in ClientStates /\ Answered(idle) /\ SameOutcome(c, idle)
    BY <1>2, <2>1 DEF ClientStates, Answered, SameOutcome
  <2>3. \/ Handled(c) = idle \/ Handled(c) = Receiving(c)
        \/ Handled(c) = Complete(idle, "error", 0) \/ Handled(c) = Complete(idle, "success", c.from)
    BY <1>1, <1>10, <2>1 DEF OnReceive, Handled
  <2>4. Settled(c, idle) /\ Settled(c, Receiving(c))
    BY <1>2, <2>2 DEF Settled, SameOutcome, Receiving, ClientStates
  <2>5. Settled(c, Complete(idle, "error", 0)) /\ Settled(c, Complete(idle, "success", c.from))
    <3>1. Settled(idle, Complete(idle, "error", 0)) /\ Settled(idle, Complete(idle, "success", c.from))
      BY <2>2, CompleteSettled
    <3>2. QED
      BY <2>2, <3>1 DEF Settled, SameOutcome
  <2>6. client' = [client EXCEPT ![a] = Handled(c)]
    BY <1>1, <1>10 DEF OnReceive
  <2>7. QED
    BY <2>3, <2>4, <2>5, <2>6, <1>5
<1>11. CASE OnDeadline(a)
  <2>1. PICK d : d = [c EXCEPT !.timer = "idle"]
    OBVIOUS
  <2>2. d \in ClientStates /\ Answered(d) /\ SameOutcome(c, d)
    BY <1>2, <2>1 DEF ClientStates, Answered, SameOutcome
  <2>3. PICK e : e = Complete(d, "Timeout", 0)
    OBVIOUS
  <2>4. Settled(d, e) /\ e \in ClientStates
    <3>1. "Timeout" \in Results /\ 0 \in Nat
      BY DEF Results
    <3>2. QED
      BY <2>2, <2>3, <3>1, CompleteSettled, CompleteSound
  <2>5. PICK f : f = [e EXCEPT !.recv = Cancelled(@)]
    OBVIOUS
  <2>6. SameOutcome(e, f)
    BY <2>4, <2>5 DEF SameOutcome, ClientStates
  <2>7. Settled(c, f)
    BY <2>2, <2>4, <2>6, SettledThrough
  <2>8. client' = [client EXCEPT ![a] = f]
    BY <1>1, <1>11, <2>1, <2>3, <2>5 DEF OnDeadline, TimedOut
  <2>9. QED
    BY <2>7, <2>8, <1>5
<1>12. CASE OnRetry(a)
  <2>1. PICK o \in sendInit(c) : client' = [client EXCEPT ![a] = Rearmed(o.state)]
    BY <1>1, <1>12 DEF OnRetry
  <2>2. o.state = c \/ o.state = Complete(c, "BadPacket", 0)
    BY <2>1 DEF sendInit
  <2>3. Settled(c, o.state) /\ o.state \in ClientStates
    <3>1. "BadPacket" \in Results /\ 0 \in Nat
      BY DEF Results
    <3>2. Settled(c, Complete(c, "BadPacket", 0)) /\ Complete(c, "BadPacket", 0) \in ClientStates
      BY <1>2, <3>1, CompleteSettled, CompleteSound
    <3>3. Settled(c, c)
      BY DEF Settled
    <3>4. QED
      BY <1>2, <2>2, <3>2, <3>3
  <2>4. SameOutcome(o.state, Rearmed(o.state)) /\ SameOutcome(c, c)
    BY <2>3 DEF SameOutcome, Rearmed, ClientStates
  <2>5. Settled(c, Rearmed(o.state))
    BY <2>3, <2>4, SettledThrough
  <2>6. QED
    BY <2>1, <2>5, <1>5
<1>13. QED
  BY <1>6, <1>7, <1>8, <1>9, <1>10, <1>11, <1>12

(* The steps of the acceptor: no session is reopened, and a session that   *)
(* starts has not been watched before.                                     *)
LEMMA AcceptWatched ==
  ASSUME HandshakeInv, WatchInv, Opening', UNCHANGED <<client, watchVars>>,
         \A s \in DOMAIN server : /\ s \in DOMAIN server'
                                  /\ server'[s].client = server[s].client
                                  /\ server[s].state # "created" => server'[s] = server[s]
  PROVE  WatchInv'
<1>1. client' = client /\ UNCHANGED watchVars
  OBVIOUS
<1>2. ASSUME NEW a \in Connects, Alive(a)
      PROVE  Alive(a)' /\ (Abandoned(a) => Abandoned(a)')
  <2>1. client[a].remote \in DOMAIN server
    BY <1>2, AtCall DEF Alive, Talks, Answering
  <2>2. QED
    BY <1>1, <1>2, <2>1 DEF Alive, Abandoned
<1>3. ASSUME NEW s \in 1 .. MaxSessions, Serving(s)
      PROVE  Serving(s)' /\ (Orphan(s) => Orphan(s)')
  BY <1>1, <1>3 DEF Serving, Orphan, Adopted, Alive
<1>4. QED
  BY <1>1, <1>2, <1>3, WatchesKept

LEMMA AcceptStepWatched ==
  ASSUME HandshakeInv, WatchInv,
         \/ AsyncAccept \/ AcceptFails \/ AcceptJunk
         \/ \E what \in {"junk", "aborted"} : OtherAccepted(what)
         \/ \E stillOpen \in BOOLEAN : StopAccepting(stillOpen)
         \/ \E a \in Connects : InitArrives(a) \/ LoseInit(a)
         \/ \E s \in acks : LoseAck(s)
  PROVE  WatchInv'
<1>1. client' = client /\ server' = server /\ UNCHANGED watchVars
  BY DEF AsyncAccept, AcceptFails, AcceptJunk, OtherAccepted, StopAccepting, InitArrives,
         LoseInit, LoseAck, clientVars, acceptVars
<1>2. Opening'
  <2>1. \/ accept' = accept \/ accept' \in {"idle", "waiting", "junk", "aborted"}
        \/ accept' = "init" /\ Len(server) < MaxSessions
    BY DEF AsyncAccept, AcceptFails, AcceptJunk, OtherAccepted, StopAccepting, InitArrives,
           LoseInit, LoseAck, Listen, Cancelled, acceptVars
  <2>2. QED
    BY <1>1, <2>1 DEF WatchInv, Opening
<1>3. QED
  BY <1>1, <1>2, AcceptWatched

LEMMA OpenSessionWatched ==
  ASSUME HandshakeInv, WatchInv, OpenSession
  PROVE  WatchInv'
<1>1. accept = "init" /\ client' = client /\ UNCHANGED watchVars
  BY DEF OpenSession, clientVars
<1>2. server \in Seq(ServerSessions) /\ sender \in Connects
  BY <1>1 DEF HandshakeInv, Types
<1>3. Len(server) \in Nat /\ Len(server) < MaxSessions /\ DOMAIN server = 1 .. Len(server)
  BY <1>1, <1>2 DEF WatchInv, Opening
<1>4. CASE server' = server /\ accept' = "idle"
  <2>1. Opening'
    BY <1>4 DEF WatchInv, Opening
  <2>2. QED
    BY <1>1, <1>4, <2>1, AcceptWatched
<1>5. CASE server' = Append(server, [client |-> sender, state |-> "created"])
           /\ accept' \in {"sent", "unsent"}
  <2>1. PICK new : new = [client |-> sender, state |-> "created"]
    OBVIOUS
  <2>2. new \in ServerSessions /\ new.state = "created"
    BY <1>2, <2>1 DEF ServerSessions
  <2>3. /\ Len(server') = Len(server) + 1 /\ DOMAIN server' = 1 .. (Len(server) + 1)
        /\ \A s \in DOMAIN server : server'[s] = server[s]
        /\ server'[Len(server) + 1] = new
    BY <1>2, <1>3, <1>5, <2>1, <2>2
  <2>4. Opening'
    BY <1>3, <1>5, <2>2, <2>3, HandshakeAssumption DEF Opening
  <2>5. \A s \in DOMAIN server : s \in DOMAIN server'
    BY <1>3, <2>3
  <2>6. QED
    BY <1>1, <2>3, <2>4, <2>5, AcceptWatched
<1>6. QED
  BY <1>4, <1>5 DEF OpenSession

LEMMA OnAckSentWatched ==
  ASSUME HandshakeInv, WatchInv, OnAckSent
  PROVE  WatchInv'
<1>1. /\ accept \in {"sent", "unsent"} /\ accept' = "idle"
      /\ client' = client /\ UNCHANGED watchVars
  BY DEF OnAckSent, clientVars
<1>2. PICK st : server' = [server EXCEPT ![Len(server)].state = st]
  BY DEF OnAckSent
<1>3. server \in Seq(ServerSessions) /\ Len(server) \in Nat
      /\ \A s \in DOMAIN server : server[s] \in ServerSessions
  BY AtSession DEF HandshakeInv, Types
<1>4. server[Len(server)].state = "created" /\ Len(server) <= MaxSessions
  BY <1>1 DEF WatchInv, Opening
<1>5. /\ DOMAIN server' = DOMAIN server
      /\ \A s \in DOMAIN server :
           server'[s] = IF s = Len(server) THEN [server[s] EXCEPT !.state = st] ELSE server[s]
  BY <1>2
<1>6. Len(server') = Len(server)
  <2>1. DOMAIN server' = 1 .. Len(server)
    BY <1>3, <1>5
  <2>2. QED
    BY <1>2, <1>3, <2>1
<1>7. Opening'
  BY <1>1, <1>4, <1>6 DEF Opening
<1>8. \A s \in DOMAIN server : /\ server'[s].client = server[s].client
                               /\ server[s].state # "created" => server'[s] = server[s]
  BY <1>3, <1>4, <1>5 DEF ServerSessions
<1>9. QED
  BY <1>1, <1>5, <1>7, <1>8, AcceptWatched

(* The ends close. *)
LEMMA ServerClosesWatched ==
  ASSUME HandshakeInv, WatchInv, NEW s \in DOMAIN server, ServerPeerSilent(s) \/ ServerCancel(s)
  PROVE  WatchInv'
<1>1. /\ Serving(s) /\ server' = [server EXCEPT ![s].state = "closed"]
      /\ serverWatch' = [serverWatch EXCEPT ![s] = NewWatch]
      /\ client' = client /\ accept' = accept /\ clientWatch' = clientWatch
  BY DEF ServerPeerSilent, ServerCancel, clientVars
<1>2. server \in Seq(ServerSessions) /\ Len(server) \in Nat /\ DOMAIN server = 1 .. Len(server)
      /\ \A t \in DOMAIN server : server[t] \in ServerSessions
  BY AtSession DEF HandshakeInv, Types
<1>3. /\ DOMAIN server' = DOMAIN server
      /\ \A t \in DOMAIN server : server'[t] = IF t = s THEN [server[s] EXCEPT !.state = "closed"] ELSE server[t]
  BY <1>1
<1>4. Len(server') = Len(server)
  BY <1>1, <1>2, <1>3
<1>5. /\ \A t \in DOMAIN server : server'[t].client = server[t].client
      /\ server'[s].state = "closed"
  BY <1>2, <1>3 DEF ServerSessions
<1>6. Opening'
  <2>1. accept \in {"sent", "unsent"} => Len(server) # s
    BY <1>1 DEF WatchInv, Opening, Serving
  <2>2. accept \in {"sent", "unsent"} => Len(server) \in DOMAIN server
    BY <1>2
  <2>3. QED
    BY <1>1, <1>3, <1>4, <2>1, <2>2 DEF WatchInv, Opening
<1>7. ClientsWatched'
  <2>1. ASSUME NEW a \in Connects
        PROVE  IF Alive(a)' THEN Watched(clientWatch[a], Abandoned(a)') ELSE clientWatch[a] = NewWatch
    <3>1. Alive(a)' = Alive(a)
      BY <1>1 DEF Alive
    <3>2. CASE Alive(a)
      <4>1. client[a].remote \in DOMAIN server
        BY <3>2, AtCall DEF Alive, Talks, Answering
      <4>2. Abandoned(a) => Abandoned(a)'
        BY <1>1, <1>3, <1>5, <4>1 DEF Abandoned
      <4>3. QED
        BY <3>1, <3>2, <4>2 DEF WatchInv, ClientsWatched, Watched
    <3>3. CASE ~Alive(a)
      BY <3>1, <3>3 DEF WatchInv, ClientsWatched
    <3>4. QED
      BY <3>2, <3>3
  <2>2. QED
    BY <1>1, <2>1 DEF WatchInv, ClientsWatched, Watched
<1>8. ServersWatched'
  <2>1. serverWatch \in [1 .. MaxSessions -> Watches] /\ s \in 1 .. MaxSessions
    BY <1>2, HandshakeAssumption DEF WatchInv, ServersWatched, Opening
  <2>2. serverWatch' \in [1 .. MaxSessions -> Watches] /\ serverWatch'[s] = NewWatch
        /\ \A t \in 1 .. MaxSessions : t # s => serverWatch'[t] = serverWatch[t]
    BY <1>1, <2>1, NewWatchSound
  <2>3. ASSUME NEW t \in 1 .. MaxSessions
        PROVE  IF Serving(t)' THEN Watched(serverWatch'[t], Orphan(t)') ELSE serverWatch'[t] = NewWatch
    <3>1. CASE t = s
      BY <1>5, <2>2, <3>1 DEF Serving
    <3>2. CASE t # s
      <4>1. Serving(t)' = Serving(t) /\ (Serving(t) => Orphan(t)' = Orphan(t))
        BY <1>1, <1>3, <1>5, <3>2 DEF Serving, Orphan, Adopted, Alive
      <4>2. QED
        BY <2>2, <3>2, <4>1 DEF WatchInv, ServersWatched, Watched
    <3>3. QED
      BY <3>1, <3>2
  <2>4. QED
    BY <2>2, <2>3 DEF ServersWatched, Watched
<1>9. QED
  BY <1>6, <1>7, <1>8 DEF WatchInv

LEMMA ClientClosesWatched ==
  ASSUME HandshakeInv, WatchInv, NEW a \in Connects, NEW d,
         client' = [client EXCEPT ![a] = d], d.closed = TRUE, d.results = client[a].results,
         clientWatch' = [clientWatch EXCEPT ![a] = NewWatch],
         UNCHANGED <<acceptVars, serverWatch>>
  PROVE  WatchInv'
<1>1. /\ client \in [Connects -> ClientStates] /\ accept' = accept /\ server' = server
      /\ serverWatch' = serverWatch
  BY AtCall DEF acceptVars
<1>2. client'[a] = d /\ \A b \in Connects : b # a => client'[b] = client[b]
  BY <1>1
<1>3. Opening'
  BY <1>1 DEF WatchInv, Opening
<1>4. ~Alive(a)' /\ \A b \in Connects : b # a => Alive(b)' = Alive(b) /\ Abandoned(b)' = Abandoned(b)
  BY <1>1, <1>2 DEF Alive, Abandoned
<1>5. ClientsWatched'
  <2>1. clientWatch \in [Connects -> Watches]
    BY DEF WatchInv, ClientsWatched
  <2>2. clientWatch' \in [Connects -> Watches] /\ clientWatch'[a] = NewWatch
        /\ \A b \in Connects : b # a => clientWatch'[b] = clientWatch[b]
    BY <2>1, NewWatchSound
  <2>3. ASSUME NEW b \in Connects
        PROVE  IF Alive(b)' THEN Watched(clientWatch'[b], Abandoned(b)') ELSE clientWatch'[b] = NewWatch
    BY <1>4, <2>2 DEF WatchInv, ClientsWatched, Watched
  <2>4. QED
    BY <2>2, <2>3 DEF ClientsWatched, Watched
<1>6. ServersWatched'
  <2>1. ASSUME NEW s \in 1 .. MaxSessions
        PROVE  Serving(s)' = Serving(s) /\ (Serving(s) /\ Orphan(s) => Orphan(s)')
    <3>1. Serving(s)' = Serving(s)
      BY <1>1 DEF Serving
    <3>2. ASSUME Serving(s), Orphan(s) PROVE Orphan(s)'
      <4>1. server[s].client \in Connects
        BY <3>2, AtSession DEF Serving
      <4>2. QED
        BY <1>1, <1>2, <3>2, <4>1 DEF Orphan, Adopted, Alive
    <3>3. QED
      BY <3>1, <3>2
  <2>2. QED
    BY <1>1, <2>1 DEF WatchInv, ServersWatched, Watched
<1>7. QED
  BY <1>3, <1>5, <1>6 DEF WatchInv

LEMMA ClientClosingWatched ==
  ASSUME HandshakeInv, WatchInv, Cancel \/ \E a \in Connects : ClientPeerSilent(a)
  PROVE  WatchInv'
<1>1. CASE Cancel
  <2>1. pending \in Connects
    BY <1>1, HandshakeAssumption DEF Cancel, HandshakeInv, Types, Connects
  <2>2. client[pending] \in ClientStates /\ client \in [Connects -> ClientStates]
    BY <2>1, AtCall
  <2>3. PICK d : d = [client[pending] EXCEPT !.closed = TRUE, !.recv = Cancelled(@),
                                             !.aborted = client[pending].results = <<>>]
    OBVIOUS
  <2>4. d.closed = TRUE /\ d.results = client[pending].results
    BY <2>2, <2>3 DEF ClientStates
  <2>5. /\ client' = [client EXCEPT ![pending] = d]
        /\ clientWatch' = [clientWatch EXCEPT ![pending] = NewWatch]
        /\ UNCHANGED <<acceptVars, serverWatch>>
    BY <1>1, <2>1, <2>2, <2>3 DEF Cancel, ClientStates
  <2>6. QED
    BY <2>1, <2>4, <2>5, ClientClosesWatched
<1>2. CASE \E a \in Connects : ClientPeerSilent(a)
  <2>1. PICK a \in Connects : ClientPeerSilent(a)
    BY <1>2
  <2>2. client[a] \in ClientStates /\ client \in [Connects -> ClientStates]
    BY AtCall
  <2>3. PICK d : d = [client[a] EXCEPT !.closed = TRUE]
    OBVIOUS
  <2>4. d.closed = TRUE /\ d.results = client[a].results
    BY <2>2, <2>3 DEF ClientStates
  <2>5. /\ client' = [client EXCEPT ![a] = d]
        /\ clientWatch' = [clientWatch EXCEPT ![a] = NewWatch]
        /\ UNCHANGED <<acceptVars, serverWatch>>
    BY <2>1, <2>2, <2>3 DEF ClientPeerSilent
  <2>6. QED
    BY <2>4, <2>5, ClientClosesWatched
<1>3. QED
  BY <1>1, <1>2

(* A keepalive that finds the peer alive leaves time for a whole interval, *)
(* and only a session whose peer is there is heard from.                   *)
LEMMA ClientWatchMoves ==
  ASSUME HandshakeInv, WatchInv, NEW a \in Connects, Alive(a), NEW w \in Watches,
         Watched(w, Abandoned(a)), clientWatch' = [clientWatch EXCEPT ![a] = w],
         UNCHANGED <<clientVars, acceptVars, serverWatch>>
  PROVE  WatchInv'
<1>1. /\ client' = client /\ server' = server /\ accept' = accept /\ serverWatch' = serverWatch
      /\ clientWatch \in [Connects -> Watches]
  BY DEF clientVars, acceptVars, WatchInv, ClientsWatched
<1>2. clientWatch' \in [Connects -> Watches] /\ clientWatch'[a] = w
      /\ \A b \in Connects : b # a => clientWatch'[b] = clientWatch[b]
  BY <1>1
<1>3. /\ \A b \in Connects : Alive(b)' = Alive(b) /\ Abandoned(b)' = Abandoned(b)
      /\ \A s : Serving(s)' = Serving(s) /\ Orphan(s)' = Orphan(s)
  BY <1>1 DEF Alive, Abandoned, Serving, Orphan, Adopted
<1>4. ClientsWatched'
  BY <1>2, <1>3 DEF WatchInv, ClientsWatched, Watched
<1>5. Opening' /\ ServersWatched'
  BY <1>1, <1>3 DEF WatchInv, Opening, ServersWatched, Watched
<1>6. QED
  BY <1>4, <1>5 DEF WatchInv

LEMMA ServerWatchMoves ==
  ASSUME HandshakeInv, WatchInv, NEW s \in 1 .. MaxSessions, Serving(s), NEW w \in Watches,
         Watched(w, Orphan(s)), serverWatch' = [serverWatch EXCEPT ![s] = w],
         UNCHANGED <<clientVars, acceptVars, clientWatch>>
  PROVE  WatchInv'
<1>1. /\ client' = client /\ server' = server /\ accept' = accept /\ clientWatch' = clientWatch
      /\ serverWatch \in [1 .. MaxSessions -> Watches]
  BY DEF clientVars, acceptVars, WatchInv, ServersWatched
<1>2. serverWatch' \in [1 .. MaxSessions -> Watches] /\ serverWatch'[s] = w
      /\ \A t \in 1 .. MaxSessions : t # s => serverWatch'[t] = serverWatch[t]
  BY <1>1
<1>3. /\ \A b \in Connects : Alive(b)' = Alive(b) /\ Abandoned(b)' = Abandoned(b)
      /\ \A t : Serving(t)' = Serving(t) /\ Orphan(t)' = Orphan(t)
  BY <1>1 DEF Alive, Abandoned, Serving, Orphan, Adopted
<1>4. ServersWatched'
  BY <1>2, <1>3 DEF WatchInv, ServersWatched, Watched
<1>5. Opening' /\ ClientsWatched'
  BY <1>1, <1>3 DEF WatchInv, Opening, ClientsWatched, Watched
<1>6. QED
  BY <1>4, <1>5 DEF WatchInv

LEMMA RearmsSound ==
  ASSUME NEW w \in Watches, NEW gone, Watched(w, gone), ~PeerSilent(w)
  PROVE  Rearms(w) \in Watches /\ Watched(Rearms(w), gone)
<1>1. PICK v : v = Rearms(w)
  OBVIOUS
<1>2. v \in Watches /\ v.keepaliveIn = keepaliveMs /\ v.silence = w.silence /\ v.alone = w.alone
  BY <1>1, HandshakeAssumption DEF Rearms, Watches
<1>3. w.silence \in Nat /\ w.silence <= timeoutMs
  BY HandshakeAssumption DEF Watches, PeerSilent
<1>4. Watched(v, gone)
  BY <1>2, <1>3, HandshakeAssumption DEF Watched
<1>5. QED
  BY <1>1, <1>2, <1>4

LEMMA HeardSound ==
  ASSUME NEW w \in Watches, NEW gone, Watched(w, gone), ~gone
  PROVE  /\ [w EXCEPT !.silence = 0] \in Watches
         /\ Watched([w EXCEPT !.silence = 0], gone)
<1>1. PICK v : v = [w EXCEPT !.silence = 0]
  OBVIOUS
<1>2. v \in Watches /\ v.silence = 0 /\ v.keepaliveIn = w.keepaliveIn /\ v.alone = w.alone
  BY <1>1 DEF Watches
<1>3. w.alone = 0 /\ w.silence \in Nat /\ w.keepaliveIn \in Nat
  BY DEF Watched, Watches
<1>4. Watched(v, gone)
  BY <1>2, <1>3, HandshakeAssumption DEF Watched
<1>5. QED
  BY <1>1, <1>2, <1>4

LEMMA AtWatch ==
  ASSUME HandshakeInv, WatchInv
  PROVE  /\ clientWatch \in [Connects -> Watches]
         /\ serverWatch \in [1 .. MaxSessions -> Watches]
         /\ DOMAIN server \subseteq 1 .. MaxSessions
         /\ \A a \in Connects : Alive(a) => Watched(clientWatch[a], Abandoned(a))
         /\ \A s \in 1 .. MaxSessions : Serving(s) => Watched(serverWatch[s], Orphan(s))
<1>1. server \in Seq(ServerSessions) /\ Len(server) <= MaxSessions
  BY DEF HandshakeInv, Types, WatchInv, Opening
<1>2. DOMAIN server \subseteq 1 .. MaxSessions
  BY <1>1, HandshakeAssumption
<1>3. QED
  BY <1>2 DEF WatchInv, ClientsWatched, ServersWatched

LEMMA ClientKeepaliveWatched ==
  ASSUME HandshakeInv, WatchInv, NEW a \in Connects, ClientKeepalive(a)
  PROVE  WatchInv'
<1>1. /\ Alive(a) /\ ~PeerSilent(clientWatch[a])
      /\ clientWatch' = [clientWatch EXCEPT ![a] = Rearms(clientWatch[a])]
      /\ UNCHANGED <<clientVars, acceptVars, serverWatch>>
  BY AtWatch DEF ClientKeepalive
<1>2. clientWatch[a] \in Watches /\ Watched(clientWatch[a], Abandoned(a))
  BY <1>1, AtWatch
<1>3. Rearms(clientWatch[a]) \in Watches /\ Watched(Rearms(clientWatch[a]), Abandoned(a))
  BY <1>1, <1>2, RearmsSound
<1>4. QED
  BY <1>1, <1>3, ClientWatchMoves

LEMMA ServerKeepaliveWatched ==
  ASSUME HandshakeInv, WatchInv, NEW s \in DOMAIN server, ServerKeepalive(s)
  PROVE  WatchInv'
<1>1. /\ Serving(s) /\ ~PeerSilent(serverWatch[s]) /\ s \in 1 .. MaxSessions
      /\ serverWatch' = [serverWatch EXCEPT ![s] = Rearms(serverWatch[s])]
      /\ UNCHANGED <<clientVars, acceptVars, clientWatch>>
  BY AtWatch DEF ServerKeepalive
<1>2. serverWatch[s] \in Watches /\ Watched(serverWatch[s], Orphan(s))
  BY <1>1, AtWatch
<1>3. Rearms(serverWatch[s]) \in Watches /\ Watched(Rearms(serverWatch[s]), Orphan(s))
  BY <1>1, <1>2, RearmsSound
<1>4. QED
  BY <1>1, <1>3, ServerWatchMoves

LEMMA ClientHearsWatched ==
  ASSUME HandshakeInv, WatchInv, NEW s \in DOMAIN server, ClientHears(s)
  PROVE  WatchInv'
<1>1. PICK a \in Connects : a = server[s].client
  BY AtSession
<1>2. /\ Serving(s) /\ Alive(a) /\ client[a].remote = s
      /\ clientWatch' = [clientWatch EXCEPT ![a] = [clientWatch[a] EXCEPT !.silence = 0]]
      /\ UNCHANGED <<clientVars, acceptVars, serverWatch>>
  BY <1>1, AtWatch DEF ClientHears, IsRemote
<1>3. ~Abandoned(a)
  BY <1>2 DEF Abandoned, Serving
<1>4. clientWatch[a] \in Watches /\ Watched(clientWatch[a], Abandoned(a))
  BY <1>2, AtWatch
<1>5. /\ [clientWatch[a] EXCEPT !.silence = 0] \in Watches
      /\ Watched([clientWatch[a] EXCEPT !.silence = 0], Abandoned(a))
  BY <1>3, <1>4, HeardSound
<1>6. QED
  BY <1>2, <1>5, ClientWatchMoves

LEMMA ServerHearsWatched ==
  ASSUME HandshakeInv, WatchInv, NEW s \in DOMAIN server, ServerHears(s)
  PROVE  WatchInv'
<1>1. /\ Serving(s) /\ Adopted(s) /\ s \in 1 .. MaxSessions
      /\ serverWatch' = [serverWatch EXCEPT ![s] = [serverWatch[s] EXCEPT !.silence = 0]]
      /\ UNCHANGED <<clientVars, acceptVars, clientWatch>>
  BY AtWatch DEF ServerHears
<1>2. ~Orphan(s)
  BY <1>1 DEF Orphan
<1>3. serverWatch[s] \in Watches /\ Watched(serverWatch[s], Orphan(s))
  BY <1>1, AtWatch
<1>4. /\ [serverWatch[s] EXCEPT !.silence = 0] \in Watches
      /\ Watched([serverWatch[s] EXCEPT !.silence = 0], Orphan(s))
  BY <1>2, <1>3, HeardSound
<1>5. QED
  BY <1>1, <1>4, ServerWatchMoves

LEMMA WaitsSound ==
  ASSUME NEW w \in Watches, NEW gone \in BOOLEAN, Watched(w, gone), w.keepaliveIn > 0
  PROVE  Waits(w, gone) \in Watches /\ Watched(Waits(w, gone), gone)
<1>1. PICK v : v = Waits(w, gone)
  OBVIOUS
<1>2. w.keepaliveIn \in Nat /\ w.silence \in Nat /\ w.alone \in Nat
  BY DEF Watches
<1>3. w.keepaliveIn - 1 \in Nat /\ w.silence + 1 \in Nat /\ w.alone + 1 \in Nat
  BY <1>2
<1>4. /\ v \in Watches /\ v.keepaliveIn = w.keepaliveIn - 1 /\ v.silence = w.silence + 1
      /\ v.alone = IF gone THEN w.alone + 1 ELSE w.alone
  BY <1>1, <1>2, <1>3 DEF Waits, Watches
<1>5. Watched(v, gone)
  BY <1>2, <1>4, HandshakeAssumption DEF Watched
<1>6. QED
  BY <1>1, <1>4, <1>5

LEMMA TickWatched ==
  ASSUME HandshakeInv, WatchInv, Tick
  PROVE  WatchInv'
<1>1. accept' = accept /\ server' = server
  BY DEF Tick, acceptVars
<1>2. ASSUME NEW a \in Connects
      PROVE  SameOutcome(client[a], client'[a])
  <2>1. client[a] \in ClientStates
    BY AtCall
  <2>2. client'[a] = IF client[a].timer = "armed"
                       THEN [client[a] EXCEPT !.age = @ + 1, !.timerIn = @ - 1]
                       ELSE client[a]
    BY DEF Tick
  <2>3. QED
    BY <2>1, <2>2 DEF SameOutcome, ClientStates
<1>3. Opening'
  BY <1>1 DEF WatchInv, Opening
<1>4. \A a \in Connects : Alive(a)' = Alive(a) /\ Abandoned(a)' = Abandoned(a)
  BY <1>1, <1>2 DEF Alive, Abandoned, SameOutcome
<1>5. ASSUME NEW s \in 1 .. MaxSessions
      PROVE  Serving(s)' = Serving(s) /\ (Serving(s) => Orphan(s)' = Orphan(s))
  <2>1. Serving(s)' = Serving(s)
    BY <1>1 DEF Serving
  <2>2. ASSUME Serving(s) PROVE Orphan(s)' = Orphan(s)
    <3>1. server[s].client \in Connects
      BY <2>2, AtSession DEF Serving
    <3>2. QED
      BY <1>1, <1>2, <3>1 DEF Orphan, Adopted, Alive, SameOutcome
  <2>3. QED
    BY <2>1, <2>2
<1>6. ClientsWatched'
  <2>1. clientWatch' = [a \in Connects |-> IF Alive(a) THEN Waits(clientWatch[a], Abandoned(a))
                                                       ELSE clientWatch[a]]
    BY DEF Tick
  <2>2. ASSUME NEW a \in Connects
        PROVE  /\ clientWatch'[a] \in Watches
               /\ IF Alive(a) THEN Watched(clientWatch'[a], Abandoned(a)) ELSE clientWatch'[a] = NewWatch
    <3>1. CASE Alive(a)
      <4>1. clientWatch[a] \in Watches /\ Watched(clientWatch[a], Abandoned(a))
            /\ clientWatch[a].keepaliveIn > 0 /\ Abandoned(a) \in BOOLEAN
        BY <3>1, AtWatch DEF Tick, Abandoned
      <4>2. QED
        BY <2>1, <3>1, <4>1, WaitsSound
    <3>2. CASE ~Alive(a)
      BY <2>1, <3>2, AtWatch DEF WatchInv, ClientsWatched
    <3>3. QED
      BY <3>1, <3>2
  <2>3. clientWatch' \in [Connects -> Watches]
    BY <2>1, <2>2
  <2>4. QED
    BY <1>4, <2>2, <2>3 DEF ClientsWatched, Watched
<1>7. ServersWatched'
  <2>1. serverWatch' = [s \in 1 .. MaxSessions |-> IF Serving(s) THEN Waits(serverWatch[s], Orphan(s))
                                                                 ELSE serverWatch[s]]
    BY DEF Tick
  <2>2. ASSUME NEW s \in 1 .. MaxSessions
        PROVE  /\ serverWatch'[s] \in Watches
               /\ IF Serving(s) THEN Watched(serverWatch'[s], Orphan(s)) ELSE serverWatch'[s] = NewWatch
    <3>1. CASE Serving(s)
      <4>1. serverWatch[s] \in Watches /\ Watched(serverWatch[s], Orphan(s))
            /\ serverWatch[s].keepaliveIn > 0 /\ Orphan(s) \in BOOLEAN
        BY <3>1, AtWatch DEF Tick, Orphan
      <4>2. QED
        BY <2>1, <3>1, <4>1, WaitsSound
    <3>2. CASE ~Serving(s)
      BY <2>1, <3>2, AtWatch DEF WatchInv, ServersWatched
    <3>3. QED
      BY <3>1, <3>2
  <2>3. serverWatch' \in [1 .. MaxSessions -> Watches]
    BY <2>1, <2>2
  <2>4. QED
    BY <1>5, <2>2, <2>3 DEF ServersWatched, Watched
<1>8. QED
  BY <1>3, <1>6, <1>7 DEF WatchInv

LEMMA WatchInit == Init => WatchInv
<1> SUFFICES ASSUME Init PROVE WatchInv
  OBVIOUS
<1>1. Opening
  BY HandshakeAssumption DEF Init, Opening
<1>2. \A a \in Connects : ~Alive(a)
  BY DEF Init, Alive, Fresh
<1>3. \A s : ~Serving(s)
  BY DEF Init, Serving
<1>4. QED
  BY <1>1, <1>2, <1>3, NewWatchSound DEF Init, WatchInv, ClientsWatched, ServersWatched

LEMMA WatchNext == HandshakeInv /\ WatchInv /\ [Next]_vars => WatchInv'
<1> SUFFICES ASSUME HandshakeInv, WatchInv, [Next]_vars PROVE WatchInv'
  OBVIOUS
<1>1. ASSUME NEW a \in Connects, ClientStep(a) PROVE WatchInv'
  BY <1>1, CallStepWatched, ClientKeepaliveWatched, ClientClosingWatched, AcceptStepWatched
     DEF ClientStep
<1>2. CASE Cancel
  BY <1>2, ClientClosingWatched
<1>3. CASE \/ AsyncAccept \/ AcceptFails \/ AcceptJunk
           \/ \E what \in {"junk", "aborted"} : OtherAccepted(what)
           \/ \E stillOpen \in BOOLEAN : StopAccepting(stillOpen)
           \/ \E s \in acks : LoseAck(s)
  BY <1>3, AcceptStepWatched
<1>4. CASE OpenSession
  BY <1>4, OpenSessionWatched
<1>5. CASE OnAckSent
  BY <1>5, OnAckSentWatched
<1>6. CASE Tick
  BY <1>6, TickWatched
<1>7. ASSUME NEW s \in DOMAIN server, ServerStep(s) PROVE WatchInv'
  BY <1>7, ServerKeepaliveWatched, ServerClosesWatched, ClientHearsWatched, ServerHearsWatched
     DEF ServerStep
<1>8. CASE UNCHANGED vars
  <2>1. client' = client /\ server' = server /\ accept' = accept /\ UNCHANGED watchVars
    BY <1>8 DEF vars, clientVars, acceptVars
  <2>2. Opening'
    BY <2>1 DEF WatchInv, Opening
  <2>3. QED
    BY <2>1, <2>2, AcceptWatched
<1>9. QED
  BY <1>1, <1>2, <1>3, <1>4, <1>5, <1>6, <1>7, <1>8 DEF Next

(* An end of a connection whose peer is gone, because the client adopted   *)
(* another session or none or because the peer has closed, has been alone  *)
(* for no longer than timeoutMs_ and one keepalive interval: scheduleKeep- *)
(* alive and the test of sender_ in BasicSession.hpp bound every orphan,   *)
(* however often INITs and ACKs are lost or duplicated.                    *)
THEOREM HalfOpenBoundedCorrect == Spec => []HalfOpenBounded
<1>1. ASSUME HandshakeInv, WatchInv PROVE HalfOpenBounded
  <2>1. ASSUME NEW w \in Watches, NEW gone, Watched(w, gone)
        PROVE  w.alone <= timeoutMs + keepaliveMs
    <3>1. w.keepaliveIn \in Nat /\ w.silence \in Nat /\ w.alone \in Nat
      BY DEF Watches
    <3>2. QED
      BY <2>1, <3>1, HandshakeAssumption DEF Watched
  <2>2. ASSUME NEW s \in DOMAIN server, Serving(s)
        PROVE  serverWatch[s].alone <= timeoutMs + keepaliveMs
    <3>1. serverWatch[s] \in Watches /\ Watched(serverWatch[s], Orphan(s))
      BY <1>1, <2>2, AtWatch
    <3>2. QED
      BY <2>1, <3>1
  <2>3. ASSUME NEW a \in Connects, Alive(a)
        PROVE  clientWatch[a].alone <= timeoutMs + keepaliveMs
    <3>1. clientWatch[a] \in Watches /\ Watched(clientWatch[a], Abandoned(a))
      BY <1>1, <2>3, AtWatch
    <3>2. QED
      BY <2>1, <3>1
  <2>4. QED
    BY <2>2, <2>3 DEF HalfOpenBounded
<1>2. Spec => []WatchInv
  BY WatchInit, WatchNext, HandshakeInvariant, PTL DEF Spec
<1>3. QED
  BY <1>1, <1>2, HandshakeInvariant, PTL
=============================================================================
