-------------------------- MODULE SendGuardProofs --------------------------
(***************************************************************************)
(* Theorems about SendGuard, for every set of priorities and any number of *)
(* jobs and of calls of clear and reset.                                   *)
(***************************************************************************)
EXTENDS SendGuard, FiniteSetTheorems, SequenceTheorems, WellFoundedInduction, TLAPS

Entries == [priority : Nat, id : Nat]

(* A queue of jobs numbered 1 .. n, each of them once, none of them in the *)
(* set out, in the order in which they are to start.                       *)
SoundQueue(q, out, n) ==
  /\ q \in Seq(Entries)
  /\ \A i \in DOMAIN q : q[i].id \in 1 .. n /\ q[i].id \notin out
  /\ \A i, j \in DOMAIN q : i # j => q[i].id # q[j].id
  /\ \A i, j \in DOMAIN q : i < j =>
       \/ q[i].priority < q[j].priority
       \/ q[i].priority = q[j].priority /\ q[i].id < q[j].id

(* The most jobs that may be out when active_ is busy *)
Allowed(busy) == interrupted + (IF busy THEN 1 ELSE 0)

(* The inductive invariant.  The completion of a job takes one away from   *)
(* those that are out only because no job is handed out twice.             *)
GuardInv ==
  /\ active \in BOOLEAN /\ onStrand \in BOOLEAN
  /\ enqueued \in Nat /\ interrupted \in Nat
  /\ IsFiniteSet(dispatched) /\ IsFiniteSet(running)
  /\ dispatched \cap running = {}
  /\ Out \subseteq 1 .. enqueued
  /\ SoundQueue(jobs, Out, enqueued)
  /\ Cardinality(Out) <= Allowed(active)
  /\ active => Out # {}
  /\ jobs # <<>> => active

-----------------------------------------------------------------------------
(* A sound queue is a sequence of entries. *)
LEMMA QueueFacts ==
  ASSUME NEW q, NEW out, NEW n, SoundQueue(q, out, n)
  PROVE  /\ q \in Seq(Entries) /\ Len(q) \in Nat /\ DOMAIN q = 1 .. Len(q)
         /\ \A i \in 1 .. Len(q) : q[i].priority \in Nat /\ q[i].id \in Nat
<1>1. q \in Seq(Entries) /\ Len(q) \in Nat /\ DOMAIN q = 1 .. Len(q)
  BY DEF SoundQueue
<1>2. \A i \in 1 .. Len(q) : q[i] \in Entries
  BY <1>1
<1>3. QED
  BY <1>1, <1>2 DEF Entries

(* The queue without its first job is sound when that job is out. *)
LEMMA TailSound ==
  ASSUME NEW q, NEW out, NEW n \in Nat, SoundQueue(q, out, n), q # <<>>
  PROVE  /\ SoundQueue(Tail(q), out \cup {Head(q).id}, n)
         /\ Head(q).id \notin out
<1>1. /\ q \in Seq(Entries) /\ Len(q) \in Nat \ {0}
      /\ DOMAIN q = 1 .. Len(q) /\ Head(q) = q[1]
  BY QueueFacts
<1>2. /\ Tail(q) \in Seq(Entries)
      /\ DOMAIN Tail(q) = 1 .. Len(q) - 1
      /\ \A i \in 1 .. Len(q) - 1 : Tail(q)[i] = q[i + 1]
  BY <1>1
<1>3. \A i \in 1 .. Len(q) - 1 : i + 1 \in DOMAIN q /\ i + 1 # 1
  BY <1>1
<1> DEFINE t == Tail(q)
<1>4. /\ \A i \in DOMAIN q : q[i].id \in 1 .. n /\ q[i].id \notin out
      /\ \A i, j \in DOMAIN q : i # j => q[i].id # q[j].id
      /\ \A i, j \in DOMAIN q : i < j =>
           \/ q[i].priority < q[j].priority
           \/ q[i].priority = q[j].priority /\ q[i].id < q[j].id
  BY DEF SoundQueue
<1> HIDE DEF t
<1>5. \A i \in DOMAIN t : t[i].id \in 1 .. n /\ t[i].id \notin out \cup {Head(q).id}
  BY <1>1, <1>2, <1>3, <1>4 DEF t
<1>6. \A i, j \in DOMAIN t : i # j => t[i].id # t[j].id
  BY <1>1, <1>2, <1>3, <1>4 DEF t
<1>7. ASSUME NEW i \in DOMAIN t, NEW j \in DOMAIN t, i < j
      PROVE  \/ t[i].priority < t[j].priority
             \/ t[i].priority = t[j].priority /\ t[i].id < t[j].id
  <2>1. /\ i + 1 \in DOMAIN q /\ j + 1 \in DOMAIN q /\ i + 1 < j + 1
        /\ t[i] = q[i + 1] /\ t[j] = q[j + 1]
    BY <1>1, <1>2, <1>3, <1>7 DEF t
  <2>2. QED
    BY <1>4, <2>1
<1>8. SoundQueue(t, out \cup {Head(q).id}, n)
  BY <1>2, <1>5, <1>6, <1>7 DEF SoundQueue, t
<1>9. QED
  BY <1>1, <1>4, <1>8 DEF t

(* A non-empty set of numbers has a least element. *)
LEMMA LeastNatural ==
  ASSUME NEW T \in SUBSET Nat, T # {}
  PROVE  \E x \in T : \A y \in T : x <= y
<1>1. PICK x \in T : \A y \in T : ~(<<y, x>> \in OpToRel(<, Nat))
  BY WFMin, NatLessThanWellFounded, Zenon
<1>2. \A y \in T : ~(y < x)
  BY <1>1, Zenon DEF OpToRel
<1>3. QED
  BY <1>2

(* insertAt finds a place, and everything behind it has a larger priority. *)
LEMMA InsertPositionSound ==
  ASSUME SoundQueue(jobs, Out, enqueued), NEW p \in Nat
  PROVE  /\ InsertPosition(p) \in 0 .. Len(jobs)
         /\ \A i \in 1 .. InsertPosition(p) : jobs[i].priority <= p
         /\ \A i \in InsertPosition(p) + 1 .. Len(jobs) : jobs[i].priority > p
<1>1. /\ jobs \in Seq(Entries) /\ Len(jobs) \in Nat /\ DOMAIN jobs = 1 .. Len(jobs)
      /\ \A i \in 1 .. Len(jobs) : jobs[i].priority \in Nat
  BY QueueFacts
<1>2. \E k \in 0 .. Len(jobs) :
        /\ \A i \in 1 .. k : jobs[i].priority <= p
        /\ k < Len(jobs) => jobs[k + 1].priority > p
  <2> DEFINE Larger == {i \in 1 .. Len(jobs) : jobs[i].priority > p}
  <2>1. CASE Larger = {}
    <3>1. \A i \in 1 .. Len(jobs) : jobs[i].priority <= p
      BY <1>1, <2>1
    <3>2. QED
      BY <1>1, <3>1
  <2>2. CASE Larger # {}
    <3>1. PICK m \in Larger : \A i \in Larger : m <= i
      <4>1. Larger \in SUBSET Nat
        BY <1>1
      <4> HIDE DEF Larger
      <4>2. QED
        BY <2>2, <4>1, LeastNatural
    <3>2. \A i \in 1 .. m - 1 : jobs[i].priority <= p
      BY <1>1, <3>1
    <3>3. m - 1 \in 0 .. Len(jobs) /\ jobs[(m - 1) + 1].priority > p
      BY <1>1, <3>1
    <3>4. QED
      BY <3>2, <3>3
  <2>3. QED
    BY <2>1, <2>2
<1> DEFINE k == InsertPosition(p)
<1>3. /\ k \in 0 .. Len(jobs)
      /\ \A i \in 1 .. k : jobs[i].priority <= p
      /\ k < Len(jobs) => jobs[k + 1].priority > p
  BY <1>2 DEF InsertPosition
<1>4. ASSUME NEW i \in k + 1 .. Len(jobs) PROVE jobs[i].priority > p
  <2>1. k + 1 \in DOMAIN jobs /\ i \in DOMAIN jobs /\ jobs[k + 1].priority > p
    BY <1>1, <1>3
  <2>2. i = k + 1 \/ jobs[k + 1].priority <= jobs[i].priority
    BY <1>1, <1>3, <2>1 DEF SoundQueue
  <2>3. QED
    BY <1>1, <1>3, <2>1, <2>2
<1>5. QED
  BY <1>3, <1>4

(* e put behind the first k elements of s *)
InsertBehind(s, k, e) == SubSeq(s, 1, k) \o <<e>> \o SubSeq(s, k + 1, Len(s))

(* new is s with e behind its first k elements. *)
IsInsertion(new, S, s, k, e) ==
  /\ new \in Seq(S)
  /\ Len(new) = Len(s) + 1
  /\ \A i \in 1 .. k : new[i] = s[i]
  /\ new[k + 1] = e
  /\ \A i \in k + 2 .. Len(s) + 1 : new[i] = s[i - 1]

(* The elements of a sequence into which another one has been put. *)
LEMMA InsertElement ==
  ASSUME NEW S, NEW s \in Seq(S), NEW e \in S, NEW k \in 0 .. Len(s)
  PROVE  IsInsertion(InsertBehind(s, k, e), S, s, k, e)
<1> DEFINE front == SubSeq(s, 1, k)
           back == SubSeq(s, k + 1, Len(s))
           one == <<e>>
           longer == front \o one
           new == longer \o back
<1>1. Len(s) \in Nat /\ k \in Nat /\ k <= Len(s) /\ \A i \in 1 .. Len(s) : s[i] \in S
  OBVIOUS
<1>2. front \in Seq(S) /\ Len(front) = k /\ \A i \in 1 .. k : front[i] = s[i]
  <2>1. \A i \in 1 .. k : s[i] \in S
    BY <1>1
  <2>2. /\ front \in Seq(S)
        /\ Len(front) = IF 1 <= k THEN k - 1 + 1 ELSE 0
        /\ \A i \in 1 .. k - 1 + 1 : front[i] = s[1 + i - 1]
    BY <1>1, <2>1, SubSeqProperties
  <2>3. QED
    BY <1>1, <2>2
<1>3. /\ back \in Seq(S) /\ Len(back) = Len(s) - k
      /\ \A i \in 1 .. Len(s) - k : back[i] = s[k + i]
  <2>1. \A i \in k + 1 .. Len(s) : s[i] \in S
    BY <1>1
  <2>2. k + 1 \in Int /\ Len(s) \in Int
    BY <1>1
  <2>3. /\ back \in Seq(S)
        /\ Len(back) = IF k + 1 <= Len(s) THEN Len(s) - (k + 1) + 1 ELSE 0
        /\ \A i \in 1 .. Len(s) - (k + 1) + 1 : back[i] = s[(k + 1) + i - 1]
    BY <2>1, <2>2, SubSeqProperties
  <2>4. QED
    BY <1>1, <2>3
<1> HIDE DEF front, back
<1>4. one \in Seq(S) /\ Len(one) = 1 /\ one[1] = e
  OBVIOUS
<1> HIDE DEF one
<1>5. /\ longer \in Seq(S)
      /\ Len(longer) = Len(front) + Len(one)
      /\ \A i \in 1 .. Len(front) + Len(one) :
           longer[i] = IF i <= Len(front) THEN front[i] ELSE one[i - Len(front)]
  BY <1>2, <1>4, ConcatProperties
<1>6. longer \in Seq(S) /\ back \in Seq(S)
  BY <1>3, <1>5
<1> HIDE DEF longer
<1>7. /\ new \in Seq(S)
      /\ Len(new) = Len(longer) + Len(back)
      /\ \A i \in 1 .. Len(longer) + Len(back) :
           new[i] = IF i <= Len(longer) THEN longer[i] ELSE back[i - Len(longer)]
  BY <1>6, ConcatProperties
<1> HIDE DEF new
<1>8. Len(longer) = k + 1 /\ Len(new) = Len(s) + 1
  BY <1>1, <1>2, <1>3, <1>4, <1>5, <1>7
<1>9. ASSUME NEW i \in 1 .. k PROVE new[i] = s[i]
  <2>1. i \in 1 .. Len(longer) + Len(back) /\ i <= Len(longer)
    BY <1>1, <1>3, <1>8
  <2>2. new[i] = longer[i]
    BY <1>7, <2>1
  <2>3. i \in 1 .. Len(front) + Len(one) /\ i <= Len(front)
    BY <1>1, <1>2, <1>4
  <2>4. longer[i] = front[i]
    BY <1>5, <2>3
  <2>5. QED
    BY <1>2, <2>2, <2>4
<1>10. new[k + 1] = e
  <2>1. longer[k + 1] = one[k + 1 - k]
    BY <1>1, <1>2, <1>4, <1>5
  <2>2. k + 1 - k = 1
    BY <1>1
  <2>3. QED
    <3>1. k + 1 \in 1 .. Len(longer) + Len(back) /\ k + 1 <= Len(longer)
      BY <1>1, <1>3, <1>8
    <3>2. new[k + 1] = longer[k + 1]
      BY <1>7, <3>1
    <3>3. QED
      BY <1>4, <2>1, <2>2, <3>2
<1>11. ASSUME NEW i \in k + 2 .. Len(s) + 1 PROVE new[i] = s[i - 1]
  <2>1. new[i] = back[i - (k + 1)]
    <3>1. i \in 1 .. Len(longer) + Len(back) /\ ~(i <= Len(longer))
      BY <1>1, <1>3, <1>8
    <3>2. QED
      BY <1>7, <1>8, <3>1
  <2>2. i - (k + 1) \in 1 .. Len(s) - k /\ k + (i - (k + 1)) = i - 1
    BY <1>1
  <2>3. QED
    BY <1>3, <2>1, <2>2
<1>12. QED
  <2>1. new = InsertBehind(s, k, e)
    BY DEF InsertBehind, new, longer, front, one, back
  <2>2. QED
    BY <1>7, <1>8, <1>9, <1>10, <1>11, <2>1 DEF IsInsertion

(* The queue in which Enqueue has put an entry at insertAt *)
Inserted(e) == InsertBehind(jobs, InsertPosition(e.priority), e)

(* enqueue keeps the queue sound: the new job is the youngest one. *)
LEMMA InsertedSound ==
  ASSUME SoundQueue(jobs, Out, enqueued), enqueued \in Nat,
         Out \subseteq 1 .. enqueued,
         NEW p \in Nat
  PROVE  SoundQueue(Inserted([priority |-> p, id |-> enqueued + 1]), Out, enqueued + 1)
<1> DEFINE e == [priority |-> p, id |-> enqueued + 1]
           k == InsertPosition(p)
           new == Inserted(e)
<1>1. /\ jobs \in Seq(Entries) /\ Len(jobs) \in Nat /\ DOMAIN jobs = 1 .. Len(jobs)
      /\ \A i \in 1 .. Len(jobs) : jobs[i].priority \in Nat /\ jobs[i].id \in Nat
      /\ e \in Entries /\ e.priority = p /\ e.id = enqueued + 1
  BY QueueFacts DEF Entries
<1>2. /\ k \in 0 .. Len(jobs)
      /\ \A i \in 1 .. k : jobs[i].priority <= p
      /\ \A i \in k + 1 .. Len(jobs) : jobs[i].priority > p
  BY InsertPositionSound
<1>3. new = InsertBehind(jobs, k, e)
  BY <1>1 DEF Inserted
<1> HIDE DEF new, e, k
<1>4. /\ new \in Seq(Entries)
      /\ Len(new) = Len(jobs) + 1
      /\ \A i \in 1 .. k : new[i] = jobs[i]
      /\ new[k + 1] = e
      /\ \A i \in k + 2 .. Len(jobs) + 1 : new[i] = jobs[i - 1]
  <2>1. jobs \in Seq(Entries) /\ e \in Entries /\ k \in 0 .. Len(jobs)
    BY <1>1, <1>2
  <2>2. IsInsertion(new, Entries, jobs, k, e)
    BY <1>3, <2>1, InsertElement, Zenon
  <2>3. QED
    BY <2>2, Zenon DEF IsInsertion
<1>5. /\ \A i \in DOMAIN jobs : jobs[i].id \in 1 .. enqueued /\ jobs[i].id \notin Out
      /\ \A m, l \in DOMAIN jobs : m # l => jobs[m].id # jobs[l].id
      /\ \A m, l \in DOMAIN jobs : m < l =>
           \/ jobs[m].priority < jobs[l].priority
           \/ jobs[m].priority = jobs[l].priority /\ jobs[m].id < jobs[l].id
  BY DEF SoundQueue
<1> DEFINE old(i) == IF i <= k THEN i ELSE i - 1
<1>6. /\ DOMAIN new = 1 .. Len(jobs) + 1
      /\ k + 1 \in DOMAIN new
      /\ \A i \in DOMAIN new : i # k + 1 => old(i) \in DOMAIN jobs /\ new[i] = jobs[old(i)]
      /\ \A i, j \in DOMAIN new : i # k + 1 /\ j # k + 1 /\ i < j => old(i) < old(j)
  <2>1. DOMAIN new = 1 .. Len(jobs) + 1 /\ Len(jobs) \in Nat /\ DOMAIN jobs = 1 .. Len(jobs)
    BY <1>1, <1>4
  <2>2. k + 1 \in DOMAIN new /\ k \in Nat
    BY <1>2, <2>1
  <2>3. ASSUME NEW i \in DOMAIN new, i # k + 1
        PROVE  old(i) \in DOMAIN jobs /\ new[i] = jobs[old(i)]
    <3>1. CASE i <= k
      BY <1>2, <1>4, <2>1, <2>2, <2>3, <3>1
    <3>2. CASE i > k + 1
      BY <1>2, <1>4, <2>1, <2>2, <2>3, <3>2
    <3>3. QED
      BY <2>1, <2>2, <2>3, <3>1, <3>2
  <2>4. ASSUME NEW i \in DOMAIN new, NEW j \in DOMAIN new, i # k + 1, j # k + 1, i < j
        PROVE  old(i) < old(j)
    BY <2>1, <2>2, <2>4
  <2>5. QED
    BY <2>1, <2>2, <2>3, <2>4
<1>7. \A i \in DOMAIN new :
        /\ i < k + 1 => new[i].priority <= p /\ new[i].priority \in Nat
        /\ i > k + 1 => new[i].priority > p /\ new[i].priority \in Nat
        /\ i # k + 1 => new[i].id \in 1 .. enqueued /\ new[i].id \notin Out
  BY <1>1, <1>2, <1>5, <1>6
<1>8. new[k + 1].priority = p /\ new[k + 1].id = enqueued + 1 /\ enqueued + 1 \notin Out
  BY <1>1, <1>4
<1> HIDE DEF old
<1>9. ASSUME NEW i \in DOMAIN new
      PROVE  new[i].id \in 1 .. enqueued + 1 /\ new[i].id \notin Out
  BY <1>7, <1>8
<1>10. ASSUME NEW i \in DOMAIN new, NEW j \in DOMAIN new, i < j
       PROVE  /\ new[i].id # new[j].id
              /\ \/ new[i].priority < new[j].priority
                 \/ new[i].priority = new[j].priority /\ new[i].id < new[j].id
  <2>1. i \in Int /\ j \in Int /\ k \in Int
    BY <1>1, <1>2, <1>6
  <2>2. CASE j = k + 1
    BY <1>7, <1>8, <1>10, <2>1, <2>2
  <2>3. CASE i = k + 1
    BY <1>7, <1>8, <1>10, <2>1, <2>3
  <2>4. CASE i # k + 1 /\ j # k + 1
    <3>1. /\ old(i) \in DOMAIN jobs /\ old(j) \in DOMAIN jobs /\ old(i) < old(j)
          /\ new[i] = jobs[old(i)] /\ new[j] = jobs[old(j)]
      BY <1>6, <1>10, <2>4
    <3>2. old(i) # old(j)
      BY <1>1, <3>1
    <3>3. QED
      BY <1>5, <3>1, <3>2
  <2>5. QED
    BY <2>2, <2>3, <2>4
<1>11. \A i, j \in DOMAIN new : i # j => new[i].id # new[j].id
  <2>1. \A i, j \in DOMAIN new : i # j => i < j \/ j < i
    BY <1>1, <1>6
  <2>2. QED
    BY <1>10, <2>1
<1>12. QED
  BY <1>4, <1>9, <1>10, <1>11 DEF SoundQueue, new, e

(* pump hands out at most one job, and only when active_ is not set. *)
LEMMA PumpSound ==
  ASSUME NEW queue, NEW busy \in BOOLEAN, NEW started, NEW n \in Nat,
         onStrand \in BOOLEAN, interrupted \in Nat,
         IsFiniteSet(dispatched), IsFiniteSet(started),
         dispatched \cap started = {},
         dispatched \cup started \subseteq 1 .. n,
         SoundQueue(queue, dispatched \cup started, n),
         Cardinality(dispatched \cup started) <= Allowed(busy),
         busy => dispatched \cup started # {},
         Pump(queue, busy, started)
  PROVE  /\ active' \in BOOLEAN
         /\ IsFiniteSet(dispatched') /\ IsFiniteSet(running')
         /\ dispatched' \cap running' = {}
         /\ Out' \subseteq 1 .. n
         /\ SoundQueue(jobs', Out', n)
         /\ Cardinality(Out') <= interrupted + (IF active' THEN 1 ELSE 0)
         /\ active' => Out' # {}
         /\ jobs' # <<>> => active'
<1>1. CASE busy \/ queue = <<>>
  <2>1. /\ jobs' = queue /\ active' = busy
        /\ running' = started /\ dispatched' = dispatched
    BY <1>1 DEF Pump
  <2>2. Out' = dispatched \cup started
    BY <2>1 DEF Out
  <2>3. QED
    BY <1>1, <2>1, <2>2 DEF Allowed
<1>2. CASE ~busy /\ queue # <<>>
  <2> DEFINE h == Head(queue).id
             out == dispatched \cup started
  <2>1. /\ jobs' = Tail(queue) /\ active' = TRUE
        /\ \/ dispatched' = dispatched \cup {h} /\ running' = started
           \/ running' = started \cup {h} /\ dispatched' = dispatched
    BY <1>2 DEF Pump
  <2>2. SoundQueue(Tail(queue), out \cup {h}, n) /\ h \notin out
    BY <1>2, TailSound
  <2>3. Out' = out \cup {h}
    BY <2>1 DEF Out
  <2>4. IsFiniteSet(out) /\ Cardinality(out) <= interrupted
    <3>1. IsFiniteSet(out)
      BY FS_Union
    <3>2. Allowed(busy) = interrupted
      BY <1>2 DEF Allowed
    <3>3. QED
      BY <3>1, <3>2
  <2> HIDE DEF out, h
  <2>5. Cardinality(out) \in Nat /\ Cardinality(out \cup {h}) <= interrupted + 1
    <3>1. Cardinality(out) \in Nat
      BY <2>4, FS_CardinalityType
    <3>2. Cardinality(out \cup {h}) = IF h \in out THEN Cardinality(out) ELSE Cardinality(out) + 1
      BY <2>4, FS_AddElement
    <3>3. QED
      BY <2>4, <3>1, <3>2
  <2>6. IsFiniteSet(dispatched') /\ IsFiniteSet(running')
    <3>1. IsFiniteSet(dispatched \cup {h}) /\ IsFiniteSet(started \cup {h})
      BY FS_AddElement
    <3>2. QED
      BY <2>1, <3>1
  <2>7. dispatched' \cap running' = {}
    BY <2>1, <2>2 DEF out
  <2>8. SoundQueue(jobs', Out', n)
    BY <2>1, <2>2, <2>3
  <2>9. Out' \subseteq 1 .. n
    <3>1. h \in 1 .. n
      BY <1>2, QueueFacts DEF SoundQueue, h
    <3>2. QED
      BY <2>3, <3>1 DEF out
  <2>10. QED
    BY <2>1, <2>3, <2>5, <2>6, <2>7, <2>8, <2>9
<1>3. QED
  BY <1>1, <1>2

-----------------------------------------------------------------------------
(* A new guard is empty. *)
LEMMA InitSound == GuardInit => GuardInv
<1> SUFFICES ASSUME GuardInit PROVE GuardInv
  OBVIOUS
<1>1. /\ jobs = <<>> /\ active = FALSE /\ onStrand \in BOOLEAN /\ Out = {}
      /\ dispatched = {} /\ running = {} /\ enqueued = 0 /\ interrupted = 0
  BY DEF GuardInit, Out
<1>2. SoundQueue(jobs, Out, enqueued)
  BY <1>1 DEF SoundQueue
<1>3. Cardinality(Out) <= Allowed(active) /\ IsFiniteSet(dispatched) /\ IsFiniteSet(running)
  BY <1>1, FS_EmptySet DEF Allowed
<1>4. QED
  BY <1>1, <1>2, <1>3 DEF GuardInv

(* Every operation keeps the invariant. *)
LEMMA NextSound ==
  GuardInv /\ [GuardNext]_guardVars => GuardInv'
<1> SUFFICES ASSUME GuardInv, [GuardNext]_guardVars
             PROVE  GuardInv'
  OBVIOUS
<1>1. /\ active \in BOOLEAN /\ onStrand \in BOOLEAN
      /\ enqueued \in Nat /\ interrupted \in Nat
      /\ IsFiniteSet(dispatched) /\ IsFiniteSet(running)
      /\ dispatched \cap running = {}
      /\ Out \subseteq 1 .. enqueued
      /\ SoundQueue(jobs, Out, enqueued)
      /\ Cardinality(Out) <= Allowed(active)
      /\ active => Out # {}
      /\ jobs # <<>> => active
  BY DEF GuardInv
<1>2. Out = dispatched \cup running /\ Out' = dispatched' \cup running'
  BY DEF Out
<1>3. IsFiniteSet(Out) /\ Cardinality(Out) \in Nat
  <2>1. IsFiniteSet(Out)
    BY <1>1, <1>2, FS_Union
  <2>2. QED
    BY <2>1, FS_CardinalityType
<1>4. ASSUME NEW p \in Priorities, Enqueue(p) PROVE GuardInv'
  <2> DEFINE e == [priority |-> p, id |-> enqueued + 1]
  <2>1. p \in Nat
    BY GuardAssumption
  <2>2. /\ enqueued' = enqueued + 1 /\ onStrand' = onStrand /\ interrupted' = interrupted
        /\ Pump(Inserted(e), active, running)
    BY <1>4 DEF Enqueue, Inserted, InsertBehind
  <2>3. SoundQueue(Inserted(e), dispatched \cup running, enqueued + 1)
    BY <1>1, <1>2, <2>1, InsertedSound
  <2> HIDE DEF e
  <2>4. /\ enqueued + 1 \in Nat
        /\ Cardinality(dispatched \cup running) <= Allowed(active)
        /\ dispatched \cup running \subseteq 1 .. enqueued + 1
        /\ active => dispatched \cup running # {}
    BY <1>1, <1>2
  <2>5. /\ active' \in BOOLEAN
        /\ IsFiniteSet(dispatched') /\ IsFiniteSet(running')
        /\ dispatched' \cap running' = {}
        /\ Out' \subseteq 1 .. enqueued + 1
        /\ SoundQueue(jobs', Out', enqueued + 1)
        /\ Cardinality(Out') <= interrupted + (IF active' THEN 1 ELSE 0)
        /\ active' => Out' # {}
        /\ jobs' # <<>> => active'
    BY <1>1, <2>2, <2>3, <2>4, PumpSound, Zenon
  <2>6. QED
    BY <1>1, <2>2, <2>5 DEF GuardInv, Allowed
<1>5. ASSUME NEW j \in dispatched, RunJob(j) PROVE GuardInv'
  <2>1. /\ dispatched' = dispatched \ {j} /\ running' = running \cup {j}
        /\ jobs' = jobs /\ active' = active /\ onStrand' = onStrand
        /\ enqueued' = enqueued /\ interrupted' = interrupted
    BY <1>5 DEF RunJob
  <2>2. Out' = Out /\ dispatched' \cap running' = {}
    BY <1>1, <1>2, <1>5, <2>1
  <2>3. IsFiniteSet(dispatched') /\ IsFiniteSet(running')
    BY <1>1, <2>1, FS_AddElement, FS_RemoveElement
  <2>4. QED
    BY <1>1, <2>1, <2>2, <2>3 DEF GuardInv, Allowed
<1>6. ASSUME NEW j \in running, JobCompletes(j) PROVE GuardInv'
  <2> DEFINE left == running \ {j}
  <2>1. /\ enqueued' = enqueued /\ onStrand' = onStrand /\ interrupted' = interrupted
        /\ Pump(jobs, FALSE, left)
    BY <1>6 DEF JobCompletes
  <2>2. IsFiniteSet(left) /\ dispatched \cap left = {} /\ dispatched \cup left \subseteq 1 .. enqueued
    BY <1>1, <1>2, FS_RemoveElement
  <2>3. dispatched \cup left = Out \ {j} /\ j \in Out
    BY <1>1, <1>2
  <2>4. Cardinality(dispatched \cup left) <= Allowed(FALSE)
    <3>1. Cardinality(dispatched \cup left) = Cardinality(Out) - 1
      BY <1>3, <2>3, FS_RemoveElement
    <3>2. Cardinality(Out) <= interrupted + 1
      <4>1. Allowed(active) \in Nat /\ Allowed(active) <= interrupted + 1
        BY <1>1 DEF Allowed
      <4>2. QED
        BY <1>1, <1>3, <4>1
    <3>3. Cardinality(Out) - 1 <= interrupted
      BY <1>1, <1>3, <3>2
    <3>4. Allowed(FALSE) = interrupted
      BY <1>1 DEF Allowed
    <3>5. QED
      BY <3>1, <3>3, <3>4
  <2>5. SoundQueue(jobs, dispatched \cup left, enqueued)
    BY <1>1, <2>3 DEF SoundQueue
  <2> HIDE DEF left
  <2>6. /\ active' \in BOOLEAN
        /\ IsFiniteSet(dispatched') /\ IsFiniteSet(running')
        /\ dispatched' \cap running' = {}
        /\ Out' \subseteq 1 .. enqueued
        /\ SoundQueue(jobs', Out', enqueued)
        /\ Cardinality(Out') <= interrupted + (IF active' THEN 1 ELSE 0)
        /\ active' => Out' # {}
        /\ jobs' # <<>> => active'
    BY <1>1, <2>1, <2>2, <2>4, <2>5, PumpSound, Zenon
  <2>7. QED
    BY <1>1, <2>1, <2>6 DEF GuardInv, Allowed
<1>7. ASSUME NEW strand \in {onStrand, TRUE}, Clear(strand) PROVE GuardInv'
  <2>1. /\ active' = FALSE /\ jobs' = <<>> /\ onStrand' \in BOOLEAN
        /\ dispatched' = dispatched /\ running' = running /\ enqueued' = enqueued
        /\ interrupted' = IF Out = {} THEN interrupted ELSE interrupted + 1
    BY <1>1, <1>7 DEF Clear
  <2>2. Out' = Out
    BY <1>2, <2>1
  <2>3. interrupted' \in Nat /\ Cardinality(Out) <= interrupted'
    <3>1. CASE Out = {}
      BY <1>1, <2>1, <3>1, FS_EmptySet
    <3>2. CASE Out # {}
      <4>1. interrupted' = interrupted + 1 /\ interrupted \in Nat
        BY <1>1, <2>1, <3>2
      <4>2. Allowed(active) \in Nat /\ Allowed(active) <= interrupted + 1
        BY <1>1 DEF Allowed
      <4>3. Cardinality(Out) \in Nat /\ Cardinality(Out) <= Allowed(active)
        BY <1>1, <1>3
      <4>4. QED
        BY <4>1, <4>2, <4>3
    <3>3. QED
      BY <3>1, <3>2
  <2>4. SoundQueue(jobs', Out', enqueued')
    BY <2>1 DEF SoundQueue
  <2>5. Out' \subseteq 1 .. enqueued'
    BY <1>1, <2>1, <2>2
  <2>6. Cardinality(Out') <= interrupted' + (IF active' THEN 1 ELSE 0)
    <3>1. interrupted' + (IF active' THEN 1 ELSE 0) = interrupted'
      BY <2>1, <2>3
    <3>2. QED
      BY <2>2, <2>3, <3>1
  <2>7. QED
    BY <1>1, <2>1, <2>3, <2>4, <2>5, <2>6 DEF GuardInv, Allowed
<1>8. CASE UNCHANGED guardVars
  <2>1. Out' = Out
    BY <1>8 DEF Out, guardVars
  <2>2. QED
    BY <1>1, <1>8, <2>1 DEF GuardInv, Allowed, guardVars
<1>9. QED
  BY <1>4, <1>5, <1>6, <1>7, <1>8 DEF GuardNext

(* SendGuard.hpp "serializes asynchronous send work": with clear and reset *)
(* called only while no job is out, one job is out at a time, for every    *)
(* number of jobs and priorities; otherwise one more for each such call.   *)
THEOREM SerializedCorrect == GuardSpec => []Serialized
<1>1. GuardInv => Serialized
  BY DEF GuardInv, Serialized, Allowed
<1>2. QED
  BY <1>1, InitSound, NextSound, PTL DEF GuardSpec

(* A queued job always has a job out ahead of it whose completion pumps,   *)
(* also after clear and reset.                                             *)
THEOREM NeverStallsCorrect == GuardSpec => []NeverStalls
<1>1. GuardInv => NeverStalls
  BY DEF GuardInv, NeverStalls
<1>2. QED
  BY <1>1, InitSound, NextSound, PTL DEF GuardSpec

(* enqueue keeps the queue in the order of priority, and of age within a   *)
(* priority, whatever has started and completed meanwhile.                 *)
THEOREM QueueOrderedCorrect == GuardSpec => []QueueOrdered
<1>1. GuardInv => QueueOrdered
  BY DEF GuardInv, QueueOrdered, SoundQueue
<1>2. QED
  BY <1>1, InitSound, NextSound, PTL DEF GuardSpec
=============================================================================
