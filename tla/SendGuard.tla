----------------------------- MODULE SendGuard -----------------------------
(***************************************************************************)
(* The queue of sends ordered by priority (detail/SendGuard.hpp).  A job   *)
(* runs inline, or is dispatched to the strand and runs later; it calls    *)
(* its completion once, at any time after it started.  clear and reset     *)
(* forget the queue but cannot recall a job that has been handed out.      *)
(***************************************************************************)
EXTENDS Integers, Sequences, FiniteSets

CONSTANTS
  Priorities,      (* the priorities used, lower ones first                *)
  MaxJobs,         (* bound: jobs enqueued                                 *)
  MaxClears        (* bound: calls of clear and reset                      *)

ASSUME GuardAssumption ==
  /\ Priorities \subseteq Nat
  /\ MaxJobs \in Nat
  /\ MaxClears \in Nat

VARIABLES
  jobs,            (* jobs_                                                *)
  active,          (* active_                                              *)
  onStrand,        (* strand_ # nullptr                                    *)
  dispatched,      (* jobs handed to the strand that have not started      *)
  running,         (* jobs that have started and not called back           *)
  enqueued,        (* history: number of jobs enqueued                     *)
  clears,          (* history: number of calls of clear and reset          *)
  interrupted      (* history: those made while a job was out              *)

guardVars == <<jobs, active, onStrand, dispatched, running, enqueued, clears, interrupted>>

GuardInit ==
  /\ jobs = <<>>
  /\ active = FALSE
  /\ onStrand \in BOOLEAN
  /\ dispatched = {}
  /\ running = {}
  /\ enqueued = 0
  /\ clears = 0
  /\ interrupted = 0

(* The jobs the guard has handed out *)
Out == dispatched \cup running

(* A mutant: pump does not look at active_. *)
PumpEager(queue, busy, started) ==
  IF queue = <<>>
    THEN /\ jobs' = queue
         /\ active' = busy
         /\ running' = started
         /\ UNCHANGED dispatched
    ELSE /\ jobs' = Tail(queue)
         /\ active' = TRUE
         /\ running' = started \cup {Head(queue).id}
         /\ UNCHANGED dispatched

(* pump, when jobs_ is queue, active_ is busy and the started jobs are as   *)
(* given.                                                                  *)
Pump(queue, busy, started) ==
  \/ /\ busy \/ queue = <<>>
     /\ jobs' = queue
     /\ active' = busy
     /\ running' = started
     /\ UNCHANGED dispatched
  \/ /\ ~busy /\ queue # <<>>
     /\ jobs' = Tail(queue)
     /\ active' = TRUE
     /\ IF onStrand
          THEN dispatched' = dispatched \cup {Head(queue).id} /\ running' = started
          ELSE running' = started \cup {Head(queue).id} /\ UNCHANGED dispatched

(* A mutant: a job goes before the others of its priority. *)
InsertBeforeEqual(priority) ==
  Cardinality({i \in DOMAIN jobs : jobs[i].priority < priority})

(* insertAt: behind every job whose priority is not larger *)
InsertPosition(priority) ==
  CHOOSE k \in 0 .. Len(jobs) :
    /\ \A i \in 1 .. k : jobs[i].priority <= priority
    /\ k < Len(jobs) => jobs[k + 1].priority > priority

Enqueue(priority) ==
  /\ enqueued < MaxJobs
  /\ enqueued' = enqueued + 1
  /\ LET entry == [priority |-> priority, id |-> enqueued + 1]
         k == InsertPosition(priority)
     IN  Pump(SubSeq(jobs, 1, k) \o <<entry>> \o SubSeq(jobs, k + 1, Len(jobs)),
              active, running)
  /\ UNCHANGED <<onStrand, clears, interrupted>>

(* The strand runs a dispatched job. *)
RunJob(j) ==
  /\ dispatched' = dispatched \ {j}
  /\ running' = running \cup {j}
  /\ UNCHANGED <<jobs, active, onStrand, enqueued, clears, interrupted>>

(* A mutant: the completion does not pump. *)
JobCompletesNoPump(j) ==
  /\ active' = FALSE
  /\ running' = running \ {j}
  /\ UNCHANGED <<jobs, dispatched, onStrand, enqueued, clears, interrupted>>

(* The completion of a job, whichever job the guard takes for active *)
JobCompletes(j) ==
  /\ Pump(jobs, FALSE, running \ {j})
  /\ UNCHANGED <<onStrand, enqueued, clears, interrupted>>

(* clear, and reset, which also sets the strand *)
Clear(strand) ==
  /\ clears < MaxClears
  /\ clears' = clears + 1
  /\ interrupted' = IF Out = {} THEN interrupted ELSE interrupted + 1
  /\ active' = FALSE
  /\ jobs' = <<>>
  /\ onStrand' = strand
  /\ UNCHANGED <<dispatched, running, enqueued>>

GuardNext ==
  \/ \E p \in Priorities : Enqueue(p)
  \/ \E j \in dispatched : RunJob(j)
  \/ \E j \in running : JobCompletes(j)
  \/ \E strand \in {onStrand, TRUE} : Clear(strand)

GuardSpec == GuardInit /\ [][GuardNext]_guardVars

-----------------------------------------------------------------------------
(* SendGuard.hpp: "Serializes asynchronous send work".  One job is out at  *)
(* a time as long as clear and reset are called while none is; each call   *)
(* made while a job is out admits one more for good, since the completion  *)
(* of the old job frees the guard in the name of the new one.              *)
Serialized ==
  Cardinality(Out) <= interrupted + (IF active THEN 1 ELSE 0)

(* A queued job never waits for nothing: some job is out whose completion  *)
(* will pump, interrupted or not.                                          *)
NeverStalls == jobs # <<>> => active /\ Out # {}

(* SendGuard.hpp: "gives lower numeric priority first".  Among jobs of one *)
(* priority, the one enqueued first starts first.                          *)
QueueOrdered ==
  \A i, j \in DOMAIN jobs : i < j =>
    \/ jobs[i].priority < jobs[j].priority
    \/ jobs[i].priority = jobs[j].priority /\ jobs[i].id < jobs[j].id
=============================================================================
