---------------------------- MODULE RiverHarness ----------------------------
(***************************************************************************)
(* The River adapter (river/adapter.go): Register, Start, Enqueue,         *)
(* EnqueueMany, the dispatching worker and Stop.  River itself is external *)
(* and modelled by what the adapter relies on: a table of jobs with a      *)
(* state and an attempt, clients that fetch at most MaxWorkers of them,    *)
(* and a Stop that waits for the runs of its client until the deadline.    *)
(* Register, Start and Stop are called by one goroutine, as runner.Run     *)
(* does; Enqueue by any of Callers.                                        *)
(***************************************************************************)
EXTENDS Integers, FiniteSets

CONSTANTS
  Callers,      \* goroutines that enqueue
  Kinds,        \* job kinds
  MaxWorkers,   \* cfg.Queues["default"].MaxWorkers
  MaxAttempts,  \* cfg.MaxAttempts
  MaxBatch,     \* bound: jobs of one EnqueueMany
  MaxJobs,      \* bound: jobs
  MaxStarts,    \* bound: calls of Start that succeed
  MaxFaults     \* bound: inserts that fail while the pool is open

ASSUME ConfigAssumption == MaxWorkers \in Nat \ {0} /\ MaxAttempts \in Nat \ {0}
ASSUME BoundAssumption ==
  MaxBatch \in Nat /\ MaxJobs \in Nat /\ MaxStarts \in Nat /\ MaxFaults \in Nat

VARIABLES
  workers,    \* kinds with a registered WorkerFunc
  started,
  client,     \* the client of the last Start; 0 is nil
  stopped,    \* clients that were told to stop
  main,       \* "ready", or "stopping" inside Stop
  poolOpen,
  caller,     \* caller[c]: before or after reading h.client in Enqueue
  job,        \* River's job table
  faults

vars == <<workers, started, client, stopped, main, poolOpen, caller, job, faults>>

Jobs == 1..MaxJobs
Classes == {"none", "transient", "permanent"}   \* payload.FailWithError
Args == [kind : Kinds, class : Classes]

Running(k) == {j \in DOMAIN job : job[j].state = "running" /\ job[j].by = k}
Live == {k \in 1..client : k \notin stopped}

----------------------------------------------------------------------------
Register(k) ==
  /\ main = "ready"
  /\ ~started
  /\ k \notin workers
  /\ workers' = workers \cup {k}
  /\ UNCHANGED <<started, client, stopped, main, poolOpen, caller, job, faults>>

\* Mutant: the client is configured without queues, so that it only inserts.
StartWithoutQueues ==
  /\ main = "ready"
  /\ ~started
  /\ poolOpen
  /\ client < MaxStarts
  /\ client' = client + 1
  /\ stopped' = stopped \cup {client + 1}
  /\ started' = TRUE
  /\ UNCHANGED <<workers, main, poolOpen, caller, job, faults>>

\* On a closed pool the new client does not start and nothing changes.
Start ==
  /\ main = "ready"
  /\ ~started
  /\ poolOpen
  /\ client < MaxStarts
  /\ client' = client + 1
  /\ started' = TRUE
  /\ UNCHANGED <<workers, stopped, main, poolOpen, caller, job, faults>>

(* Enqueue and EnqueueMany *)

EnqueueCheck(c) ==
  /\ caller[c] = "idle"
  /\ client # 0
  /\ caller' = [caller EXCEPT ![c] = "insert"]
  /\ UNCHANGED <<workers, started, client, stopped, main, poolOpen, job, faults>>

\* One job, or all of a batch at once; whether the kind has a worker, and
\* whether the client still runs, is not asked.
Insert(c, batch) ==
  /\ caller[c] = "insert"
  /\ poolOpen
  /\ LET n == Cardinality(DOMAIN job) IN
       /\ n + Cardinality(DOMAIN batch) <= MaxJobs
       /\ job' = [j \in 1..(n + Cardinality(DOMAIN batch)) |->
                    IF j <= n THEN job[j]
                    ELSE [args |-> batch[j - n], state |-> "available", attempt |-> 0, by |-> 0]]
  /\ caller' = [caller EXCEPT ![c] = "idle"]
  /\ UNCHANGED <<workers, started, client, stopped, main, poolOpen, faults>>

InsertError(c) ==
  /\ caller[c] = "insert"
  /\ IF poolOpen THEN faults < MaxFaults /\ faults' = faults + 1 ELSE UNCHANGED faults
  /\ caller' = [caller EXCEPT ![c] = "idle"]
  /\ UNCHANGED <<workers, started, client, stopped, main, poolOpen, job>>

----------------------------------------------------------------------------
NotByJobs == <<workers, started, client, stopped, main, poolOpen, caller, faults>>

\* River: a client that was not told to stop fetches a job.
Fetch(j) ==
  /\ poolOpen
  /\ job[j].state = "available"
  /\ \E k \in Live :
       /\ Cardinality(Running(k)) < MaxWorkers
       /\ job' = [job EXCEPT ![j].state = "running", ![j].attempt = @ + 1, ![j].by = k]
  /\ UNCHANGED NotByJobs

\* Mutant: an off-by-one in the attempt limit.
ErroredOnceMore(j) == IF job[j].attempt <= MaxAttempts THEN "retryable" ELSE "discarded"

\* River: a plain error is retried up to MaxAttempts.
Errored(j) == IF job[j].attempt < MaxAttempts THEN "retryable" ELSE "discarded"

\* Mutant: a permanent error is returned like any other.
OutcomeIgnoringClass(j) ==
  IF job[j].args.kind \notin workers THEN "cancelled"
  ELSE IF job[j].args.class = "none" THEN "completed"
  ELSE Errored(j)

\* benchWorker.Work around Simulate, whose result the payload decides.
Outcome(j) ==
  IF job[j].args.kind \notin workers \/ job[j].args.class = "permanent" THEN "cancelled"
  ELSE IF job[j].args.class = "none" THEN "completed"
  ELSE Errored(j)

\* The outcome of a run is saved, unless the pool was closed under it.
Work(j) ==
  /\ job[j].state = "running"
  /\ job' = [job EXCEPT ![j].state = IF poolOpen THEN Outcome(j) ELSE "stuck"]
  /\ UNCHANGED NotByJobs

\* River: the leader makes a job available when its back-off is over.
Reschedule(j) ==
  /\ poolOpen
  /\ Live # {}
  /\ job[j].state = "retryable"
  /\ job' = [job EXCEPT ![j].state = "available"]
  /\ UNCHANGED NotByJobs

----------------------------------------------------------------------------
(* Stop *)

StopBegin ==
  /\ main = "ready"
  /\ client # 0
  /\ started' = FALSE
  /\ stopped' = stopped \cup {client}
  /\ main' = "stopping"
  /\ UNCHANGED <<workers, client, poolOpen, caller, job, faults>>

StopDrained ==
  /\ main = "stopping"
  /\ Running(client) = {}
  /\ poolOpen' = FALSE
  /\ main' = "ready"
  /\ UNCHANGED <<workers, started, client, stopped, caller, job, faults>>

\* Mutant: the pool is closed before the error is looked at.
StopTimeoutClosing ==
  /\ main = "stopping"
  /\ Running(client) # {}
  /\ poolOpen' = FALSE
  /\ main' = "ready"
  /\ UNCHANGED <<workers, started, client, stopped, caller, job, faults>>

\* client.Stop gives up at the deadline: Stop returns its error and leaves the
\* pool, the client and the runs as they are.
StopTimeout ==
  /\ main = "stopping"
  /\ Running(client) # {}
  /\ main' = "ready"
  /\ UNCHANGED <<workers, started, client, stopped, poolOpen, caller, job, faults>>

----------------------------------------------------------------------------
Init ==
  /\ workers = {}
  /\ started = FALSE
  /\ client = 0
  /\ stopped = {}
  /\ main = "ready"
  /\ poolOpen = TRUE
  /\ caller = [c \in Callers |-> "idle"]
  /\ job = [j \in {} |-> 0]
  /\ faults = 0

CallerStep(c) ==
  \/ EnqueueCheck(c) \/ InsertError(c)
  \/ \E n \in 1..MaxBatch : \E batch \in [1..n -> Args] : Insert(c, batch)

JobStep(j) == Fetch(j) \/ Work(j) \/ Reschedule(j)

Next ==
  \/ \E k \in Kinds : Register(k)
  \/ Start \/ StopBegin \/ StopDrained \/ StopTimeout
  \/ \E c \in Callers : CallerStep(c)
  \/ \E j \in DOMAIN job : JobStep(j)

Spec == Init /\ [][Next]_vars

\* River fetches, runs and reschedules; nobody has to enqueue, start or stop.
Fairness == \A j \in Jobs : WF_vars(j \in DOMAIN job /\ JobStep(j))

FairSpec == Spec /\ Fairness

----------------------------------------------------------------------------
(* Properties                                                              *)

Status(j) ==
  IF j \notin DOMAIN job THEN "absent"
  ELSE CASE job[j].state = "available" -> "queued"
         [] job[j].state = "running" -> "running"
         [] job[j].state = "retryable" -> "waiting"
         [] job[j].state = "completed" -> "succeeded"
         [] job[j].state \in {"cancelled", "discarded"} -> "failed"
         [] job[j].state = "stuck" -> "lost"

\* River counts an attempt when it starts, the contract when it is queued.
Attempt(j) ==
  IF j \notin DOMAIN job THEN 0
  ELSE IF job[j].state = "available" THEN job[j].attempt + 1 ELSE job[j].attempt

Contract == INSTANCE JobContract WITH
  status <- [j \in Jobs |-> Status(j)], attempt <- [j \in Jobs |-> Attempt(j)]

\* The River adapter keeps the same job contract as the platform-lib adapter,
\* through batches, failed stops and restarts on the same harness.
ImplementsContract == Contract!Spec

\* The class of the injected error decides how a job ends: a permanent one ends
\* it after one attempt, a transient one after MaxAttempts, and a job without
\* one completes; only a job whose kind has no worker is cancelled unrun.
OutcomeFollowsClass ==
  \A j \in DOMAIN job : job[j].args.kind \in workers =>
    /\ job[j].args.class = "permanent" => job[j].attempt <= 1
    /\ job[j].state = "discarded" => job[j].attempt = MaxAttempts
    /\ job[j].state = "completed" => job[j].args.class = "none"

\* No outcome is lost to a closed pool, as long as Start is not called again
\* after a Stop that returned an error.
NoOutcomeLost == (\E j \in DOMAIN job : job[j].state = "stuck") => client > 1

\* Every available job ends, or Stop is called.
EveryJobSettles ==
  \A j \in Jobs : Status(j) = "queued" ~> Status(j) \in Contract!Ended \/ ~started
=============================================================================
