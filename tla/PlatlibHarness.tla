--------------------------- MODULE PlatlibHarness ---------------------------
(***************************************************************************)
(* The life of jobs in the platform-lib adapter (platlib/adapter.go):      *)
(* Register, Start, Enqueue, the runner with its retries and back-off      *)
(* goroutines, the agent's bookkeeping after a run, and Stop, over a queue *)
(* store whose operations are atomic (PgStore implements them).  A process *)
(* may crash and be started again on the same tables.                      *)
(***************************************************************************)
EXTENDS Integers, FiniteSets

CONSTANTS
  Slots,        \* concurrent runs the agent allows: the sum of cfg.Queues' MaxWorkers
  Clients,      \* goroutines that call Enqueue
  MaxAttempts,  \* cfg.MaxAttempts
  Delayed,      \* attempts for which opts.BackoffFn returns a positive delay
  Addressed,    \* opts.UseAddressedPush
  CanStop,      \* whether Stop is called
  MaxJobs,      \* bound: jobs enqueued by one process
  MaxFaults,    \* bound: store operations that fail while the pool is open
  MaxCrashes    \* bound: crashes

ASSUME AttemptsAssumption == MaxAttempts \in Nat \ {0}
ASSUME DelayedAssumption == Delayed \subseteq Nat
ASSUME OptionsAssumption == Addressed \in BOOLEAN /\ CanStop \in BOOLEAN
ASSUME BoundAssumption == MaxJobs \in Nat /\ MaxFaults \in Nat /\ MaxCrashes \in Nat

VARIABLES
  \* Tables.
  row,        \* row[i]: what was pushed as row i
  place,      \* place[i]: "ready", "claimed" or "deleted"
  failure,    \* WorkIDs whose address has a queue_failure row
  \* Process.
  epoch,      \* how many times the process was started again
  workers,    \* whether the kind of the jobs has a worker
  start,      \* how far Start has come: "new", "starting" or "started"
  nextWork,   \* workIDCounter
  client,     \* client[c]: the WorkID that Enqueue has drawn and not yet pushed, or 0
  slot,       \* slot[s]: the run in slot s of the agent
  backoff,    \* rows whose re-enqueue waits in a back-off goroutine
  stop,       \* how far Stop has come
  poolOpen,
  \* History and bounds.
  result,     \* result[i]: how the run of row i ended
  twice,      \* a second Stop closed the pool while or after the first one ran
  faults

tables == <<row, place, failure>>
life == <<epoch, workers, start, twice>>
vars == <<tables, life, nextWork, client, slot, backoff, stop, poolOpen, result, faults>>

WorkIDs == 1..MaxJobs
Jobs == (0..MaxCrashes) \X WorkIDs
RowIds == DOMAIN row
MaxRows == MaxJobs * MaxAttempts * (MaxCrashes + 1)

NoRun == [pc |-> "free", id |-> 0, err |-> FALSE]

\* h.started: Start sets it in its last step and Stop clears it in its first.
Started == start = "started" /\ stop = "no"

(* The queue: rows are served in the order of their ids, all have the same *)
(* priority (opts.DefaultPriority).                                        *)

Ready == {i \in RowIds : place[i] = "ready"}

PushRow(r) ==
  LET i == Cardinality(RowIds) + 1 IN
  /\ row' = [k \in RowIds \cup {i} |-> IF k = i THEN r ELSE row[k]]
  /\ place' = [k \in RowIds \cup {i} |-> IF k = i THEN "ready" ELSE place[k]]
  /\ result' = [k \in RowIds \cup {i} |-> IF k = i THEN "none" ELSE result[k]]

\* The UNIQUE address, derived from the WorkID, of a row still in the table.
AddressTaken(n) ==
  \E i \in RowIds : row[i].addressed /\ row[i].work = n /\ place[i] # "deleted"

StoreWorks == poolOpen /\ UNCHANGED faults

StoreFails ==
  IF poolOpen THEN faults < MaxFaults /\ faults' = faults + 1 ELSE UNCHANGED faults

----------------------------------------------------------------------------
(* Register and Start, from the goroutine that made the harness; Start once *)

Register ==
  /\ start = "new"
  /\ ~workers
  /\ workers' = TRUE
  /\ UNCHANGED <<tables, epoch, start, twice, nextWork, client, slot, backoff, stop, poolOpen,
                 result, faults>>

\* The check of `started`, after which Start gives up the lock.
StartCheck ==
  /\ start = "new"
  /\ start' = "starting"
  /\ UNCHANGED <<tables, epoch, workers, twice, nextWork, client, slot, backoff, stop, poolOpen,
                 result, faults>>

\* The runners of the registered kinds are added, and the agent runs.
StartDone ==
  /\ start = "starting"
  /\ start' = "started"
  /\ UNCHANGED <<tables, epoch, workers, twice, nextWork, client, slot, backoff, stop, poolOpen,
                 result, faults>>

----------------------------------------------------------------------------
(* Enqueue *)

\* The checks, and the draw of a WorkID: no lock is held until the push.
EnqueueCheck(c) ==
  /\ client[c] = 0
  /\ Started /\ workers
  /\ nextWork <= MaxJobs
  /\ client' = [client EXCEPT ![c] = nextWork]
  /\ nextWork' = nextWork + 1
  /\ UNCHANGED <<tables, life, slot, backoff, stop, poolOpen, result, faults>>

EnqueuePush(c) ==
  /\ client[c] # 0
  /\ ~(Addressed /\ AddressTaken(client[c]))
  /\ StoreWorks
  /\ PushRow([epoch |-> epoch, work |-> client[c], attempt |-> 1, addressed |-> Addressed])
  /\ client' = [client EXCEPT ![c] = 0]
  /\ UNCHANGED <<failure, life, nextWork, slot, backoff, stop, poolOpen>>

\* ErrDuplicateAddressedPush, or a failed store.
EnqueueError(c) ==
  /\ client[c] # 0
  /\ \/ Addressed /\ AddressTaken(client[c]) /\ StoreWorks
     \/ StoreFails
  /\ client' = [client EXCEPT ![c] = 0]
  /\ UNCHANGED <<tables, life, nextWork, slot, backoff, stop, poolOpen, result>>

----------------------------------------------------------------------------
(* The agent pops the oldest ready row of a kind that has a runner into a  *)
(* free slot until it is told to stop.                                     *)

Pop(s) ==
  /\ slot[s].pc = "free"
  /\ start = "started" /\ workers
  /\ stop \in {"no", "wg"}
  /\ StoreWorks
  /\ \E i \in Ready :
       /\ \A j \in Ready : i <= j
       /\ place' = [place EXCEPT ![i] = "claimed"]
       /\ slot' = [slot EXCEPT ![s] = [pc |-> "running", id |-> i, err |-> FALSE]]
  /\ UNCHANGED <<row, failure, life, nextWork, client, backoff, stop, poolOpen, result>>

(* benchRunner.Run, from the return of the WorkerFunc on. *)

Return(s, pc, err, res) ==
  /\ slot' = [slot EXCEPT ![s] = [pc |-> pc, id |-> slot[s].id, err |-> err]]
  /\ result' = [result EXCEPT ![slot[s].id] = res]

WorkerSucceeds(s) ==
  /\ slot[s].pc = "running"
  /\ Return(s, "record", FALSE, "ok")
  /\ UNCHANGED <<tables, life, nextWork, client, backoff, stop, poolOpen, faults>>

\* A permanent error, or any error of the last attempt.
WorkerFails(s) ==
  /\ slot[s].pc = "running"
  /\ Return(s, "record", TRUE, "failed")
  /\ UNCHANGED <<tables, life, nextWork, client, backoff, stop, poolOpen, faults>>

\* Mutant: an off-by-one in the attempt limit.
RetriableOnceMore(s) == slot[s].pc = "running" /\ row[slot[s].id].attempt <= MaxAttempts

\* Any other error: re-enqueue, at once or from a goroutine after the back-off.
Retriable(s) == slot[s].pc = "running" /\ row[slot[s].id].attempt < MaxAttempts

\* Mutant: bw.Attempt++ is missing.
SameAttempt(i) == [row[i] EXCEPT !.addressed = FALSE]

NextAttempt(i) == [row[i] EXCEPT !.attempt = @ + 1, !.addressed = FALSE]

WorkerRetriesNow(s) ==
  /\ Retriable(s)
  /\ NextAttempt(slot[s].id).attempt \notin Delayed
  /\ Return(s, "push", FALSE, "retry")
  /\ UNCHANGED <<tables, life, nextWork, client, backoff, stop, poolOpen, faults>>

\* Mutant: the back-off goroutine is not started.
WorkerForgetsRetry(s) ==
  /\ Retriable(s)
  /\ NextAttempt(slot[s].id).attempt \in Delayed
  /\ Return(s, "record", FALSE, "retry")
  /\ UNCHANGED <<tables, life, nextWork, client, backoff, stop, poolOpen, faults>>

WorkerRetriesLater(s) ==
  /\ Retriable(s)
  /\ NextAttempt(slot[s].id).attempt \in Delayed
  /\ backoff' = backoff \cup {slot[s].id}
  /\ Return(s, "record", FALSE, "retry")
  /\ UNCHANGED <<tables, life, nextWork, client, stop, poolOpen, faults>>

\* The immediate re-enqueue: a plain Push, also for an addressed job.
PushRetry(s) ==
  /\ slot[s].pc = "push"
  /\ StoreWorks
  /\ PushRow(NextAttempt(slot[s].id))
  /\ slot' = [slot EXCEPT ![s].pc = "record"]
  /\ UNCHANGED <<failure, life, nextWork, client, backoff, stop, poolOpen>>

PushRetryError(s) ==
  /\ slot[s].pc = "push"
  /\ StoreFails
  /\ slot' = [slot EXCEPT ![s] = [pc |-> "record", id |-> slot[s].id, err |-> TRUE]]
  /\ UNCHANGED <<tables, life, nextWork, client, backoff, stop, poolOpen, result>>

(* The agent after the runner: QueueAddressedComplete for addressed work,  *)
(* then QueueDelete; errors are not retried.                               *)

Record(s) ==
  /\ slot[s].pc = "record"
  /\ LET r == row[slot[s].id] IN
       \/ ~r.addressed /\ UNCHANGED <<failure, faults>>
       \/ /\ r.addressed
          /\ StoreWorks
          /\ failure' = IF slot[s].err THEN failure \cup {r.work} ELSE failure \ {r.work}
       \/ r.addressed /\ StoreFails /\ UNCHANGED failure
  /\ slot' = [slot EXCEPT ![s].pc = "delete"]
  /\ UNCHANGED <<row, place, life, nextWork, client, backoff, stop, poolOpen, result>>

Delete(s) ==
  /\ slot[s].pc = "delete"
  /\ \/ StoreWorks /\ place' = [place EXCEPT ![slot[s].id] = "deleted"]
     \/ StoreFails /\ UNCHANGED place
  /\ slot' = [slot EXCEPT ![s] = NoRun]
  /\ UNCHANGED <<row, failure, life, nextWork, client, backoff, stop, poolOpen, result>>

----------------------------------------------------------------------------
(* The back-off goroutine of row i: a select over its timer and stopCh.    *)

\* Mutant: the select waits for stopCh alone.
BackoffFiresAfterStop(i) ==
  /\ i \in backoff
  /\ stop # "no"
  /\ StoreWorks
  /\ PushRow(NextAttempt(i))
  /\ backoff' = backoff \ {i}
  /\ UNCHANGED <<failure, life, nextWork, client, slot, stop, poolOpen>>

BackoffFires(i) ==
  /\ i \in backoff
  /\ \/ StoreWorks /\ PushRow(NextAttempt(i))
     \/ StoreFails /\ UNCHANGED <<row, place, result>>
  /\ backoff' = backoff \ {i}
  /\ UNCHANGED <<failure, life, nextWork, client, slot, stop, poolOpen>>

BackoffStopped(i) ==
  /\ i \in backoff
  /\ stop # "no"
  /\ backoff' = backoff \ {i}
  /\ UNCHANGED <<tables, life, nextWork, client, slot, stop, poolOpen, result, faults>>

(* Stop: close(stopCh); wg.Wait(); agent.Stop(timeout); pool.Close().      *)

NotByStop == <<tables, life, nextWork, client, slot, backoff, result, faults>>

\* A harness that is not started, or whose Stop was called before: the pool is closed,
\* under the first Stop if need be, and that is all.
StopUnstarted ==
  /\ CanStop
  /\ ~Started
  /\ poolOpen
  /\ poolOpen' = FALSE
  /\ twice' = (stop # "no")
  /\ UNCHANGED <<tables, epoch, workers, start, nextWork, client, slot, backoff, stop, result,
                 faults>>

StopBegin ==
  /\ CanStop
  /\ Started
  /\ stop' = "wg"
  /\ UNCHANGED <<poolOpen, NotByStop>>

StopWaited ==
  /\ stop = "wg"
  /\ backoff = {}
  /\ stop' = "agent"
  /\ UNCHANGED <<poolOpen, NotByStop>>

AgentStopped ==
  /\ stop = "agent"
  /\ \A s \in Slots : slot[s].pc = "free"
  /\ stop' = "drained"
  /\ UNCHANGED <<poolOpen, NotByStop>>

\* ErrAgentStopTimeout is ignored: the runs go on while Stop closes the pool.
AgentStopTimeout ==
  /\ stop = "agent"
  /\ \E s \in Slots : slot[s].pc # "free"
  /\ stop' = "timeout"
  /\ UNCHANGED <<poolOpen, NotByStop>>

\* Any other error of agent.Stop: Stop returns it and leaves the pool open.
AgentStopFails ==
  /\ stop = "agent"
  /\ stop' = "failed"
  /\ UNCHANGED <<poolOpen, NotByStop>>

\* Mutant: the pool is closed before the agent is stopped.
ClosePoolEarly ==
  /\ stop # "no"
  /\ poolOpen
  /\ poolOpen' = FALSE
  /\ UNCHANGED <<stop, NotByStop>>

\* Mutant: Stop returns ErrAgentStopTimeout instead of going on.
ClosePoolIfDrained ==
  /\ stop = "drained"
  /\ poolOpen
  /\ poolOpen' = FALSE
  /\ UNCHANGED <<stop, NotByStop>>

ClosePool ==
  /\ stop \in {"drained", "timeout"}
  /\ poolOpen
  /\ poolOpen' = FALSE
  /\ UNCHANGED <<stop, NotByStop>>

(* The process dies and is started again on the same tables.               *)

\* Mutant: the start-up makes claimed rows ready again.
CrashReleasingClaims ==
  /\ epoch < MaxCrashes
  /\ epoch' = epoch + 1
  /\ place' = [i \in RowIds |-> IF place[i] = "claimed" THEN "ready" ELSE place[i]]
  /\ workers' = FALSE
  /\ start' = "new"
  /\ twice' = FALSE
  /\ nextWork' = 1
  /\ client' = [c \in Clients |-> 0]
  /\ slot' = [s \in Slots |-> NoRun]
  /\ backoff' = {}
  /\ stop' = "no"
  /\ poolOpen' = TRUE
  /\ UNCHANGED <<row, failure, result, faults>>

Crash ==
  /\ epoch < MaxCrashes
  /\ epoch' = epoch + 1
  /\ workers' = FALSE
  /\ start' = "new"
  /\ twice' = FALSE
  /\ nextWork' = 1
  /\ client' = [c \in Clients |-> 0]
  /\ slot' = [s \in Slots |-> NoRun]
  /\ backoff' = {}
  /\ stop' = "no"
  /\ poolOpen' = TRUE
  /\ UNCHANGED <<tables, result, faults>>

----------------------------------------------------------------------------
Init ==
  /\ row = [i \in {} |-> 0]
  /\ place = [i \in {} |-> 0]
  /\ result = [i \in {} |-> 0]
  /\ failure = {}
  /\ epoch = 0
  /\ workers = FALSE
  /\ start = "new"
  /\ twice = FALSE
  /\ nextWork = 1
  /\ client = [c \in Clients |-> 0]
  /\ slot = [s \in Slots |-> NoRun]
  /\ backoff = {}
  /\ stop = "no"
  /\ poolOpen = TRUE
  /\ faults = 0

ClientStep(c) == EnqueueCheck(c) \/ EnqueuePush(c) \/ EnqueueError(c)

SlotStep(s) ==
  \/ Pop(s) \/ WorkerSucceeds(s) \/ WorkerFails(s) \/ WorkerRetriesNow(s)
  \/ WorkerRetriesLater(s) \/ PushRetry(s) \/ PushRetryError(s) \/ Record(s) \/ Delete(s)

BackoffStep(i) == BackoffFires(i) \/ BackoffStopped(i)

StopGoesOn == StopWaited \/ AgentStopped \/ AgentStopTimeout \/ AgentStopFails \/ ClosePool

StopStep == StopUnstarted \/ StopBegin \/ StopGoesOn

Next ==
  \/ Register \/ StartCheck \/ StartDone
  \/ \E c \in Clients : ClientStep(c)
  \/ \E s \in Slots : SlotStep(s)
  \/ \E i \in backoff : BackoffStep(i)
  \/ StopStep
  \/ Crash

Spec == Init /\ [][Next]_vars

\* A back-off goroutine and Stop, once called, go on; nobody has to enqueue or
\* to call Stop, and a WorkerFunc may hang.
Fairness ==
  /\ \A i \in 1..MaxRows : WF_vars(BackoffStep(i))
  /\ WF_vars(StopGoesOn)

FairSpec == Spec /\ Fairness

----------------------------------------------------------------------------
(* Properties                                                              *)

\* The tables; the process.
TypeTables ==
  /\ RowIds = 1..Cardinality(RowIds)
  /\ row \in [RowIds -> [epoch : 0..epoch, work : WorkIDs, attempt : 1..MaxAttempts,
                         addressed : BOOLEAN]]
  /\ place \in [RowIds -> {"ready", "claimed", "deleted"}]
  /\ result \in [RowIds -> {"none", "ok", "failed", "retry"}]
  /\ failure \subseteq WorkIDs

TypeProcess ==
  /\ epoch \in 0..MaxCrashes
  /\ workers \in BOOLEAN /\ start \in {"new", "starting", "started"}
  /\ nextWork \in 1..(MaxJobs + 1)
  /\ client \in [Clients -> 0..MaxJobs]
  /\ slot \in [Slots -> [pc : {"free", "running", "push", "record", "delete"},
                         id : RowIds \cup {0}, err : BOOLEAN]]
  /\ backoff \subseteq RowIds
  /\ stop \in {"no", "wg", "agent", "drained", "timeout", "failed"}
  /\ poolOpen \in BOOLEAN /\ twice \in BOOLEAN
  /\ faults \in 0..MaxFaults

\* Type invariant; the retries of all jobs are bounded, and with them the table.
TypeOK == TypeTables /\ TypeProcess /\ Cardinality(RowIds) <= MaxRows

RowsOf(j) == {i \in RowIds : row[i].epoch = j[1] /\ row[i].work = j[2]}
Last(j) == CHOOSE i \in RowsOf(j) : \A k \in RowsOf(j) : k <= i

InSlot(i, pc) == \E s \in Slots : slot[s].id = i /\ slot[s].pc = pc

\* Where job j is, read off the row that was pushed last.
Status(j) ==
  IF RowsOf(j) = {} THEN "absent"
  ELSE LET i == Last(j) IN
    CASE place[i] = "ready" -> "queued"
      [] InSlot(i, "running") -> "running"
      [] result[i] = "ok" -> "succeeded"
      [] result[i] = "failed" -> "failed"
      [] result[i] = "retry" /\ (i \in backoff \/ InSlot(i, "push")) -> "waiting"
      [] OTHER -> "lost"

Contract == INSTANCE JobContract WITH
  status <- [j \in Jobs |-> Status(j)],
  attempt <- [j \in Jobs |-> IF RowsOf(j) = {} THEN 0 ELSE row[Last(j)].attempt]

\* The adapter implements the job contract: although a retry is a new row that
\* another slot may take before the old row is deleted, a job runs one attempt
\* at a time, in order, no attempt twice, and at most MaxAttempts, also across
\* crashes and shutdowns.
ImplementsContract == Contract!Spec

\* A job is lost only by a crash of its process, a failed store operation or a
\* shutdown, never by the hand-over of a retry from runner to goroutine to
\* store.
NothingLost ==
  \A j \in Jobs : Status(j) = "lost" => j[1] < epoch \/ faults > 0 \/ stop # "no"

\* A Stop that drained the agent leaves no row claimed: the pool stays open
\* until the last QueueDelete, unless Stop is called twice.
CleanStop ==
  stop = "drained" /\ ~twice /\ epoch = 0 /\ faults = 0 =>
    \A i \in RowIds : place[i] # "claimed"

\* Every queued job ends, or Stop is called, as long as no run hangs.
EveryJobSettles ==
  (\A s \in Slots : WF_vars(SlotStep(s))) =>
    \A j \in Jobs : Status(j) = "queued" ~> Status(j) \in Contract!Ended \/ stop # "no"

\* Stop returns, even when a WorkerFunc hangs and while runs still start
\* back-off goroutines that wg.Wait counts, and with the pool closed unless the
\* agent answered with another error than its timeout.
Returned == stop = "failed" \/ (stop \in {"drained", "timeout"} /\ ~poolOpen)
StopReturns == stop = "wg" ~> Returned \/ stop = "no"

----------------------------------------------------------------------------
(* What a comment of adapter.go says and the code does not do              *)

\* "exhausted - agent records final failure" (adapter.go:476): with nothing
\* gone wrong, the failure of an addressed job is on record once its last row
\* is gone.
FinalFailureRecorded ==
  Addressed /\ epoch = 0 /\ faults = 0 /\ stop = "no" =>
    \A j \in Jobs : Status(j) = "failed" /\ place[Last(j)] = "deleted" => j[2] \in failure
=============================================================================
