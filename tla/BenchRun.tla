------------------------------- MODULE BenchRun -------------------------------
(***************************************************************************)
(* One benchmark run (runner.Run): the workload generator, a bounded       *)
(* channel of requests, the goroutines that call Enqueue, the workers that *)
(* record and count their outcomes, the resource sampler, and the main     *)
(* goroutine that waits for them in turn and writes run_end.  A request is *)
(* named by its position in the channel, and so is its job.                *)
(***************************************************************************)
EXTENDS Integers, FiniteSetsExt

CONSTANTS
  Enqueuers,    \* the cfg.EnqueueConcurrency goroutines
  Capacity,     \* capacity of the channel of requests
  MaxBurst,     \* bound: requests generated in one tick (the rate curve)
  MaxRequests,  \* bound: requests of one run
  MaxAttempts,  \* cfg.MaxAttempts of the harness
  MaxFaults     \* bound: calls that fail

\* Run replaces a concurrency that is not positive by 4.
ASSUME EnqueuersAssumption == Enqueuers # {}
ASSUME CapacityAssumption == Capacity \in Nat \ {0}
ASSUME BoundAssumption ==
  /\ MaxBurst \in Nat /\ MaxRequests \in Nat /\ MaxAttempts \in Nat \ {0}
  /\ MaxFaults \in Nat

VARIABLES
  main,         \* where Run is
  cancelled,    \* the context of Run is done (Ctrl-C)
  gen, left,    \* the generator, and what it has yet to send in this tick
  sent, taken,  \* requests put into and taken out of the channel
  enq,          \* enq[e]: what goroutine e does with which request
  sampler,
  harness,      \* "down", "up", "stopped", or "abandoned": Stop gave up on runs
  job,          \* job[r]: the job of request r in the harness and its worker
  counted,      \* enqueueCount, completedCount and failedCount
  \* The result file.
  open,
  runStart,     \* run_start is written
  outcome,      \* outcome[r]: what the enqueuer recorded about request r
  log,          \* log[r]: the worker events about request r, by kind
  runEnd,       \* the counters of run_end, NoEnd before, NoCounters after an error
  late,         \* something was recorded after run_end
  \* Bound.
  faults

genVars == <<gen, left, sent>>
fileVars == <<open, runStart, outcome, log, runEnd, late>>
vars == <<main, cancelled, genVars, taken, enq, sampler, harness, job,
          counted, fileVars, faults>>

Requests == 1..MaxRequests
NoEnd == [enqueued |-> -1, completed |-> -1, failed |-> -1]
NoCounters == [enqueued |-> -2, completed |-> -2, failed |-> -2]
Zero == [enqueued |-> 0, completed |-> 0, failed |-> 0]
NoJob == [pc |-> "absent", attempt |-> 0, err |-> FALSE]
Idle == [pc |-> "idle", req |-> 0]
Gone == [pc |-> "exit", req |-> 0]

\* The result file as RunLog describes it.
Log == INSTANCE RunLog WITH
  phase <- IF ~open THEN "closed" ELSE IF runEnd # NoEnd THEN "ended"
           ELSE IF runStart THEN "open" ELSE "new",
  end <- runEnd,
  clean <- runEnd # NoEnd /\ harness = "stopped"

\* A worker function was called for r and has not returned.
Active(r) == job[r].pc \in {"called", "running", "record"}
Over == {"ended", "failed", "closed"}

\* Recorder.Record: a write to a closed file fails, and callers ignore that.
Late == late' = (late \/ (open /\ runEnd # NoEnd))
LogEvent(r, k) == log' = [log EXCEPT ![r][k] = IF open THEN @ + 1 ELSE @]

Fault == faults < MaxFaults /\ faults' = faults + 1

Count(k) == counted' = [counted EXCEPT ![k] = @ + 1]

----------------------------------------------------------------------------
(* Run, up to the start of its goroutines *)

NotBySetup == <<cancelled, genVars, taken, sampler, job, counted, fileVars>>

RecordRunStart ==
  /\ main = "new"
  /\ main' = "register"
  /\ runStart' = TRUE
  /\ UNCHANGED <<cancelled, genVars, taken, enq, sampler, harness, job, counted,
                 open, outcome, log, runEnd, late, faults>>

Register ==
  /\ main = "register"
  /\ main' = "start"
  /\ UNCHANGED <<NotBySetup, enq, harness, faults>>

Start ==
  /\ main = "start"
  /\ main' = "generate"
  /\ harness' = "up"
  /\ gen' = "tick"
  /\ sampler' = "wait"
  /\ enq' = [e \in Enqueuers |-> Idle]
  /\ UNCHANGED <<cancelled, left, sent, taken, job, counted, fileVars, faults>>

\* run_start cannot be written, or the harness refuses a worker or its start,
\* the latter also when the context is already done.
SetupFault ==
  /\ main \in {"new", "register", "start"}
  /\ \/ main = "start" /\ cancelled /\ UNCHANGED faults
     \/ Fault
  /\ main' = "failed"
  /\ UNCHANGED <<NotBySetup, enq, harness>>

Cancel ==
  /\ main \notin Over
  /\ ~cancelled
  /\ cancelled' = TRUE
  /\ UNCHANGED <<main, genVars, taken, enq, sampler, harness, job, counted,
                 fileVars, faults>>

----------------------------------------------------------------------------
(* Generator.Run with no `dropped` callback: it blocks on a full channel.  *)

NotByGenerator == <<main, cancelled, taken, enq, sampler, harness, job, counted,
                    fileVars, faults>>

Tick ==
  /\ gen = "tick"
  /\ \E n \in 1..MaxBurst : sent + n <= MaxRequests /\ left' = n
  /\ gen' = "send"
  /\ UNCHANGED <<sent, NotByGenerator>>

Send ==
  /\ gen = "send"
  /\ sent - taken < Capacity
  /\ sent' = sent + 1
  /\ left' = left - 1
  /\ gen' = IF left = 1 THEN "tick" ELSE "send"
  /\ UNCHANGED NotByGenerator

\* Mutant: close(out) is missing.
FinishUnclosed ==
  /\ gen = "tick" \/ (gen = "send" /\ cancelled)
  /\ gen' = "gone"
  /\ left' = 0
  /\ UNCHANGED <<sent, NotByGenerator>>

\* The duration has elapsed, or the context is done; the channel is closed.
Finish ==
  /\ gen = "tick" \/ (gen = "send" /\ cancelled)
  /\ gen' = "closed"
  /\ left' = 0
  /\ UNCHANGED <<sent, NotByGenerator>>

----------------------------------------------------------------------------
(* The enqueue goroutines *)

NotByEnqueuers == <<main, cancelled, genVars, sampler, harness, open, runStart, log, runEnd>>

Take(e) ==
  /\ enq[e].pc = "idle"
  /\ taken < sent
  /\ taken' = taken + 1
  /\ enq' = [enq EXCEPT ![e] = [pc |-> "call", req |-> taken + 1]]
  /\ UNCHANGED <<NotByEnqueuers, job, counted, outcome, late, faults>>

Queued(r) == [job EXCEPT ![r] = [pc |-> "queued", attempt |-> 1, err |-> FALSE]]

EnqueueReturns(e) ==
  /\ enq[e].pc = "call"
  /\ enq' = [enq EXCEPT ![e].pc = "count"]
  /\ job' = Queued(enq[e].req)
  /\ UNCHANGED <<NotByEnqueuers, taken, counted, outcome, late, faults>>

CountEnqueued(e) ==
  /\ enq[e].pc = "count"
  /\ Count("enqueued")
  /\ enq' = [enq EXCEPT ![e].pc = "record"]
  /\ UNCHANGED <<NotByEnqueuers, taken, job, outcome, late, faults>>

RecordEnqueued(e) ==
  /\ enq[e].pc = "record"
  /\ outcome' = [outcome EXCEPT ![enq[e].req] = "enqueued"]
  /\ Late
  /\ enq' = [enq EXCEPT ![e] = Idle]
  /\ UNCHANGED <<NotByEnqueuers, taken, job, counted, faults>>

\* A call that was cancelled or lost its connection may have inserted the job all
\* the same.
EnqueueFails(e) ==
  /\ enq[e].pc = "call"
  /\ \/ cancelled /\ UNCHANGED faults
     \/ Fault
  /\ job' \in {job, Queued(enq[e].req)}
  /\ enq' = [enq EXCEPT ![e].pc = "refused"]
  /\ UNCHANGED <<NotByEnqueuers, taken, counted, outcome, late>>

\* job_failed with stage "enqueue"; failedCount is not touched.
RecordRefused(e) ==
  /\ enq[e].pc = "refused"
  /\ outcome' = [outcome EXCEPT ![enq[e].req] = "failed"]
  /\ Late
  /\ enq' = [enq EXCEPT ![e] = Idle]
  /\ UNCHANGED <<NotByEnqueuers, taken, job, counted, faults>>

\* The range over the closed and drained channel ends.
Exit(e) ==
  /\ enq[e].pc = "idle"
  /\ gen = "closed"
  /\ taken = sent
  /\ enq' = [enq EXCEPT ![e] = Gone]
  /\ UNCHANGED <<NotByEnqueuers, taken, job, counted, outcome, late, faults>>

----------------------------------------------------------------------------
(* The worker function, called by the harness for each attempt of a job    *)

NotByWorkers == <<main, cancelled, genVars, taken, enq, sampler, harness,
                  open, runStart, outcome, runEnd, faults>>

\* The harness claims the job and calls the worker function, until it is stopped.
Dispatch(r) ==
  /\ harness = "up"
  /\ job[r].pc = "queued"
  /\ job' = [job EXCEPT ![r].pc = "called"]
  /\ UNCHANGED <<NotByWorkers, counted, log, late>>

JobStarted(r) ==
  /\ job[r].pc = "called"
  /\ job' = [job EXCEPT ![r].pc = "running"]
  /\ LogEvent(r, "started")
  /\ Late
  /\ UNCHANGED <<NotByWorkers, counted>>

\* Mutant: a failure is counted as a completion.
SimulatedMiscounted(r, err) ==
  /\ job[r].pc = "running"
  /\ job' = [job EXCEPT ![r] = [pc |-> "record", attempt |-> @.attempt, err |-> err]]
  /\ Count("completed")
  /\ UNCHANGED <<NotByWorkers, log, late>>

\* Simulate returns and the outcome is counted.
Simulated(r, err) ==
  /\ job[r].pc = "running"
  /\ job' = [job EXCEPT ![r] = [pc |-> "record", attempt |-> @.attempt, err |-> err]]
  /\ Count(IF err THEN "failed" ELSE "completed")
  /\ UNCHANGED <<NotByWorkers, log, late>>

\* Mutant: the failure branch records job_completed.
RecordAlwaysCompleted(r) ==
  /\ job[r].pc = "record"
  /\ LogEvent(r, "completed")
  /\ Late
  /\ \/ job' = [job EXCEPT ![r].pc = "done"]
     \/ /\ job[r].err /\ job[r].attempt < MaxAttempts
        /\ job' = [job EXCEPT ![r] = [pc |-> "queued", attempt |-> @.attempt + 1, err |-> FALSE]]
  /\ UNCHANGED <<NotByWorkers, counted>>

\* The outcome is recorded; the harness may queue another attempt.
RecordOutcome(r) ==
  /\ job[r].pc = "record"
  /\ LogEvent(r, IF job[r].err THEN "failed" ELSE "completed")
  /\ Late
  /\ \/ job' = [job EXCEPT ![r].pc = "done"]
     \/ /\ job[r].err /\ job[r].attempt < MaxAttempts
        /\ job' = [job EXCEPT ![r] = [pc |-> "queued", attempt |-> @.attempt + 1, err |-> FALSE]]
  /\ UNCHANGED <<NotByWorkers, counted>>

----------------------------------------------------------------------------
(* The resource sampler: a select over its ticker and its context          *)

NotBySampler == <<main, cancelled, genVars, taken, enq, harness, job, counted,
                  open, runStart, outcome, log, runEnd, faults>>

SamplerTick ==
  /\ sampler = "wait"
  /\ sampler' = "record"
  /\ UNCHANGED <<late, NotBySampler>>

RecordSample ==
  /\ sampler = "record"
  /\ sampler' = "wait"
  /\ Late
  /\ UNCHANGED NotBySampler

SamplerExit ==
  /\ sampler = "wait"
  /\ cancelled \/ main = "sampler"
  /\ sampler' = "done"
  /\ UNCHANGED <<late, NotBySampler>>

----------------------------------------------------------------------------
(* Run, from the wait for the generator to its return                      *)

NotByMain == <<cancelled, genVars, taken, enq, sampler, job, counted>>

GoOn(from, to) ==
  /\ main = from
  /\ main' = to
  /\ UNCHANGED <<NotByMain, harness, fileVars, faults>>

AwaitGenerator == gen = "closed" /\ GoOn("generate", "enqueuers")

\* Mutant: enqueueWG.Wait is missing.
SkipEnqueuers == GoOn("enqueuers", "drain")

AwaitEnqueuers == (\A e \in Enqueuers : enq[e].pc = "exit") /\ GoOn("enqueuers", "drain")

\* The whole DrainTimeout passes, finished jobs or not, or the context is done.
Drain == GoOn("drain", "sampler")

\* Mutant: samplerWG.Wait is missing.
SkipSampler == GoOn("sampler", "stop")

AwaitSampler == sampler = "done" /\ GoOn("sampler", "stop")

\* Harness.Stop returns nil: every run ended, or it gave up on those left.
HarnessStops ==
  /\ main = "stop"
  /\ harness' = IF \E r \in Requests : Active(r) THEN "abandoned" ELSE "stopped"
  /\ main' = "runEnd"
  /\ UNCHANGED <<NotByMain, fileVars, faults>>

\* Harness.Stop returns an error: run_end without counters.
HarnessStopFails ==
  /\ main = "stop"
  /\ Fault
  /\ harness' = "abandoned"
  /\ runEnd' = NoCounters
  /\ main' = "failed"
  /\ UNCHANGED <<NotByMain, open, runStart, outcome, log, late>>

RecordRunEnd ==
  /\ main = "runEnd"
  /\ runEnd' = counted
  /\ main' = "ended"
  /\ UNCHANGED <<NotByMain, harness, open, runStart, outcome, log, late, faults>>

\* run_end cannot be written.
RunEndFault ==
  /\ main = "runEnd"
  /\ Fault
  /\ main' = "failed"
  /\ UNCHANGED <<NotByMain, harness, fileVars>>

\* The deferred Recorder.Close of the caller.
CloseRecorder ==
  /\ main \in {"ended", "failed"}
  /\ open' = FALSE
  /\ main' = "closed"
  /\ UNCHANGED <<NotByMain, harness, runStart, outcome, log, runEnd, late, faults>>

----------------------------------------------------------------------------
Init ==
  /\ main = "new"
  /\ cancelled = FALSE
  /\ gen = "off" /\ left = 0 /\ sent = 0 /\ taken = 0
  /\ enq = [e \in Enqueuers |-> Gone]
  /\ sampler = "off"
  /\ harness = "down"
  /\ job = [r \in Requests |-> NoJob]
  /\ counted = Zero
  /\ open = TRUE
  /\ runStart = FALSE
  /\ outcome = [r \in Requests |-> "none"]
  /\ log = [r \in Requests |-> [started |-> 0, completed |-> 0, failed |-> 0]]
  /\ runEnd = NoEnd
  /\ late = FALSE
  /\ faults = 0

Setup == RecordRunStart \/ Register \/ Start

Generate == Tick \/ Send \/ Finish

EnqueuerStep(e) ==
  \/ Take(e) \/ EnqueueReturns(e) \/ CountEnqueued(e) \/ RecordEnqueued(e)
  \/ EnqueueFails(e) \/ RecordRefused(e) \/ Exit(e)

WorkerStep(r) ==
  \/ Dispatch(r) \/ JobStarted(r) \/ (\E err \in BOOLEAN : Simulated(r, err))
  \/ RecordOutcome(r)

SamplerStep == SamplerTick \/ RecordSample \/ SamplerExit

Teardown ==
  \/ AwaitGenerator \/ AwaitEnqueuers \/ Drain \/ AwaitSampler \/ HarnessStops
  \/ RecordRunEnd \/ CloseRecorder

Next ==
  \/ Setup \/ SetupFault \/ Cancel
  \/ Generate
  \/ \E e \in Enqueuers : EnqueuerStep(e)
  \/ \E r \in Requests : WorkerStep(r)
  \/ SamplerStep
  \/ Teardown \/ HarnessStopFails \/ RunEndFault

Spec == Init /\ [][Next]_vars

\* Every goroutine of the run keeps running.  The sampler's select may prefer
\* its ticker any number of times, but not forever.  The workers owe nothing:
\* Stop gives up on them.
Fairness ==
  /\ WF_vars(Setup)
  /\ WF_vars(Send) /\ WF_vars(Finish)
  /\ \A e \in Enqueuers : WF_vars(EnqueuerStep(e))
  /\ WF_vars(RecordSample) /\ SF_vars(SamplerExit)
  /\ WF_vars(Teardown)

FairSpec == Spec /\ Fairness

----------------------------------------------------------------------------
(* Properties                                                              *)

\* Control; requests; jobs and their events.
TypeControl ==
  /\ main \in {"new", "register", "start", "generate", "enqueuers", "drain", "sampler",
               "stop", "runEnd"} \cup Over
  /\ cancelled \in BOOLEAN
  /\ sampler \in {"off", "wait", "record", "done"}
  /\ harness \in {"down", "up", "stopped", "abandoned"}
  /\ open \in BOOLEAN /\ runStart \in BOOLEAN
  /\ late \in BOOLEAN

TypeRequests ==
  /\ gen \in {"off", "tick", "send", "closed"}
  /\ sent \in Nat /\ left \in 0..MaxBurst /\ sent + left \in 0..MaxRequests
  /\ taken \in 0..sent /\ sent - taken <= Capacity
  /\ enq \in [Enqueuers -> [pc : {"idle", "call", "count", "record", "refused", "exit"},
                            req : Requests \cup {0}]]
  /\ outcome \in [Requests -> {"none", "enqueued", "failed"}]

TypeJobs ==
  /\ job \in [Requests -> [pc : {"absent", "queued", "called", "running", "record",
                                 "done"},
                           attempt : 0..MaxAttempts, err : BOOLEAN]]
  /\ log \in [Requests -> [started : 0..MaxAttempts, completed : 0..1,
                           failed : 0..MaxAttempts]]

\* Type invariant; about a request there are no more worker events than attempts,
\* and one completion at most.
TypeOK == TypeControl /\ TypeRequests /\ TypeJobs

\* When Run gets to its end, every request the generator sent has its
\* job_enqueued or job_failed event: nothing is left in the channel or with an
\* enqueuer, even when the context was cancelled while the channel was full.
EveryRequestAccounted ==
  main \in {"runEnd", "ended"} => \A r \in 1..sent : outcome[r] # "none"

\* The run writes a file as RunLog allows: about a request one attempt at a time
\* and one answer, and a run_end whose counters are ahead of the events only by the
\* workers that Stop gave up on; only those write after it.  After a Stop that
\* drained them the counters are the numbers of events, and none follow.
ImplementsRunLog == Log!Spec

\* After such a Stop run_end is the last event of the file: the enqueuers and
\* the sampler were waited for.
RunEndIsLast == late => harness = "abandoned"

\* A run always returns, also when the generator is blocked on a full channel
\* while the context is cancelled, or a worker function hangs.
RunReturns == main = "register" ~> main \in Over

=============================================================================
