# A verification of queue-benchmark in TLA+

The repository compares two Postgres job queues, River and platform-lib
(rsqueue), under the same workloads.  The numbers it publishes are only worth
something if both adapters run the same jobs the same number of times, lose
none, shut down cleanly, if the workload is what the scenario says, if the result
file tells what happened, and if the report tells what is in the files.  This
directory models that program, model-checks it with TLC on small
instances and proves with TLAPS, for every instance, all of its safety properties
and refinements.

## 1. Inventory

| Component | State | Operations | Works with |
|---|---|---|---|
| platlib store (`platlib/store.go`, `schema.sql`) | tables `queue`, `queue_permits`, `queue_failure`; an optional transaction; pending notifications | QueuePush, QueuePushAddressed, QueuePop, QueueDelete, QueueAddressedComplete, IsQueueAddressComplete, BeginTransactionQueue, CompleteTransaction | called by rsqueue's DatabaseQueue and agent; wakes sleeping workers through an in-process broadcast |
| platlib adapter (`platlib/adapter.go`) | registered workers, `started`, `stopCh`, wait group of back-off goroutines, pool, work-id counter | New, Register, Start, Enqueue, EnqueueMany, benchRunner.Run, Stop | pushes through the queue, is called back by the agent, re-enqueues from the runner and from goroutines |
| River adapter (`river/adapter.go`) | registered workers, `started`, client, pool | New, Register, Start, Enqueue, EnqueueMany, benchWorker.Work, Stop | inserts through a River client, is called back by it |
| contract and simulation (`queue.go`, `harness.go`) | none | Harness, WorkerFunc, ErrorClass, Simulate, Config.Validate | implemented by the two adapters |
| runner (`runner.go`) | three counters, channel of requests, goroutines, contexts | Run | drives a harness, records events |
| generator (`workload.go`, `scenarios.go`) | spec, total weight, tenants, random generator, ticker | SpecFor, NewGenerator, Generator.Run, nextRequest, pickTenant, pickKind, buildPayload | feeds the runner's channel |
| recorder (`recorder.go`) | the JSONL file behind a mutex | Record, Close | written by everybody |
| analyzer (`analyze.go`) | maps from jobs to times and tenants while it reads a file | Analyze, AnalyzeDir, GroupRuns, RenderMarkdown | reads the files afterwards |
| command line, scripts, test helpers | none | | start and stop the rest |

What is hard here:

- *Concurrency in the store.*  A pop is four statements, a delete two, a
  recorded failure two, a completeness poll two; only the claim is in a
  transaction, and its commit error is discarded.
- *Waking up.*  Workers sleep on an in-process broadcast; a note sent too early
  or not at all leaves a row behind.
- *Retries that are new rows.*  The platlib adapter pushes the next attempt
  before the agent deletes the last one, or hands it to a goroutine that holds
  the only copy.
- *Shutdown.*  Stop races with runs, back-off goroutines, Enqueue calls and its
  own timeout; the two adapters treat a timeout differently.
- *Crashes.*  The tables outlive the process; claims, counters and goroutines do
  not.
- *The end of a run.*  Five kinds of goroutines must be waited for in the right
  order for run_end to be true and last.
- *Files in an unexpected order.*  Events of one job come from three goroutines;
  a worker's may precede the enqueuer's, retries repeat them, and a run that ends
  badly leaves a file without its last line.
- *Edges of numbers.*  Percentile and median indices, warm-up and burst windows,
  weights, skew and error probabilities; and Go's random map order in the report.

The full list, at its lines, is under `hazards` in `PROJECT.json`.  What makes
each component correct is the list of properties in section 3.

## 2. Modules

```
WorkQueue  <---implements---  PgStore         <--EXTENDS--  MCPgStore
JobContract <--implements---  PlatlibHarness  <--EXTENDS--  MCPlatlibHarness
     ^---------implements---  RiverHarness    <--EXTENDS--  MCRiverHarness
RunLog     <---implements---  BenchRun        <--EXTENDS--  MCBenchRun
     ^-----steps taken from--  Analyze         <--EXTENDS--  MCAnalyze
                               Report          <--EXTENDS--  MCReport
                               Workload        <--EXTENDS--  MCWorkload

X  <--EXTENDS--  X_proofs, for X = PgStore, PlatlibHarness, RiverHarness, BenchRun,
                 Analyze, Report, Workload
SumTheorems  <--EXTENDS--  BenchRun_proofs, Analyze_proofs, Report_proofs, Workload_proofs
```

**WorkQueue** is what the store promises: a committed item is ready, then held
by one worker, then done; an item whose worker disappears is stuck, and nothing
brings it back.

**PgStore** is `store.go`, one action per SQL statement.  `queue` is the table
with uncommitted inserts in it; `Visible` is what other transactions see.  A
worker walks through `Get`, `Precount`, `InsertPermit`, `Claim` (or
`ClaimNothing`), `CommitClaim`, `Finish`, `ClearFailure`, `InsertFailure`,
`DeleteRow`, `DeletePermit`, `NotifyDeleted`.  Between `Claim` and `CommitClaim`
the row is locked (`Locked`) and skipped by others.  Producers push singly or
inside `BeginTransactionQueue` ... `Commit`/`Rollback`; their notes are sent one
by one after the commit (`Notify`).  Pollers make the two queries of
IsQueueAddressComplete.  `*Fault` actions fail a statement, `Crash` ends the
process and starts it again on the same tables.  `CommitClaimLost`, the
discarded commit error, is part of `LossySpec` only, so that what holds without
it can be told apart from what it breaks.  A failing query of a poll, a failing
BeginTx and NotifyExtend, QueuePermits and QueuePeek change no state and are
left out.

Modelled from how `store.go` and `adapter.go` use them, and therefore
assumptions: DatabaseQueue.Get subscribes before its first pop and pops again
after a notification; a notification reaches every subscriber; the agent records
the outcome of addressed work and then deletes the row, and does not retry
either; a row lock makes SKIP LOCKED pass over the row; an INSERT of an address
that another open transaction inserted waits for it.

**JobContract** is what a harness promises about a job: attempts run one at a
time, in order, none twice, at most MaxAttempts; a job ends succeeded, failed,
or lost.

**PlatlibHarness** is `adapter.go` above a store with atomic operations (that is
what PgStore and WorkQueue justify).  `row` holds everything ever pushed;
`place` where it is.  `EnqueueCheck` is the first half of Enqueue, the check and
the draw of a WorkID, and `EnqueuePush` or `EnqueueError` the second, so that ids
may be pushed in another order than they were drawn; a slot of the agent goes through `Pop`, one of the
four `Worker...` outcomes, perhaps `PushRetry`, `Record` and `Delete`;
`backoff` holds the rows whose retry waits in a goroutine, which ends by
`BackoffFires` or `BackoffStopped`; Stop is `StopBegin`, `StopWaited`,
then `AgentStopped`, `AgentStopTimeout` or `AgentStopFails` (any other error of the
agent, which Stop returns with the pool still open), and `ClosePool`.  After `ClosePool` every
store operation fails.  `Register`, `StartCheck` and `StartDone` come from the
goroutine that made the harness, once, as `Harness` asks; Stop may come at any
time, also before Start (`StopUnstarted`, which only closes the pool) and in the
gap where Start has given up its lock.  A Stop that finds another one under way
also is `StopUnstarted`: it closes the pool under the first, which `twice`
remembers, and `CleanStop` is about a Stop that was called once.

**RiverHarness** is `river/adapter.go` above River's job table.  Register,
Start and Stop are called by one goroutine, as Run does; a Stop that times out
leaves client and runs alive, and Start may be called again.  River's fetch,
retry and rescheduling are external.

**BenchRun** is `runner.Run` with the loop of `Generator.Run` and the recorder.
A request is named by its position in the channel, so the channel is the pair
`sent`, `taken`.  The harness is what Run sees of it: Enqueue may fail, workers
are called, Stop drains, gives up, or returns an error.  An Enqueue that returns
an error may have inserted its job; the refusal is recorded in a step of its own
(`RecordRefused`).  `Dispatch` is the harness calling the worker function and
`JobStarted` its first record, so a run that was called when Stop gave up may
record its start after run_end, and its end too.  Writing run_start or run_end may fail; the
writes whose errors the code ignores are taken to succeed while the file is open.
That Enqueue and Stop return is assumed here; for Stop it is `StopReturns` of
PlatlibHarness and the timeout of River's Stop.

**RunLog** is what the result file of a run promises: run_start first, an answer
for each request at most once, attempts of a job one after the other and never
more than MaxAttempts, and a run_end whose counters say what the file says.  A
job may start, and end, before its job_enqueued is written.  Counters may be
ahead of the events by attempts that still run, and only if the harness did not
drain (`clean` is false); then attempts may also start, end and be recorded after
run_end, until the file is closed.  BenchRun implements it.

**Analyze** is analyzeReader: one operator per case of its switch, folded over
the events.  Its files are written by the steps of RunLog itself, so that the
analyzer is checked on exactly the files the runner is shown to produce; what it
has made of a file so far is `sum`, and since the fold has no end action every
prefix is a file that was cut short between two lines.  `Break` is the process
dying within a line: a line that does not parse, like an error of the scanner,
makes Analyze return no summary, even after run_end.  `file` and `early` are history, from which
the properties compute the latencies again.  Time stamps are the recorder's,
taken under its mutex, so they do not decrease in file order; a clock that is set
back during a run is not modelled.

**Report** is what follows: AnalyzeDir reads a directory and sorts, GroupRuns
collects groups from a map (`CollectGroup` picks any key, which is the pair that
the code joins with "|", a character in no name of a library or scenario), and the rows of the
fairness tables are written one by one (`TenantRow`), each after `PickExtremes`
has come to all tenants of its run, again in any order.
Summaries are records of what the properties tell apart: rate, a count, a bag of
pickup samples, the enqueue counts of tenants.  `sort.SliceStable` (`StableSort`)
is its specification: `Ranked` puts each member behind those that precede it; the float product behind the percentile index is written with
integers, which gives the same index (compared for sizes up to 200000).

**Workload** is the generator.  A random float is a draw from `0..Grid-1`; the
samplers are operators over draws, so that a property can count them.
`SpecFor` is the table of built-in scenarios.  `Generator.Run` is `Run`, `Tick`
or `Deadline`, `Generate`, `Send`, `Drop` or `SendCancelled`; the ticker
(external) keeps one tick, with its time stamp, and skips the others.  The clock
counts ticks, so of EnqueueRate only the sign matters.  Receivers may hang.

Mutants, marked `\* Mutant:`, stand just before the definition they alter: each
is a plausible slip in the code that one property must notice.

## 3. Runs

Runs that pass:

| Run | Instance | Checks |
|---|---|---|
| `PgStore_queue` | `FairSpec`; 2 workers, 1 producer, 2 rows, 1 fault, 1 crash | `TypeOK`, `DeliveredOnce`, `PermitsBackClaims`, `NoLostWakeup`, `PermitLeakBounded`, `EveryRowIsClaimed`, `ImplementsWorkQueue` |
| `PgStore_addresses` | 2 workers, 1 producer and 1 poller on one address, 2 priorities, 2 rows, 1 fault | `OneFailureRow`, `OutcomeOnRecord`, `CompleteMeansFinished` |
| `Platlib_safety` | 2 slots, one addressed job with 3 attempts, 1 fault, 1 crash, Stop at any time | `TypeOK`, `NothingLost`, `CleanStop`, `ImplementsContract` |
| `Platlib_live` | `FairSpec`; 2 slots, 2 jobs with 3 attempts, Stop at any time | `EveryJobSettles`, `StopReturns`, `ImplementsContract` |
| `River` | `FairSpec`; 2 callers, 2 kinds, 1 worker slot, batches of 2, 2 jobs with 2 attempts, 2 starts, 1 fault | `OutcomeFollowsClass`, `NoOutcomeLost`, `ImplementsContract`, `EveryJobSettles` |
| `BenchRun` | `FairSpec`; 2 enqueuers, capacity 1, bursts of 2, 2 requests with 2 attempts, 1 fault | `TypeOK`, `EveryRequestAccounted`, `RunEndIsLast`, `RunReturns`, `ImplementsRunLog` |
| `Analyze` | 2 requests with 2 attempts, 2 tenants, warm-up 1, clock up to 2 | `SamplesAreTrue`, `TenantsAddUp`, `TotalsAgree` |
| `Report` | 7827 directories: up to 3 files of 2 scenarios, 2 libraries, 2 start times; 4 or 5 repeated runs; 3 to 106 samples; 3 tenants | `ReportIsComplete`, `PercentilesAreNearestRank`, `MediansSplitTheRuns`, `ExtremesAreExtreme` |
| `Workload` | `FairSpec`; the ten scenario names, specs with edge weights, skews and errors, five rate curves; channel of 2 | `MixIsProportional`, `SkewIsExact`, `ErrorsCompose`, `StreamFollowsCurve`, `OverrunIsBounded`, `NoneSkippedSilently`, `GeneratorCloses` |

What they show: no row of the store is handed out twice and each claim keeps its
permit whatever fails or crashes; no row waits beside a sleeping worker that
nobody will wake; an address has at most one failure row and is never complete,
without an error, under a worker's hands; both adapters run the attempts of a
job in order and none twice, and lose no job but where `JobContract` says so;
Stop returns and, called once and drained, leaves nothing claimed; a benchmark run
returns, and its file accounts for every request and ends with run_end; the
analyzer draws true samples and totals from every such file, also with events out
of order, and the report from every directory, whatever the order of Go's maps;
the generator samples in the exact proportions of its spec, follows its rate
curve, overruns by two ticks at most and closes although nobody receives.

Three runs show where a comment and the code part; each trace is short and each
finding is in `PROJECT.json` with the sentence it refutes:

| Run | What TLC finds |
|---|---|
| `PgStore_lossy` | a discarded commit error delivers a row twice |
| `Platlib_final_failure` | an exhausted addressed job leaves no failure record |
| `Workload_mix` | kind and payload of a request are drawn from two classes |

More disagreements were met while modelling and have no run of their own:

- permits and claims are not "released ... when the process restarts"
  (`store.go:147`); `PermitLeakBounded` says how many stay;
- a failure recorded between the two queries of IsQueueAddressComplete is not
  returned by that poll, against "surfaces" at `store.go:360`;
- a push does not clear the failure row of an earlier run of the address, so
  IsQueueAddressComplete answers true for a row that waits, against the comment
  at `store.go:359`;
- the "synthetic unique address" of `adapter.go:83` is a process-local counter
  (`adapter.go:556`) and meets the rows of an earlier process;
- two concurrent calls of the platlib Start both pass its check
  (`adapter.go:227`), and Start, Stop, Start, Stop closes `stopCh` twice
  (`adapter.go:365`), which panics; the runner does neither;
- River's Start after a Stop that timed out runs beside the old client, above the
  cap of `harness.go:32`;
- `harness.go:25` says that Stop forces a teardown after ShutdownTimeout, but the
  River adapter returns at `river/adapter.go:229` and closes nothing;
- `runner.go:40` says that a harness can be used again after Run, but Run
  registers the same kinds again and both adapters refuse that;
- the comment of AnalyzeDir (`analyze.go:242`) says "sorted by (library,
  scenario, start_time)"; the code puts the scenario first, like GroupRuns;
- tenants with equal enqueue counts are told apart by map order in pickExtremes,
  so the P95s in a row of the fairness table can differ between two reports over
  the same files; `ExtremesAreExtreme` is what does hold;
- a retry adds a pickup sample measured from the first enqueue, so back-off counts
  as pickup latency;
- the median of an even number of runs is the upper of the two in the middle;
- the default mix has a mean of about 245 ms of work (60 % of 17.5, 20 % of 85,
  15 % of 450, 5 % of 3000), not the "~100ms" of `scenarios.go:109` and `:126`, so
  high_scale asks for about 73 of 100 workers, not 30.

**Bounds.**  Two workers are what a claim race and a wake-up need (one that
holds or pushes, one that looks or sleeps).  Two rows let one row be taken while
another is looked at.  Faults and crashes are bounded by one each, anywhere: every
property here is about what one of them leaves behind.  Three attempts give a
first, a middle and a last one, of which `Delayed` makes one a back-off.  The
Platlib runs have one client; several, whose ids are drawn in one order and pushed
in another, are covered by the proofs.  In
BenchRun and Workload the channel is smaller than a burst, so that the generator
blocks.  In Analyze two jobs and two tenants meet in every way (same tenant or
not, one enqueued before the other's completion), and the clock has one instant
in the warm-up and two after it.  Report's bags have the sizes around 1, 20 and
100 at which an index moves.  `Grid` is 20, the coarsest grid on which every
probability and weight of the scenarios is a whole number of draws; the built-in
scenarios run for one tick only (`--duration`), since their samplers are what is
checked, and the streams use curves of the same shape at a smaller scale.
`MaxLag` lets receivers hang until two ticks after the end, where time stands
still and the ticker goes on.
Symmetry is used in the runs without liveness properties only, over workers,
producers, slots, requests or tenants, none of which is named or ordered by a
definition.

**Deadlock** is checked in the PgStore runs.  The other models come to a
legitimate rest (all jobs enqueued and ended, harness stopped, run returned), so
their configurations turn it off; `StopReturns`, `RunReturns` and
`EveryJobSettles` say what must not be stuck.

**Fairness.**  A goroutine that can run is run: weak fairness of each worker,
back-off goroutine and enqueuer, and of the remaining steps of Stop and Run once
called; River fetches, runs and reschedules a job that it can.  Nobody is forced to push, enqueue, cancel or stop, and no fault or
crash has to happen.  A worker function may hang: `PlatlibHarness!FairSpec`
gives the slots no fairness, only the agent's stop timeout, which is a timer, so
`StopReturns` needs no help from them; `EveryJobSettles` has the fairness of the
slots as its premise.  In BenchRun the sampler's select has strong fairness for
its exit: Go chooses among ready cases at random, so the ticker cannot win for
ever.  In Workload only the generator's goroutine and the clock are fair; nobody
has to receive or to cancel, because an enqueuer may hang in Enqueue.

## 4. Proofs

The runs check small instances; the theorems below hold for every value of the
constants that satisfies the named ASSUMEs: any number of workers, slots,
producers, callers, enqueuers, rows, requests, attempts, faults and crashes.
`Spec` is the specification without fairness.

| Module | Theorem | States |
|---|---|---|
| `PgStore_proofs` | `TypeCorrect` | `Spec => []TypeOK` |
| | `NoRowIsDeliveredTwice` | `Spec => []DeliveredOnce` |
| | `EveryClaimHasItsPermit` | `Spec => []PermitsBackClaims` |
| | `StoreImplementsWorkQueue` | `Spec => ImplementsWorkQueue` |
| | `NoSecondFailureRow` | `Spec => []OneFailureRow` |
| | `OutcomeIsOnRecord` | `Spec => []OutcomeOnRecord` |
| | `CompleteIsFinished` | `Spec => CompleteMeansFinished` (an action property) |
| | `PermitLeaksAreBounded` | `Spec => []PermitLeakBounded` |
| | `NoWakeupIsLost` | `Spec => []NoLostWakeup` |
| `PlatlibHarness_proofs` | `TypeCorrect` | `Spec => []TypeOK` |
| | `NothingIsLost` | `Spec => []NothingLost` |
| | `StopIsClean` | `Spec => []CleanStop` |
| | `PlatlibKeepsContract` | `Spec => ImplementsContract` |
| `RiverHarness_proofs` | `OutcomesFollowClasses` | `Spec => []OutcomeFollowsClass` |
| | `NoOutcomeIsLost` | `Spec => []NoOutcomeLost` |
| | `RiverKeepsContract` | `Spec => ImplementsContract` |
| `BenchRun_proofs` | `TypeCorrect` | `Spec => []TypeOK` |
| | `AllAreAccounted` | `Spec => []EveryRequestAccounted` |
| | `RunEndStaysLast` | `Spec => []RunEndIsLast` |
| | `RunWritesRunLog` | `Spec => ImplementsRunLog` |
| `Analyze_proofs` | `TotalsAlwaysAgree` | `Spec => []TotalsAgree` |
| | `TenantsShareTheRun` | `Spec => []TenantsAddUp` |
| | `SamplesStayTrue` | `Spec => []SamplesAreTrue` |
| `Report_proofs` | `ReportsStayComplete` | `Spec => []ReportIsComplete` |
| | `PercentilesStayNearestRank` | `Spec => []PercentilesAreNearestRank` |
| | `MediansAlwaysSplit` | `Spec => []MediansSplitTheRuns` |
| | `ExtremesStayExtreme` | `Spec => []ExtremesAreExtreme` |
| `Workload_proofs` | `NoneIsSkippedSilently` | `Spec => []NoneSkippedSilently` |
| | `OverrunStaysBounded` | `Spec => []OverrunIsBounded` |
| | `StreamKeepsToCurve` | `Spec => []StreamFollowsCurve` |
| | `MixStaysProportional` | `Spec => []MixIsProportional` |
| | `SkewStaysExact` | `Spec => []SkewIsExact` |
| | `ErrorsAlwaysCompose` | `Spec => []ErrorsCompose` |

Every invariant, action property and refinement that a run checks is one of these;
`SumTheorems` holds the lemmas about sums that four of the modules share.

**Assumptions.**  Bounds are natural numbers, limits on attempts and workers
positive.  Beyond that: NULL is not an address, and the workers of a store are
finitely many (`PgStore`); there is at least one enqueuer, since `runner.go:44`
replaces zero by four (`BenchRun`); the specs of a generator have a natural
duration, window and multiplier and an integral rate, as Burst and the scenarios
do, skew and error rates are fractions, no class is listed twice, and the grid of
draws can express the weights of the mix, so that shares can be whole numbers
(`Workload`); a file has finitely many requests and tenants, and the error classes
are those of `queue.go` (`Analyze`); the entries of a directory are records as
Analyze yields them, with finite bags and maps (`DirsAssumption` of `Report`).  Through `Spec`, the PgStore theorems assume that the commit of a
claim does not fail unnoticed; `PgStore_lossy` shows what happens if it does.

**The arguments.**  No property above is inductive alone.  Each module states the
inductive invariant it needs.  A proof has one lemma per action or per group of actions with the same
effect; the steps that leave the invariant's variables alone or shrink what it
speaks of are handled once (`QuietStep`, `SilentStep`, `HarnessStep`, `Unmoved`).

*PgStore, delivery* (`IInv` of `PgStore_proofs`):

- `RowsInv`: uncommitted rows are in the table, unclaimed, of one producer only,
  and ids are below the sequence;
- `ClaimsInv`, `PermittedInv`: permits in use are below their sequence, differ,
  and are in `queue_permits`;
- `DeliveriesInv`: a row in the table is unclaimed exactly when it was never
  delivered, which is why it can be claimed at most once;
- `LockedInv`: the row an open pop locked is visible, unclaimed and matches;
- `OwnedInv`: a worker between claim and delete has its permit on its row;
- `WorkersApart`: two workers never hold the same permit or the same row.

The refinement maps a step to `Push` (a plain push or a commit that makes rows
appear), `Pop` (the commit of a claim), `Complete` (DeleteRow), `Lose` (a crash
or a failed delete) or to nothing, by the same invariant.

*PgStore, outcomes.*  `AddressInv` adds the UNIQUE index over uncommitted rows,
that a worker knows the address of its row, and that the insert of a failure
finds none; so two workers never own the same address, and the two statements of
QueueAddressedComplete cannot interleave for one address.  `LeakInv` adds that a
worker without work holds no permit: a fault leaks one permit, a crash one per
worker.  `WakeInv` counts: while somebody sleeps unsignalled and no producer is
about to notify, there are at most as many claimable rows as workers that look.
A looker that leaves takes a row with it, and a claim that is rolled back brings
its worker back with the row.  `NoLostWakeup` alone is not inductive: with one
looker and two rows it would break at the next claim.

*PlatlibHarness.*  The rows of a job carry its attempts in order (`OrderInv`), so
one row is the last, and a job is where its last row is: ready, in one slot, in
one goroutine, or ended (`ReadyInv`, `SlotInv`, `SlotsApart`, `BackoffInv`).  A WorkID that a
client has drawn and not yet pushed is its alone and in no row (`ClientInv`).  The
bound on the table is an injection of the rows into jobs and attempts.  `LossInv`
and `ClaimInv` say what holds as long as nothing has gone wrong, and `ProcessInv`
how far Stop has come, and what a second Stop may have done under it.  All pushes are one lemma (`HandoverInv`): a row is added
for a job whose last row gives up its slot or its goroutine in the same step.
The refinement reads a job's status off its last row (`MapFacts`) and shows that
a step changes what at most one last row says, except a crash, which is the
contract's `Lose` of all jobs that ran or waited; the deletion of a finished row,
which may come after the next attempt was popped, is a step of no job.

*RiverHarness.*  `Sound(j)` relates a job's state, attempt and class; `PoolInv`
says that with a single client the pool is closed after the last run.

*BenchRun.*  `EnqInv`: a request that was taken is with exactly one enqueuer or
has its answer, and an enqueuer leaves only a channel that is closed and empty;
`StageInv`: main is past a goroutine only when it has ended; `LogInv`: the events
about a request follow its attempts.  The refinement of RunLog adds `FileInv`:
where the file is (`PhaseInv`), that an answer is recorded once (`AnswerInv`), and
that each counter is the number of its events plus the workers between counting
and recording (`CountInv`); run_end reads the counters, and `BusyWorkers` turns
that difference into attempts that still run.

*Sums.*  The library's induction theorems cannot be instantiated, but induction
over data can be had in another form: the set of the cases for which a statement
holds is an ordinary set W, and `LeastSubset` and `LeastNatural` of `SumTheorems`
find a least case outside W.  `SetInduction` and `NatSetInduction` state that, and
from them follow `SumSplit`, `SumChange`, `SumReindex` and the others for the folds
of the community modules.

*Analyze.*  `FileInv` repeats what RunLog knows of a file.  `TotalsInv` says that
the counters of the summary are the events read so far, `SharesInv` and `PickupInv`
that each tenant has its part of them, where jobs that completed before their
tenant was known (`early`) are the exception.  The summary is readable until a
line is broken, and nothing is written after that.  `SampleInv` equates the three bags
of samples and the maps of times with what the history `file` says; its step is
`GrownMeasured`: one event more at the end of a job's list changes no latency of
another event.

*Report.*  `NearestRank` and `MedianIsMedian` follow from `NthIsNth`: the k-th
member of a finite bag exists, by induction over the bag.  `RankedLists` says that
`Ranked` lists a finite set in its order, and `SortSorts` that `StableSort` is a
sorted permutation.  `RunsInv` keeps the permutation between the runs and the
result files read (`Matches`); `OutInv` says that the groups are those of the keys
visited, each once, and ascending in the end; with `GroupMembers`, `MatchedBag` and
`MatchedTotal` that gives `ReportIsComplete`.  `TableInv` says that the rows are
those of the places before the current one in the order of the report, and that
the row in work is extreme over the tenants already visited.

*Workload.*  `OverrunInv` adds up what was sent late, what the current tick has
left and what a tick waiting in the ticker will bring.  `StreamInv` compares
`generated`, plus what the current tick has still to make, with the sum of the
curve over the ticks dealt with; skipped ticks could only have added to it.  The
samplers are functions of the draws, so their properties are counted: the draws of a
class are an interval between two multiples (`ClassDraws`), those of a tenant and of
an error class are products of intervals (`TenantShares`, `BoxCount`); the state is
needed only for the total weight (`TotalInv`).

**Only model-checked**, because the prover handles neither fairness nor ENABLED:
the liveness properties `EveryRowIsClaimed`, `EveryJobSettles` (of both adapters),
`StopReturns`, `RunReturns` and `GeneratorCloses`.

## 5. Not modelled

- Concurrent calls of Register and Start, and a second Start of the platlib
  adapter: the contract has one goroutine call them once, and the runner does.
- River's rescue of jobs that a crash left running.
- The arithmetic of throughput, means and the fairness ratio, units, and the text
  of the report.
- The seed of the random generator, payload bytes, kindCode (a hash), the length
  of a back-off.
- The context that Simulate listens to (`harness.go:92`).  In PlatlibHarness any
  run may return an error, so a cancelled one is among them; in RiverHarness the
  payload alone decides how a run ends.
- Flag parsing, signal set-up, JSON encoding, container and shell helpers, Stats.

## 6. What is left

All parts listed as modelled have their modules and runs, and all safety properties
their theorems.  Worth adding next: concurrent calls of Start and a second Start of
the platlib adapter, which the runner does not make but the interface does not
forbid by type; River's rescue of jobs left running; and what a restart does to the
addresses of the work-id counter, as a property.
