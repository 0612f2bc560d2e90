--------------------------- MODULE BenchRun_proofs ---------------------------
(***************************************************************************)
(* Proofs about BenchRun, for any number of enqueuers, any capacity of the *)
(* channel and any number of requests and attempts: its type invariant,    *)
(* that every request is answered for when the run ends, that run_end is   *)
(* the last event after a Stop that drained the workers, and that the file *)
(* a run writes is one that RunLog allows.                                 *)
(***************************************************************************)
EXTENDS BenchRun, SumTheorems

Before == {"new", "register", "start"}

Busy(e) == enq[e].pc \in {"call", "count", "record", "refused"}

\* The generator has something to send exactly while it sends.
GenInv == (gen = "send") <=> (left > 0)

\* Nothing runs before Start.
SetupInv ==
  main \in Before =>
    /\ gen = "off" /\ sent = 0 /\ harness = "down" /\ runEnd = NoEnd
    /\ \A e \in Enqueuers : enq[e].pc = "exit"

\* A request that was taken is in the hands of one enqueuer or has its answer, and
\* an enqueuer only leaves a channel that is closed and empty.
EnqInv ==
  /\ \A e \in Enqueuers :
       /\ Busy(e) => enq[e].req \in 1..taken
       /\ enq[e].pc = "exit" => gen \in {"off", "closed"} /\ taken = sent
  /\ \A e, f \in Enqueuers : Busy(e) /\ Busy(f) /\ enq[e].req = enq[f].req => e = f
  /\ \A r \in Requests :
       r <= taken => outcome[r] # "none" \/ \E e \in Enqueuers : Busy(e) /\ enq[e].req = r

\* A request whose Enqueue has not returned has no job.
JobInv ==
  /\ \A r \in Requests : r > taken => job[r].pc = "absent"
  /\ \A e \in Enqueuers : enq[e].pc = "call" => job[enq[e].req].pc = "absent"

\* The events about a request follow its attempts.
LogInv(r) ==
  LET a == job[r].attempt IN
  /\ job[r].pc = "absent" => log[r].started = 0 /\ log[r].failed = 0
  /\ job[r].pc \in {"queued", "called"} => log[r].started < a /\ log[r].failed < a
  /\ job[r].pc \in {"running", "record"} => log[r].started <= a /\ log[r].failed < a
  /\ job[r].pc = "done" => log[r].started <= a /\ log[r].failed <= a
  /\ job[r].pc # "done" => log[r].completed = 0

\* Run waits for the generator, the enqueuers, the sampler and the harness in turn.
StageInv ==
  /\ main \in {"generate", "enqueuers", "drain", "sampler", "stop"} => harness = "up"
  /\ main \in {"enqueuers", "drain", "sampler", "stop", "runEnd", "ended"} => gen = "closed"
  /\ main \in {"drain", "sampler", "stop", "runEnd", "ended"} \/ runEnd # NoEnd =>
       \A e \in Enqueuers : enq[e].pc = "exit"
  /\ main \in {"stop", "runEnd", "ended"} \/ runEnd # NoEnd => sampler = "done"
  /\ main \in {"runEnd", "ended"} \/ runEnd # NoEnd => harness \in {"stopped", "abandoned"}
  /\ harness = "stopped" => \A r \in Requests : ~Active(r)

IInv ==
  /\ TypeOK /\ GenInv /\ SetupInv /\ EnqInv /\ JobInv /\ StageInv
  /\ \A r \in Requests : LogInv(r)
  /\ RunEndIsLast

LEMMA InitInv == Init => IInv
<1> SUFFICES ASSUME Init PROVE IInv
  OBVIOUS
<1> USE DEF Init
<1>1. TypeOK
  <2>1. TypeControl
    BY DEF TypeControl, Over
  <2>2. TypeRequests
    BY BoundAssumption, CapacityAssumption DEF TypeRequests, Gone
  <2>3. TypeJobs
    BY BoundAssumption DEF TypeJobs, NoJob
  <2> QED
    BY <2>1, <2>2, <2>3 DEF TypeOK
<1>2. GenInv /\ SetupInv /\ RunEndIsLast
  BY DEF GenInv, SetupInv, RunEndIsLast, Gone
<1>3. EnqInv
  BY DEF EnqInv, Busy, Gone, Requests
<1>4. JobInv /\ \A r \in Requests : LogInv(r)
  BY DEF JobInv, LogInv, NoJob, Gone
<1>5. StageInv
  BY DEF StageInv
<1> QED
  BY <1>1, <1>2, <1>3, <1>4, <1>5 DEF IInv

----------------------------------------------------------------------------
(* Steps of the main goroutine and of the sampler                          *)

\* Requests, their jobs and what is on file about them stay as they are.
Unmoved == UNCHANGED <<genVars, taken, enq, outcome, job, log>>

LEMMA UnmovedInv ==
  ASSUME IInv, Unmoved
  PROVE  GenInv' /\ EnqInv' /\ JobInv' /\ \A r \in Requests : LogInv(r)'
<1> USE DEF IInv, TypeOK, Unmoved, genVars
<1>1. GenInv'
  BY DEF GenInv
<1>2. EnqInv'
  BY DEF EnqInv, Busy
<1>3. JobInv'
  BY DEF JobInv
<1>4. \A r \in Requests : LogInv(r)'
  BY DEF LogInv
<1> QED
  BY <1>1, <1>2, <1>3, <1>4

QuietSetup == RecordRunStart \/ Register \/ SetupFault \/ Cancel \/ UNCHANGED vars

LEMMA QuietSetupInv ==
  ASSUME IInv, QuietSetup
  PROVE  IInv'
<1> USE DEF IInv, TypeOK
<1> USE DEF QuietSetup, RecordRunStart, Register, SetupFault, Cancel, NotBySetup, genVars,
            fileVars, vars
<1>1. Unmoved
  BY DEF Unmoved
<1>2. TypeOK'
  <2>1. TypeControl'
    <3>1. CASE RecordRunStart \/ Register
      BY <3>1 DEF TypeControl
    <3>2. CASE SetupFault
      BY <3>2 DEF TypeControl, Over
    <3>3. CASE Cancel \/ UNCHANGED vars
      BY <3>3 DEF TypeControl
    <3> QED
      BY <3>1, <3>2, <3>3
  <2>2. TypeRequests' /\ TypeJobs'
    BY <1>1 DEF TypeRequests, TypeJobs, Unmoved
  <2> QED
    BY <2>1, <2>2
<1>3. UNCHANGED <<runEnd, harness, sampler, late>>
  OBVIOUS
<1>4. main' \in Before => main \in Before
  BY DEF Before
<1>5. \/ main' = main
      \/ main' \in {"register", "start", "failed"}
  OBVIOUS
<1>6. SetupInv'
  BY <1>1, <1>3, <1>4 DEF SetupInv, Unmoved
<1>7. StageInv'
  BY <1>1, <1>3, <1>5 DEF StageInv, Unmoved, Active
<1>8. RunEndIsLast'
  BY <1>3 DEF RunEndIsLast
<1> QED
  BY <1>1, <1>2, <1>6, <1>7, <1>8, UnmovedInv

\* Start finds nothing of an earlier run.
LEMMA StartInv ==
  ASSUME IInv, Start
  PROVE  IInv'
<1> USE DEF IInv, TypeOK, Start, fileVars, genVars
<1>1. sent = 0 /\ taken = 0 /\ runEnd = NoEnd
  BY DEF SetupInv, StageInv, TypeRequests, Before
<1>2. TypeOK'
  <2>1. TypeControl'
    BY DEF TypeControl
  <2>2. TypeRequests'
    BY DEF TypeRequests, Idle
  <2>3. TypeJobs'
    BY DEF TypeJobs
  <2> QED
    BY <2>1, <2>2, <2>3
<1>3. GenInv' /\ SetupInv' /\ RunEndIsLast'
  BY <1>1 DEF GenInv, SetupInv, Before, RunEndIsLast, TypeControl, TypeRequests
<1>4. EnqInv' /\ JobInv'
  BY <1>1 DEF EnqInv, JobInv, Busy, Idle, Requests
<1>5. StageInv'
  BY <1>1 DEF StageInv
<1>6. \A r \in Requests : LogInv(r)'
  BY DEF LogInv
<1> QED
  BY <1>2, <1>3, <1>4, <1>5, <1>6

\* Once run_end is written the sampler is done.
LEMMA SamplerInv ==
  ASSUME IInv, SamplerStep
  PROVE  IInv'
<1> USE DEF IInv, TypeOK
<1> USE DEF SamplerStep, SamplerTick, RecordSample, SamplerExit, NotBySampler, genVars
<1>1. Unmoved /\ UNCHANGED <<main, cancelled, harness, open, runStart, runEnd>>
  BY DEF Unmoved
<1>2. sampler # "done" /\ sampler' \in {"wait", "record", "done"}
  OBVIOUS
<1>3. late' = late
  BY <1>2 DEF Late, StageInv, TypeControl
<1>4. TypeOK'
  <2>1. TypeControl'
    BY <1>1, <1>2, <1>3 DEF TypeControl
  <2>2. TypeRequests' /\ TypeJobs'
    BY <1>1 DEF TypeRequests, TypeJobs, Unmoved
  <2> QED
    BY <2>1, <2>2
<1>5. SetupInv' /\ RunEndIsLast'
  BY <1>1, <1>3 DEF SetupInv, RunEndIsLast, Unmoved
<1>6. StageInv'
  BY <1>1, <1>2 DEF StageInv, Unmoved, Active
<1> QED
  BY <1>1, <1>4, <1>5, <1>6, UnmovedInv

MainStep == Teardown \/ HarnessStopFails \/ RunEndFault

\* What Run waits for is over before it goes on.
LEMMA MainInv ==
  ASSUME IInv, MainStep
  PROVE  IInv'
<1> USE DEF IInv, TypeOK
<1> USE DEF MainStep, Teardown, AwaitGenerator, AwaitEnqueuers, Drain, AwaitSampler,
            HarnessStops, RecordRunEnd, CloseRecorder, HarnessStopFails, RunEndFault,
            GoOn, NotByMain, genVars, fileVars
<1>1. Unmoved /\ UNCHANGED <<cancelled, sampler, runStart, late>>
  BY DEF Unmoved
<1>2. main \notin Before /\ main' \notin Before
  BY DEF Before
<1>3. TypeOK'
  <2>1. main' \in {"enqueuers", "drain", "sampler", "stop", "runEnd"} \cup Over
    BY DEF Over
  <2>2. harness' \in {"down", "up", "stopped", "abandoned"} /\ open' \in BOOLEAN
    BY DEF TypeControl
  <2>3. TypeControl'
    BY <1>1, <2>1, <2>2 DEF TypeControl
  <2>4. TypeRequests' /\ TypeJobs'
    BY <1>1 DEF TypeRequests, TypeJobs, Unmoved
  <2> QED
    BY <2>3, <2>4
<1>4. SetupInv'
  BY <1>2 DEF SetupInv
<1>5. RunEndIsLast'
  <2>1. main = "stop" => ~late
    BY DEF StageInv, RunEndIsLast, TypeControl
  <2> QED
    BY <1>1, <2>1 DEF RunEndIsLast
<1>6. StageInv'
  BY <1>1 DEF StageInv, Unmoved, Active
<1> QED
  BY <1>1, <1>3, <1>4, <1>5, <1>6, UnmovedInv

----------------------------------------------------------------------------
(* Steps of the generator                                                  *)

LEMMA SumInRange ==
  ASSUME NEW x \in Nat, NEW y \in Nat, NEW m \in Nat, x + y <= m
  PROVE  x + y \in 0..m
OBVIOUS

\* It is off before Start and has closed the channel when Run goes on.
LEMMA GenerateInv ==
  ASSUME IInv, Generate
  PROVE  IInv'
<1> USE DEF IInv, TypeOK
<1>1. UNCHANGED <<main, cancelled, taken, enq, sampler, harness, job, counted, open, runStart,
                  outcome, log, runEnd, late>>
  BY DEF Generate, Tick, Send, Finish, NotByGenerator, fileVars
<1>2. gen \in {"tick", "send"} /\ gen' \in {"tick", "send", "closed"}
  BY DEF Generate, Tick, Send, Finish
<1>3. /\ left' \in 0..MaxBurst /\ (gen' = "send" <=> left' > 0)
      /\ sent' \in Nat /\ taken \in 0..sent'
      /\ sent' + left' <= MaxRequests /\ sent' - taken <= Capacity
  <2>1. /\ left \in 0..MaxBurst /\ sent \in Nat /\ taken \in 0..sent
        /\ sent + left <= MaxRequests /\ sent - taken <= Capacity
        /\ gen = "send" <=> left > 0
    BY BoundAssumption DEF TypeRequests, GenInv
  <2>2. CASE Tick
    BY <2>1, <2>2, BoundAssumption DEF Tick
  <2>3. CASE Send
    BY <2>1, <2>3, BoundAssumption, CapacityAssumption DEF Send
  <2>4. CASE Finish
    BY <2>1, <2>4, BoundAssumption DEF Finish
  <2> QED
    BY <2>2, <2>3, <2>4 DEF Generate
<1>4. TypeOK'
  <2>1. TypeControl' /\ TypeJobs'
    BY <1>1 DEF TypeControl, TypeJobs
  <2>2. sent' + left' \in 0..MaxRequests
    <3>1. sent' \in Nat /\ left' \in Nat /\ MaxRequests \in Nat
      BY <1>3, BoundAssumption
    <3>2. sent' + left' <= MaxRequests
      BY <1>3
    <3> QED
      BY <3>1, <3>2, SumInRange
  <2>3. TypeRequests'
    BY <1>1, <1>2, <1>3, <2>2 DEF TypeRequests
  <2> QED
    BY <2>1, <2>3
<1>5. GenInv' /\ RunEndIsLast'
  BY <1>1, <1>3 DEF GenInv, RunEndIsLast
<1>6. SetupInv'
  BY <1>1, <1>2 DEF SetupInv
<1>7. \A e \in Enqueuers : enq[e].pc # "exit"
  BY <1>2 DEF EnqInv
<1>8. EnqInv'
  BY <1>1, <1>7 DEF EnqInv, Busy
<1>9. JobInv' /\ \A r \in Requests : LogInv(r)'
  BY <1>1 DEF JobInv, LogInv
<1>10. StageInv'
  BY <1>1, <1>2 DEF StageInv, Active
<1> QED
  BY <1>4, <1>5, <1>6, <1>8, <1>9, <1>10

----------------------------------------------------------------------------
(* Steps of the enqueuers                                                  *)

\* An enqueuer that is not gone has not been waited for: main is where Run waits for
\* the generator or the enqueuers, and run_end is not written.
LEMMA EnqueuerFrame ==
  ASSUME IInv, NEW e \in Enqueuers, EnqueuerStep(e)
  PROVE  /\ UNCHANGED <<main, cancelled, gen, left, sent, sampler, harness, open, runStart, log,
                        runEnd, late>>
         /\ enq[e].pc # "exit"
         /\ enq' = [enq EXCEPT ![e] = enq'[e]]
         /\ main \notin Before /\ runEnd = NoEnd
         /\ main \notin {"drain", "sampler", "stop", "runEnd", "ended"}
<1> USE DEF IInv, TypeOK
<1> USE DEF EnqueuerStep, Take, EnqueueReturns, CountEnqueued, RecordEnqueued, EnqueueFails,
            RecordRefused, Exit, NotByEnqueuers, genVars
<1>1. enq[e].pc # "exit"
  OBVIOUS
<1>2. /\ main \notin Before /\ runEnd = NoEnd
      /\ main \notin {"drain", "sampler", "stop", "runEnd", "ended"}
  BY <1>1 DEF SetupInv, StageInv
<1>3. late' = late
  BY <1>2 DEF Late, TypeControl
<1>4. UNCHANGED <<main, cancelled, gen, left, sent, sampler, harness, open, runStart, log,
                  runEnd>>
  OBVIOUS
<1>5. enq' = [enq EXCEPT ![e] = enq'[e]]
  BY DEF TypeRequests
<1> QED
  BY <1>1, <1>2, <1>3, <1>4, <1>5

\* The parts of the invariant that a step of an enqueuer leaves alone.
LEMMA EnqueuerKeeps ==
  ASSUME IInv, NEW e \in Enqueuers, EnqueuerStep(e)
  PROVE  TypeControl' /\ GenInv' /\ SetupInv' /\ RunEndIsLast'
<1> USE DEF IInv, TypeOK
<1>1. /\ UNCHANGED <<main, cancelled, gen, left, sent, sampler, harness, open, runStart, log,
                     runEnd, late>>
      /\ main \notin Before
  BY EnqueuerFrame
<1> QED
  BY <1>1 DEF TypeControl, GenInv, SetupInv, RunEndIsLast

\* A new job is queued for its first attempt; no other job changes.
LEMMA NewJob ==
  ASSUME IInv, NEW r \in Requests, job[r].pc = "absent", job' = Queued(r), UNCHANGED log
  PROVE  /\ TypeJobs'
         /\ \A s \in Requests : s # r => job'[s] = job[s]
         /\ job'[r].pc = "queued"
         /\ \A s \in Requests : LogInv(s)'
<1> USE DEF IInv, TypeOK
<1>1. job'[r] = [pc |-> "queued", attempt |-> 1, err |-> FALSE]
  BY DEF TypeJobs, Queued
<1>2. \A s \in Requests : s # r => job'[s] = job[s]
  BY DEF TypeJobs, Queued
<1>3. TypeJobs'
  BY BoundAssumption DEF TypeJobs, Queued
<1>4. \A s \in Requests : LogInv(s)'
  BY <1>1, <1>2 DEF LogInv
<1> QED
  BY <1>1, <1>2, <1>3, <1>4 DEF Active

\* Take: the next request goes to one enqueuer.
LEMMA TakeInv ==
  ASSUME IInv, NEW e \in Enqueuers, Take(e)
  PROVE  IInv'
<1> USE DEF IInv, TypeOK
<1>1. EnqueuerStep(e)
  BY DEF EnqueuerStep
<1>2. /\ taken \in Nat /\ sent \in Nat /\ taken < sent /\ taken' = taken + 1
      /\ taken' \in Requests
  BY BoundAssumption DEF Take, TypeRequests, Requests
<1>3. /\ enq'[e] = [pc |-> "call", req |-> taken'] /\ enq[e].pc = "idle"
      /\ \A f \in Enqueuers : f # e => enq'[f] = enq[f]
  BY <1>2 DEF Take, TypeRequests
<1>4. UNCHANGED <<job, counted, outcome, late, faults, log, gen, sent, left>>
  BY DEF Take, NotByEnqueuers, genVars
<1>5. TypeRequests'
  <2>1. enq' \in [Enqueuers -> [pc : {"idle", "call", "count", "record", "refused", "exit"},
                                req : Requests \cup {0}]]
    BY <1>2 DEF Take, TypeRequests
  <2>2. taken' \in 0..sent /\ sent - taken' <= Capacity
    BY <1>2, CapacityAssumption DEF TypeRequests
  <2> QED
    BY <1>4, <2>1, <2>2 DEF TypeRequests
<1>6. \A f \in Enqueuers : f # e => (Busy(f)' <=> Busy(f))
  BY <1>3 DEF Busy
<1>7. ~Busy(e) /\ Busy(e)'
  BY <1>3 DEF Busy
<1>8. EnqInv'
  <2>1. ASSUME NEW f \in Enqueuers
        PROVE  /\ Busy(f)' => enq'[f].req \in 1..taken'
               /\ enq'[f].pc = "exit" => gen' \in {"off", "closed"} /\ taken' = sent'
               /\ f # e /\ Busy(f)' => enq'[f].req # taken'
    <3>1. CASE f = e
      BY <1>2, <1>3, <3>1
    <3>2. CASE f # e
      <4>1. enq[f].pc # "exit"
        BY <1>2 DEF EnqInv
      <4> QED
        BY <1>2, <1>3, <1>6, <3>2, <4>1 DEF EnqInv
    <3> QED
      BY <3>1, <3>2
  <2>2. \A f, g \in Enqueuers : Busy(f)' /\ Busy(g)' /\ enq'[f].req = enq'[g].req => f = g
    BY <1>3, <1>6, <2>1 DEF EnqInv
  <2>3. ASSUME NEW r \in Requests, r <= taken'
        PROVE  outcome'[r] # "none" \/ \E f \in Enqueuers : Busy(f)' /\ enq'[f].req = r
    <3>1. CASE r = taken'
      BY <1>3, <1>7, <3>1
    <3>2. CASE r <= taken
      <4>1. CASE outcome[r] # "none"
        BY <1>4, <4>1
      <4>2. CASE \E f \in Enqueuers : Busy(f) /\ enq[f].req = r
        BY <1>3, <1>6, <1>7, <4>2
      <4> QED
        BY <3>2, <4>1, <4>2 DEF EnqInv
    <3> QED
      BY <1>2, <2>3, <3>1, <3>2 DEF Requests
  <2> QED
    BY <2>1, <2>2, <2>3 DEF EnqInv, Busy
<1>9. JobInv'
  <2>1. \A r \in Requests : r > taken' => r > taken
    BY <1>2 DEF Requests
  <2>2. job[taken'].pc = "absent"
    BY <1>2 DEF JobInv
  <2> QED
    BY <1>3, <1>4, <2>1, <2>2 DEF JobInv
<1>10. TypeJobs' /\ \A r \in Requests : LogInv(r)'
  BY <1>4 DEF TypeJobs, LogInv
<1>11. StageInv'
  BY <1>1, <1>4, EnqueuerFrame DEF StageInv, Active
<1> QED
  BY <1>1, <1>5, <1>8, <1>9, <1>10, <1>11, EnqueuerKeeps

\* The other steps of an enqueuer: it goes on with its request, answers for it,
\* or leaves.
GoesOn(e) ==
  /\ Busy(e)
  /\ \E pc \in {"count", "record", "refused"} : enq'[e] = [enq[e] EXCEPT !.pc = pc]
  /\ UNCHANGED outcome

Answers(e) ==
  /\ Busy(e)
  /\ enq'[e] = Idle
  /\ \E o \in {"enqueued", "failed"} : outcome' = [outcome EXCEPT ![enq[e].req] = o]

Leaves(e) ==
  /\ enq[e].pc = "idle"
  /\ gen = "closed" /\ taken = sent
  /\ enq'[e] = Gone
  /\ UNCHANGED outcome

LEMMA EnqueuerMoves ==
  ASSUME IInv, NEW e \in Enqueuers, EnqueuerStep(e), UNCHANGED taken,
         GoesOn(e) \/ Answers(e) \/ Leaves(e)
  PROVE  TypeRequests' /\ EnqInv'
<1> USE DEF IInv, TypeOK
<1>1. UNCHANGED <<gen, sent, left>> /\ enq' = [enq EXCEPT ![e] = enq'[e]]
  BY EnqueuerFrame
<1>2. \A f \in Enqueuers : f # e => enq'[f] = enq[f]
  BY <1>1 DEF TypeRequests
<1>3. \A f \in Enqueuers : f # e => (Busy(f)' <=> Busy(f))
  BY <1>2 DEF Busy
<1>4. Busy(e) => enq[e].req \in Requests /\ enq[e].req \in 1..taken
  BY BoundAssumption DEF EnqInv, Requests, TypeRequests, Busy
<1>5. TypeRequests'
  <2>1. enq'[e] \in [pc : {"idle", "call", "count", "record", "refused", "exit"}, req : Requests \cup {0}]
    <3>1. CASE GoesOn(e)
      BY <1>4, <3>1 DEF GoesOn, TypeRequests
    <3>2. CASE Answers(e) \/ Leaves(e)
      BY <3>2 DEF Answers, Leaves, Idle, Gone
    <3> QED
      BY <3>1, <3>2
  <2>2. enq' \in [Enqueuers -> [pc : {"idle", "call", "count", "record", "refused", "exit"},
                                req : Requests \cup {0}]]
    BY <1>1, <2>1 DEF TypeRequests
  <2>3. outcome' \in [Requests -> {"none", "enqueued", "failed"}]
    BY <1>4 DEF GoesOn, Answers, Leaves, TypeRequests
  <2> QED
    BY <1>1, <2>2, <2>3 DEF TypeRequests
<1>6. /\ Busy(e)' => Busy(e) /\ enq'[e].req = enq[e].req
      /\ enq'[e].pc = "exit" => gen = "closed" /\ taken = sent
  BY DEF GoesOn, Answers, Leaves, Busy, Idle, Gone, TypeRequests
<1>7. ASSUME NEW r \in Requests, r <= taken
      PROVE  outcome'[r] # "none" \/ \E f \in Enqueuers : Busy(f)' /\ enq'[f].req = r
  <2>1. CASE outcome[r] # "none"
    BY <1>4, <2>1 DEF GoesOn, Answers, Leaves, TypeRequests
  <2>2. CASE \E f \in Enqueuers : Busy(f) /\ enq[f].req = r
    <3>1. PICK f \in Enqueuers : Busy(f) /\ enq[f].req = r
      BY <2>2
    <3>2. CASE f # e
      BY <1>2, <1>3, <3>1, <3>2
    <3>3. CASE f = e /\ GoesOn(e)
      BY <3>1, <3>3 DEF GoesOn, Busy, TypeRequests
    <3>4. CASE f = e /\ Answers(e)
      BY <3>1, <3>4 DEF Answers, TypeRequests
    <3>5. CASE f = e /\ Leaves(e)
      BY <3>1, <3>5 DEF Leaves, Busy
    <3> QED
      BY <3>2, <3>3, <3>4, <3>5
  <2> QED
    BY <1>7, <2>1, <2>2 DEF EnqInv
<1>8. EnqInv'
  <2>1. \A f \in Enqueuers :
          /\ Busy(f)' => Busy(f) /\ enq'[f].req = enq[f].req
          /\ enq'[f].pc = "exit" => gen \in {"off", "closed"} /\ taken = sent
    BY <1>2, <1>3, <1>6 DEF EnqInv
  <2> QED
    BY <1>1, <1>7, <2>1 DEF EnqInv, Busy
<1> QED
  BY <1>5, <1>8

\* Steps that leave the jobs alone.
LEMMA EnqueuerQuiet ==
  ASSUME IInv, NEW e \in Enqueuers,
         CountEnqueued(e) \/ RecordEnqueued(e) \/ RecordRefused(e) \/ Exit(e)
  PROVE  IInv'
<1> USE DEF IInv, TypeOK
<1>1. EnqueuerStep(e) /\ UNCHANGED <<taken, job, log>>
  BY DEF EnqueuerStep, CountEnqueued, RecordEnqueued, RecordRefused, Exit, NotByEnqueuers
<1>2. GoesOn(e) \/ Answers(e) \/ Leaves(e)
  BY DEF CountEnqueued, RecordEnqueued, RecordRefused, Exit, GoesOn, Answers, Leaves, Busy,
         TypeRequests
<1>3. enq'[e].pc # "call" /\ \A f \in Enqueuers : f # e => enq'[f] = enq[f]
  BY <1>2, EnqueuerFrame, <1>1 DEF GoesOn, Answers, Leaves, Idle, Gone, TypeRequests
<1>4. JobInv'
  BY <1>1, <1>3 DEF JobInv
<1>5. TypeJobs' /\ \A r \in Requests : LogInv(r)'
  BY <1>1 DEF TypeJobs, LogInv
<1>6. StageInv'
  BY <1>1, EnqueuerFrame DEF StageInv, Active
<1> QED
  BY <1>1, <1>2, <1>4, <1>5, <1>6, EnqueuerMoves, EnqueuerKeeps

\* Enqueue returns, or fails and has inserted the job or not.
LEMMA EnqueuerInserts ==
  ASSUME IInv, NEW e \in Enqueuers, EnqueueReturns(e) \/ EnqueueFails(e)
  PROVE  IInv'
<1> USE DEF IInv, TypeOK
<1> DEFINE r == enq[e].req
<1>1. EnqueuerStep(e) /\ UNCHANGED <<taken, log>> /\ enq[e].pc = "call"
  BY DEF EnqueuerStep, EnqueueReturns, EnqueueFails, NotByEnqueuers
<1>2. GoesOn(e)
  BY DEF EnqueueReturns, EnqueueFails, GoesOn, Busy, TypeRequests
<1>3. r \in Requests /\ r <= taken /\ taken \in Nat /\ job[r].pc = "absent"
  BY <1>1, BoundAssumption DEF EnqInv, JobInv, Busy, Requests, TypeRequests
<1>4. job' = job \/ job' = Queued(r)
  BY DEF EnqueueReturns, EnqueueFails
<1>5. /\ TypeJobs'
      /\ \A s \in Requests : s # r => job'[s] = job[s]
      /\ \A s \in Requests : LogInv(s)'
  <2>1. CASE job' = job
    BY <1>1, <2>1 DEF TypeJobs, LogInv
  <2>2. CASE job' = Queued(r)
    BY <1>1, <1>3, <2>2, NewJob
  <2> QED
    BY <1>4, <2>1, <2>2
<1>6. enq'[e].pc # "call" /\ \A f \in Enqueuers : f # e => enq'[f] = enq[f]
  BY <1>2, EnqueuerFrame, <1>1 DEF GoesOn, TypeRequests
<1>7. JobInv'
  <2>1. ASSUME NEW f \in Enqueuers, enq'[f].pc = "call" PROVE job'[enq'[f].req].pc = "absent"
    <3>1. f # e /\ enq[f].pc = "call" /\ enq'[f] = enq[f]
      BY <1>6, <2>1
    <3>2. enq[f].req # r /\ enq[f].req \in Requests
      BY <1>1, <3>1, BoundAssumption DEF EnqInv, Busy, Requests, TypeRequests
    <3> QED
      BY <1>5, <3>1, <3>2 DEF JobInv
  <2>2. \A s \in Requests : s > taken => s # r
    BY <1>3 DEF Requests
  <2> QED
    BY <1>1, <1>5, <2>1, <2>2 DEF JobInv
<1>8. StageInv'
  <2>1. \A s \in Requests : Active(s)' => Active(s)
    <3>1. job' = Queued(r) => job'[r].pc = "queued"
      BY <1>1, <1>3, NewJob
    <3> QED
      BY <1>4, <1>5, <3>1 DEF Active
  <2> QED
    BY <1>1, <2>1, EnqueuerFrame DEF StageInv
<1> QED
  BY <1>1, <1>2, <1>5, <1>7, <1>8, EnqueuerMoves, EnqueuerKeeps

----------------------------------------------------------------------------
(* Steps of the workers                                                    *)

\* A step about one request that has a job; if run_end is written, Stop has given up
\* on the worker that takes it.
WorkerChange(r) ==
  /\ UNCHANGED <<main, cancelled, genVars, taken, enq, sampler, harness, open, runStart, outcome,
                 runEnd>>
  /\ job[r].pc \notin {"absent", "done"}
  /\ job'[r].pc # "absent"
  /\ \A s \in Requests : s # r => job'[s] = job[s] /\ log'[s] = log[s]
  /\ harness # "stopped"
  /\ late' = late \/ Late

LEMMA WorkerKeeps ==
  ASSUME IInv, NEW r \in Requests, WorkerChange(r), TypeJobs', LogInv(r)'
  PROVE  IInv'
<1> USE DEF IInv, TypeOK
<1> USE DEF WorkerChange, genVars
<1>1. late' \in BOOLEAN /\ RunEndIsLast'
  BY DEF Late, RunEndIsLast, StageInv, TypeControl
<1>2. TypeControl' /\ TypeRequests'
  BY <1>1 DEF TypeControl, TypeRequests
<1>3. GenInv' /\ SetupInv'
  BY DEF GenInv, SetupInv
<1>4. EnqInv'
  BY DEF EnqInv, Busy
<1>5. JobInv'
  <2>1. ASSUME NEW e \in Enqueuers, enq[e].pc = "call"
        PROVE  enq[e].req \in Requests /\ enq[e].req # r
    BY <2>1, BoundAssumption DEF JobInv, EnqInv, Busy, Requests, TypeRequests
  <2>2. \A s \in Requests : s > taken => s # r
    BY DEF JobInv
  <2> QED
    BY <2>1, <2>2 DEF JobInv
<1>6. StageInv'
  BY DEF StageInv
<1>7. \A s \in Requests : LogInv(s)'
  BY DEF LogInv
<1> QED
  BY <1>1, <1>2, <1>3, <1>4, <1>5, <1>6, <1>7

\* The events about r: one more of one kind, or none on a closed file.
LEMMA OneMoreEvent ==
  ASSUME IInv, NEW r \in Requests, NEW k \in {"started", "completed", "failed"}, LogEvent(r, k)
  PROVE  /\ \A s \in Requests : s # r => log'[s] = log[s]
         /\ log' = [log EXCEPT ![r] = log'[r]]
         /\ \E n \in {0, 1} :
              log'[r] = [started   |-> log[r].started + (IF k = "started" THEN n ELSE 0),
                         completed |-> log[r].completed + (IF k = "completed" THEN n ELSE 0),
                         failed    |-> log[r].failed + (IF k = "failed" THEN n ELSE 0)]
<1> USE DEF IInv, TypeOK
<1>1. /\ \A s \in Requests : s # r => log'[s] = log[s]
      /\ log' = [log EXCEPT ![r] = log'[r]]
      /\ log'[r] = [log[r] EXCEPT ![k] = IF open THEN @ + 1 ELSE @]
  BY DEF TypeJobs, LogEvent
<1>2. log[r] \in [started : 0..MaxAttempts, completed : 0..1, failed : 0..MaxAttempts]
  BY DEF TypeJobs
<1> DEFINE n == IF open THEN 1 ELSE 0
<1>3. log'[r] = [started   |-> log[r].started + (IF k = "started" THEN n ELSE 0),
               completed |-> log[r].completed + (IF k = "completed" THEN n ELSE 0),
               failed    |-> log[r].failed + (IF k = "failed" THEN n ELSE 0)]
  <2>1. CASE k = "started"
    BY <1>1, <1>2, <2>1, BoundAssumption
  <2>2. CASE k = "completed"
    BY <1>1, <1>2, <2>2, BoundAssumption
  <2>3. CASE k = "failed"
    BY <1>1, <1>2, <2>3, BoundAssumption
  <2> QED
    BY <2>1, <2>2, <2>3
<1>4. n \in {0, 1}
  OBVIOUS
<1> HIDE DEF n
<1> QED
  BY <1>1, <1>3, <1>4

\* The harness calls a worker function: nothing is written yet.
LEMMA DispatchInv ==
  ASSUME IInv, NEW r \in Requests, Dispatch(r)
  PROVE  IInv'
<1> USE DEF IInv, TypeOK
<1>1. /\ job[r].pc = "queued" /\ UNCHANGED <<log, late>> /\ LogInv(r) /\ harness = "up"
      /\ job' = [job EXCEPT ![r] = [job[r] EXCEPT !.pc = "called"]]
      /\ job'[r].pc = "called" /\ job'[r].attempt = job[r].attempt
      /\ \A s \in Requests : s # r => job'[s] = job[s]
  BY DEF Dispatch, TypeJobs
<1>2. TypeJobs'
  BY <1>1 DEF TypeJobs
<1>3. LogInv(r)'
  BY <1>1 DEF LogInv
<1>4. WorkerChange(r)
  BY <1>1 DEF WorkerChange, Dispatch, NotByWorkers
<1> QED
  BY <1>2, <1>3, <1>4, WorkerKeeps

LEMMA JobStartedInv ==
  ASSUME IInv, NEW r \in Requests, JobStarted(r)
  PROVE  IInv'
<1> USE DEF IInv, TypeOK
<1>1. LogEvent(r, "started") /\ job[r].pc = "called" /\ LogInv(r) /\ harness # "stopped"
  BY DEF JobStarted, StageInv, Active
<1>2. /\ job' = [job EXCEPT ![r] = [job[r] EXCEPT !.pc = "running"]]
      /\ job'[r].pc = "running" /\ job'[r].attempt = job[r].attempt
      /\ \A s \in Requests : s # r => job'[s] = job[s]
  BY DEF JobStarted, TypeJobs
<1>3. /\ log[r].started \in Nat /\ log[r].failed \in Nat /\ log[r].completed = 0
      /\ log[r].started < job[r].attempt /\ log[r].failed < job[r].attempt
      /\ job[r].attempt \in Nat /\ job[r].attempt <= MaxAttempts
  BY <1>1, BoundAssumption DEF LogInv, TypeJobs
<1>4. /\ log'[r] = [started |-> log'[r].started, completed |-> 0, failed |-> log[r].failed]
      /\ log'[r].started \in 0..job[r].attempt
  <2>1. PICK n \in {0, 1} :
          log'[r] = [started |-> log[r].started + n, completed |-> log[r].completed + 0,
                     failed  |-> log[r].failed + 0]
    BY <1>1, OneMoreEvent
  <2> QED
    BY <1>3, <2>1
<1>5. TypeJobs'
  <2>1. log'[r] \in [started : 0..MaxAttempts, completed : 0..1, failed : 0..MaxAttempts]
    <3>1. log'[r].started \in 0..MaxAttempts /\ log[r].failed \in 0..MaxAttempts
      BY <1>3, <1>4, BoundAssumption
    <3> QED
      BY <1>4, <3>1
  <2>2. log' \in [Requests -> [started : 0..MaxAttempts, completed : 0..1,
                               failed : 0..MaxAttempts]]
    BY <1>1, <2>1, OneMoreEvent DEF TypeJobs
  <2> QED
    BY <1>2, <2>2 DEF TypeJobs
<1>6. LogInv(r)'
  BY <1>2, <1>3, <1>4 DEF LogInv
<1>7. WorkerChange(r)
  BY <1>1, <1>2, OneMoreEvent DEF JobStarted, WorkerChange, NotByWorkers, Late
<1> QED
  BY <1>5, <1>6, <1>7, WorkerKeeps

LEMMA SimulatedInv ==
  ASSUME IInv, NEW r \in Requests, NEW err \in BOOLEAN, Simulated(r, err)
  PROVE  IInv'
<1> USE DEF IInv, TypeOK
<1>1. /\ job[r].pc = "running" /\ UNCHANGED <<log, late>> /\ LogInv(r)
      /\ job'[r] = [pc |-> "record", attempt |-> job[r].attempt, err |-> err]
      /\ \A s \in Requests : s # r => job'[s] = job[s]
  BY DEF Simulated, TypeJobs
<1>2. TypeJobs'
  BY <1>1 DEF TypeJobs, Simulated
<1>3. LogInv(r)'
  BY <1>1 DEF LogInv
<1>4. harness # "stopped"
  BY <1>1 DEF StageInv, Active
<1>5. WorkerChange(r)
  BY <1>1, <1>4 DEF WorkerChange, Simulated, NotByWorkers
<1> QED
  BY <1>2, <1>3, <1>5, WorkerKeeps

LEMMA RecordOutcomeInv ==
  ASSUME IInv, NEW r \in Requests, RecordOutcome(r)
  PROVE  IInv'
<1> USE DEF IInv, TypeOK
<1> DEFINE k == IF job[r].err THEN "failed" ELSE "completed"
<1>1. LogEvent(r, k) /\ job[r].pc = "record" /\ LogInv(r) /\ k \in {"completed", "failed"}
  BY DEF RecordOutcome
<1>2. \/ job' = [job EXCEPT ![r] = [job[r] EXCEPT !.pc = "done"]]
      \/ /\ k = "failed" /\ job[r].attempt < MaxAttempts
         /\ job' = [job EXCEPT ![r] = [pc |-> "queued", attempt |-> job[r].attempt + 1,
                                       err |-> FALSE]]
  BY DEF RecordOutcome, TypeJobs
<1>3. /\ log[r].started \in Nat /\ log[r].failed \in Nat /\ log[r].completed = 0
      /\ log[r].started <= job[r].attempt /\ log[r].failed < job[r].attempt
      /\ job[r].attempt \in Nat /\ job[r].attempt <= MaxAttempts
  BY <1>1, BoundAssumption DEF LogInv, TypeJobs
<1>4. /\ \A s \in Requests : s # r => log'[s] = log[s]
      /\ log' = [log EXCEPT ![r] = log'[r]]
  BY <1>1, OneMoreEvent
<1>5. /\ log'[r] = [started |-> log[r].started, completed |-> log'[r].completed,
                    failed  |-> log'[r].failed]
      /\ k = "failed" => log'[r].completed = 0 /\ log'[r].failed \in 0..job[r].attempt
      /\ k = "completed" => log'[r].failed = log[r].failed /\ log'[r].completed \in 0..1
  <2>1. CASE k = "failed"
    <3>1. PICK n \in {0, 1} :
            log'[r] = [started |-> log[r].started + 0, completed |-> log[r].completed + 0,
                       failed  |-> log[r].failed + n]
      BY <1>1, <2>1, OneMoreEvent
    <3> HIDE DEF k
    <3> QED
      BY <1>3, <2>1, <3>1
  <2>2. CASE k = "completed"
    <3>1. PICK n \in {0, 1} :
            log'[r] = [started |-> log[r].started + 0, completed |-> log[r].completed + n,
                       failed  |-> log[r].failed + 0]
      BY <1>1, <2>2, OneMoreEvent
    <3> HIDE DEF k
    <3> QED
      BY <1>3, <2>2, <3>1
  <2> QED
    BY <1>1, <2>1, <2>2
<1> HIDE DEF k
<1>6. TypeJobs'
  <2>1. log'[r] \in [started : 0..MaxAttempts, completed : 0..1, failed : 0..MaxAttempts]
    <3>1. log[r].started \in 0..MaxAttempts /\ log'[r].failed \in 0..MaxAttempts
      BY <1>1, <1>3, <1>5, BoundAssumption
    <3>2. log'[r].completed \in 0..1
      BY <1>1, <1>5
    <3> QED
      BY <1>5, <3>1, <3>2
  <2>2. log' \in [Requests -> [started : 0..MaxAttempts, completed : 0..1,
                               failed : 0..MaxAttempts]]
    BY <1>4, <2>1 DEF TypeJobs
  <2>3. job' \in [Requests -> [pc : {"absent", "queued", "called", "running", "record", "done"},
                               attempt : 0..MaxAttempts, err : BOOLEAN]]
    <3>1. job[r].attempt < MaxAttempts => job[r].attempt + 1 \in 0..MaxAttempts
      BY <1>3, BoundAssumption
    <3>2. CASE job' = [job EXCEPT ![r] = [job[r] EXCEPT !.pc = "done"]]
      BY <3>2 DEF TypeJobs
    <3>3. CASE /\ job[r].attempt < MaxAttempts
               /\ job' = [job EXCEPT ![r] = [pc |-> "queued", attempt |-> job[r].attempt + 1,
                                             err |-> FALSE]]
      BY <3>1, <3>3 DEF TypeJobs
    <3> QED
      BY <1>2, <3>2, <3>3
  <2> QED
    BY <2>2, <2>3 DEF TypeJobs
<1>7. /\ \A s \in Requests : s # r => job'[s] = job[s]
      /\ \/ job'[r].pc = "done" /\ job'[r].attempt = job[r].attempt
         \/ k = "failed" /\ job'[r].pc = "queued" /\ job'[r].attempt = job[r].attempt + 1
  BY <1>2 DEF TypeJobs
<1>8. LogInv(r)'
  BY <1>1, <1>3, <1>5, <1>7 DEF LogInv
<1>9. harness # "stopped"
  BY <1>1 DEF StageInv, Active
<1>10. WorkerChange(r)
  BY <1>1, <1>4, <1>7, <1>9 DEF WorkerChange, RecordOutcome, NotByWorkers, Late
<1> QED
  BY <1>6, <1>8, <1>10, WorkerKeeps

----------------------------------------------------------------------------
LEMMA NextInv == IInv /\ [Next]_vars => IInv'
<1> SUFFICES ASSUME IInv, [Next]_vars PROVE IInv'
  OBVIOUS
<1>1. CASE QuietSetup
  BY <1>1, QuietSetupInv
<1>2. CASE Start
  BY <1>2, StartInv
<1>3. CASE Generate
  BY <1>3, GenerateInv
<1>4. CASE \E e \in Enqueuers : EnqueuerStep(e)
  BY <1>4, TakeInv, EnqueuerQuiet, EnqueuerInserts DEF EnqueuerStep
<1>5. CASE \E r \in Requests : WorkerStep(r)
  BY <1>5, DispatchInv, JobStartedInv, SimulatedInv, RecordOutcomeInv DEF WorkerStep
<1>6. CASE SamplerStep
  BY <1>6, SamplerInv
<1>7. CASE MainStep
  BY <1>7, MainInv
<1> QED
  BY <1>1, <1>2, <1>3, <1>4, <1>5, <1>6, <1>7 DEF Next, Setup, QuietSetup, MainStep

LEMMA SpecInv == Spec => []IInv
BY InitInv, NextInv, PTL DEF Spec

\* Every state of a run is well typed: no request has more worker events than attempts,
\* and at most one of them is a completion, whoever writes them and when.
THEOREM TypeCorrect == Spec => []TypeOK
BY SpecInv, PTL DEF IInv

\* When Run writes run_end, each request has its job_enqueued or job_failed event,
\* whatever was cancelled or failed on the way.
THEOREM AllAreAccounted == Spec => []EveryRequestAccounted
<1>1. IInv => EveryRequestAccounted
  <2> SUFFICES ASSUME IInv, main \in {"runEnd", "ended"}, NEW r \in 1..sent
               PROVE  outcome[r] # "none"
    BY DEF EveryRequestAccounted
  <2>1. \A e \in Enqueuers : enq[e].pc = "exit"
    BY DEF IInv, StageInv
  <2>2. taken = sent
    BY <2>1, EnqueuersAssumption DEF IInv, EnqInv
  <2>3. r \in Requests /\ r <= taken
    BY <2>2, BoundAssumption DEF IInv, TypeOK, TypeRequests, Requests
  <2> QED
    BY <2>1, <2>3 DEF IInv, EnqInv, Busy
<1> QED
  BY <1>1, SpecInv, PTL

\* Nothing is written after run_end unless Stop gave up on a worker.
THEOREM RunEndStaysLast == Spec => []RunEndIsLast
BY SpecInv, PTL DEF IInv

----------------------------------------------------------------------------
(* The result file implements RunLog                                       *)

\* Where Run is decides in which phase the file is; what writes to it is over
\* before it is closed.
PhaseInv ==
  /\ open <=> main # "closed"
  /\ main = "new" => ~runStart
  /\ ~runStart => gen = "off" /\ sent = 0 /\ harness = "down" /\ main \in {"new", "failed", "closed"}
  /\ runEnd # NoEnd => main \in Over
  /\ main \in Over => harness # "up" /\ \A e \in Enqueuers : enq[e].pc = "exit"

\* A request has no answer before its enqueuer has recorded one.
AnswerInv ==
  /\ \A r \in Requests : r > taken => outcome[r] = "none"
  /\ \A e \in Enqueuers : Busy(e) => outcome[enq[e].req] = "none"

\* On an open file the events about a request are exactly its attempts.
ExactLog(r) ==
  LET a == job[r].attempt IN
  /\ job[r].pc = "absent" => log[r] = [started |-> 0, completed |-> 0, failed |-> 0]
  /\ job[r].pc \in {"queued", "called"} =>
       log[r] = [started |-> a - 1, completed |-> 0, failed |-> a - 1]
  /\ job[r].pc \in {"running", "record"} =>
       log[r] = [started |-> a, completed |-> 0, failed |-> a - 1]
  /\ job[r].pc = "done" => log[r].started = log[r].completed + log[r].failed
  /\ job[r].pc \in {"queued", "called", "running", "record"} => a > 0

\* How many events of a kind the workers have written.
Events(k) == SumFunctionOnSet([r \in Requests |-> log[r][k]], Requests)

\* The requests that are counted as enqueued, and those whose outcome is counted
\* and not yet recorded.
Confirmed == {r \in Requests :
                \/ outcome[r] = "enqueued"
                \/ \E e \in Enqueuers : enq[e].pc = "record" /\ enq[e].req = r}
Unrecorded(k) == {r \in Requests :
                    job[r].pc = "record" /\ k = IF job[r].err THEN "failed" ELSE "completed"}

\* The counters of Run are ahead of an open file by just these.
CountInv ==
  /\ counted \in [enqueued : Nat, completed : Nat, failed : Nat]
  /\ open => /\ counted.enqueued = Cardinality(Confirmed)
             /\ counted.completed = Events("completed") + Cardinality(Unrecorded("completed"))
             /\ counted.failed = Events("failed") + Cardinality(Unrecorded("failed"))

FileInv ==
  /\ PhaseInv /\ AnswerInv /\ CountInv
  /\ open => \A r \in Requests : ExactLog(r)

LEMMA InitFile == Init => FileInv
<1> SUFFICES ASSUME Init PROVE FileInv
  OBVIOUS
<1> USE DEF Init
<1>1. PhaseInv
  BY DEF PhaseInv, Over, Gone
<1>2. AnswerInv
  BY DEF AnswerInv, Busy, Gone
<1>3. \A r \in Requests : ExactLog(r)
  BY DEF ExactLog, NoJob
<1>4. CountInv
  <2>1. Confirmed = {} /\ Unrecorded("completed") = {} /\ Unrecorded("failed") = {}
    BY DEF Confirmed, Unrecorded, NoJob, Gone
  <2>2. Events("completed") = 0 /\ Events("failed") = 0
    <3>1. IsFiniteSet(Requests)
      BY BoundAssumption, FS_Interval DEF Requests
    <3> DEFINE F(k) == [r \in Requests |-> log[r][k]]
    <3>2. \A k \in {"completed", "failed"} : \A r \in Requests : F(k)[r] = 0
      OBVIOUS
    <3>3. \A k : Events(k) = SumFunctionOnSet(F(k), Requests)
      BY DEF Events
    <3> HIDE DEF F
    <3> QED
      BY <3>1, <3>2, <3>3, SumZero
  <2>3. counted = [enqueued |-> 0, completed |-> 0, failed |-> 0]
    BY DEF Zero
  <2> QED
    BY <2>1, <2>2, <2>3, FS_EmptySet DEF CountInv
<1> QED
  BY <1>1, <1>2, <1>3, <1>4 DEF FileInv

\* Nothing that is counted changes, and the file does not open again.
Uncounted ==
  /\ UNCHANGED <<counted, outcome, job, log, taken>>
  /\ open' => open
  /\ \A e \in Enqueuers : /\ Busy(e)' => Busy(e) /\ enq'[e] = enq[e]
                          /\ enq[e].pc = "record" => enq'[e] = enq[e]

LEMMA UncountedInv ==
  ASSUME IInv, FileInv, Uncounted
  PROVE  AnswerInv' /\ CountInv' /\ (open' => \A r \in Requests : ExactLog(r)')
<1> USE DEF FileInv, Uncounted
<1>1. AnswerInv'
  BY DEF AnswerInv
<1>2. open' => \A r \in Requests : ExactLog(r)'
  BY DEF ExactLog
<1>3. CountInv'
  <2>1. Confirmed' = Confirmed
    BY DEF Confirmed, Busy
  <2>2. /\ Unrecorded("completed")' = Unrecorded("completed")
        /\ Unrecorded("failed")' = Unrecorded("failed")
    BY DEF Unrecorded
  <2>3. Events("completed")' = Events("completed") /\ Events("failed")' = Events("failed")
    BY DEF Events
  <2> QED
    BY <2>1, <2>2, <2>3 DEF CountInv
<1> QED
  BY <1>1, <1>2, <1>3

LEMMA QuietSetupFile ==
  ASSUME IInv, FileInv, QuietSetup
  PROVE  FileInv'
<1> USE DEF QuietSetup, RecordRunStart, Register, SetupFault, Cancel, NotBySetup, genVars,
            fileVars, vars
<1>1. Uncounted
  BY DEF Uncounted, Busy
<1>2. PhaseInv'
  BY DEF PhaseInv, FileInv, IInv, SetupInv, Before, Over
<1> QED
  BY <1>1, <1>2, UncountedInv DEF FileInv

LEMMA StartFile ==
  ASSUME IInv, FileInv, Start
  PROVE  FileInv'
<1> USE DEF Start, genVars, fileVars
<1>1. \A e \in Enqueuers : enq[e].pc = "exit" /\ enq'[e] = Idle
  BY DEF IInv, SetupInv, Before
<1>2. Uncounted
  BY <1>1 DEF Uncounted, Busy, Idle
<1>3. PhaseInv'
  BY DEF PhaseInv, FileInv, Over
<1> QED
  BY <1>2, <1>3, UncountedInv DEF FileInv

LEMMA GenerateFile ==
  ASSUME IInv, FileInv, Generate
  PROVE  FileInv'
<1>1. /\ UNCHANGED <<main, taken, enq, harness, job, counted, open, runStart, outcome, log, runEnd>>
      /\ gen \in {"tick", "send"}
  BY DEF Generate, Tick, Send, Finish, NotByGenerator, fileVars
<1>2. Uncounted
  BY <1>1 DEF Uncounted, Busy
<1>3. PhaseInv'
  BY <1>1 DEF PhaseInv, FileInv
<1> QED
  BY <1>2, <1>3, UncountedInv DEF FileInv

LEMMA SamplerFile ==
  ASSUME IInv, FileInv, SamplerStep
  PROVE  FileInv'
<1>1. UNCHANGED <<main, genVars, taken, enq, harness, job, counted, open, runStart, outcome, log,
                  runEnd>>
  BY DEF SamplerStep, SamplerTick, RecordSample, SamplerExit, NotBySampler
<1>2. Uncounted
  BY <1>1 DEF Uncounted, Busy
<1>3. PhaseInv'
  BY <1>1 DEF PhaseInv, FileInv, genVars
<1> QED
  BY <1>2, <1>3, UncountedInv DEF FileInv

LEMMA MainFile ==
  ASSUME IInv, FileInv, MainStep
  PROVE  FileInv'
<1> USE DEF MainStep, Teardown, AwaitGenerator, AwaitEnqueuers, Drain, AwaitSampler,
            HarnessStops, RecordRunEnd, CloseRecorder, HarnessStopFails, RunEndFault,
            GoOn, NotByMain, genVars, fileVars
<1>1. Uncounted
  BY DEF Uncounted, Busy
<1>2. PhaseInv'
  BY DEF PhaseInv, FileInv, Over, IInv, StageInv
<1> QED
  BY <1>1, <1>2, UncountedInv DEF FileInv

\* The parts that concern where Run is and the answers.
LEMMA EnqueuerPhase ==
  ASSUME IInv, FileInv, NEW e \in Enqueuers, EnqueuerStep(e)
  PROVE  /\ PhaseInv' /\ AnswerInv'
         /\ UNCHANGED <<open, log>>
         /\ \A f \in Enqueuers : f # e => enq'[f] = enq[f]
         /\ Busy(e) => enq[e].req \in Requests
<1> USE DEF IInv, TypeOK, FileInv
<1>1. /\ UNCHANGED <<main, gen, sent, harness, open, runStart, log, runEnd>>
      /\ enq[e].pc # "exit"
      /\ enq' = [enq EXCEPT ![e] = enq'[e]]
  BY EnqueuerFrame
<1>2. PhaseInv'
  BY <1>1 DEF PhaseInv
<1>3. \A f \in Enqueuers : f # e => enq'[f] = enq[f] /\ (Busy(f)' <=> Busy(f))
  BY <1>1 DEF TypeRequests, Busy
<1>4. taken \in Nat /\ \A f \in Enqueuers : Busy(f) => enq[f].req \in Requests /\ enq[f].req <= taken
  BY BoundAssumption DEF EnqInv, Requests, TypeRequests
<1>5. AnswerInv'
  <2>1. CASE Take(e)
    <3>1. /\ enq'[e] = [pc |-> "call", req |-> taken + 1] /\ UNCHANGED outcome
          /\ taken' = taken + 1 /\ taken + 1 \in Requests
      BY <2>1, BoundAssumption DEF Take, TypeRequests, Requests
    <3>2. \A r \in Requests : r \in Int
      BY DEF Requests
    <3> QED
      BY <1>3, <1>4, <3>1, <3>2 DEF AnswerInv
  <2>2. CASE EnqueueReturns(e) \/ EnqueueFails(e) \/ CountEnqueued(e) \/ Exit(e)
    <3>1. UNCHANGED <<taken, outcome>> /\ (Busy(e)' => Busy(e) /\ enq'[e].req = enq[e].req)
      BY <2>2 DEF EnqueueReturns, EnqueueFails, CountEnqueued, Exit, Busy, Gone, TypeRequests
    <3> QED
      BY <1>3, <3>1 DEF AnswerInv
  <2>3. CASE RecordEnqueued(e) \/ RecordRefused(e)
    <3>1. /\ ~Busy(e)' /\ Busy(e) /\ UNCHANGED taken
          /\ \A r \in Requests : r # enq[e].req => outcome'[r] = outcome[r]
      BY <2>3 DEF RecordEnqueued, RecordRefused, Busy, Idle, TypeRequests
    <3>2. \A f \in Enqueuers : f # e /\ Busy(f) => enq[f].req # enq[e].req
      BY <3>1 DEF EnqInv
    <3>3. \A r \in Requests : r > taken => r # enq[e].req
      BY <1>4, <3>1 DEF Requests
    <3> QED
      BY <1>3, <1>4, <3>1, <3>2, <3>3 DEF AnswerInv
  <2> QED
    BY <2>1, <2>2, <2>3 DEF EnqueuerStep
<1> QED
  BY <1>1, <1>2, <1>3, <1>4, <1>5

\* A job that is inserted has written nothing, and none is in the middle of recording.
LEMMA InsertedFile ==
  ASSUME IInv, FileInv, open, NEW r \in Requests, job[r].pc = "absent",
         job' = job \/ job' = Queued(r), UNCHANGED log
  PROVE  /\ \A s \in Requests : ExactLog(s)'
         /\ \A k : Unrecorded(k)' = Unrecorded(k)
<1> USE DEF IInv, TypeOK, FileInv
<1>1. CASE job' = job
  BY <1>1 DEF ExactLog, Unrecorded
<1>2. CASE job' = Queued(r)
  <2>1. /\ job'[r] = [pc |-> "queued", attempt |-> 1, err |-> FALSE]
        /\ \A s \in Requests : s # r => job'[s] = job[s]
    BY <1>2 DEF TypeJobs, Queued
  <2>2. ExactLog(r)'
    <3>1. log'[r] = [started |-> 0, completed |-> 0, failed |-> 0]
      BY DEF ExactLog
    <3>2. job'[r].pc = "queued" /\ job'[r].attempt = 1 /\ 1 - 1 = 0
      BY <2>1
    <3> QED
      BY <3>1, <3>2 DEF ExactLog
  <2>3. \A s \in Requests : ExactLog(s)'
    BY <2>1, <2>2 DEF ExactLog
  <2>4. \A k : Unrecorded(k)' = Unrecorded(k)
    BY <2>1 DEF Unrecorded
  <2> QED
    BY <2>3, <2>4
<1> QED
  BY <1>1, <1>2

\* An enqueuer counts before it records.
LEMMA EnqueuerFile ==
  ASSUME IInv, FileInv, NEW e \in Enqueuers, EnqueuerStep(e)
  PROVE  FileInv'
<1> USE DEF IInv, TypeOK, FileInv
<1> DEFINE q == enq[e].req
<1>1. /\ PhaseInv' /\ AnswerInv' /\ UNCHANGED <<open, log>>
      /\ \A f \in Enqueuers : f # e => enq'[f] = enq[f]
      /\ Busy(e) => q \in Requests
  BY EnqueuerPhase
<1>2. open
  BY EnqueuerFrame DEF PhaseInv, Over
<1>3. Events("completed")' = Events("completed") /\ Events("failed")' = Events("failed")
  BY <1>1 DEF Events
<1>4. IsFiniteSet(Confirmed)
  <2>1. IsFiniteSet(Requests)
    BY BoundAssumption, FS_Interval DEF Requests
  <2> QED
    BY <2>1, FS_Subset DEF Confirmed
<1>5. /\ \A r \in Requests : ExactLog(r)'
      /\ \A k : Unrecorded(k)' = Unrecorded(k)
  <2>1. CASE EnqueueReturns(e) \/ EnqueueFails(e)
    <3>1. q \in Requests /\ job[q].pc = "absent"
      BY <1>1, <2>1 DEF EnqueueReturns, EnqueueFails, JobInv, Busy
    <3>2. job' = job \/ job' = Queued(q)
      BY <2>1 DEF EnqueueReturns, EnqueueFails
    <3> QED
      BY <1>1, <1>2, <3>1, <3>2, InsertedFile
  <2>2. CASE Take(e) \/ CountEnqueued(e) \/ RecordEnqueued(e) \/ RecordRefused(e) \/ Exit(e)
    <3>1. job' = job
      BY <2>2 DEF Take, CountEnqueued, RecordEnqueued, RecordRefused, Exit
    <3> QED
      BY <1>1, <1>2, <3>1 DEF ExactLog, Unrecorded
  <2> QED
    BY <2>1, <2>2 DEF EnqueuerStep
<1>6. CASE CountEnqueued(e)
  <2>1. /\ counted' = [counted EXCEPT !.enqueued = @ + 1] /\ enq[e].pc = "count"
        /\ enq'[e].pc = "record" /\ enq'[e].req = q /\ UNCHANGED outcome
    BY <1>6 DEF CountEnqueued, Count, TypeRequests
  <2>2. q \in Requests /\ outcome[q] = "none"
    BY <1>1, <2>1 DEF AnswerInv, Busy
  <2>3. q \notin Confirmed
    <3>1. \A f \in Enqueuers : enq[f].pc = "record" => enq[f].req # q
      BY <2>1 DEF EnqInv, Busy
    <3> QED
      BY <2>2, <3>1 DEF Confirmed
  <2>4. Confirmed' = Confirmed \cup {q}
    BY <1>1, <2>1, <2>2 DEF Confirmed
  <2>5. Cardinality(Confirmed') = Cardinality(Confirmed) + 1
    BY <1>4, <2>3, <2>4, FS_AddElement
  <2>6. CountInv'
    BY <1>1, <1>2, <1>3, <1>5, <2>1, <2>5 DEF CountInv
  <2> QED
    BY <1>1, <1>5, <2>6
<1>7. CASE \/ Take(e) \/ EnqueueReturns(e) \/ RecordEnqueued(e) \/ EnqueueFails(e)
           \/ RecordRefused(e) \/ Exit(e)
  <2>1. counted' = counted
    BY <1>7 DEF Take, EnqueueReturns, RecordEnqueued, EnqueueFails, RecordRefused, Exit
  <2>2. Confirmed' = Confirmed
    <3>1. CASE RecordEnqueued(e)
      <4>1. /\ q \in Requests /\ enq[e].pc = "record" /\ enq'[e].pc = "idle"
            /\ outcome'[q] = "enqueued"
            /\ \A r \in Requests : r # q => outcome'[r] = outcome[r]
        BY <1>1, <3>1 DEF RecordEnqueued, Busy, Idle, TypeRequests
      <4> QED
        BY <1>1, <4>1 DEF Confirmed
    <3>2. CASE RecordRefused(e)
      <4>1. /\ q \in Requests /\ enq[e].pc = "refused" /\ enq'[e].pc = "idle"
            /\ outcome'[q] = "failed" /\ outcome[q] = "none"
            /\ \A r \in Requests : r # q => outcome'[r] = outcome[r]
        BY <1>1, <3>2 DEF RecordRefused, Busy, Idle, TypeRequests, AnswerInv
      <4> QED
        BY <1>1, <4>1 DEF Confirmed
    <3>3. CASE Take(e) \/ EnqueueReturns(e) \/ EnqueueFails(e) \/ Exit(e)
      <4>1. enq[e].pc # "record" /\ enq'[e].pc # "record" /\ UNCHANGED outcome
        BY <3>3 DEF Take, EnqueueReturns, EnqueueFails, Exit, Gone, TypeRequests
      <4> QED
        BY <1>1, <4>1 DEF Confirmed
    <3> QED
      BY <1>7, <3>1, <3>2, <3>3
  <2>3. CountInv'
    BY <1>1, <1>2, <1>3, <1>5, <2>1, <2>2 DEF CountInv
  <2> QED
    BY <1>1, <1>5, <2>3
<1> QED
  BY <1>6, <1>7 DEF EnqueuerStep

\* An event that reaches the file.
LEMMA EventRecorded ==
  ASSUME IInv, open, NEW r \in Requests, NEW k \in {"started", "completed", "failed"},
         LogEvent(r, k)
  PROVE  /\ \A s \in Requests : s # r => log'[s] = log[s]
         /\ log'[r] = [log[r] EXCEPT ![k] = log[r][k] + 1]
         /\ \A j \in {"completed", "failed"} :
              /\ Events(j) \in Nat
              /\ Events(j)' = Events(j) + (IF j = k THEN 1 ELSE 0)
<1> USE DEF IInv, TypeOK
<1>1. /\ \A s \in Requests : s # r => log'[s] = log[s]
      /\ log'[r] = [log[r] EXCEPT ![k] = log[r][k] + 1]
  BY DEF TypeJobs, LogEvent
<1>2. \A s \in Requests : \A j \in {"started", "completed", "failed"} : log[s][j] \in Nat
  BY BoundAssumption DEF TypeJobs
<1>3. IsFiniteSet(Requests)
  BY BoundAssumption, FS_Interval DEF Requests
<1>4. ASSUME NEW j \in {"completed", "failed"}
      PROVE  Events(j) \in Nat /\ Events(j)' = Events(j) + (IF j = k THEN 1 ELSE 0)
  <2> DEFINE F == [s \in Requests |-> log[s][j]]
             G == [s \in Requests |-> log'[s][j]]
  <2>1. \A s \in Requests : F[s] \in Nat /\ (s # r => G[s] = F[s])
    BY <1>1, <1>2
  <2>2. G[r] = F[r] + (IF j = k THEN 1 ELSE 0)
    <3>1. log[r] \in [started : 0..MaxAttempts, completed : 0..1, failed : 0..MaxAttempts]
      BY DEF TypeJobs
    <3>2. j = k => log'[r][j] = log[r][j] + 1
      BY <1>1, <3>1
    <3>3. j # k => log'[r][j] = log[r][j] /\ log[r][j] \in Nat
      BY <1>1, <1>2, <3>1
    <3> QED
      BY <3>2, <3>3
  <2>3. /\ Events(j) = SumFunctionOnSet(F, Requests)
        /\ Events(j)' = SumFunctionOnSet(G, Requests)
    BY DEF Events
  <2> HIDE DEF F, G
  <2>4. SumFunctionOnSet(F, Requests) \in Nat
    BY <1>3, <2>1, SumNat
  <2>5. \A s \in Requests : F[s] \in Int /\ G[s] \in Int
    BY <2>1, <2>2
  <2>6. SumFunctionOnSet(G, Requests) = SumFunctionOnSet(F, Requests) + (G[r] - F[r])
    <3>1. \A s \in Requests \ {r} : F[s] = G[s]
      BY <2>1
    <3> QED
      BY <1>3, <2>5, <3>1, SumChange
  <2>7. \A a \in Nat : \A b \in {0, 1} : (a + b) - a = b
    OBVIOUS
  <2>8. G[r] - F[r] = IF j = k THEN 1 ELSE 0
    BY <2>1, <2>2, <2>7
  <2> QED
    BY <2>3, <2>4, <2>6, <2>8
<1> QED
  BY <1>1, <1>4

\* What a step about one request leaves alone of the invariant.
LEMMA WorkerPhase ==
  ASSUME IInv, FileInv, NEW r \in Requests, WorkerStep(r)
  PROVE  /\ PhaseInv' /\ AnswerInv' /\ Confirmed' = Confirmed /\ open' = open
         /\ counted' \in [enqueued : Nat, completed : Nat, failed : Nat]
         /\ UNCHANGED <<main, runStart, outcome, harness, runEnd>>
<1> USE DEF FileInv
<1>1. UNCHANGED <<main, genVars, taken, enq, harness, open, runStart, outcome, runEnd>>
  BY DEF WorkerStep, Dispatch, JobStarted, Simulated, RecordOutcome, NotByWorkers
<1>2. PhaseInv' /\ AnswerInv'
  BY <1>1 DEF PhaseInv, AnswerInv, Busy, genVars
<1>3. Confirmed' = Confirmed
  BY <1>1 DEF Confirmed
<1>4. counted' \in [enqueued : Nat, completed : Nat, failed : Nat]
  BY DEF CountInv, WorkerStep, Dispatch, JobStarted, Simulated, RecordOutcome, Count
<1> QED
  BY <1>1, <1>2, <1>3, <1>4

LEMMA DispatchFile ==
  ASSUME IInv, FileInv, open, NEW r \in Requests, Dispatch(r)
  PROVE  FileInv'
<1> USE DEF IInv, TypeOK, FileInv
<1>1. /\ UNCHANGED <<log, counted>> /\ job[r].pc = "queued"
      /\ job'[r].pc = "called" /\ job'[r].attempt = job[r].attempt
      /\ \A s \in Requests : s # r => job'[s] = job[s]
  BY DEF Dispatch, TypeJobs
<1>2. /\ PhaseInv' /\ AnswerInv' /\ Confirmed' = Confirmed /\ open' = open
      /\ counted' \in [enqueued : Nat, completed : Nat, failed : Nat]
  BY WorkerPhase DEF WorkerStep
<1>3. \A s \in Requests : ExactLog(s)'
  BY <1>1 DEF ExactLog
<1>4. /\ Unrecorded("completed")' = Unrecorded("completed")
      /\ Unrecorded("failed")' = Unrecorded("failed")
  BY <1>1 DEF Unrecorded
<1>5. Events("completed")' = Events("completed") /\ Events("failed")' = Events("failed")
  BY <1>1 DEF Events
<1>6. CountInv'
  BY <1>1, <1>2, <1>4, <1>5 DEF CountInv
<1> QED
  BY <1>2, <1>3, <1>6

LEMMA StartedFile ==
  ASSUME IInv, FileInv, open, NEW r \in Requests, JobStarted(r)
  PROVE  FileInv'
<1> USE DEF IInv, TypeOK, FileInv
<1>1. /\ LogEvent(r, "started") /\ counted' = counted /\ job[r].pc = "called"
      /\ job'[r].pc = "running" /\ job'[r].attempt = job[r].attempt
      /\ \A s \in Requests : s # r => job'[s] = job[s]
  BY DEF JobStarted, TypeJobs
<1>2. /\ PhaseInv' /\ AnswerInv' /\ Confirmed' = Confirmed /\ open' = open
      /\ counted' \in [enqueued : Nat, completed : Nat, failed : Nat]
  BY WorkerPhase DEF WorkerStep
<1>3. /\ \A s \in Requests : s # r => log'[s] = log[s]
      /\ log'[r] = [log[r] EXCEPT !.started = log[r].started + 1]
      /\ Events("completed")' = Events("completed") + 0
      /\ Events("failed")' = Events("failed") + 0
      /\ Events("completed") \in Nat /\ Events("failed") \in Nat
  BY <1>1, EventRecorded
<1>4. ExactLog(r)'
  <2>1. log[r] = [started |-> job[r].attempt - 1, completed |-> 0, failed |-> job[r].attempt - 1]
        /\ job[r].attempt > 0 /\ job[r].attempt \in Nat
    BY <1>1, BoundAssumption DEF ExactLog, TypeJobs
  <2>2. (job[r].attempt - 1) + 1 = job[r].attempt
    BY <2>1
  <2>3. log'[r] = [started |-> job[r].attempt, completed |-> 0, failed |-> job[r].attempt - 1]
    BY <1>3, <2>1, <2>2
  <2> QED
    BY <1>1, <2>1, <2>3 DEF ExactLog
<1>5. \A s \in Requests : ExactLog(s)'
  BY <1>1, <1>3, <1>4 DEF ExactLog
<1>6. /\ Unrecorded("completed")' = Unrecorded("completed")
      /\ Unrecorded("failed")' = Unrecorded("failed")
  BY <1>1 DEF Unrecorded
<1>7. Events("completed")' = Events("completed") /\ Events("failed")' = Events("failed")
  BY <1>3
<1>8. CountInv'
  BY <1>1, <1>2, <1>6, <1>7 DEF CountInv
<1> QED
  BY <1>2, <1>5, <1>8

LEMMA EventsType ==
  ASSUME IInv
  PROVE  \A j \in {"completed", "failed"} : Events(j) \in Nat
<1> SUFFICES ASSUME NEW j \in {"completed", "failed"} PROVE Events(j) \in Nat
  OBVIOUS
<1> DEFINE F == [s \in Requests |-> log[s][j]]
<1>1. \A s \in Requests : F[s] \in Nat
  BY BoundAssumption DEF IInv, TypeOK, TypeJobs
<1>2. IsFiniteSet(Requests)
  BY BoundAssumption, FS_Interval DEF Requests
<1>3. Events(j) = SumFunctionOnSet(F, Requests)
  BY DEF Events
<1> HIDE DEF F
<1> QED
  BY <1>1, <1>2, <1>3, SumNat

\* Counted first, recorded later.
LEMMA SimulatedFile ==
  ASSUME IInv, FileInv, open, NEW r \in Requests, NEW err \in BOOLEAN, Simulated(r, err)
  PROVE  FileInv'
<1> USE DEF IInv, TypeOK, FileInv
<1> DEFINE k == IF err THEN "failed" ELSE "completed"
           o == IF err THEN "completed" ELSE "failed"
<1>1. /\ UNCHANGED log /\ job[r].pc = "running"
      /\ counted' = [counted EXCEPT ![k] = counted[k] + 1]
      /\ job'[r] = [pc |-> "record", attempt |-> job[r].attempt, err |-> err]
      /\ \A s \in Requests : s # r => job'[s] = job[s]
  BY DEF Simulated, TypeJobs, Count
<1>2. /\ PhaseInv' /\ AnswerInv' /\ Confirmed' = Confirmed /\ open' = open
      /\ counted' \in [enqueued : Nat, completed : Nat, failed : Nat]
  BY WorkerPhase DEF WorkerStep
<1>3. ExactLog(r)'
  <2>1. /\ log'[r] = [started |-> job[r].attempt, completed |-> 0, failed |-> job[r].attempt - 1]
        /\ job[r].attempt > 0
    BY <1>1 DEF ExactLog
  <2>2. job'[r].pc = "record" /\ job'[r].attempt = job[r].attempt
    BY <1>1
  <2> QED
    BY <2>1, <2>2 DEF ExactLog
<1>4. \A s \in Requests : ExactLog(s)'
  BY <1>1, <1>3 DEF ExactLog
<1>5. Events("completed")' = Events("completed") /\ Events("failed")' = Events("failed")
  BY <1>1 DEF Events
<1>6. k \in {"completed", "failed"} /\ o \in {"completed", "failed"} /\ o # k
      /\ {"completed", "failed"} = {k, o}
  OBVIOUS
<1>7. (job'[r].err <=> err) /\ job'[r].pc = "record"
  BY <1>1
<1>8. Unrecorded(o)' = Unrecorded(o)
  BY <1>1, <1>7 DEF Unrecorded
<1>9. Unrecorded(k)' = Unrecorded(k) \cup {r} /\ r \notin Unrecorded(k)
  BY <1>1, <1>7 DEF Unrecorded
<1>10. IsFiniteSet(Unrecorded(k))
  <2>1. IsFiniteSet(Requests)
    BY BoundAssumption, FS_Interval DEF Requests
  <2> QED
    BY <2>1, FS_Subset DEF Unrecorded
<1>11. Cardinality(Unrecorded(k)') = Cardinality(Unrecorded(k)) + 1
  BY <1>9, <1>10, FS_AddElement
<1>12. \A j \in {"completed", "failed"} :
         counted[j] = Events(j) + Cardinality(Unrecorded(j)) /\ Events(j) \in Nat
  BY EventsType DEF CountInv
<1>13. Cardinality(Unrecorded(k)) \in Nat
  BY <1>10, FS_CardinalityType
<1>14. counted'[k] = counted[k] + 1 /\ counted'[o] = counted[o]
       /\ counted'.enqueued = counted.enqueued
  BY <1>1 DEF CountInv
<1> HIDE DEF k, o
<1>15. Events(k)' = Events(k) /\ Events(o)' = Events(o)
  BY <1>5, <1>6
<1>16. \A a, b \in Nat : (a + b) + 1 = a + (b + 1)
  OBVIOUS
<1>17. counted'[k] = Events(k)' + Cardinality(Unrecorded(k)')
  BY <1>6, <1>11, <1>12, <1>13, <1>14, <1>15, <1>16
<1>18. counted'[o] = Events(o)' + Cardinality(Unrecorded(o)')
  BY <1>6, <1>8, <1>12, <1>14, <1>15
<1>19. /\ counted'.completed = Events("completed")' + Cardinality(Unrecorded("completed")')
       /\ counted'.failed = Events("failed")' + Cardinality(Unrecorded("failed")')
  <2>1. CASE k = "completed" /\ o = "failed"
    BY <1>17, <1>18, <2>1
  <2>2. CASE k = "failed" /\ o = "completed"
    BY <1>17, <1>18, <2>2
  <2> QED
    BY <1>6, <2>1, <2>2
<1>20. CountInv'
  BY <1>2, <1>14, <1>19 DEF CountInv
<1> QED
  BY <1>2, <1>4, <1>20

LEMMA OutcomeFile ==
  ASSUME IInv, FileInv, open, NEW r \in Requests, RecordOutcome(r)
  PROVE  FileInv'
<1> USE DEF IInv, TypeOK, FileInv
<1> DEFINE a == job[r].attempt
<1>k. PICK k \in {"completed", "failed"} : k = IF job[r].err THEN "failed" ELSE "completed"
  OBVIOUS
<1>p. PICK o \in {"completed", "failed"} : o # k
  OBVIOUS
<1>1. LogEvent(r, k) /\ UNCHANGED counted /\ job[r].pc = "record"
  BY <1>k DEF RecordOutcome
<1>2. /\ \A s \in Requests : s # r => job'[s] = job[s]
      /\ \/ job'[r].pc = "done"
         \/ k = "failed" /\ job'[r].pc = "queued" /\ job'[r].attempt = a + 1
  BY <1>k DEF RecordOutcome, TypeJobs
<1>3. /\ PhaseInv' /\ AnswerInv' /\ Confirmed' = Confirmed /\ open' = open
      /\ counted' \in [enqueued : Nat, completed : Nat, failed : Nat]
  BY WorkerPhase DEF WorkerStep
<1>4. k \in {"completed", "failed"} /\ o \in {"completed", "failed"} /\ o # k
      /\ {"completed", "failed"} = {k, o}
  BY <1>p
<1>5. /\ \A s \in Requests : s # r => log'[s] = log[s]
      /\ log'[r] = [log[r] EXCEPT ![k] = log[r][k] + 1]
      /\ \A j \in {"completed", "failed"} :
           /\ Events(j) \in Nat
           /\ Events(j)' = Events(j) + (IF j = k THEN 1 ELSE 0)
  BY <1>1, <1>4, EventRecorded
<1>6. /\ log[r] = [started |-> a, completed |-> 0, failed |-> a - 1]
      /\ a > 0 /\ a \in Nat
  BY <1>1, BoundAssumption DEF ExactLog, TypeJobs
<1>7. (a - 1) + 1 = a /\ (a + 1) - 1 = a /\ 0 + 1 = 1 /\ a = 1 + (a - 1) /\ a = 0 + a /\ a + 1 > 0
  BY <1>6
<1>8. k = "failed" => log'[r] = [started |-> a, completed |-> 0, failed |-> a]
  BY <1>5, <1>6, <1>7
<1>9. k = "completed" => log'[r] = [started |-> a, completed |-> 1, failed |-> a - 1]
  BY <1>5, <1>6, <1>7
<1>10. Unrecorded(o)' = Unrecorded(o)
  BY <1>k, <1>p, <1>1, <1>2 DEF Unrecorded
<1>11. Unrecorded(k)' = Unrecorded(k) \ {r} /\ r \in Unrecorded(k)
  BY <1>k, <1>p, <1>1, <1>2 DEF Unrecorded
<1> HIDE DEF a
<1>12. ExactLog(r)'
  <2>1. CASE job'[r].pc = "done"
    BY <1>4, <1>7, <1>8, <1>9, <2>1 DEF ExactLog
  <2>2. CASE k = "failed" /\ job'[r].pc = "queued" /\ job'[r].attempt = a + 1
    BY <1>7, <1>8, <2>2 DEF ExactLog
  <2> QED
    BY <1>2, <2>1, <2>2
<1>13. \A s \in Requests : ExactLog(s)'
  <2>1. ASSUME NEW s \in Requests, s # r PROVE ExactLog(s)'
    <3>1. log'[s] = log[s] /\ job'[s] = job[s] /\ ExactLog(s)
      BY <1>2, <1>5, <2>1
    <3> QED
      BY <3>1 DEF ExactLog
  <2> QED
    BY <1>12, <2>1
<1>14. IsFiniteSet(Unrecorded(k))
  <2>1. IsFiniteSet(Requests)
    BY BoundAssumption, FS_Interval DEF Requests
  <2> QED
    BY <2>1, FS_Subset DEF Unrecorded
<1>15. /\ Cardinality(Unrecorded(k)') = Cardinality(Unrecorded(k)) - 1
       /\ Cardinality(Unrecorded(k)) \in Nat
  BY <1>11, <1>14, FS_RemoveElement, FS_CardinalityType
<1>16. \A j \in {"completed", "failed"} : counted[j] = Events(j) + Cardinality(Unrecorded(j))
  BY DEF CountInv
<1>17. Events(k)' = Events(k) + 1 /\ Events(o)' = Events(o) + 0
  BY <1>4, <1>5
<1>18. \A x, y \in Nat : x + y = (x + 1) + (y - 1) /\ x + 0 = x
  OBVIOUS
<1>19. counted'[k] = Events(k)' + Cardinality(Unrecorded(k)')
  BY <1>1, <1>4, <1>5, <1>15, <1>16, <1>17, <1>18
<1>20. counted'[o] = Events(o)' + Cardinality(Unrecorded(o)')
  BY <1>1, <1>4, <1>5, <1>10, <1>16, <1>17, <1>18
<1>21. /\ counted'.completed = Events("completed")' + Cardinality(Unrecorded("completed")')
       /\ counted'.failed = Events("failed")' + Cardinality(Unrecorded("failed")')
  <2>1. CASE k = "completed" /\ o = "failed"
    BY <1>19, <1>20, <2>1
  <2>2. CASE k = "failed" /\ o = "completed"
    BY <1>19, <1>20, <2>2
  <2> QED
    BY <1>4, <2>1, <2>2
<1>22. CountInv'
  BY <1>1, <1>3, <1>21 DEF CountInv
<1> QED
  BY <1>3, <1>13, <1>22

LEMMA NextFile == IInv /\ FileInv /\ [Next]_vars => FileInv'
<1> SUFFICES ASSUME IInv, FileInv, [Next]_vars PROVE FileInv'
  OBVIOUS
<1>1. CASE QuietSetup
  BY <1>1, QuietSetupFile
<1>2. CASE Start
  BY <1>2, StartFile
<1>3. CASE Generate
  BY <1>3, GenerateFile
<1>4. CASE \E e \in Enqueuers : EnqueuerStep(e)
  BY <1>4, EnqueuerFile
<1>5. CASE \E r \in Requests : WorkerStep(r)
  <2>1. PICK r \in Requests : WorkerStep(r)
    BY <1>5
  <2>2. CASE open
    BY <2>1, <2>2, DispatchFile, StartedFile, SimulatedFile, OutcomeFile DEF WorkerStep
  <2>3. CASE ~open
    BY <2>1, <2>3, WorkerPhase DEF FileInv, CountInv
  <2> QED
    BY <2>2, <2>3
<1>6. CASE SamplerStep
  BY <1>6, SamplerFile
<1>7. CASE MainStep
  BY <1>7, MainFile
<1> QED
  BY <1>1, <1>2, <1>3, <1>4, <1>5, <1>6, <1>7 DEF Next, Setup, QuietSetup, MainStep

LEMMA SpecFile == Spec => [](IInv /\ FileInv)
BY InitInv, NextInv, InitFile, NextFile, PTL DEF Spec

----------------------------------------------------------------------------
(* The refinement                                                          *)

LEMMA TotalIsEvents == \A k : Log!Total(k) = Events(k)
<1>1. \A F, S : Log!SumFunctionOnSet(F, S) = SumFunctionOnSet(F, S)
  BY DEF Log!SumFunctionOnSet, SumFunctionOnSet, Log!FoldFunctionOnSet, FoldFunctionOnSet,
         Log!MapThenFoldSet, MapThenFoldSet
<1>2. \A F : Log!SumFunction(F) = SumFunctionOnSet(F, DOMAIN F)
  BY <1>1 DEF Log!SumFunction
<1> QED
  BY <1>2 DEF Log!Total, Events

LEMMA SameCardinality == \A S : Log!Cardinality(S) = Cardinality(S)
BY DEF Log!Cardinality, Cardinality

LEMMA InitRefines == Init => Log!Init
BY DEF Init, Log!Init, Log!NoEnd, NoEnd

\* Whether run_end is clean, as the refinement maps it.
Clean == runEnd # NoEnd /\ harness = "stopped"

LEMMA FileUnchanged ==
  ASSUME UNCHANGED <<open, runStart, outcome, log, runEnd>>, Clean' = Clean
  PROVE  UNCHANGED Log!vars
BY DEF Log!vars, Clean

LEMMA SetupRefines ==
  ASSUME IInv, FileInv, QuietSetup \/ Start
  PROVE  [Log!Next]_(Log!vars)
<1> USE DEF fileVars, vars
<1>1. CASE RecordRunStart
  <2>1. /\ open /\ ~runStart /\ runEnd = NoEnd /\ harness = "down" /\ open' /\ runStart'
        /\ UNCHANGED <<outcome, log, runEnd, harness>>
    BY <1>1 DEF RecordRunStart, IInv, SetupInv, Before, FileInv, PhaseInv
  <2>2. Log!RunStart
    BY <2>1 DEF Log!RunStart
  <2> QED
    BY <2>2 DEF Log!Next
<1>2. CASE Register \/ SetupFault \/ Cancel \/ UNCHANGED vars
  <2>1. UNCHANGED <<open, runStart, outcome, log, runEnd, harness>>
    BY <1>2 DEF Register, SetupFault, Cancel, NotBySetup
  <2> QED
    BY <2>1, FileUnchanged DEF Clean
<1>3. CASE Start
  <2>1. UNCHANGED <<open, runStart, outcome, log, runEnd>> /\ runEnd = NoEnd
    BY <1>3 DEF Start, IInv, SetupInv, Before
  <2> QED
    BY <2>1, FileUnchanged DEF Clean
<1> QED
  BY <1>1, <1>2, <1>3 DEF QuietSetup

\* While Run is between its start and its end the file is open.
LEMMA OpenPhase ==
  ASSUME IInv, FileInv, main \notin Over, main # "new"
  PROVE  open /\ runStart /\ runEnd = NoEnd /\ ~Clean
BY DEF FileInv, PhaseInv, Over, Clean

LEMMA EnqueuerRefines ==
  ASSUME IInv, FileInv, NEW e \in Enqueuers, EnqueuerStep(e)
  PROVE  [Log!Next]_(Log!vars)
<1> USE DEF IInv, TypeOK, FileInv
<1>1. /\ UNCHANGED <<main, harness, open, runStart, log, runEnd>> /\ enq[e].pc # "exit"
  BY EnqueuerFrame
<1>2. main \notin Over /\ main # "new"
  BY <1>1 DEF PhaseInv, SetupInv, Before
<1>3. open /\ runStart /\ runEnd = NoEnd
  BY <1>2, OpenPhase
<1>4. Busy(e) => enq[e].req \in Requests /\ outcome[enq[e].req] = "none"
  BY EnqueuerPhase DEF AnswerInv
<1>5. CASE RecordEnqueued(e)
  <2>1. enq[e].req \in Requests /\ outcome[enq[e].req] = "none"
        /\ outcome' = [outcome EXCEPT ![enq[e].req] = "enqueued"]
    BY <1>4, <1>5 DEF RecordEnqueued, Busy
  <2>2. Log!Answer(enq[e].req, "enqueued")
    BY <1>1, <1>3, <2>1 DEF Log!Answer
  <2> QED
    BY <2>1, <2>2 DEF Log!Next
<1>6. CASE RecordRefused(e)
  <2>1. enq[e].req \in Requests /\ outcome[enq[e].req] = "none"
        /\ outcome' = [outcome EXCEPT ![enq[e].req] = "failed"]
    BY <1>4, <1>6 DEF RecordRefused, Busy
  <2>2. Log!Answer(enq[e].req, "failed")
    BY <1>1, <1>3, <2>1 DEF Log!Answer
  <2> QED
    BY <2>1, <2>2 DEF Log!Next
<1>7. CASE Take(e) \/ EnqueueReturns(e) \/ EnqueueFails(e) \/ CountEnqueued(e) \/ Exit(e)
  <2>1. UNCHANGED outcome
    BY <1>7 DEF Take, EnqueueReturns, EnqueueFails, CountEnqueued, Exit
  <2> QED
    BY <1>1, <2>1, FileUnchanged DEF Clean
<1> QED
  BY <1>5, <1>6, <1>7 DEF EnqueuerStep

\* A write to a closed file changes nothing.
LEMMA UnwrittenEvent ==
  ASSUME IInv, ~open, NEW r \in Requests, NEW k \in {"started", "completed", "failed"},
         LogEvent(r, k)
  PROVE  log' = log
<1> USE DEF IInv, TypeOK
<1>1. log' = [log EXCEPT ![r][k] = @]
  BY DEF LogEvent
<1>2. log[r] = [log[r] EXCEPT ![k] = @]
  BY DEF TypeJobs
<1> QED
  BY <1>1, <1>2 DEF TypeJobs

\* A worker that has a job to run finds a file that was begun.
LEMMA WorkerRefines ==
  ASSUME IInv, FileInv, NEW r \in Requests, WorkerStep(r)
  PROVE  [Log!Next]_(Log!vars)
<1> USE DEF IInv, TypeOK, FileInv
<1>1. UNCHANGED <<open, runStart, outcome, harness, runEnd>>
  BY WorkerPhase
<1>2. job[r].pc # "absent" => runStart
  BY DEF PhaseInv, JobInv, TypeRequests, Requests
<1>d. CASE Dispatch(r)
  <2>1. UNCHANGED log
    BY <1>d DEF Dispatch
  <2> QED
    BY <1>1, <2>1, FileUnchanged DEF Clean
<1>3. CASE JobStarted(r)
  <2>1. job[r].pc = "called" /\ runStart /\ harness # "stopped" /\ LogEvent(r, "started")
    BY <1>2, <1>3 DEF JobStarted, StageInv, Active
  <2>2. CASE open
    <3>1. log[r].started = job[r].attempt - 1 /\ log[r].completed = 0
          /\ log[r].failed = job[r].attempt - 1
          /\ job[r].attempt \in Nat /\ job[r].attempt <= MaxAttempts
      BY <2>1, <2>2, BoundAssumption DEF ExactLog, TypeJobs
    <3>2. ~Log!Running(r) /\ log[r].started < MaxAttempts
      BY <3>1, BoundAssumption DEF Log!Running
    <3>3. log' = [log EXCEPT ![r].started = @ + 1]
      BY <2>1, <2>2 DEF LogEvent, TypeJobs
    <3>4. Log!Started(r)
      BY <1>1, <2>1, <2>2, <3>1, <3>2, <3>3 DEF Log!Started, Log!Writable
    <3> QED
      BY <3>4 DEF Log!Next
  <2>3. CASE ~open
    <3>1. log' = log
      BY <2>1, <2>3, UnwrittenEvent
    <3> QED
      BY <1>1, <3>1, FileUnchanged DEF Clean
  <2> QED
    BY <2>2, <2>3
<1>4. ASSUME NEW err \in BOOLEAN, Simulated(r, err) PROVE UNCHANGED Log!vars
  <2>1. UNCHANGED log
    BY <1>4 DEF Simulated
  <2> QED
    BY <1>1, <2>1, FileUnchanged DEF Clean
<1>5. CASE RecordOutcome(r)
  <2>1. PICK k \in {"completed", "failed"} : LogEvent(r, k)
    BY <1>5 DEF RecordOutcome
  <2>2. job[r].pc = "record" /\ runStart /\ harness # "stopped"
    BY <1>2, <1>5 DEF RecordOutcome, StageInv, Active
  <2>3. CASE open
    <3>1. /\ log[r].started = job[r].attempt /\ log[r].completed = 0
          /\ log[r].failed = job[r].attempt - 1 /\ job[r].attempt \in Nat
      BY <2>2, <2>3, BoundAssumption DEF ExactLog, TypeJobs
    <3>2. Log!Running(r)
      BY <3>1 DEF Log!Running
    <3>3. log' = [log EXCEPT ![r][k] = @ + 1]
      BY <2>1, <2>3 DEF LogEvent, TypeJobs
    <3>4. Log!Ended(r, k)
      BY <1>1, <2>2, <2>3, <3>2, <3>3 DEF Log!Ended, Log!Writable
    <3> QED
      BY <3>4 DEF Log!Next
  <2>4. CASE ~open
    <3>1. log' = log
      BY <2>1, <2>4, UnwrittenEvent
    <3> QED
      BY <1>1, <3>1, FileUnchanged DEF Clean
  <2> QED
    BY <2>3, <2>4
<1> QED
  BY <1>d, <1>3, <1>4, <1>5 DEF WorkerStep

\* A worker whose outcome is counted and not recorded has an attempt on file that is
\* not over; when the harness has stopped there is none.
LEMMA BusyWorkers ==
  ASSUME IInv, FileInv, open
  PROVE  /\ Cardinality(Unrecorded("completed")) \in Nat
         /\ Cardinality(Unrecorded("failed")) \in Nat
         /\ Cardinality(Log!Busy) \in Nat
         /\ Cardinality(Unrecorded("completed")) + Cardinality(Unrecorded("failed"))
              <= Cardinality(Log!Busy)
         /\ harness = "stopped" => Log!Busy = {}
<1> USE DEF IInv, TypeOK, FileInv
<1> DEFINE C == Unrecorded("completed")
           D == Unrecorded("failed")
           B == Log!Busy
<1>1. IsFiniteSet(Requests)
  BY BoundAssumption, FS_Interval DEF Requests
<1>2. B \subseteq Requests
  BY DEF Log!Busy
<1>3. C \cup D \subseteq B
  <2>1. ASSUME NEW r \in C \cup D PROVE r \in B
    <3>1. r \in Requests /\ job[r].pc = "record"
      BY <2>1 DEF Unrecorded
    <3>2. /\ log[r].started = job[r].attempt /\ log[r].completed = 0
          /\ log[r].failed = job[r].attempt - 1 /\ job[r].attempt \in Nat
      BY <3>1, BoundAssumption DEF ExactLog, TypeJobs
    <3>3. Log!Running(r)
      BY <3>2 DEF Log!Running
    <3> QED
      BY <3>1, <3>3 DEF Log!Busy
  <2> QED
    BY <2>1
<1>4. C \cap D = {}
  BY DEF Unrecorded
<1>5. IsFiniteSet(C) /\ IsFiniteSet(D) /\ IsFiniteSet(B)
  <2>1. C \subseteq Requests /\ D \subseteq Requests
    BY DEF Unrecorded
  <2> QED
    BY <1>1, <1>2, <2>1, FS_Subset
<1>6. harness = "stopped" => B = {}
  <2>1. SUFFICES ASSUME harness = "stopped", NEW r \in Requests PROVE ~Log!Running(r)
    BY DEF Log!Busy
  <2>2. job[r].pc \in {"absent", "queued", "done"}
    BY <2>1 DEF StageInv, Active, TypeJobs
  <2>3. job[r].attempt \in Nat /\ ExactLog(r)
    BY BoundAssumption DEF TypeJobs
  <2>4. CASE job[r].pc = "absent"
    <3>1. log[r] = [started |-> 0, completed |-> 0, failed |-> 0]
      BY <2>3, <2>4 DEF ExactLog
    <3> QED
      BY <3>1 DEF Log!Running
  <2>5. CASE job[r].pc = "queued"
    <3>1. /\ log[r].started = job[r].attempt - 1 /\ log[r].completed = 0
          /\ log[r].failed = job[r].attempt - 1
      BY <2>3, <2>5 DEF ExactLog
    <3> QED
      BY <2>3, <3>1 DEF Log!Running
  <2>6. CASE job[r].pc = "done"
    <3>1. log[r].started = log[r].completed + log[r].failed
      BY <2>3, <2>6 DEF ExactLog
    <3>2. log[r].started \in Nat /\ log[r].completed \in Nat /\ log[r].failed \in Nat
      BY BoundAssumption DEF TypeJobs
    <3> QED
      BY <3>1, <3>2 DEF Log!Running
  <2> QED
    BY <2>2, <2>4, <2>5, <2>6
<1> HIDE DEF C, D, B
<1>7. Cardinality(C \cup D) = Cardinality(C) + Cardinality(D)
  <2>1. Cardinality(C \cup D) = Cardinality(C) + Cardinality(D) - Cardinality(C \cap D)
    BY <1>5, FS_Union
  <2>2. Cardinality(C) \in Nat /\ Cardinality(D) \in Nat /\ Cardinality(C \cap D) = 0
    BY <1>4, <1>5, FS_CardinalityType, FS_EmptySet
  <2> QED
    BY <2>1, <2>2
<1>8. Cardinality(C \cup D) <= Cardinality(B)
  BY <1>3, <1>5, FS_Subset
<1>9. Cardinality(C) \in Nat /\ Cardinality(D) \in Nat /\ Cardinality(B) \in Nat
  BY <1>5, FS_CardinalityType
<1>10. Cardinality(C) + Cardinality(D) <= Cardinality(B)
  BY <1>7, <1>8
<1> QED
  BY <1>6, <1>9, <1>10 DEF C, D, B

LEMMA RunEndRefines ==
  ASSUME IInv, FileInv, RecordRunEnd
  PROVE  Log!Next
<1> DEFINE c == Cardinality(Unrecorded("completed"))
           d == Cardinality(Unrecorded("failed"))
<1>1. /\ main = "runEnd" /\ runEnd' = counted
      /\ UNCHANGED <<enq, harness, open, runStart, outcome, log>>
  BY DEF RecordRunEnd, NotByMain
<1>2. open /\ runStart /\ runEnd = NoEnd
  BY <1>1, OpenPhase DEF Over
<1>3. /\ c \in Nat /\ d \in Nat /\ Cardinality(Log!Busy) \in Nat
      /\ c + d <= Cardinality(Log!Busy)
      /\ harness = "stopped" => Log!Busy = {}
  BY <1>2, BusyWorkers
<1>4. counted \in [enqueued : Nat, completed : Nat, failed : Nat]
  BY DEF FileInv, CountInv
<1>5. counted.enqueued = Log!Accepted
  <2>1. Confirmed = {r \in Requests : outcome[r] = "enqueued"}
    BY <1>1 DEF Confirmed, IInv, StageInv
  <2> QED
    BY <1>2, <2>1, SameCardinality DEF Log!Accepted, FileInv, CountInv
<1>6. counted.completed = Log!Total("completed") + c /\ counted.failed = Log!Total("failed") + d
  BY <1>2, TotalIsEvents DEF FileInv, CountInv
<1>7. counted = [enqueued |-> Log!Accepted, completed |-> Log!Total("completed") + c,
                 failed |-> Log!Total("failed") + d]
  BY <1>4, <1>5, <1>6
<1>8. counted # NoEnd
  <2>1. counted.enqueued \in Nat /\ NoEnd.enqueued = -1
    BY <1>4 DEF NoEnd
  <2> QED
    BY <2>1
<1>9. Clean' \in {FALSE, Log!Busy = {}}
  BY <1>1, <1>3, <1>8 DEF Clean
<1>10. c \in 0..Log!Cardinality(Log!Busy) /\ d \in 0..Log!Cardinality(Log!Busy)
       /\ c + d <= Log!Cardinality(Log!Busy)
  BY <1>3, SameCardinality
<1>11. (runEnd' # NoEnd /\ harness' = "stopped") \in {FALSE, Log!Busy = {}}
  BY <1>9 DEF Clean
<1> HIDE DEF c, d
<1>12. Log!RunEnd(c, d)
  BY <1>1, <1>2, <1>7, <1>8, <1>10, <1>11 DEF Log!RunEnd
<1> QED
  BY <1>10, <1>12 DEF Log!Next

LEMMA MainRefines ==
  ASSUME IInv, FileInv, MainStep
  PROVE  [Log!Next]_(Log!vars)
<1>1. CASE \/ AwaitGenerator \/ AwaitEnqueuers \/ Drain \/ AwaitSampler \/ HarnessStops
           \/ RunEndFault
  <2>1. main \notin Over /\ main # "new" /\ UNCHANGED <<open, runStart, outcome, log, runEnd>>
    BY <1>1 DEF AwaitGenerator, AwaitEnqueuers, Drain, AwaitSampler, HarnessStops, RunEndFault,
                GoOn, fileVars, Over
  <2>2. runEnd = NoEnd
    BY <2>1, OpenPhase
  <2> QED
    BY <2>1, <2>2, FileUnchanged DEF Clean
<1>2. CASE RecordRunEnd
  BY <1>2, RunEndRefines
<1>3. CASE HarnessStopFails
  <2>1. /\ main = "stop" /\ runEnd' = NoCounters /\ harness' = "abandoned"
        /\ UNCHANGED <<open, runStart, outcome, log>>
    BY <1>3 DEF HarnessStopFails
  <2>2. open /\ runStart /\ runEnd = NoEnd
    BY <2>1, OpenPhase DEF Over
  <2>3. NoCounters # NoEnd
    <3>1. NoCounters.enqueued = -2 /\ NoEnd.enqueued = -1 /\ -2 # -1
      BY DEF NoCounters, NoEnd
    <3> QED
      BY <3>1
  <2>4. NoCounters = Log!NoCounters
    BY DEF NoCounters, Log!NoCounters
  <2>5. Log!RunEndWithError
    BY <2>1, <2>2, <2>3, <2>4 DEF Log!RunEndWithError
  <2> QED
    BY <2>5 DEF Log!Next
<1>4. CASE CloseRecorder
  <2>1. /\ open /\ ~open'
        /\ UNCHANGED <<harness, runStart, outcome, log, runEnd>>
    BY <1>4 DEF CloseRecorder, FileInv, PhaseInv
  <2>2. Log!Close
    BY <2>1 DEF Log!Close
  <2> QED
    BY <2>2 DEF Log!Next
<1> QED
  BY <1>1, <1>2, <1>3, <1>4 DEF MainStep, Teardown

\* Every step of the run writes what RunLog allows next, or nothing.
LEMMA NextRefines == IInv /\ FileInv /\ [Next]_vars => [Log!Next]_(Log!vars)
<1> SUFFICES ASSUME IInv, FileInv, [Next]_vars PROVE [Log!Next]_(Log!vars)
  OBVIOUS
<1>1. CASE QuietSetup \/ Start
  BY <1>1, SetupRefines
<1>2. CASE Generate \/ SamplerStep
  <2>1. UNCHANGED <<open, runStart, outcome, log, runEnd, harness>>
    BY <1>2 DEF Generate, Tick, Send, Finish, NotByGenerator, fileVars,
                SamplerStep, SamplerTick, RecordSample, SamplerExit, NotBySampler
  <2> QED
    BY <2>1, FileUnchanged DEF Clean
<1>3. CASE \E e \in Enqueuers : EnqueuerStep(e)
  BY <1>3, EnqueuerRefines
<1>4. CASE \E r \in Requests : WorkerStep(r)
  BY <1>4, WorkerRefines
<1>5. CASE MainStep
  BY <1>5, MainRefines
<1> QED
  BY <1>1, <1>2, <1>3, <1>4, <1>5 DEF Next, Setup, QuietSetup, MainStep

\* The result file of every run is one that RunLog allows: run_end counts the answers of
\* the enqueuers exactly, is ahead of the outcomes on file by no more than the attempts
\* still running, and counts them exactly after a Stop that drained the workers.
THEOREM RunWritesRunLog == Spec => ImplementsRunLog
BY InitRefines, SpecFile, NextRefines, PTL DEF Spec, ImplementsRunLog, Log!Spec
=============================================================================
