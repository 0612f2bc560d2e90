------------------------ MODULE RiverHarness_proofs ------------------------
(***************************************************************************)
(* Proofs about RiverHarness, for any callers, kinds, limits and bounds:   *)
(* how jobs end, that no outcome is lost, and that the adapter implements  *)
(* the job contract.                                                       *)
(***************************************************************************)
EXTENDS RiverHarness, FiniteSetTheorems, TLAPS

States == {"available", "running", "retryable", "completed", "cancelled", "discarded", "stuck"}

JobRec == [args : Args, state : States, attempt : 0..MaxAttempts, by : Nat]

TypeInv ==
  /\ workers \subseteq Kinds
  /\ started \in BOOLEAN
  /\ client \in Nat
  /\ stopped \subseteq Nat
  /\ main \in {"ready", "stopping"}
  /\ poolOpen \in BOOLEAN
  /\ caller \in [Callers -> {"idle", "insert"}]
  /\ \E n \in 0..MaxJobs : DOMAIN job = 1..n
  /\ job \in [DOMAIN job -> JobRec]

\* An attempt is counted when it starts: a job that waits for one has one left,
\* and a job with a permanent error waits for none but the first.
Sound(j) ==
  /\ job[j].state \in {"available", "retryable"} => job[j].attempt < MaxAttempts
  /\ job[j].state # "available" => job[j].attempt > 0
  /\ job[j].args.class = "permanent" =>
       /\ job[j].attempt <= 1
       /\ job[j].state # "retryable"
       /\ job[j].state = "available" => job[j].attempt = 0
  /\ job[j].state = "discarded" => job[j].attempt = MaxAttempts
  /\ job[j].state = "completed" => job[j].args.class = "none"
  /\ job[j].state = "running" => job[j].by \in 1..client

\* While there was only one client, the pool is closed after its runs.
PoolInv ==
  client <= 1 =>
    /\ \A j \in DOMAIN job : job[j].state # "stuck"
    /\ ~poolOpen => \A j \in DOMAIN job : job[j].state # "running"

IInv == TypeInv /\ (\A j \in DOMAIN job : Sound(j)) /\ PoolInv

\* No job, no client: the invariant holds.
LEMMA InitInv == Init => IInv
<1> SUFFICES ASSUME Init PROVE IInv
  OBVIOUS
<1>1. DOMAIN job = {} /\ DOMAIN job = 1..0
  BY DEF Init
<1>2. 0 \in 0..MaxJobs
  BY BoundAssumption
<1>3. job \in [DOMAIN job -> JobRec]
  BY <1>1 DEF Init
<1>4. TypeInv
  BY <1>1, <1>2, <1>3 DEF Init, TypeInv
<1> QED
  BY <1>1, <1>4 DEF IInv, PoolInv

\* The steps of the harness itself.
HarnessStep ==
  \/ \E k \in Kinds : Register(k)
  \/ Start \/ StopBegin \/ StopDrained \/ StopTimeout
  \/ \E c \in Callers : EnqueueCheck(c) \/ InsertError(c)
  \/ UNCHANGED vars

\* They leave the table alone, and a client is never forgotten.
LEMMA HarnessFrame ==
  ASSUME TypeInv, HarnessStep
  PROVE  UNCHANGED job /\ client' \in Nat /\ client' >= client
BY DEF TypeInv, HarnessStep, Register, Start, StopBegin, StopDrained, StopTimeout,
       EnqueueCheck, InsertError, vars

\* The table is as it was, and the pool is only closed on a client without runs.
LEMMA HarnessInv ==
  ASSUME IInv, HarnessStep
  PROVE  IInv'
<1> USE DEF IInv
<1>1. UNCHANGED job /\ client' \in Nat /\ client' >= client
  BY HarnessFrame
<1>2. TypeInv'
  <2>1. workers' \subseteq Kinds /\ started' \in BOOLEAN /\ stopped' \subseteq Nat
    BY DEF TypeInv, HarnessStep, Register, Start, StopBegin, StopDrained, StopTimeout,
           EnqueueCheck, InsertError, vars
  <2>2. /\ main' \in {"ready", "stopping"} /\ poolOpen' \in BOOLEAN
        /\ caller' \in [Callers -> {"idle", "insert"}]
    BY DEF TypeInv, HarnessStep, Register, Start, StopBegin, StopDrained, StopTimeout,
           EnqueueCheck, InsertError, vars
  <2> QED
    BY <1>1, <2>1, <2>2 DEF TypeInv
<1>3. ASSUME NEW j \in DOMAIN job' PROVE Sound(j)'
  <2>1. job[j].by \in 1..client => job[j].by \in 1..client'
    BY <1>1 DEF TypeInv
  <2> QED
    BY <1>1, <2>1 DEF Sound
<1>4. PoolInv'
  <2>1. CASE StopDrained
    <3>1. UNCHANGED client /\ Running(client) = {}
      BY <2>1 DEF StopDrained
    <3>2. client <= 1 => \A j \in DOMAIN job : job[j].state # "running"
      BY <3>1 DEF Running, Sound, TypeInv
    <3> QED
      BY <1>1, <3>1, <3>2 DEF PoolInv
  <2>2. CASE ~StopDrained
    <3>1. (poolOpen' <=> poolOpen) /\ (client' <= 1 => client <= 1)
      BY <1>1, <2>2 DEF TypeInv, HarnessStep, Register, Start, StopBegin, StopTimeout,
         EnqueueCheck, InsertError, vars
    <3> QED
      BY <1>1, <3>1 DEF PoolInv
  <2> QED
    BY <2>1, <2>2
<1> QED
  BY <1>2, <1>3, <1>4

\* What an insert does to the table: the jobs n+1..m are new and available.
Inserted(n, m) ==
  /\ DOMAIN job = 1..n
  /\ DOMAIN job' = 1..m
  /\ \A j \in 1..n : job'[j] = job[j]
  /\ \A j \in (n+1)..m :
       /\ job'[j] \in JobRec
       /\ job'[j].state = "available"
       /\ job'[j].attempt = 0

LEMMA InsertFrame ==
  ASSUME TypeInv, NEW c \in Callers, NEW b \in Nat, NEW batch \in [1..b -> Args],
         Insert(c, batch)
  PROVE  /\ UNCHANGED <<workers, started, client, stopped, main, poolOpen, faults>>
         /\ caller' \in [Callers -> {"idle", "insert"}]
         /\ \E n, m \in 0..MaxJobs : n <= m /\ Inserted(n, m)
<1>1. PICK n \in 0..MaxJobs : DOMAIN job = 1..n
  BY DEF TypeInv
<1>2. Cardinality(DOMAIN job) = n /\ Cardinality(DOMAIN batch) = b
  <2>1. n \in Nat /\ DOMAIN batch = 1..b
    BY BoundAssumption
  <2> QED
    BY <1>1, <2>1, FS_Interval
<1> DEFINE m == n + b
<1>3. m \in 0..MaxJobs /\ n <= m
  BY <1>2, BoundAssumption DEF Insert
<1>4. job' = [j \in 1..m |->
                IF j <= n THEN job[j]
                ELSE [args |-> batch[j - n], state |-> "available", attempt |-> 0, by |-> 0]]
  BY <1>2 DEF Insert
<1>5. \A j \in 1..n : j \in 1..m /\ job'[j] = job[j]
  BY <1>3, <1>4, BoundAssumption
<1>6. ASSUME NEW j \in (n+1)..m
      PROVE  job'[j] \in JobRec /\ job'[j].state = "available" /\ job'[j].attempt = 0
  <2>1. j \in 1..m /\ ~(j <= n) /\ j - n \in 1..b
    BY BoundAssumption
  <2>2. job'[j] = [args |-> batch[j - n], state |-> "available", attempt |-> 0, by |-> 0]
    BY <1>4, <2>1
  <2>3. batch[j - n] \in Args /\ 0 \in 0..MaxAttempts
    BY <2>1, ConfigAssumption
  <2> QED
    BY <2>2, <2>3 DEF JobRec, States
<1>7. Inserted(n, m)
  BY <1>1, <1>4, <1>5, <1>6 DEF Inserted
<1>8. caller' \in [Callers -> {"idle", "insert"}]
  BY DEF Insert, TypeInv
<1> QED
  BY <1>3, <1>7, <1>8 DEF Insert

\* New jobs have had no attempt, whether they came alone or in a batch.
LEMMA InsertInv ==
  ASSUME IInv, NEW c \in Callers, NEW b \in Nat, NEW batch \in [1..b -> Args],
         Insert(c, batch)
  PROVE  IInv'
<1> USE DEF IInv
<1>1. PICK n \in 0..MaxJobs, m \in 0..MaxJobs : n <= m /\ Inserted(n, m)
  BY InsertFrame
<1>2. /\ UNCHANGED <<workers, started, client, stopped, main, poolOpen, faults>>
      /\ caller' \in [Callers -> {"idle", "insert"}]
  BY InsertFrame
<1>3. ASSUME NEW j \in DOMAIN job'
      PROVE  \/ j \in DOMAIN job /\ job'[j] = job[j]
             \/ job'[j] \in JobRec /\ job'[j].state = "available" /\ job'[j].attempt = 0
  <2>1. j \in 1..n \/ j \in (n+1)..m
    BY <1>1, BoundAssumption DEF Inserted
  <2> QED
    BY <1>1, <2>1 DEF Inserted
<1>4. job' \in [DOMAIN job' -> JobRec]
  <2>1. \A j \in DOMAIN job' : job'[j] \in JobRec
    BY <1>3 DEF TypeInv
  <2>2. job' = [j \in DOMAIN job' |-> job'[j]]
    BY DEF Insert
  <2> QED
    BY <2>1, <2>2
<1>5. TypeInv'
  BY <1>1, <1>2, <1>4 DEF TypeInv, Inserted
<1>6. \A j \in DOMAIN job' : Sound(j)'
  BY <1>2, <1>3, ConfigAssumption DEF Sound
<1>7. PoolInv'
  BY <1>2, <1>3 DEF PoolInv
<1> QED
  BY <1>5, <1>6, <1>7

\* A step of one job leaves the others alone; a run starts on an open pool, and
\* an outcome is lost on a closed one.
JobChange(j) ==
  /\ UNCHANGED NotByJobs
  /\ job' = [job EXCEPT ![j] = job'[j]]
  /\ job'[j] \in JobRec
  /\ job'[j].args = job[j].args
  /\ job'[j].state = "running" => poolOpen
  /\ job'[j].state = "stuck" => ~poolOpen /\ job[j].state = "running"

LEMMA FetchChange ==
  ASSUME IInv, NEW j \in DOMAIN job, Fetch(j)
  PROVE  /\ JobChange(j)
         /\ job[j].state = "available" /\ job'[j].state = "running"
         /\ job'[j].attempt = job[j].attempt + 1 /\ job'[j].by \in 1..client
<1> USE DEF IInv
<1>1. PICK k \in Live :
        job' = [job EXCEPT ![j].state = "running", ![j].attempt = @ + 1, ![j].by = k]
  BY DEF Fetch
<1>2. job[j] \in JobRec /\ job[j].attempt < MaxAttempts
  BY DEF TypeInv, Fetch, Sound
<1>3. job[j].attempt + 1 \in 0..MaxAttempts /\ k \in Nat
  BY <1>2, ConfigAssumption DEF JobRec, Live
<1>4. job'[j] = [job[j] EXCEPT !.state = "running", !.attempt = @ + 1, !.by = k]
  BY <1>1 DEF TypeInv
<1>5. /\ job'[j].args = job[j].args /\ job'[j].state = "running"
      /\ job'[j].attempt = job[j].attempt + 1 /\ job'[j].by = k
      /\ job'[j] \in JobRec
  BY <1>2, <1>3, <1>4 DEF JobRec, States
<1>6. job' = [job EXCEPT ![j] = job'[j]]
  BY <1>1 DEF TypeInv
<1> QED
  BY <1>1, <1>5, <1>6 DEF Fetch, JobChange, Live

LEMMA WorkChange ==
  ASSUME IInv, NEW j \in DOMAIN job, Work(j)
  PROVE  /\ JobChange(j)
         /\ job[j].state = "running"
         /\ job'[j].state = IF poolOpen THEN Outcome(j) ELSE "stuck"
         /\ job'[j].attempt = job[j].attempt
<1> USE DEF IInv
<1> DEFINE to == IF poolOpen THEN Outcome(j) ELSE "stuck"
<1>1. job[j] \in JobRec
  BY DEF TypeInv
<1>2. to \in States /\ to # "running" /\ (to = "stuck" => ~poolOpen)
  BY DEF Outcome, Errored, States
<1>3. job'[j] = [job[j] EXCEPT !.state = to]
  BY DEF TypeInv, Work
<1> HIDE DEF to
<1>4. /\ job'[j].args = job[j].args /\ job'[j].state = to
      /\ job'[j].attempt = job[j].attempt /\ job'[j] \in JobRec
  BY <1>1, <1>2, <1>3 DEF JobRec
<1>5. job' = [job EXCEPT ![j] = job'[j]]
  BY DEF TypeInv, Work
<1> QED
  BY <1>2, <1>4, <1>5 DEF Work, JobChange, to

LEMMA RescheduleChange ==
  ASSUME IInv, NEW j \in DOMAIN job, Reschedule(j)
  PROVE  /\ JobChange(j)
         /\ job[j].state = "retryable" /\ job'[j].state = "available"
         /\ job'[j].attempt = job[j].attempt
<1> USE DEF IInv
<1>1. job[j] \in JobRec
  BY DEF TypeInv
<1>2. job'[j] = [job[j] EXCEPT !.state = "available"]
  BY DEF TypeInv, Reschedule
<1>3. /\ job'[j].args = job[j].args /\ job'[j].state = "available"
      /\ job'[j].attempt = job[j].attempt /\ job'[j] \in JobRec
  BY <1>1, <1>2 DEF JobRec, States
<1>4. job' = [job EXCEPT ![j] = job'[j]]
  BY DEF TypeInv, Reschedule
<1> QED
  BY <1>3, <1>4 DEF Reschedule, JobChange

\* The invariant needs looking at for the job that moves only.
LEMMA JobInv ==
  ASSUME IInv, NEW j \in DOMAIN job, JobChange(j), Sound(j)'
  PROVE  IInv'
<1> USE DEF IInv, JobChange, NotByJobs
<1>1. /\ DOMAIN job' = DOMAIN job /\ job' \in [DOMAIN job -> JobRec]
      /\ \A k \in DOMAIN job : k # j => job'[k] = job[k]
  BY DEF TypeInv
<1>2. TypeInv'
  BY <1>1 DEF TypeInv
<1>3. \A k \in DOMAIN job' : Sound(k)'
  BY <1>1 DEF Sound
<1>4. PoolInv'
  BY <1>1 DEF PoolInv, TypeInv
<1> QED
  BY <1>2, <1>3, <1>4

LEMMA JobStepInv ==
  ASSUME IInv, NEW j \in DOMAIN job, JobStep(j)
  PROVE  IInv'
<1>1. job[j] \in JobRec /\ Sound(j)
  BY DEF IInv, TypeInv
<1>2. CASE Fetch(j)
  <2>1. Sound(j)'
    BY <1>1, <1>2, FetchChange, ConfigAssumption DEF Sound, JobChange, NotByJobs, JobRec, Args, Classes
  <2> QED
    BY <1>2, <2>1, FetchChange, JobInv
<1>3. CASE Work(j)
  <2>1. Sound(j)'
    BY <1>1, <1>3, WorkChange, ConfigAssumption
       DEF Sound, JobChange, NotByJobs, JobRec, Args, Classes, Outcome, Errored
  <2> QED
    BY <1>3, <2>1, WorkChange, JobInv
<1>4. CASE Reschedule(j)
  <2>1. Sound(j)'
    BY <1>1, <1>4, RescheduleChange DEF Sound, JobChange, NotByJobs
  <2> QED
    BY <1>4, <2>1, RescheduleChange, JobInv
<1> QED
  BY <1>2, <1>3, <1>4 DEF JobStep

LEMMA NextInv == IInv /\ [Next]_vars => IInv'
<1> SUFFICES ASSUME IInv, [Next]_vars PROVE IInv'
  OBVIOUS
<1>1. CASE HarnessStep
  BY <1>1, HarnessInv
<1>2. CASE \E c \in Callers, n \in 1..MaxBatch : \E batch \in [1..n -> Args] : Insert(c, batch)
  <2>1. PICK c \in Callers, n \in 1..MaxBatch : \E batch \in [1..n -> Args] : Insert(c, batch)
    BY <1>2
  <2>2. PICK batch \in [1..n -> Args] : Insert(c, batch)
    BY <2>1
  <2>3. n \in Nat
    BY BoundAssumption
  <2> QED
    BY <2>2, <2>3, InsertInv
<1>3. CASE \E j \in DOMAIN job : JobStep(j)
  BY <1>3, JobStepInv
<1> QED
  BY <1>1, <1>2, <1>3 DEF Next, CallerStep, HarnessStep

THEOREM SpecInv == Spec => []IInv
BY InitInv, NextInv, PTL DEF Spec

\* However the jobs, batches, stops and restarts interleave, the class of the
\* injected error alone decides how a job with a worker ends.
THEOREM OutcomesFollowClasses == Spec => []OutcomeFollowsClass
<1>1. IInv => OutcomeFollowsClass
  BY DEF IInv, Sound, OutcomeFollowsClass
<1> QED
  BY <1>1, SpecInv, PTL

\* As long as the harness is started once, Stop closes the pool under no run.
THEOREM NoOutcomeIsLost == Spec => []NoOutcomeLost
<1>1. IInv => NoOutcomeLost
  BY DEF IInv, TypeInv, PoolInv, NoOutcomeLost
<1> QED
  BY <1>1, SpecInv, PTL

----------------------------------------------------------------------------
(* The adapter implements JobContract.                                     *)

StatusOf == [j \in Jobs |-> Status(j)]
AttemptOf == [j \in Jobs |-> Attempt(j)]

\* What the state of a job maps to.
Maps(j) ==
  LET s == job[j].state IN
  /\ s = "available" => Status(j) = "queued" /\ Attempt(j) = job[j].attempt + 1
  /\ s # "available" => Attempt(j) = job[j].attempt
  /\ s = "running" => Status(j) = "running"
  /\ s = "retryable" => Status(j) = "waiting"
  /\ s = "completed" => Status(j) = "succeeded"
  /\ s \in {"cancelled", "discarded"} => Status(j) = "failed"
  /\ s = "stuck" => Status(j) = "lost"

LEMMA Mapped ==
  /\ \A j \in DOMAIN job : Maps(j)
  /\ \A j \in DOMAIN job' : Maps(j)'
BY DEF Maps, Status, Attempt

\* A job that does not change looks the same to the contract.
LEMMA SameJob ==
  ASSUME IInv, NEW j, j \in DOMAIN job' <=> j \in DOMAIN job,
         j \in DOMAIN job => job'[j] = job[j]
  PROVE  Status(j)' = Status(j) /\ Attempt(j)' = Attempt(j)
<1>1. CASE j \notin DOMAIN job
  BY <1>1 DEF Status, Attempt
<1>2. CASE j \in DOMAIN job
  <2>1. Maps(j) /\ Maps(j)' /\ job[j].state \in States
    BY <1>2, Mapped DEF IInv, TypeInv, JobRec
  <2> QED
    BY <1>2, <2>1 DEF Maps, States
<1> QED
  BY <1>1, <1>2

LEMMA JobsAreJobs == TypeInv => DOMAIN job \subseteq Jobs
BY BoundAssumption DEF TypeInv, Jobs

\* The step of one job changes the two maps at that job.
LEMMA JobMoves ==
  ASSUME IInv, NEW j \in DOMAIN job, JobChange(j)
  PROVE  /\ j \in Jobs /\ j \in DOMAIN job'
         /\ StatusOf' = [StatusOf EXCEPT ![j] = Status(j)']
         /\ AttemptOf' = [AttemptOf EXCEPT ![j] = Attempt(j)']
         /\ StatusOf[j] = Status(j) /\ AttemptOf[j] = Attempt(j)
<1>1. j \in Jobs
  BY JobsAreJobs DEF IInv
<1>2. DOMAIN job' = DOMAIN job /\ \A k \in DOMAIN job : k # j => job'[k] = job[k]
  BY DEF JobChange, IInv, TypeInv
<1>3. \A k \in Jobs : k # j => Status(k)' = Status(k) /\ Attempt(k)' = Attempt(k)
  BY <1>2, SameJob
<1> QED
  BY <1>1, <1>2, <1>3 DEF StatusOf, AttemptOf

LEMMA FetchIsRun ==
  ASSUME IInv, NEW j \in DOMAIN job, Fetch(j)
  PROVE  Contract!Next
<1>1. /\ JobChange(j) /\ job[j].state = "available" /\ job'[j].state = "running"
      /\ job'[j].attempt = job[j].attempt + 1
  BY FetchChange
<1>2. Maps(j) /\ Maps(j)'
  BY <1>1, Mapped, JobMoves
<1>3. Status(j) = "queued" /\ Status(j)' = "running" /\ Attempt(j)' = Attempt(j)
  BY <1>1, <1>2 DEF Maps
<1>4. AttemptOf' = AttemptOf
  BY <1>1, <1>3, JobMoves DEF AttemptOf
<1>5. Contract!Run(j)
  BY <1>1, <1>3, <1>4, JobMoves DEF Contract!Run, Contract!Move, StatusOf, AttemptOf
<1> QED
  BY <1>1, <1>5, JobMoves DEF Contract!Next

\* The five ways a run may end, in River's terms and in the contract's.
LEMMA WorkIsAnEnd ==
  ASSUME IInv, NEW j \in DOMAIN job, Work(j)
  PROVE  Contract!Next
<1>1. /\ JobChange(j) /\ job[j].state = "running" /\ job'[j].attempt = job[j].attempt
      /\ job'[j].state = IF poolOpen THEN Outcome(j) ELSE "stuck"
  BY WorkChange
<1>2. Maps(j) /\ Maps(j)' /\ j \in Jobs
  BY <1>1, Mapped, JobMoves
<1>3. /\ job'[j].state \in {"completed", "cancelled", "discarded", "retryable", "stuck"}
      /\ job'[j].state = "retryable" => job[j].attempt < MaxAttempts
  BY <1>1 DEF Outcome, Errored
<1>4. Status(j) = "running" /\ Attempt(j) = job[j].attempt /\ Attempt(j)' = Attempt(j)
  BY <1>1, <1>2, <1>3 DEF Maps
<1>5. AttemptOf' = AttemptOf
  BY <1>1, <1>4, JobMoves DEF AttemptOf
<1>6. CASE job'[j].state = "completed"
  <2>1. Contract!Succeed(j)
    BY <1>1, <1>2, <1>4, <1>5, <1>6, JobMoves
       DEF Contract!Succeed, Contract!Move, StatusOf, AttemptOf, Maps
  <2> QED
    BY <1>2, <2>1 DEF Contract!Next
<1>7. CASE job'[j].state \in {"cancelled", "discarded"}
  <2>1. Contract!Fail(j)
    BY <1>1, <1>2, <1>4, <1>5, <1>7, JobMoves
       DEF Contract!Fail, Contract!Move, StatusOf, AttemptOf, Maps
  <2> QED
    BY <1>2, <2>1 DEF Contract!Next
<1>8. CASE job'[j].state = "retryable"
  <2>1. AttemptOf[j] < MaxAttempts
    BY <1>1, <1>3, <1>4, <1>8, JobMoves
  <2>2. Contract!Defer(j)
    BY <1>1, <1>2, <1>4, <1>5, <1>8, <2>1, JobMoves
       DEF Contract!Defer, Contract!Move, StatusOf, AttemptOf, Maps
  <2> QED
    BY <1>2, <2>2 DEF Contract!Next
<1>9. CASE job'[j].state = "stuck"
  <2>1. StatusOf' = [i \in Jobs |-> IF i \in {j} THEN "lost" ELSE StatusOf[i]]
    BY <1>1, <1>2, <1>9, JobMoves DEF StatusOf, Maps
  <2>2. \A i \in {j} : StatusOf[i] \in {"running", "waiting"}
    BY <1>1, <1>4, JobMoves
  <2>3. Contract!Lose({j})
    BY <1>5, <2>1, <2>2 DEF Contract!Lose, StatusOf, AttemptOf
  <2> QED
    BY <1>2, <2>3 DEF Contract!Next
<1> QED
  BY <1>3, <1>6, <1>7, <1>8, <1>9

LEMMA RescheduleIsRequeue ==
  ASSUME IInv, NEW j \in DOMAIN job, Reschedule(j)
  PROVE  Contract!Next
<1>1. /\ JobChange(j) /\ job[j].state = "retryable" /\ job'[j].state = "available"
      /\ job'[j].attempt = job[j].attempt
  BY RescheduleChange
<1>2. Maps(j) /\ Maps(j)'
  BY <1>1, Mapped, JobMoves
<1>3. Status(j) = "waiting" /\ Status(j)' = "queued" /\ Attempt(j)' = Attempt(j) + 1
  BY <1>1, <1>2 DEF Maps
<1>4. Contract!Requeue(j)
  BY <1>1, <1>3, JobMoves DEF Contract!Requeue, Contract!Move, StatusOf, AttemptOf
<1> QED
  BY <1>1, <1>4, JobMoves DEF Contract!Next

\* An insert submits the whole batch in one step.
LEMMA InsertIsSubmit ==
  ASSUME IInv, NEW c \in Callers, NEW b \in Nat, NEW batch \in [1..b -> Args],
         Insert(c, batch)
  PROVE  Contract!Next
<1>1. PICK n \in 0..MaxJobs, m \in 0..MaxJobs : n <= m /\ Inserted(n, m)
  BY InsertFrame DEF IInv
<1> DEFINE J == (n+1)..m
<1>2. J \subseteq Jobs /\ \A j \in J : j \notin DOMAIN job /\ j \in DOMAIN job'
  BY <1>1, BoundAssumption DEF Inserted, Jobs
<1>3. \A j \in J : Status(j) = "absent" /\ Status(j)' = "queued" /\ Attempt(j)' = 1
  <2> SUFFICES ASSUME NEW j \in J
               PROVE  Status(j) = "absent" /\ Status(j)' = "queued" /\ Attempt(j)' = 1
    OBVIOUS
  <2>1. Status(j) = "absent"
    BY <1>2 DEF Status
  <2>2. Maps(j)' /\ job'[j].state = "available" /\ job'[j].attempt = 0
    BY <1>1, <1>2, Mapped DEF Inserted
  <2> QED
    BY <2>1, <2>2 DEF Maps
<1>4. ASSUME NEW j \in Jobs, j \notin J
      PROVE  Status(j)' = Status(j) /\ Attempt(j)' = Attempt(j)
  <2>1. (j \in DOMAIN job' <=> j \in DOMAIN job) /\ (j \in DOMAIN job => job'[j] = job[j])
    BY <1>1, <1>4, BoundAssumption DEF Inserted, Jobs
  <2> QED
    BY <2>1, SameJob
<1> HIDE DEF J
<1>5. StatusOf' = [j \in Jobs |-> IF j \in J THEN "queued" ELSE StatusOf[j]]
  BY <1>3, <1>4 DEF StatusOf
<1>6. AttemptOf' = [j \in Jobs |-> IF j \in J THEN 1 ELSE AttemptOf[j]]
  BY <1>3, <1>4 DEF AttemptOf
<1>7. \A j \in J : StatusOf[j] = "absent"
  BY <1>2, <1>3 DEF StatusOf
<1>8. Contract!Submit(J)
  BY <1>5, <1>6, <1>7 DEF Contract!Submit, StatusOf, AttemptOf
<1> QED
  BY <1>2, <1>8 DEF Contract!Next

LEMMA RefinesInit == Init => Contract!Init
BY DEF Init, Contract!Init, Status, Attempt

LEMMA RefinesNext == IInv /\ [Next]_vars => [Contract!Next]_(Contract!vars)
<1> SUFFICES ASSUME IInv, [Next]_vars PROVE Contract!Next \/ UNCHANGED Contract!vars
  OBVIOUS
<1>1. CASE HarnessStep
  <2>1. UNCHANGED job
    BY <1>1, HarnessFrame DEF IInv
  <2> QED
    BY <2>1 DEF Contract!vars, Status, Attempt
<1>2. CASE \E c \in Callers, n \in 1..MaxBatch : \E batch \in [1..n -> Args] : Insert(c, batch)
  <2>1. PICK c \in Callers, n \in 1..MaxBatch : \E batch \in [1..n -> Args] : Insert(c, batch)
    BY <1>2
  <2>2. PICK batch \in [1..n -> Args] : Insert(c, batch)
    BY <2>1
  <2>3. n \in Nat
    BY BoundAssumption
  <2> QED
    BY <2>2, <2>3, InsertIsSubmit
<1>3. CASE \E j \in DOMAIN job : JobStep(j)
  BY <1>3, FetchIsRun, WorkIsAnEnd, RescheduleIsRequeue DEF JobStep
<1> QED
  BY <1>1, <1>2, <1>3 DEF Next, CallerStep, HarnessStep

\* Whatever is enqueued, fails, stops and restarts, the jobs of the River
\* adapter live by the contract.
THEOREM RiverKeepsContract == Spec => ImplementsContract
BY SpecInv, RefinesInit, RefinesNext, PTL DEF Spec, ImplementsContract, Contract!Spec
=============================================================================
