------------------------------- MODULE Analyze -------------------------------
(***************************************************************************)
(* analyzeReader: one result file, event by event, into a run summary.     *)
(* The files are those RunLog allows, with the time stamps of the recorder *)
(* (taken under its lock, so they never decrease in file order).  The      *)
(* analyzer reads the file afterwards; since it is a fold over the events, *)
(* `sum` holds what it has made of the events written so far, and the      *)
(* invariants speak about every file, complete or cut short.               *)
(***************************************************************************)
EXTENDS Integers, FiniteSetsExt, Sequences, BagsExt

CONSTANTS
  Requests, MaxAttempts,  \* of RunLog
  Tenants,
  Classes,      \* error_class values of worker failures; "" when not simulated
  Levels,       \* goroutine counts of resource samples
  Warmup,       \* WarmupDefault
  MaxTime       \* bound: the clock

ASSUME RunAssumption == IsFiniteSet(Requests) /\ MaxAttempts \in Nat
ASSUME TenantAssumption == IsFiniteSet(Tenants)
ASSUME ClassAssumption == Classes \subseteq {"", "rate_limit", "transient", "permanent"}
ASSUME TimeAssumption == Warmup \in Nat /\ MaxTime \in Nat
ASSUME LevelAssumption == Levels \subseteq Nat

VARIABLES
  phase, outcome, log, end, clean,  \* of RunLog
  now,
  tenant,   \* tenant[r]: the tenant request r was generated for
  sum,      \* the variables of analyzeReader
  \* History.
  file,     \* file[r]: the events about job r, in the order of the file
  early     \* jobs completed before the first job_enqueued of their tenant

logVars == <<phase, outcome, log, end, clean>>
history == <<file, early>>
vars == <<logVars, now, tenant, sum, history>>

Log == INSTANCE RunLog

None == -1

\* The empty map, and the empty bag of samples.
NoMap == [k \in {} |-> 0]
Put(map, key, value) == [k \in DOMAIN map \cup {key} |-> IF k = key THEN value ELSE map[k]]

NewTenant == [enqueued |-> 0, completed |-> 0]

Fresh ==
  [readable |-> TRUE, startTime |-> None, endTime |-> None,
   enqueued |-> 0, completed |-> 0, failed |-> 0,
   enqueueTS |-> NoMap, startTS |-> NoMap, tenantByJob |-> NoMap,
   pickup |-> NoMap, work |-> NoMap, e2e |-> NoMap,
   perTenantPickup |-> [t \in Tenants |-> NoMap],
   perTenant |-> NoMap, errors |-> NoMap, maxGoroutines |-> 0]

----------------------------------------------------------------------------
(* The cases of the switch.                                                *)

Warm(s, at) == s.startTime # None /\ at < s.startTime + Warmup

OnRunStart(s, at) == [s EXCEPT !.startTime = at]

\* Counters that run_end does not carry stay zero.
OnRunEnd(s, at, c) ==
  IF c = Log!NoCounters THEN [s EXCEPT !.endTime = at]
  ELSE [s EXCEPT !.endTime = at, !.enqueued = c.enqueued, !.completed = c.completed,
                 !.failed = c.failed]

OnEnqueued(s, at, r, t) ==
  LET counts == IF t \in DOMAIN s.perTenant THEN s.perTenant[t] ELSE NewTenant IN
  [s EXCEPT !.enqueueTS = Put(@, r, at),
            !.tenantByJob = Put(@, r, t),
            !.perTenant = Put(@, t, [counts EXCEPT !.enqueued = @ + 1])]

\* Mutant: the start is only remembered after the warm-up.
OnStartedAfterWarmup(s, at, r) ==
  IF Warm(s, at) THEN s
  ELSE IF r \notin DOMAIN s.enqueueTS THEN [s EXCEPT !.startTS = Put(@, r, at)]
  ELSE [s EXCEPT !.startTS = Put(@, r, at),
                 !.pickup = BagAdd(@, at - s.enqueueTS[r]),
                 !.perTenantPickup[s.tenantByJob[r]] = BagAdd(@, at - s.enqueueTS[r])]

OnStarted(s, at, r) ==
  LET t == [s EXCEPT !.startTS = Put(@, r, at)] IN
  IF Warm(s, at) \/ r \notin DOMAIN s.enqueueTS THEN t
  ELSE [t EXCEPT !.pickup = BagAdd(@, at - s.enqueueTS[r]),
                 !.perTenantPickup[s.tenantByJob[r]] = BagAdd(@, at - s.enqueueTS[r])]

SampleSince(bag, map, r, at) == IF r \in DOMAIN map THEN BagAdd(bag, at - map[r]) ELSE bag

\* Mutant: the completion of a tenant is counted only outside the warm-up.
OnCompletedAfterWarmup(s, at, r, t) ==
  IF Warm(s, at) THEN s
  ELSE [s EXCEPT !.perTenant = IF t \in DOMAIN @ THEN [@ EXCEPT ![t].completed = @ + 1] ELSE @,
                 !.work = SampleSince(@, s.startTS, r, at),
                 !.e2e = SampleSince(@, s.enqueueTS, r, at)]

OnCompleted(s, at, r, t) ==
  LET counts == s.perTenant
      u == [s EXCEPT !.perTenant = IF t \in DOMAIN counts
                                   THEN [counts EXCEPT ![t].completed = @ + 1] ELSE counts] IN
  IF Warm(s, at) THEN u
  ELSE [u EXCEPT !.work = SampleSince(@, s.startTS, r, at),
                 !.e2e = SampleSince(@, s.enqueueTS, r, at)]

\* Mutant: a failure without a class is passed over.
OnFailedClassified(s, class) ==
  IF class = "" THEN s ELSE [s EXCEPT !.errors = BagAdd(@, class)]

OnFailed(s, class) ==
  [s EXCEPT !.errors = BagAdd(@, IF class = "" THEN "unclassified" ELSE class)]

OnSample(s, g) == [s EXCEPT !.maxGoroutines = IF g > @ THEN g ELSE @]

\* A line that does not parse ends the reading with an error.
OnBrokenLine(s) == [s EXCEPT !.readable = FALSE]

\* Whether the file yields a summary and no error.
Analyzed(s) == s.readable /\ s.startTime # None /\ s.endTime # None

----------------------------------------------------------------------------
(* The file is written, and read, event by event.                          *)

Event(kind, r) == file' = [file EXCEPT ![r] = Append(@, [kind |-> kind, at |-> now])]

RunStart ==
  /\ Log!RunStart
  /\ sum' = OnRunStart(sum, now)
  /\ UNCHANGED <<now, tenant, history>>

Enqueued(r) ==
  /\ Log!Answer(r, "enqueued")
  /\ Event("enqueued", r)
  /\ sum' = OnEnqueued(sum, now, r, tenant[r])
  /\ UNCHANGED <<now, tenant, early>>

\* The job_failed of the enqueue stage has neither job_id nor error_class.
Rejected(r) ==
  /\ Log!Answer(r, "failed")
  /\ sum' = OnFailed(sum, "")
  /\ UNCHANGED <<now, tenant, history>>

Started(r) ==
  /\ Log!Started(r)
  /\ Event("started", r)
  /\ sum' = OnStarted(sum, now, r)
  /\ UNCHANGED <<now, tenant, early>>

Completed(r) ==
  /\ Log!Ended(r, "completed")
  /\ Event("completed", r)
  /\ sum' = OnCompleted(sum, now, r, tenant[r])
  /\ early' = IF \E q \in Requests : tenant[q] = tenant[r] /\ outcome[q] = "enqueued"
              THEN early ELSE early \cup {r}
  /\ UNCHANGED <<now, tenant>>

Failed(r, class) ==
  /\ Log!Ended(r, "failed")
  /\ sum' = OnFailed(sum, class)
  /\ UNCHANGED <<now, tenant, history>>

Sampled(g) ==
  /\ phase = "open"
  /\ sum' = OnSample(sum, g)
  /\ UNCHANGED <<logVars, now, tenant, history>>

RunEnd ==
  /\ \/ \E c, f \in 0..Cardinality(Log!Busy) : Log!RunEnd(c, f)
     \/ Log!RunEndWithError
  /\ sum' = OnRunEnd(sum, now, end')
  /\ UNCHANGED <<now, tenant, history>>

\* The process dies in the middle of a line.  After a clean run_end nobody writes.
Break ==
  /\ ~clean
  /\ Log!Close
  /\ sum' = OnBrokenLine(sum)
  /\ UNCHANGED <<now, tenant, history>>

Tick ==
  /\ phase \notin {"new", "closed"}
  /\ now < MaxTime
  /\ now' = now + 1
  /\ UNCHANGED <<logVars, tenant, sum, history>>

Init ==
  /\ Log!Init
  /\ now = 0
  /\ tenant \in [Requests -> Tenants]
  /\ sum = Fresh
  /\ file = [r \in Requests |-> <<>>]
  /\ early = {}

Next ==
  \/ RunStart \/ RunEnd \/ Break \/ Tick
  \/ \E r \in Requests :
       \/ Enqueued(r) \/ Rejected(r) \/ Started(r) \/ Completed(r)
       \/ \E class \in Classes : Failed(r, class)
  \/ \E g \in Levels : Sampled(g)

Spec == Init /\ [][Next]_vars

----------------------------------------------------------------------------
(* Properties                                                              *)

\* The latencies of the events of one kind after the warm-up, each measured from
\* the last event of another kind about the same job that is before it.  An event is
\* named by its job and its place among the events about that job.
Events == UNION {{r} \X DOMAIN file[r] : r \in Requests}
Since(r, i, kind) == {j \in 1..(i - 1) : file[r][j].kind = kind}
Latency(e, from) == file[e[1]][e[2]].at - file[e[1]][Max(Since(e[1], e[2], from))].at
Taken(of, from) ==
  {e \in Events : /\ file[e[1]][e[2]].kind = of
                  /\ file[e[1]][e[2]].at >= sum.startTime + Warmup
                  /\ Since(e[1], e[2], from) # {}}
Measured(of, from) ==
  LET taken == Taken(of, from) IN
  [x \in {Latency(e, from) : e \in taken} |-> Cardinality({e \in taken : Latency(e, from) = x})]

\* While no line is broken, the samples are the true latencies of the file: a
\* retry is measured from its own start as work and from the enqueue as pickup,
\* the start of a run that began in the warm-up still counts for its work, and a
\* start that overtook its job_enqueued yields no pickup sample, never a negative one.
SamplesAreTrue ==
  sum.readable =>
    /\ sum.pickup = Measured("started", "enqueued")
    /\ sum.work = Measured("completed", "started")
    /\ sum.e2e = Measured("completed", "enqueued")

Copies(x, B) == IF x \in DOMAIN B THEN B[x] ELSE 0

\* The tenants share out the run: every accepted request and every pickup sample
\* belongs to one of them, and so does every completion, also one in the
\* warm-up, except those recorded before the first job_enqueued of their tenant.
TenantsAddUp ==
  /\ \A t \in Tenants :
       LET mine == {r \in Requests : tenant[r] = t}
           accepted == {r \in mine : outcome[r] = "enqueued"}
           counts == IF t \in DOMAIN sum.perTenant THEN sum.perTenant[t] ELSE NewTenant
       IN /\ counts.enqueued = Cardinality(accepted)
          /\ counts.completed = Cardinality({r \in mine \ early : log[r].completed = 1})
  /\ \A x \in DOMAIN sum.pickup :
       sum.pickup[x] = SumFunction([t \in Tenants |-> Copies(x, sum.perTenantPickup[t])])

\* The columns of the error table.
Columns == {"rate_limit", "transient", "permanent", "unclassified"}

\* A file yields a summary exactly when its run_end was written and no line is
\* broken, not even one that a worker began after run_end.  In a clean run the
\* counters of run_end agree with the events: completions, accepted requests, and
\* an error table that holds every failed attempt and every refused Enqueue.
TotalsAgree ==
  /\ Analyzed(sum) <=> end # Log!NoEnd /\ phase # "closed"
  /\ clean =>
       /\ sum.completed = Log!Total("completed")
       /\ sum.enqueued = Log!Accepted
       /\ SumFunction([c \in Columns |-> Copies(c, sum.errors)]) =
            sum.failed + Cardinality({r \in Requests : outcome[r] = "failed"})
=============================================================================
