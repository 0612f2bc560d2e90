------------------------ MODULE PlatlibHarness_proofs ------------------------
(***************************************************************************)
(* Proofs about PlatlibHarness, for any slots, clients, attempts, delays   *)
(* and bounds: its type invariant with the bound on the table, that no job *)
(* is lost without a crash, a fault or a shutdown, that a Stop that        *)
(* drained the agent leaves no row claimed, and that the adapter           *)
(* implements JobContract.                                                 *)
(***************************************************************************)
EXTENDS PlatlibHarness, FiniteSetTheorems, TLAPS

SameJob(i, k) == row[i].epoch = row[k].epoch /\ row[i].work = row[k].work
IsLast(i) == \A k \in RowIds : SameJob(i, k) => k <= i

\* The rows of a job carry its attempts in order, so one of them is the last.
OrderInv ==
  /\ \A i, k \in RowIds : SameJob(i, k) /\ i < k => row[i].attempt < row[k].attempt
  /\ \A i \in RowIds : \E k \in RowIds : SameJob(i, k) /\ IsLast(k)

\* This process has used the WorkIDs before nextWork.
WorkInv == \A i \in RowIds : row[i].epoch = epoch => row[i].work < nextWork

\* A WorkID that was drawn belongs to one client and has no row yet.
ClientInv ==
  /\ \A c \in Clients : client[c] < nextWork
  /\ \A c \in Clients : \A i \in RowIds :
       client[c] # 0 => ~(row[i].epoch = epoch /\ row[i].work = client[c])
  /\ \A c, d \in Clients : client[c] # 0 /\ client[c] = client[d] => c = d

\* A job is in one place only, the one of its last row: the queue, a slot or a
\* back-off goroutine.
ReadyInv == \A i \in RowIds : place[i] = "ready" => result[i] = "none" /\ IsLast(i)

Again(i) == result[i] = "retry" /\ IsLast(i) /\ row[i].attempt < MaxAttempts

SlotInv(s) ==
  LET i == slot[s].id IN
  slot[s].pc # "free" =>
    /\ i \in RowIds /\ place[i] = "claimed"
    /\ slot[s].pc = "running" => result[i] = "none" /\ IsLast(i)
    /\ slot[s].pc = "push" => Again(i) /\ i \notin backoff
    /\ slot[s].pc \in {"record", "delete"} => result[i] # "none"

SlotsApart ==
  \A s, t \in Slots :
    slot[s].pc # "free" /\ slot[t].pc # "free" /\ slot[s].id = slot[t].id => s = t

BackoffInv == \A i \in backoff : Again(i)

\* Runs need a started harness, and an open pool until the agent was given up on or a
\* second Stop closed it.
AllFree == \A s \in Slots : slot[s].pc = "free"

ProcessInv ==
  /\ start # "started" => AllFree /\ backoff = {}
  /\ ~poolOpen /\ stop # "timeout" /\ ~twice => AllFree
  /\ ~poolOpen /\ stop = "no" => backoff = {}
  /\ stop = "drained" => AllFree
  /\ twice => stop # "no"

\* While nothing went wrong, a job of this process is somewhere or has ended.
Live(i) ==
  place[i] = "ready" \/ InSlot(i, "running") \/ InSlot(i, "push") \/ i \in backoff

LossInv ==
  faults = 0 /\ stop = "no" =>
    \A i \in RowIds : row[i].epoch = epoch /\ IsLast(i) => Live(i) \/ result[i] \in {"ok", "failed"}

\* While nothing went wrong, the claimed rows are those of the slots.
ClaimInv ==
  epoch = 0 /\ faults = 0 /\ stop # "timeout" /\ ~twice =>
    \A i \in RowIds : place[i] = "claimed" => \E s \in Slots : slot[s].pc # "free" /\ slot[s].id = i

IInv ==
  /\ Cardinality(RowIds) \in Nat /\ TypeTables /\ TypeProcess
  /\ OrderInv /\ WorkInv /\ ClientInv /\ ReadyInv
  /\ (\A s \in Slots : SlotInv(s)) /\ SlotsApart /\ BackoffInv
  /\ ProcessInv /\ LossInv /\ ClaimInv

----------------------------------------------------------------------------
(* The table                                                               *)

RowRec == [epoch : 0..epoch, work : WorkIDs, attempt : 1..MaxAttempts, addressed : BOOLEAN]

\* While the rows stay, so do the jobs and their last rows.
LEMMA SameRows ==
  ASSUME UNCHANGED row
  PROVE  /\ RowIds' = RowIds
         /\ \A i, k \in RowIds : SameJob(i, k)' <=> SameJob(i, k)
         /\ \A i \in RowIds : IsLast(i)' <=> IsLast(i)
         /\ OrderInv => OrderInv'
<1>1. RowIds' = RowIds
  BY DEF RowIds
<1>2. \A i, k \in RowIds : SameJob(i, k)' <=> SameJob(i, k)
  BY DEF SameJob
<1>3. \A i \in RowIds : IsLast(i)' <=> IsLast(i)
  BY <1>1, <1>2 DEF IsLast
<1>4. OrderInv => OrderInv'
  BY <1>1, <1>2, <1>3 DEF OrderInv
<1> QED
  BY <1>1, <1>2, <1>3, <1>4

\* A push adds one ready row behind the others.
Added(n, r) ==
  /\ n \in Nat /\ RowIds = 1..n /\ RowIds' = 1..(n+1)
  /\ Cardinality(RowIds)' = n + 1
  /\ row' = [k \in 1..(n+1) |-> IF k = n + 1 THEN r ELSE row[k]]
  /\ place' = [k \in 1..(n+1) |-> IF k = n + 1 THEN "ready" ELSE place[k]]
  /\ result' = [k \in 1..(n+1) |-> IF k = n + 1 THEN "none" ELSE result[k]]

LEMMA PushAdds ==
  ASSUME IInv, NEW r, PushRow(r)
  PROVE  \E n \in Nat : Added(n, r)
<1> DEFINE n == Cardinality(RowIds)
<1>1. n \in Nat /\ RowIds = 1..n
  BY DEF IInv, TypeTables
<1>2. RowIds \cup {n + 1} = 1..(n+1)
  BY <1>1
<1>3. /\ row' = [k \in 1..(n+1) |-> IF k = n + 1 THEN r ELSE row[k]]
      /\ place' = [k \in 1..(n+1) |-> IF k = n + 1 THEN "ready" ELSE place[k]]
      /\ result' = [k \in 1..(n+1) |-> IF k = n + 1 THEN "none" ELSE result[k]]
  BY <1>2 DEF PushRow
<1>4. RowIds' = 1..(n+1)
  BY <1>3 DEF RowIds
<1>5. Cardinality(RowIds)' = n + 1
  <2>1. Cardinality(1..(n+1)) = n + 1
    BY <1>1, FS_Interval
  <2> QED
    BY <1>4, <2>1
<1> QED
  BY <1>1, <1>3, <1>4, <1>5 DEF Added

\* What a push means for the rows that were there: those of the same job are no
\* longer the last.
LEMMA AddedRows ==
  ASSUME IInv, NEW n, NEW r \in RowRec, Added(n, r),
         \A k \in RowIds : row[k].epoch = r.epoch /\ row[k].work = r.work =>
                             row[k].attempt < r.attempt
  PROVE  /\ \A k \in RowIds : /\ k \in RowIds' /\ k # n + 1
                              /\ row'[k] = row[k] /\ place'[k] = place[k] /\ result'[k] = result[k]
         /\ RowIds' = RowIds \cup {n + 1}
         /\ row'[n+1] = r /\ place'[n+1] = "ready" /\ result'[n+1] = "none"
         /\ \A k \in RowIds :
              IsLast(k)' <=> IsLast(k) /\ ~(row[k].epoch = r.epoch /\ row[k].work = r.work)
         /\ IsLast(n + 1)'
         /\ OrderInv'
<1>1. /\ \A k \in RowIds : /\ k \in RowIds' /\ k # n + 1 /\ k < n + 1
                           /\ row'[k] = row[k] /\ place'[k] = place[k] /\ result'[k] = result[k]
      /\ RowIds' = RowIds \cup {n + 1} /\ n \in Nat
      /\ row'[n+1] = r /\ place'[n+1] = "ready" /\ result'[n+1] = "none"
      /\ n + 1 \notin RowIds
  BY DEF Added
<1>2. \A i, k \in RowIds : SameJob(i, k)' <=> SameJob(i, k)
  BY <1>1 DEF SameJob
<1>3. \A k \in RowIds : SameJob(k, n + 1)' <=> row[k].epoch = r.epoch /\ row[k].work = r.work
  BY <1>1 DEF SameJob
<1>4. \A k \in RowIds :
        IsLast(k)' <=> IsLast(k) /\ ~(row[k].epoch = r.epoch /\ row[k].work = r.work)
  <2> SUFFICES ASSUME NEW k \in RowIds
               PROVE  IsLast(k)' <=> IsLast(k) /\ ~SameJob(k, n + 1)'
    BY <1>3
  <2>1. ~(n + 1 <= k) /\ k \in Nat
    BY DEF Added
  <2>2. IsLast(k)' <=> \A i \in RowIds \cup {n + 1} : SameJob(k, i)' => i <= k
    BY <1>1 DEF IsLast
  <2> QED
    BY <1>2, <2>1, <2>2 DEF IsLast
<1>5. IsLast(n + 1)'
  <2>1. \A k \in RowIds' : k <= n + 1
    BY DEF Added
  <2> QED
    BY <2>1 DEF IsLast
<1>6. OrderInv'
  <2>1. ASSUME NEW i \in RowIds', NEW k \in RowIds', SameJob(i, k)', i < k
        PROVE  row'[i].attempt < row'[k].attempt
    <3>1. i \in RowIds
      BY <2>1 DEF Added
    <3>2. CASE k \in RowIds
      BY <1>1, <1>2, <2>1, <3>1, <3>2 DEF IInv, OrderInv
    <3>3. CASE k = n + 1
      BY <1>1, <1>3, <2>1, <3>1, <3>3
    <3> QED
      BY <1>1, <3>2, <3>3
  <2>2. ASSUME NEW i \in RowIds'
        PROVE  \E k \in RowIds' : SameJob(i, k)' /\ IsLast(k)'
    <3>1. CASE i = n + 1
      BY <1>1, <1>5, <3>1 DEF SameJob
    <3>2. CASE i \in RowIds /\ SameJob(i, n + 1)'
      BY <1>1, <1>5, <3>2
    <3>3. CASE i \in RowIds /\ ~SameJob(i, n + 1)'
      <4>1. PICK k \in RowIds : SameJob(i, k) /\ IsLast(k)
        BY <3>3 DEF IInv, OrderInv
      <4>2. ~(row[k].epoch = r.epoch /\ row[k].work = r.work)
        BY <1>3, <3>3, <4>1 DEF SameJob
      <4> QED
        BY <1>1, <1>2, <1>4, <3>3, <4>1, <4>2
    <3> QED
      BY <1>1, <3>1, <3>2, <3>3
  <2> QED
    BY <2>1, <2>2 DEF OrderInv
<1> QED
  BY <1>1, <1>4, <1>5, <1>6

LEMMA AddedTypes ==
  ASSUME IInv, NEW n, NEW r \in RowRec, Added(n, r), UNCHANGED <<failure, epoch>>
  PROVE  Cardinality(RowIds)' \in Nat /\ TypeTables'
<1>1. row' \in [RowIds' -> RowRec']
  <2>1. \A k \in RowIds' : row'[k] \in RowRec
    <3>1. \A k \in RowIds : row[k] \in RowRec
      BY DEF IInv, TypeTables, RowRec
    <3> QED
      BY <3>1 DEF Added
  <2>2. RowRec' = RowRec
    BY DEF RowRec
  <2> QED
    BY <2>1, <2>2 DEF Added
<1>2. /\ place' \in [RowIds' -> {"ready", "claimed", "deleted"}]
      /\ result' \in [RowIds' -> {"none", "ok", "failed", "retry"}]
  BY DEF IInv, TypeTables, Added
<1>3. RowIds' = 1..Cardinality(RowIds)' /\ Cardinality(RowIds)' \in Nat
  BY DEF Added
<1> QED
  BY <1>1, <1>2, <1>3 DEF IInv, TypeTables, RowRec

\* No attempt of a job has two rows, so that the table is bounded by the jobs and
\* their attempts.
LEMMA TableBounded == IInv => Cardinality(RowIds) <= MaxRows
<1> SUFFICES ASSUME IInv PROVE Cardinality(RowIds) <= MaxRows
  OBVIOUS
<1> DEFINE E == 0..MaxCrashes
           A == 1..MaxAttempts
           T == (E \X WorkIDs) \X A
           f == [i \in RowIds |-> <<<<row[i].epoch, row[i].work>>, row[i].attempt>>]
<1>1. IsFiniteSet(E) /\ Cardinality(E) = MaxCrashes + 1
  BY BoundAssumption, FS_Interval
<1>2. IsFiniteSet(A) /\ Cardinality(A) = MaxAttempts
  BY AttemptsAssumption, FS_Interval
<1>3. IsFiniteSet(WorkIDs) /\ Cardinality(WorkIDs) = MaxJobs
  BY BoundAssumption, FS_Interval DEF WorkIDs
<1> HIDE DEF E, A
<1>4. IsFiniteSet(E \X WorkIDs) /\ Cardinality(E \X WorkIDs) = (MaxCrashes + 1) * MaxJobs
  BY <1>1, <1>3, FS_Product
<1>5. IsFiniteSet(T) /\ Cardinality(T) = ((MaxCrashes + 1) * MaxJobs) * MaxAttempts
  BY <1>2, <1>4, FS_Product
<1>6. Cardinality(T) = MaxRows
  BY <1>5, BoundAssumption, AttemptsAssumption DEF MaxRows
<1>7. f \in [RowIds -> T]
  <2>1. ASSUME NEW i \in RowIds
        PROVE  row[i].epoch \in E /\ row[i].work \in WorkIDs /\ row[i].attempt \in A
    BY BoundAssumption DEF IInv, TypeTables, TypeProcess, E, A
  <2> QED
    BY <2>1
<1>8. ASSUME NEW i \in RowIds, NEW k \in RowIds, f[i] = f[k] PROVE i = k
  <2>1. row[i].attempt = row[k].attempt /\ SameJob(i, k) /\ SameJob(k, i)
    BY <1>8 DEF SameJob
  <2>2. ~(row[i].attempt < row[k].attempt) /\ ~(row[k].attempt < row[i].attempt)
    BY <2>1, AttemptsAssumption DEF IInv, TypeTables
  <2>3. i \in Int /\ k \in Int
    BY DEF IInv, TypeTables
  <2> QED
    BY <2>1, <2>2, <2>3 DEF IInv, OrderInv
<1> HIDE DEF f, T
<1>9. f \in Injection(RowIds, T)
  BY <1>7, <1>8 DEF Injection, IsInjective
<1>10. Cardinality(RowIds) <= Cardinality(T)
  BY <1>5, <1>9, FS_Injection
<1> QED
  BY <1>6, <1>10

----------------------------------------------------------------------------
(* Steps that leave the rows, the slots and the back-off goroutines alone  *)

LEMMA InitInv == Init => IInv
<1> SUFFICES ASSUME Init PROVE IInv
  OBVIOUS
<1> USE DEF Init
<1>1. RowIds = {} /\ RowIds = 1..0 /\ Cardinality(RowIds) = 0
  <2>1. RowIds = {}
    BY DEF RowIds
  <2> QED
    BY <2>1, FS_EmptySet
<1>2. TypeTables
  BY <1>1 DEF TypeTables
<1>3. TypeProcess
  <2>1. slot \in [Slots -> [pc : {"free", "running", "push", "record", "delete"},
                           id : RowIds \cup {0}, err : BOOLEAN]]
    BY DEF NoRun
  <2>2. /\ epoch \in 0..MaxCrashes /\ nextWork \in 1..(MaxJobs + 1) /\ faults \in 0..MaxFaults
        /\ client \in [Clients -> 0..MaxJobs]
    BY BoundAssumption
  <2> QED
    BY <2>1, <2>2 DEF TypeProcess
<1>4. OrderInv /\ WorkInv /\ ClientInv /\ ReadyInv /\ LossInv /\ ClaimInv
  BY <1>1 DEF OrderInv, WorkInv, ClientInv, ReadyInv, LossInv, ClaimInv
<1>5. (\A s \in Slots : SlotInv(s)) /\ SlotsApart /\ BackoffInv /\ ProcessInv
  BY DEF SlotInv, SlotsApart, BackoffInv, ProcessInv, AllFree, NoRun
<1> QED
  BY <1>1, <1>2, <1>3, <1>4, <1>5 DEF IInv

QuietStep ==
  \/ Register \/ StartCheck \/ StartDone
  \/ \E c \in Clients : EnqueueCheck(c) \/ EnqueueError(c)
  \/ StopStep
  \/ UNCHANGED vars

LEMMA QuietFrame ==
  ASSUME IInv, QuietStep
  PROVE  /\ UNCHANGED <<row, place, failure, result, epoch, slot, backoff>>
         /\ nextWork' \in 1..(MaxJobs + 1) /\ nextWork' >= nextWork
         /\ faults' \in 0..MaxFaults /\ faults' >= faults
<1> USE DEF QuietStep, Register, StartCheck, StartDone, EnqueueCheck, EnqueueError, StopStep,
            StopGoesOn, StopUnstarted, StopBegin, StopWaited, AgentStopped, AgentStopTimeout,
            AgentStopFails, ClosePool, NotByStop, tables, life, vars
<1>1. UNCHANGED <<row, place, failure, result, epoch, slot, backoff>>
  OBVIOUS
<1>2. nextWork' \in 1..(MaxJobs + 1) /\ nextWork' >= nextWork
  BY BoundAssumption DEF IInv, TypeProcess
<1>3. faults' \in 0..MaxFaults /\ faults' >= faults
  BY BoundAssumption DEF StoreWorks, StoreFails, IInv, TypeProcess
<1> QED
  BY <1>1, <1>2, <1>3

\* Enqueue draws a WorkID that no row and no other client has.
LEMMA QuietClients ==
  ASSUME IInv, QuietStep
  PROVE  ClientInv'
<1> USE DEF IInv
<1>1. UNCHANGED <<row, epoch>> /\ UNCHANGED RowIds
  BY QuietFrame DEF RowIds
<1>2. /\ nextWork \in Int /\ nextWork > 0 /\ \A c \in Clients : client[c] \in Int
      /\ \A i \in RowIds : row[i].work \in Int
  BY BoundAssumption DEF TypeProcess, TypeTables, WorkIDs
<1>3. ASSUME NEW c \in Clients, EnqueueCheck(c) PROVE ClientInv'
  <2>1. /\ nextWork' = nextWork + 1 /\ client'[c] = nextWork
        /\ \A d \in Clients : d # c => client'[d] = client[d]
    BY <1>3 DEF EnqueueCheck, TypeProcess
  <2>2. \A d \in Clients : client'[d] < nextWork'
    BY <1>2, <2>1 DEF ClientInv
  <2>3. \A d \in Clients : \A i \in RowIds :
          client'[d] # 0 => ~(row[i].epoch = epoch /\ row[i].work = client'[d])
    BY <1>2, <2>1 DEF ClientInv, WorkInv
  <2>4. \A d, e \in Clients : client'[d] # 0 /\ client'[d] = client'[e] => d = e
    BY <1>2, <2>1 DEF ClientInv
  <2> QED
    BY <1>1, <2>2, <2>3, <2>4 DEF ClientInv
<1>4. ASSUME NEW c \in Clients, EnqueueError(c) PROVE ClientInv'
  <2>1. /\ nextWork' = nextWork /\ client'[c] = 0
        /\ \A d \in Clients : d # c => client'[d] = client[d]
    BY <1>4 DEF EnqueueError, TypeProcess
  <2> QED
    BY <1>1, <1>2, <2>1 DEF ClientInv
<1>5. CASE UNCHANGED <<client, nextWork>>
  BY <1>1, <1>5 DEF ClientInv
<1>6. \/ \E c \in Clients : EnqueueCheck(c) \/ EnqueueError(c)
      \/ UNCHANGED <<client, nextWork>>
  BY DEF QuietStep, Register, StartCheck, StartDone, StopStep, StopGoesOn, StopUnstarted, StopBegin,
         StopWaited, AgentStopped, AgentStopTimeout, AgentStopFails, ClosePool, NotByStop, vars
<1> QED
  BY <1>3, <1>4, <1>5, <1>6

LEMMA QuietInv ==
  ASSUME IInv, QuietStep
  PROVE  IInv'
<1> USE DEF IInv
<1>1. /\ UNCHANGED <<row, place, failure, result, epoch, slot, backoff>>
      /\ nextWork' \in 1..(MaxJobs + 1) /\ nextWork' >= nextWork
      /\ faults' \in 0..MaxFaults /\ faults' >= faults
  BY QuietFrame
<1>2. UNCHANGED RowIds /\ OrderInv' /\ \A i \in RowIds : IsLast(i)' <=> IsLast(i)
  BY <1>1, SameRows
<1>3. Cardinality(RowIds)' \in Nat /\ TypeTables'
  BY <1>1, <1>2 DEF TypeTables
<1>4. TypeProcess'
  <2> USE DEF QuietStep, Register, StartCheck, StartDone, EnqueueCheck, EnqueueError, StopStep,
              StopGoesOn, StopUnstarted, StopBegin, StopWaited, AgentStopped, AgentStopTimeout,
              AgentStopFails, ClosePool, NotByStop, tables, life, vars
  <2>1. client' \in [Clients -> 0..MaxJobs]
    BY BoundAssumption DEF TypeProcess
  <2>2. /\ stop' \in {"no", "wg", "agent", "drained", "timeout", "failed"}
        /\ poolOpen' \in BOOLEAN /\ twice' \in BOOLEAN
        /\ workers' \in BOOLEAN /\ start' \in {"new", "starting", "started"}
    BY DEF TypeProcess
  <2> QED
    BY <1>1, <1>2, <2>1, <2>2 DEF TypeProcess
<1>5. WorkInv'
  <2>1. \A i \in RowIds : row[i].work \in Int
    BY BoundAssumption DEF TypeTables, WorkIDs
  <2> QED
    BY <1>1, <1>2, <2>1, BoundAssumption DEF WorkInv, TypeProcess
<1>6. ReadyInv'
  BY <1>1, <1>2 DEF ReadyInv
<1>7. \A i \in RowIds : Again(i)' <=> Again(i)
  BY <1>1, <1>2 DEF Again
<1>8. \A s \in Slots : SlotInv(s)'
  BY <1>1, <1>2, <1>7 DEF SlotInv
<1>9. SlotsApart' /\ BackoffInv'
  BY <1>1, <1>7 DEF SlotsApart, BackoffInv, TypeProcess
<1>10. ProcessInv'
  <2>1. CASE StopUnstarted
    <3>1. /\ poolOpen' = FALSE /\ UNCHANGED <<stop, start>> /\ (twice' <=> stop # "no")
          /\ start # "started" \/ stop # "no"
      BY <2>1 DEF StopUnstarted, Started
    <3> QED
      BY <1>1, <3>1 DEF ProcessInv, AllFree
  <2>2. CASE StopBegin \/ StopGoesOn
    BY <1>1, <2>2 DEF ProcessInv, AllFree, StopGoesOn, StopBegin, StopWaited, AgentStopped,
                      AgentStopTimeout, AgentStopFails, ClosePool, NotByStop, life, Started
  <2>3. CASE ~StopStep
    <3>1. UNCHANGED <<stop, poolOpen, twice>> /\ (start' # "started" => start # "started")
      BY <2>3 DEF QuietStep, Register, StartCheck, StartDone, EnqueueCheck, EnqueueError, life, vars
    <3> QED
      BY <1>1, <3>1 DEF ProcessInv, AllFree
  <2> QED
    BY <2>1, <2>2, <2>3 DEF StopStep
<1>11. /\ faults' = 0 => faults = 0
       /\ stop' = "no" => stop = "no"
       /\ stop' # "timeout" => stop # "timeout"
       /\ ~twice' => ~twice
  <2>1. faults' = 0 => faults = 0
    BY <1>1, BoundAssumption DEF TypeProcess
  <2>2. CASE StopStep
    <3>1. CASE StopUnstarted
      <4>1. UNCHANGED stop /\ (twice' <=> stop # "no")
        BY <3>1 DEF StopUnstarted
      <4> QED
        BY <2>1, <4>1 DEF ProcessInv
    <3>2. CASE StopBegin \/ StopGoesOn
      BY <2>1, <3>2 DEF StopGoesOn, StopBegin, StopWaited, AgentStopped, AgentStopTimeout,
                        AgentStopFails, ClosePool, NotByStop, life, Started
    <3> QED
      BY <2>2, <3>1, <3>2 DEF StopStep
  <2>3. CASE ~StopStep
    BY <2>1, <2>3 DEF QuietStep, Register, StartCheck, StartDone, EnqueueCheck, EnqueueError,
                      tables, life, vars
  <2> QED
    BY <2>2, <2>3
<1>12. LossInv'
  BY <1>1, <1>2, <1>11 DEF LossInv, Live, InSlot
<1>13. ClaimInv'
  BY <1>1, <1>2, <1>11 DEF ClaimInv
<1>14. ClientInv'
  BY QuietClients
<1> QED
  BY <1>2, <1>3, <1>4, <1>5, <1>6, <1>8, <1>9, <1>10, <1>12, <1>13, <1>14

----------------------------------------------------------------------------
(* Steps of a slot that push nothing                                       *)

SlotRec ==
  [pc : {"free", "running", "push", "record", "delete"}, id : RowIds \cup {0}, err : BOOLEAN]

\* Slot s changes, and with it at most what is known of the rows.
SlotChange(s) ==
  /\ UNCHANGED <<row, epoch, workers, start, twice, nextWork, client, stop, poolOpen>>
  /\ slot' = [slot EXCEPT ![s] = slot'[s]] /\ slot'[s] \in SlotRec
  /\ place' \in [RowIds -> {"ready", "claimed", "deleted"}]
  /\ result' \in [RowIds -> {"none", "ok", "failed", "retry"}]
  /\ failure' \subseteq WorkIDs
  /\ backoff' \subseteq RowIds
  /\ faults' \in 0..MaxFaults /\ faults' >= faults

LEMMA SlotKeeps ==
  ASSUME IInv, NEW s \in Slots, SlotChange(s)
  PROVE  /\ RowIds' = RowIds
         /\ \A i \in RowIds : IsLast(i)' <=> IsLast(i)
         /\ \A t \in Slots : t # s => slot'[t] = slot[t]
         /\ Cardinality(RowIds)' \in Nat /\ TypeTables' /\ TypeProcess'
         /\ OrderInv' /\ WorkInv' /\ ClientInv'
         /\ faults' = 0 => faults = 0
<1> USE DEF IInv, SlotChange
<1>1. UNCHANGED RowIds /\ OrderInv' /\ \A i \in RowIds : IsLast(i)' <=> IsLast(i)
  BY SameRows
<1>2. \A t \in Slots : t # s => slot'[t] = slot[t]
  BY DEF TypeProcess
<1>3. Cardinality(RowIds)' \in Nat /\ TypeTables'
  BY <1>1 DEF TypeTables
<1>4. TypeProcess'
  <2>1. slot' \in [Slots -> SlotRec]
    BY DEF TypeProcess, SlotRec
  <2> QED
    BY <1>1, <2>1 DEF TypeProcess, SlotRec
<1>5. WorkInv' /\ ClientInv'
  BY <1>1 DEF WorkInv, ClientInv
<1>6. faults' = 0 => faults = 0
  BY BoundAssumption DEF TypeProcess
<1> QED
  BY <1>1, <1>2, <1>3, <1>4, <1>5, <1>6

\* A slot at work: the harness is started, and the pool open unless Stop timed out or
\* was called twice.
LEMMA BusyHarness ==
  ASSUME IInv, NEW s \in Slots, slot[s].pc # "free"
  PROVE  start = "started" /\ stop # "drained" /\ (poolOpen \/ stop = "timeout" \/ twice)
BY DEF IInv, ProcessInv, AllFree

\* The store fails: a fault is counted, or the pool was closed during a shutdown.
LEMMA BusyFails ==
  ASSUME IInv, NEW s \in Slots, slot[s].pc # "free", StoreFails
  PROVE  /\ faults' \in 0..MaxFaults /\ faults' >= faults
         /\ faults' # 0 \/ (stop # "no" /\ (stop = "timeout" \/ twice))
BY BusyHarness, BoundAssumption DEF IInv, TypeProcess, ProcessInv, StoreFails

\* The agent claims the oldest ready row.
LEMMA PopInv ==
  ASSUME IInv, NEW s \in Slots, Pop(s)
  PROVE  IInv'
<1> USE DEF IInv
<1>1. PICK i \in Ready :
        /\ place' = [place EXCEPT ![i] = "claimed"]
        /\ slot' = [slot EXCEPT ![s] = [pc |-> "running", id |-> i, err |-> FALSE]]
  BY DEF Pop
<1>2. i \in RowIds /\ place[i] = "ready" /\ result[i] = "none" /\ IsLast(i)
  BY DEF Ready, ReadyInv
<1>3. /\ slot[s].pc = "free" /\ start = "started" /\ poolOpen /\ stop \in {"no", "wg"}
      /\ UNCHANGED <<row, failure, epoch, workers, start, twice, nextWork, client, backoff, stop,
                     poolOpen, result, faults>>
  BY DEF Pop, StoreWorks, life
<1>4. slot'[s] = [pc |-> "running", id |-> i, err |-> FALSE]
  BY <1>1 DEF TypeProcess
<1>5. /\ place'[i] = "claimed" /\ \A k \in RowIds : k # i => place'[k] = place[k]
  BY <1>1, <1>2 DEF TypeTables
<1>6. SlotChange(s)
  <2>1. slot'[s] \in SlotRec
    BY <1>2, <1>4 DEF SlotRec
  <2>2. slot' = [slot EXCEPT ![s] = slot'[s]]
    BY <1>1, <1>4
  <2>3. place' \in [RowIds -> {"ready", "claimed", "deleted"}]
    BY <1>1 DEF TypeTables
  <2> QED
    BY <1>3, <2>1, <2>2, <2>3, BoundAssumption DEF SlotChange, TypeTables, TypeProcess
<1>7. /\ RowIds' = RowIds
      /\ \A k \in RowIds : IsLast(k)' <=> IsLast(k)
      /\ \A t \in Slots : t # s => slot'[t] = slot[t]
  BY <1>6, SlotKeeps
<1>8. ReadyInv'
  BY <1>3, <1>5, <1>7 DEF ReadyInv
<1>9. \A k \in RowIds : Again(k)' <=> Again(k)
  BY <1>3, <1>7 DEF Again
<1>10. \A t \in Slots : t # s /\ slot[t].pc # "free" => slot[t].id # i
  BY <1>2 DEF SlotInv
<1>11. \A t \in Slots : SlotInv(t)'
  <2>1. SlotInv(s)'
    BY <1>2, <1>3, <1>4, <1>5, <1>7 DEF SlotInv
  <2>2. ASSUME NEW t \in Slots, t # s PROVE SlotInv(t)'
    BY <1>3, <1>5, <1>7, <1>9, <1>10, <2>2 DEF SlotInv
  <2> QED
    BY <2>1, <2>2
<1>12. SlotsApart'
  BY <1>4, <1>7, <1>10 DEF SlotsApart
<1>13. BackoffInv'
  BY <1>3, <1>9 DEF BackoffInv, TypeProcess
<1>14. ProcessInv'
  BY <1>3 DEF ProcessInv
<1>15. LossInv'
  <2>1. ASSUME NEW k \in RowIds, Live(k) PROVE Live(k)'
    <3>1. CASE k = i
      BY <1>4, <3>1 DEF Live, InSlot
    <3>2. CASE k # i
      BY <1>3, <1>5, <1>7, <2>1, <3>2 DEF Live, InSlot
    <3> QED
      BY <3>1, <3>2
  <2> QED
    BY <1>3, <1>7, <2>1 DEF LossInv
<1>16. ClaimInv'
  <2>1. ASSUME NEW k \in RowIds, place'[k] = "claimed",
               place[k] = "claimed" => \E t \in Slots : slot[t].pc # "free" /\ slot[t].id = k
        PROVE  \E t \in Slots : slot'[t].pc # "free" /\ slot'[t].id = k
    <3>1. CASE k = i
      BY <1>4, <3>1
    <3>2. CASE k # i
      BY <1>3, <1>5, <1>7, <2>1, <3>2
    <3> QED
      BY <3>1, <3>2
  <2> QED
    BY <1>3, <1>7, <2>1 DEF ClaimInv
<1> QED
  BY <1>6, <1>8, <1>11, <1>12, <1>13, <1>14, <1>15, <1>16, SlotKeeps

\* The WorkerFunc of the row in slot s returned: the row is not the same afterwards,
\* the others are.
LEMMA ReturnInv ==
  ASSUME IInv, NEW s \in Slots, slot[s].pc = "running",
         NEW pc \in {"push", "record"}, NEW err \in BOOLEAN,
         NEW res \in {"ok", "failed", "retry"}, Return(s, pc, err, res),
         UNCHANGED <<row, place, failure, epoch, workers, start, twice, nextWork, client, stop,
                     poolOpen, faults>>,
         backoff' \in {backoff, backoff \cup {slot[s].id}},
         res = "retry" => Retriable(s),
         pc = "push" => res = "retry" /\ backoff' = backoff,
         res = "retry" /\ pc = "record" => backoff' = backoff \cup {slot[s].id},
         res # "retry" => backoff' = backoff
  PROVE  IInv'
<1> USE DEF IInv
<1> DEFINE i == slot[s].id
<1>1. i \in RowIds /\ place[i] = "claimed" /\ result[i] = "none" /\ IsLast(i) /\ i \notin backoff
  BY DEF SlotInv, BackoffInv, Again
<1>2. /\ slot'[s] = [pc |-> pc, id |-> i, err |-> err]
      /\ result'[i] = res /\ \A k \in RowIds : k # i => result'[k] = result[k]
  BY <1>1 DEF Return, TypeProcess, TypeTables
<1>3. SlotChange(s)
  <2>1. slot'[s] \in SlotRec
    BY <1>1, <1>2 DEF SlotRec
  <2>2. slot' = [slot EXCEPT ![s] = slot'[s]]
    BY <1>2 DEF Return
  <2>3. result' \in [RowIds -> {"none", "ok", "failed", "retry"}]
    BY <1>1 DEF Return, TypeTables
  <2>4. backoff' \subseteq RowIds
    BY <1>1 DEF TypeProcess
  <2> QED
    BY <2>1, <2>2, <2>3, <2>4, BoundAssumption DEF SlotChange, TypeTables, TypeProcess
<1>4. /\ RowIds' = RowIds
      /\ \A k \in RowIds : IsLast(k)' <=> IsLast(k)
      /\ \A t \in Slots : t # s => slot'[t] = slot[t]
  BY <1>3, SlotKeeps
<1>5. ReadyInv'
  BY <1>1, <1>2, <1>4 DEF ReadyInv
<1>6. /\ \A k \in RowIds : k # i => (Again(k)' <=> Again(k))
      /\ \A k \in RowIds : k # i => (k \in backoff' <=> k \in backoff)
  BY <1>2, <1>4 DEF Again
<1>7. res = "retry" => row'[i].attempt < MaxAttempts
  BY DEF Retriable
<1>8. \A t \in Slots : SlotInv(t)'
  <2>1. SlotInv(s)'
    BY <1>1, <1>2, <1>4, <1>7 DEF SlotInv, Again
  <2>2. ASSUME NEW t \in Slots, t # s PROVE SlotInv(t)'
    <3>1. slot[t].pc # "free" => slot[t].id # i /\ slot[t].id \in RowIds
      BY <2>2 DEF SlotsApart, SlotInv
    <3> HIDE DEF i
    <3> QED
      BY <1>2, <1>4, <1>6, <2>2, <3>1 DEF SlotInv
  <2> QED
    BY <2>1, <2>2
<1>9. SlotsApart'
  BY <1>2, <1>4 DEF SlotsApart
<1>10. BackoffInv'
  <2>1. ASSUME NEW k \in backoff' PROVE Again(k)'
    <3>1. CASE k = i
      BY <1>1, <1>2, <1>4, <1>7, <3>1 DEF Again
    <3>2. CASE k # i
      BY <1>6, <3>2 DEF BackoffInv, TypeProcess
    <3> QED
      BY <3>1, <3>2
  <2> QED
    BY <2>1 DEF BackoffInv
<1>11. ProcessInv'
  BY BusyHarness DEF ProcessInv
<1>12. LossInv'
  <2>1. ASSUME NEW k \in RowIds, Live(k) PROVE Live(k)' \/ result'[k] \in {"ok", "failed"}
    <3>1. CASE k = i
      BY <1>2, <3>1 DEF Live, InSlot
    <3>2. CASE k # i
      BY <1>2, <1>4, <1>6, <2>1, <3>2 DEF Live, InSlot
    <3> QED
      BY <3>1, <3>2
  <2>2. ASSUME NEW k \in RowIds, result[k] \in {"ok", "failed"} PROVE result'[k] = result[k]
    BY <1>1, <1>2, <2>2
  <2> QED
    BY <1>4, <2>1, <2>2 DEF LossInv
<1>13. ClaimInv'
  BY <1>2, <1>4 DEF ClaimInv
<1> QED
  BY <1>3, <1>5, <1>8, <1>9, <1>10, <1>11, <1>12, <1>13, SlotKeeps

LEMMA WorkerInv ==
  ASSUME IInv, NEW s \in Slots,
         WorkerSucceeds(s) \/ WorkerFails(s) \/ WorkerRetriesNow(s) \/ WorkerRetriesLater(s)
  PROVE  IInv'
<1> USE DEF tables, life
<1>1. CASE WorkerSucceeds(s)
  BY <1>1, ReturnInv DEF WorkerSucceeds
<1>2. CASE WorkerFails(s)
  BY <1>2, ReturnInv DEF WorkerFails
<1>3. CASE WorkerRetriesNow(s)
  BY <1>3, ReturnInv DEF WorkerRetriesNow, Retriable
<1>4. CASE WorkerRetriesLater(s)
  BY <1>4, ReturnInv DEF WorkerRetriesLater, Retriable
<1> QED
  BY <1>1, <1>2, <1>3, <1>4

\* The last steps of a slot, after the outcome is settled or the re-enqueue failed.
LEMMA SettleInv ==
  ASSUME IInv, NEW s \in Slots, PushRetryError(s) \/ Record(s) \/ Delete(s)
  PROVE  IInv'
<1> USE DEF IInv
<1> DEFINE i == slot[s].id
<1>1. slot[s].pc \in {"push", "record", "delete"} /\ slot[s] \in SlotRec
  BY DEF PushRetryError, Record, Delete, TypeProcess, SlotRec
<1>2. i \in RowIds /\ place[i] = "claimed" /\ result[i] # "none"
  BY <1>1 DEF SlotInv, Again
<1>3. UNCHANGED <<row, result, epoch, workers, start, twice, nextWork, client, backoff, stop,
                  poolOpen>>
  BY DEF PushRetryError, Record, Delete, tables, life
<1>4. faults' \in 0..MaxFaults /\ faults' >= faults
  BY <1>1, BusyFails, BoundAssumption DEF PushRetryError, Record, Delete, StoreWorks, TypeProcess
<1>5. failure' \subseteq WorkIDs
  <2>1. row[i].work \in WorkIDs
    BY <1>2 DEF TypeTables
  <2>2. failure \subseteq WorkIDs
    BY DEF TypeTables
  <2>3. failure' \in {failure, failure \cup {row[i].work}, failure \ {row[i].work}}
    BY DEF PushRetryError, Record, Delete, tables
  <2> QED
    BY <2>1, <2>2, <2>3
<1>6. /\ place' \in {place, [place EXCEPT ![i] = "deleted"]}
      /\ PushRetryError(s) \/ Record(s) => place' = place
  BY DEF PushRetryError, Record, Delete, tables
<1>7. /\ \/ slot'[s] = NoRun /\ Delete(s)
         \/ slot'[s].id = i /\ slot'[s].pc \in {"record", "delete"} /\ ~Delete(s)
      /\ slot'[s] \in SlotRec /\ slot' = [slot EXCEPT ![s] = slot'[s]]
  <2>1. CASE PushRetryError(s)
    <3>1. slot[s].pc = "push" /\ slot'[s] = [pc |-> "record", id |-> i, err |-> TRUE]
      BY <2>1 DEF PushRetryError, TypeProcess
    <3>2. slot' = [slot EXCEPT ![s] = slot'[s]]
      BY <2>1, <3>1 DEF PushRetryError
    <3> QED
      BY <1>2, <3>1, <3>2 DEF Delete, SlotRec
  <2>2. CASE Record(s)
    <3>1. slot[s].pc = "record" /\ slot'[s] = [slot[s] EXCEPT !.pc = "delete"]
      BY <2>2 DEF Record, TypeProcess
    <3>2. slot' = [slot EXCEPT ![s] = slot'[s]]
      BY <2>2, <3>1 DEF Record
    <3> QED
      BY <1>1, <3>1, <3>2 DEF Delete, SlotRec
  <2>3. CASE Delete(s)
    <3>1. slot'[s] = NoRun
      BY <2>3 DEF Delete, TypeProcess
    <3>2. slot' = [slot EXCEPT ![s] = slot'[s]]
      BY <2>3, <3>1 DEF Delete
    <3> QED
      BY <2>3, <3>1, <3>2 DEF NoRun, SlotRec
  <2> QED
    BY <2>1, <2>2, <2>3
<1>8. SlotChange(s)
  <2>1. place' \in [RowIds -> {"ready", "claimed", "deleted"}]
    BY <1>6 DEF TypeTables
  <2> QED
    BY <1>3, <1>4, <1>5, <1>7, <2>1 DEF SlotChange, TypeTables, TypeProcess
<1>9. /\ RowIds' = RowIds
      /\ \A k \in RowIds : IsLast(k)' <=> IsLast(k)
      /\ \A t \in Slots : t # s => slot'[t] = slot[t]
      /\ faults' = 0 => faults = 0
  BY <1>8, SlotKeeps
<1>10. \A k \in RowIds : (k # i => place'[k] = place[k]) /\ (place'[k] = "ready" => place[k] = "ready")
  BY <1>6 DEF TypeTables
<1>11. ReadyInv'
  BY <1>3, <1>9, <1>10 DEF ReadyInv
<1>12. \A k \in RowIds : Again(k)' <=> Again(k)
  BY <1>3, <1>9 DEF Again
<1>13. \A t \in Slots : SlotInv(t)'
  <2>1. SlotInv(s)'
    BY <1>2, <1>3, <1>6, <1>7, <1>9 DEF SlotInv, NoRun
  <2>2. ASSUME NEW t \in Slots, t # s PROVE SlotInv(t)'
    <3>1. slot[t].pc # "free" => slot[t].id # i /\ slot[t].id \in RowIds
      BY <1>1, <2>2 DEF SlotsApart, SlotInv
    <3> HIDE DEF i
    <3> QED
      BY <1>3, <1>9, <1>10, <1>12, <2>2, <3>1 DEF SlotInv
  <2> QED
    BY <2>1, <2>2
<1>14. SlotsApart'
  BY <1>1, <1>7, <1>9 DEF SlotsApart, NoRun
<1>15. BackoffInv'
  BY <1>3, <1>12 DEF BackoffInv, TypeProcess
<1>16. ProcessInv'
  BY <1>1, <1>3, BusyHarness DEF ProcessInv
<1>17. LossInv'
  <2>1. CASE PushRetryError(s)
    <3>1. faults' # 0 \/ (stop # "no" /\ (stop = "timeout" \/ twice))
      BY <1>1, <2>1, BusyFails DEF PushRetryError
    <3> QED
      BY <1>3, <3>1 DEF LossInv
  <2>2. CASE ~PushRetryError(s)
    <3>1. slot[s].pc \in {"record", "delete"}
      BY <2>2 DEF Record, Delete
    <3>2. ASSUME NEW k \in RowIds, Live(k) PROVE Live(k)'
      <4>1. place[k] = "ready" => k # i
        BY <1>2
      <4> QED
        BY <1>3, <1>9, <1>10, <3>1, <3>2, <4>1 DEF Live, InSlot
    <3> QED
      BY <1>3, <1>9, <3>2 DEF LossInv
  <2> QED
    BY <2>1, <2>2
<1>18. ClaimInv'
  <2>1. CASE ~Delete(s)
    <3>1. place' = place /\ slot'[s].id = i /\ slot'[s].pc # "free"
      BY <1>6, <1>7, <2>1
    <3> QED
      BY <1>1, <1>3, <1>9, <3>1 DEF ClaimInv
  <2>2. CASE Delete(s) /\ place' = [place EXCEPT ![i] = "deleted"]
    <3>1. place'[i] = "deleted"
      BY <1>2, <2>2 DEF TypeTables
    <3> QED
      BY <1>3, <1>9, <1>10, <3>1 DEF ClaimInv
  <2>3. CASE Delete(s) /\ place' = place
    <3>1. faults' # 0 \/ (stop # "no" /\ (stop = "timeout" \/ twice))
      <4>1. place # [place EXCEPT ![i] = "deleted"]
        BY <1>2 DEF TypeTables
      <4>2. StoreFails
        BY <2>3, <4>1 DEF Delete
      <4> QED
        BY <1>1, <4>2, BusyFails
    <3> QED
      BY <1>3, <3>1 DEF ClaimInv
  <2> QED
    BY <1>6, <2>1, <2>2, <2>3
<1> QED
  BY <1>8, <1>11, <1>13, <1>14, <1>15, <1>16, <1>17, <1>18, SlotKeeps

----------------------------------------------------------------------------
(* Steps that push a row                                                   *)

\* The push of a row r, for row i or, if i is 0, for a new job: row i is taken out
\* of the slot or the goroutine that held it.
Handover(i, r) ==
  /\ i \in RowIds \cup {0}
  /\ i # 0 => Again(i) /\ row[i].epoch = r.epoch /\ row[i].work = r.work
  /\ \A k \in RowIds : row[k].epoch = r.epoch /\ row[k].work = r.work =>
       i # 0 /\ row[k].attempt < r.attempt
  /\ r.epoch = epoch => r.work < nextWork
  /\ UNCHANGED <<failure, epoch, workers, start, twice, stop, poolOpen, faults>>
  /\ nextWork' = nextWork
  /\ client' \in [Clients -> 0..MaxJobs] /\ \A c \in Clients : client'[c] \in {0, client[c]}
  /\ \A c \in Clients : client'[c] # 0 => ~(r.epoch = epoch /\ r.work = client'[c])
  /\ backoff' = backoff \ {i}
  /\ slot' \in [Slots -> SlotRec]
  /\ \A s \in Slots :
       /\ \/ slot'[s] = slot[s]
          \/ /\ slot[s].pc = "push" /\ slot'[s].pc = "record"
             /\ slot[s].id = i /\ slot'[s].id = i
       /\ slot'[s].pc = "push" => slot'[s].id # i

LEMMA HandoverInv ==
  ASSUME IInv, NEW r \in RowRec, PushRow(r), NEW i, Handover(i, r)
  PROVE  IInv'
<1> USE DEF IInv
<1> DEFINE Of(k) == row[k].epoch = r.epoch /\ row[k].work = r.work
<1>1. PICK n \in Nat : Added(n, r)
  BY PushAdds
<1>2. RowIds = 1..n /\ n + 1 # i /\ (i # 0 <=> i \in RowIds)
  BY <1>1 DEF Added, Handover
<1>3. /\ \A k \in RowIds : /\ k \in RowIds' /\ k # n + 1
                           /\ row'[k] = row[k] /\ place'[k] = place[k] /\ result'[k] = result[k]
      /\ RowIds' = RowIds \cup {n + 1}
      /\ row'[n+1] = r /\ place'[n+1] = "ready" /\ result'[n+1] = "none"
      /\ \A k \in RowIds : IsLast(k)' <=> IsLast(k) /\ ~Of(k)
      /\ IsLast(n + 1)'
      /\ OrderInv'
  BY <1>1, AddedRows DEF Handover
<1>4. Cardinality(RowIds)' \in Nat /\ TypeTables'
  BY <1>1, AddedTypes DEF Handover
<1>5. TypeProcess'
  <2>1. slot' \in [Slots -> SlotRec']
    BY <1>3 DEF Handover, SlotRec
  <2>2. backoff' \subseteq RowIds'
    BY <1>3 DEF Handover, TypeProcess
  <2> QED
    BY <2>1, <2>2 DEF Handover, TypeProcess, SlotRec
<1>6. \A k \in RowIds : IsLast(k) /\ Of(k) => k = i
  <2>1. ASSUME NEW k \in RowIds, IsLast(k), Of(k) PROVE k = i
    <3>1. i \in RowIds /\ IsLast(i) /\ SameJob(i, k) /\ SameJob(k, i)
      BY <1>2, <2>1 DEF Handover, Again, SameJob
    <3> QED
      BY <1>2, <2>1, <3>1 DEF IsLast
  <2> QED
    BY <2>1
<1> HIDE DEF Of
<1>7. WorkInv'
  <2>1. \A k \in RowIds : row[k].work \in Int
    BY BoundAssumption DEF TypeTables, WorkIDs
  <2> QED
    BY <1>3, <2>1, BoundAssumption DEF WorkInv, Handover, TypeProcess
<1>17. ClientInv'
  <2>1. /\ nextWork' = nextWork /\ epoch' = epoch
        /\ \A c \in Clients : client'[c] \in {0, client[c]}
        /\ \A c \in Clients : client'[c] # 0 => ~(r.epoch = epoch /\ r.work = client'[c])
    BY DEF Handover
  <2>2. nextWork \in Int /\ 0 < nextWork
    BY BoundAssumption DEF TypeProcess
  <2>3. \A c \in Clients : \A k \in RowIds' :
          client'[c] # 0 => ~(row'[k].epoch = epoch /\ row'[k].work = client'[c])
    BY <1>3, <2>1 DEF ClientInv
  <2> QED
    BY <2>1, <2>2, <2>3 DEF ClientInv
<1>8. ReadyInv'
  <2>1. \A k \in RowIds : place[k] = "ready" => k # i
    BY <1>2 DEF ReadyInv, Handover, Again
  <2> QED
    BY <1>3, <1>6, <2>1 DEF ReadyInv
<1>9. \A k \in RowIds : Again(k) /\ k # i => Again(k)'
  BY <1>3, <1>6 DEF Again
<1>10. ASSUME NEW s \in Slots PROVE SlotInv(s)'
  <2>1. CASE slot'[s] = slot[s]
    <3>1. slot[s].pc = "running" => slot[s].id # i
      BY <1>2 DEF SlotInv, Handover, Again
    <3>2. slot[s].pc = "push" => slot[s].id # i
      BY <2>1 DEF Handover
    <3>3. SlotInv(s) /\ \A k \in backoff' : k \in backoff
      BY DEF Handover
    <3> QED
      BY <1>3, <1>6, <1>9, <2>1, <3>1, <3>2, <3>3 DEF SlotInv
  <2>2. CASE slot'[s] # slot[s]
    <3>1. slot[s].pc = "push" /\ slot'[s].pc = "record" /\ slot[s].id = i /\ slot'[s].id = i
      BY <2>2 DEF Handover
    <3>2. i \in RowIds /\ place[i] = "claimed" /\ result[i] # "none"
      BY <3>1 DEF SlotInv, Again
    <3> QED
      BY <1>3, <3>1, <3>2 DEF SlotInv
  <2> QED
    BY <2>1, <2>2
<1>11. \A s \in Slots : (slot'[s].pc = "free" <=> slot[s].pc = "free") /\ slot'[s].id = slot[s].id
  BY DEF Handover
<1>12. SlotsApart'
  BY <1>11 DEF SlotsApart
<1>13. BackoffInv'
  BY <1>9 DEF BackoffInv, Handover, TypeProcess
<1>14. ProcessInv'
  BY <1>11 DEF ProcessInv, AllFree, Handover
<1>15. LossInv'
  <2>1. ASSUME NEW k \in RowIds, Live(k), k # i PROVE Live(k)'
    BY <1>3, <2>1 DEF Live, InSlot, Handover
  <2>2. Live(n + 1)'
    BY <1>3 DEF Live
  <2>3. ASSUME NEW k \in RowIds, IsLast(k)' PROVE k # i /\ IsLast(k)
    BY <1>2, <1>3, <2>3 DEF Handover, Of
  <2> QED
    BY <1>3, <2>1, <2>2, <2>3 DEF LossInv, Handover
<1>16. ClaimInv'
  BY <1>3, <1>11 DEF ClaimInv, Handover
<1> QED
  BY <1>3, <1>4, <1>5, <1>7, <1>8, <1>10, <1>12, <1>13, <1>14, <1>15, <1>16, <1>17

\* A new job has the WorkID that its client drew.
LEMMA EnqueueHandover ==
  ASSUME IInv, NEW c \in Clients, EnqueuePush(c)
  PROVE  \E r \in RowRec : PushRow(r) /\ Handover(0, r) /\ r.attempt = 1
<1> USE DEF IInv
<1> DEFINE r == [epoch |-> epoch, work |-> client[c], attempt |-> 1, addressed |-> Addressed]
<1>1. /\ PushRow(r) /\ client[c] # 0
      /\ UNCHANGED <<failure, epoch, workers, start, twice, nextWork, slot, backoff, stop,
                     poolOpen, faults>>
  BY DEF EnqueuePush, StoreWorks, life
<1>2. r \in RowRec
  <2>1. client[c] \in WorkIDs
    BY <1>1, BoundAssumption DEF WorkIDs, TypeProcess
  <2> QED
    BY <2>1, OptionsAssumption, AttemptsAssumption, BoundAssumption DEF RowRec, TypeProcess
<1>3. client[c] < nextWork
  BY DEF ClientInv
<1>4. \A k \in RowIds : ~(row[k].epoch = epoch /\ row[k].work = client[c])
  BY <1>1 DEF ClientInv
<1>5. /\ client' \in [Clients -> 0..MaxJobs] /\ client'[c] = 0
      /\ \A d \in Clients : d # c => client'[d] = client[d]
  BY BoundAssumption DEF EnqueuePush, TypeProcess
<1>10. \A d \in Clients : /\ client'[d] \in {0, client[d]}
                          /\ client'[d] # 0 => client'[d] # client[c]
  BY <1>1, <1>5 DEF ClientInv
<1>6. 0 \notin RowIds
  BY DEF TypeTables
<1>7. \A s \in Slots : slot[s].pc = "push" => slot[s].id # 0
  BY <1>6 DEF SlotInv
<1>8. Handover(0, r)
  BY <1>1, <1>3, <1>4, <1>5, <1>6, <1>7, <1>10 DEF Handover, TypeProcess, SlotRec
<1>9. r.attempt = 1
  OBVIOUS
<1> HIDE DEF r
<1> QED
  BY <1>1, <1>2, <1>8, <1>9

\* The next attempt at the job of row i.
LEMMA AgainRow ==
  ASSUME IInv, NEW i \in RowIds, Again(i)
  PROVE  LET r == NextAttempt(i) IN
         /\ r \in RowRec
         /\ row[i].epoch = r.epoch /\ row[i].work = r.work /\ r.attempt = row[i].attempt + 1
         /\ \A k \in RowIds : row[k].epoch = r.epoch /\ row[k].work = r.work =>
              row[k].attempt < r.attempt
         /\ r.epoch = epoch => r.work < nextWork
<1> USE DEF IInv
<1> DEFINE r == NextAttempt(i)
<1>1. row[i] \in RowRec /\ row[i].attempt < MaxAttempts /\ row[i].attempt \in Nat
  BY AttemptsAssumption DEF TypeTables, RowRec, Again
<1>2. row[i].attempt + 1 \in 1..MaxAttempts
  BY <1>1, AttemptsAssumption
<1>3. /\ r \in RowRec
      /\ row[i].epoch = r.epoch /\ row[i].work = r.work /\ r.attempt = row[i].attempt + 1
  BY <1>1, <1>2 DEF RowRec, NextAttempt
<1> HIDE DEF r
<1>4. ASSUME NEW k \in RowIds, row[k].epoch = r.epoch, row[k].work = r.work
      PROVE  row[k].attempt < r.attempt
  <2>1. SameJob(k, i) /\ SameJob(i, k) /\ k <= i
    BY <1>3, <1>4 DEF SameJob, IsLast, Again
  <2>2. k = i \/ k < i
    BY <2>1 DEF TypeTables
  <2>3. row[k].attempt \in Nat
    BY AttemptsAssumption DEF TypeTables
  <2>4. k = i \/ row[k].attempt < row[i].attempt
    BY <2>1, <2>2 DEF OrderInv
  <2> QED
    BY <1>1, <1>3, <2>3, <2>4
<1>5. r.epoch = epoch => r.work < nextWork
  BY <1>3 DEF WorkInv
<1> QED
  BY <1>3, <1>4, <1>5 DEF r

\* The immediate re-enqueue takes the job out of its slot,
LEMMA PushRetryHandover ==
  ASSUME IInv, NEW s \in Slots, PushRetry(s)
  PROVE  \E i \in RowIds : \E r \in RowRec :
           /\ PushRow(r) /\ Handover(i, r) /\ r.attempt = row[i].attempt + 1
           /\ i # 0 /\ InSlot(i, "push")
<1> USE DEF IInv
<1> DEFINE i == slot[s].id
           r == NextAttempt(i)
<1>1. i \in RowIds /\ Again(i) /\ i \notin backoff /\ slot[s].pc = "push"
  BY DEF PushRetry, SlotInv
<1>2. /\ PushRow(r)
      /\ UNCHANGED <<failure, epoch, workers, start, twice, nextWork, client, backoff, stop,
                     poolOpen, faults>>
  BY DEF PushRetry, StoreWorks, life
<1>3. /\ slot'[s].pc = "record" /\ slot'[s].id = i
      /\ \A t \in Slots : t # s => slot'[t] = slot[t]
      /\ slot' \in [Slots -> SlotRec]
  BY DEF PushRetry, TypeProcess, SlotRec
<1>4. \A t \in Slots : t # s /\ slot[t].pc = "push" => slot[t].id # i
  BY <1>1 DEF SlotsApart
<1>5. r \in RowRec
  BY <1>1, AgainRow
<1>6. i # 0
  BY <1>1 DEF TypeTables
<1>7. Handover(i, r)
  <2>1. /\ row[i].epoch = r.epoch /\ row[i].work = r.work
        /\ \A k \in RowIds : row[k].epoch = r.epoch /\ row[k].work = r.work =>
             row[k].attempt < r.attempt
        /\ r.epoch = epoch => r.work < nextWork
    BY <1>1, AgainRow
  <2>2. \A c \in Clients : client[c] # 0 => ~(r.epoch = epoch /\ r.work = client[c])
    BY <1>1, <2>1 DEF ClientInv
  <2>3. backoff = backoff \ {i}
    BY <1>1
  <2> HIDE DEF i, r
  <2>4. ASSUME NEW t \in Slots
        PROVE  /\ \/ slot'[t] = slot[t]
                  \/ /\ slot[t].pc = "push" /\ slot'[t].pc = "record"
                     /\ slot[t].id = i /\ slot'[t].id = i
               /\ slot'[t].pc = "push" => slot'[t].id # i
    BY <1>1, <1>3, <1>4 DEF i
  <2> QED
    BY <1>1, <1>2, <1>3, <1>6, <2>1, <2>2, <2>3, <2>4 DEF Handover, TypeProcess
<1>8. InSlot(i, "push") /\ r.attempt = row[i].attempt + 1
  BY <1>1, AgainRow DEF InSlot
<1> HIDE DEF i, r
<1> QED
  BY <1>1, <1>2, <1>5, <1>6, <1>7, <1>8

\* and the goroutine's takes it out of the back-off.
LEMMA BackoffHandover ==
  ASSUME IInv, NEW i \in backoff, BackoffFires(i), PushRow(NextAttempt(i)), UNCHANGED faults
  PROVE  \E r \in RowRec :
           /\ PushRow(r) /\ Handover(i, r) /\ r.attempt = row[i].attempt + 1
           /\ i \in RowIds /\ i # 0
<1> USE DEF IInv
<1> DEFINE r == NextAttempt(i)
<1>1. i \in RowIds /\ i # 0 /\ Again(i)
  BY DEF BackoffInv, TypeProcess, TypeTables
<1>2. /\ UNCHANGED <<failure, epoch, workers, start, twice, nextWork, client, slot, stop,
                     poolOpen>>
      /\ backoff' = backoff \ {i}
  BY DEF BackoffFires, life
<1>3. \A t \in Slots : slot[t].pc = "push" => slot[t].id # i
  BY DEF SlotInv
<1>4. /\ r \in RowRec
      /\ row[i].epoch = r.epoch /\ row[i].work = r.work /\ r.attempt = row[i].attempt + 1
      /\ \A k \in RowIds : row[k].epoch = r.epoch /\ row[k].work = r.work =>
           row[k].attempt < r.attempt
      /\ r.epoch = epoch => r.work < nextWork
  BY <1>1, AgainRow
<1>5. \A c \in Clients : client[c] # 0 => ~(r.epoch = epoch /\ r.work = client[c])
  BY <1>1, <1>4 DEF ClientInv
<1>6. PushRow(r)
  OBVIOUS
<1> HIDE DEF r
<1>7. Handover(i, r)
  BY <1>1, <1>2, <1>3, <1>4, <1>5 DEF Handover, TypeProcess, SlotRec
<1> QED
  BY <1>1, <1>4, <1>6, <1>7

PushStep ==
  \/ \E c \in Clients : EnqueuePush(c)
  \/ \E s \in Slots : PushRetry(s)
  \/ \E i \in backoff : BackoffFires(i) /\ PushRow(NextAttempt(i)) /\ UNCHANGED faults

LEMMA PushInv ==
  ASSUME IInv, PushStep
  PROVE  IInv'
BY EnqueueHandover, PushRetryHandover, BackoffHandover, HandoverInv DEF PushStep

----------------------------------------------------------------------------
\* A back-off goroutine that gives up, or fails to push: what is lost is lost to a
\* fault or a shutdown.
GiveUp(i) ==
  /\ BackoffStep(i)
  /\ ~(BackoffFires(i) /\ PushRow(NextAttempt(i)) /\ UNCHANGED faults)

LEMMA GiveUpFrame ==
  ASSUME IInv, NEW i \in backoff, GiveUp(i)
  PROVE  /\ UNCHANGED <<row, place, result, failure, epoch, workers, start, twice, nextWork,
                        client, slot, stop, poolOpen>>
         /\ backoff' = backoff \ {i}
         /\ StoreFails \/ (stop # "no" /\ UNCHANGED faults)
BY DEF GiveUp, BackoffStep, BackoffFires, BackoffStopped, life, tables, StoreWorks

LEMMA GiveUpInv ==
  ASSUME IInv, NEW i \in backoff, GiveUp(i)
  PROVE  IInv'
<1> USE DEF IInv
<1>1. /\ UNCHANGED <<row, place, result, failure, epoch, workers, start, twice, nextWork, client,
                     slot, stop, poolOpen>>
      /\ backoff' = backoff \ {i}
      /\ StoreFails \/ (stop # "no" /\ UNCHANGED faults)
  BY GiveUpFrame
<1>2. faults' \in 0..MaxFaults /\ faults' >= faults
  BY <1>1, BoundAssumption DEF StoreFails, TypeProcess
<1>3. faults' # 0 \/ stop # "no"
  BY <1>1, BoundAssumption DEF StoreFails, TypeProcess, ProcessInv
<1>4. UNCHANGED RowIds /\ OrderInv' /\ \A k \in RowIds : IsLast(k)' <=> IsLast(k)
  BY <1>1, SameRows
<1>5. \A k \in RowIds : Again(k)' <=> Again(k)
  BY <1>1, <1>4 DEF Again
<1>6. Cardinality(RowIds)' \in Nat /\ TypeTables'
  BY <1>1, <1>4 DEF TypeTables
<1>7. TypeProcess'
  BY <1>1, <1>2, <1>4 DEF TypeProcess
<1>8. WorkInv' /\ ClientInv' /\ ReadyInv'
  BY <1>1, <1>4 DEF WorkInv, ClientInv, ReadyInv
<1>9. (\A s \in Slots : SlotInv(s)') /\ SlotsApart'
  BY <1>1, <1>4, <1>5 DEF SlotInv, SlotsApart
<1>10. BackoffInv' /\ ProcessInv'
  BY <1>1, <1>5 DEF BackoffInv, ProcessInv, AllFree, TypeProcess
<1>11. LossInv'
  BY <1>1, <1>3 DEF LossInv
<1>12. faults' = 0 => faults = 0
  BY <1>2, BoundAssumption DEF TypeProcess
<1>13. ClaimInv'
  BY <1>1, <1>4, <1>12 DEF ClaimInv
<1> QED
  BY <1>4, <1>6, <1>7, <1>8, <1>9, <1>10, <1>11, <1>13

\* A crash empties the process; the rows of all jobs are of earlier processes.
LEMMA CrashInv ==
  ASSUME IInv, Crash
  PROVE  IInv'
<1> USE DEF IInv, Crash, tables
<1>1. UNCHANGED RowIds /\ OrderInv' /\ \A k \in RowIds : IsLast(k)' <=> IsLast(k)
  BY SameRows
<1>2. epoch \in Nat /\ epoch' = epoch + 1 /\ epoch' \in 0..MaxCrashes
  BY BoundAssumption DEF TypeProcess
<1>3. \A k \in RowIds : row[k].epoch \in 0..epoch /\ row[k].epoch # epoch'
  BY <1>2 DEF TypeTables
<1>4. TypeTables'
  <2>1. row' \in [RowIds' -> [epoch : 0..epoch', work : WorkIDs, attempt : 1..MaxAttempts,
                              addressed : BOOLEAN]]
    <3>1. 0..epoch \subseteq 0..epoch'
      BY <1>2
    <3> QED
      BY <1>1, <3>1 DEF TypeTables
  <2> QED
    BY <1>1, <2>1 DEF TypeTables
<1>5. TypeProcess'
  <2>1. slot' \in [Slots -> SlotRec']
    BY DEF SlotRec, NoRun
  <2>2. nextWork' \in 1..(MaxJobs + 1) /\ client' \in [Clients -> 0..MaxJobs]
    BY BoundAssumption
  <2>3. faults' \in 0..MaxFaults
    BY DEF TypeProcess
  <2> QED
    BY <1>2, <2>1, <2>2, <2>3 DEF TypeProcess, SlotRec
<1>6. WorkInv' /\ ClientInv' /\ ReadyInv' /\ LossInv' /\ ClaimInv'
  BY <1>1, <1>2, <1>3 DEF WorkInv, ClientInv, ReadyInv, LossInv, ClaimInv
<1>7. (\A s \in Slots : SlotInv(s)') /\ SlotsApart' /\ BackoffInv' /\ ProcessInv'
  BY DEF SlotInv, SlotsApart, BackoffInv, ProcessInv, AllFree, NoRun
<1> QED
  BY <1>1, <1>4, <1>5, <1>6, <1>7

LEMMA NextInv == IInv /\ [Next]_vars => IInv'
<1> SUFFICES ASSUME IInv, [Next]_vars PROVE IInv'
  OBVIOUS
<1>1. CASE QuietStep
  BY <1>1, QuietInv
<1>2. CASE PushStep
  BY <1>2, PushInv
<1>3. CASE \E s \in Slots : SlotStep(s) /\ ~PushRetry(s)
  BY <1>3, PopInv, WorkerInv, SettleInv DEF SlotStep
<1>4. CASE \E i \in backoff : GiveUp(i)
  BY <1>4, GiveUpInv
<1>5. CASE Crash
  BY <1>5, CrashInv
<1> QED
  BY <1>1, <1>2, <1>3, <1>4, <1>5 DEF Next, ClientStep, QuietStep, PushStep, GiveUp

LEMMA SpecInv == Spec => []IInv
BY InitInv, NextInv, PTL DEF Spec

----------------------------------------------------------------------------
(* What the invariant means for a job                                      *)

\* A job that has rows has a last one.
LEMMA HasLast ==
  ASSUME IInv, NEW j, RowsOf(j) # {}
  PROVE  Last(j) \in RowsOf(j) /\ IsLast(Last(j))
<1>1. PICK k \in RowsOf(j) : TRUE
  OBVIOUS
<1>2. PICK i \in RowIds : SameJob(k, i) /\ IsLast(i)
  BY <1>1 DEF IInv, OrderInv, RowsOf
<1>3. i \in RowsOf(j) /\ \A l \in RowsOf(j) : l <= i
  BY <1>1, <1>2 DEF RowsOf, SameJob, IsLast
<1>4. Last(j) \in RowsOf(j) /\ \A l \in RowsOf(j) : l <= Last(j)
  BY <1>3 DEF Last
<1> QED
  BY <1>4 DEF IsLast, RowsOf, SameJob

\* The cases of Status exclude each other.
LEMMA LastDecides ==
  ASSUME IInv, NEW j, RowsOf(j) # {}
  PROVE  LET i == Last(j) IN
         /\ place[i] = "ready" => Status(j) = "queued"
         /\ InSlot(i, "running") => Status(j) = "running"
         /\ result[i] = "ok" => Status(j) = "succeeded"
         /\ result[i] = "failed" => Status(j) = "failed"
         /\ result[i] = "retry" /\ (i \in backoff \/ InSlot(i, "push")) => Status(j) = "waiting"
<1> DEFINE i == Last(j)
<1>1. i \in RowIds /\ IsLast(i)
  BY HasLast DEF RowsOf
<1>2. place[i] = "ready" => result[i] = "none"
  BY <1>1 DEF IInv, ReadyInv
<1>3. InSlot(i, "running") => result[i] = "none" /\ place[i] = "claimed"
  BY DEF IInv, SlotInv, InSlot
<1>4. Status(j) = CASE place[i] = "ready" -> "queued"
                    [] InSlot(i, "running") -> "running"
                    [] result[i] = "ok" -> "succeeded"
                    [] result[i] = "failed" -> "failed"
                    [] result[i] = "retry" /\ (i \in backoff \/ InSlot(i, "push")) -> "waiting"
                    [] OTHER -> "lost"
  BY DEF Status
<1> HIDE DEF i
<1> QED
  BY <1>2, <1>3, <1>4 DEF i

\* Every state of the adapter is well typed; the table is bounded by the jobs and
\* their attempts, since no attempt is ever pushed twice.
THEOREM TypeCorrect == Spec => []TypeOK
<1>1. IInv => TypeOK
  BY TableBounded DEF IInv, TypeOK
<1> QED
  BY <1>1, SpecInv, PTL

\* The hand-over of a retry from the runner to the goroutine to the store loses no
\* job: it takes a crash, a fault or a shutdown.
THEOREM NothingIsLost == Spec => []NothingLost
<1>1. IInv => NothingLost
  <2> SUFFICES ASSUME IInv, NEW j \in Jobs, Status(j) = "lost",
                      ~(j[1] < epoch), ~(faults > 0), stop = "no"
               PROVE  FALSE
    BY DEF NothingLost
  <2> DEFINE i == Last(j)
  <2>1. RowsOf(j) # {}
    BY DEF Status
  <2>2. i \in RowIds /\ IsLast(i) /\ row[i].epoch = j[1]
    BY <2>1, HasLast DEF RowsOf
  <2>3. row[i].epoch = epoch /\ faults = 0
    BY <2>2, BoundAssumption DEF IInv, TypeTables, TypeProcess
  <2>4. Live(i) \/ result[i] \in {"ok", "failed"}
    BY <2>2, <2>3 DEF IInv, LossInv
  <2>5. InSlot(i, "push") \/ i \in backoff => result[i] = "retry"
    BY DEF IInv, SlotInv, BackoffInv, Again, InSlot
  <2> QED
    BY <2>1, <2>4, <2>5, LastDecides DEF Live
<1> QED
  BY <1>1, SpecInv, PTL

\* Stop, called once, closes the pool after the last QueueDelete of a drained agent.
THEOREM StopIsClean == Spec => []CleanStop
<1>1. IInv => CleanStop
  BY DEF IInv, ClaimInv, ProcessInv, AllFree, CleanStop
<1> QED
  BY <1>1, SpecInv, PTL

----------------------------------------------------------------------------
(***************************************************************************)
(* The adapter implements JobContract: a job is where its last row is, and *)
(* every step of the adapter moves at most the jobs that the contract lets *)
(* it move.                                                                *)
(***************************************************************************)

Attempt(j) == IF RowsOf(j) = {} THEN 0 ELSE row[Last(j)].attempt

\* The two maps of the refinement.
StatusOf == [j \in Jobs |-> Status(j)]
AttemptOf == [j \in Jobs |-> Attempt(j)]

\* What the last row of a job says of it.
Waits(i) == result[i] = "retry" /\ (i \in backoff \/ InSlot(i, "push"))

Gone(i) ==
  /\ place[i] # "ready" /\ ~InSlot(i, "running") /\ ~Waits(i)
  /\ result[i] \notin {"ok", "failed"}

Decides(i, st) ==
  /\ place[i] = "ready" => st = "queued"
  /\ InSlot(i, "running") => st = "running"
  /\ result[i] = "ok" => st = "succeeded"
  /\ result[i] = "failed" => st = "failed"
  /\ Waits(i) => st = "waiting"
  /\ Gone(i) => st = "lost"

MapFacts ==
  /\ \A i \in RowIds : \E j \in Jobs : i \in RowsOf(j)
  /\ \A j \in Jobs :
       /\ RowsOf(j) = {} => Status(j) = "absent" /\ Attempt(j) = 0
       /\ RowsOf(j) # {} => \E i \in RowsOf(j) : IsLast(i)
       /\ \A i \in RowsOf(j) : IsLast(i) => Decides(i, Status(j)) /\ Attempt(j) = row[i].attempt

LEMMA Mapped == IInv => MapFacts
<1> SUFFICES ASSUME IInv PROVE MapFacts
  OBVIOUS
<1>1. ASSUME NEW i \in RowIds PROVE \E j \in Jobs : i \in RowsOf(j)
  <2>1. row[i].epoch \in 0..MaxCrashes /\ row[i].work \in WorkIDs
    BY BoundAssumption DEF IInv, TypeTables, TypeProcess
  <2>2. <<row[i].epoch, row[i].work>> \in Jobs
    BY <2>1 DEF Jobs
  <2> QED
    BY <2>2 DEF RowsOf
<1>2. ASSUME NEW j \in Jobs
      PROVE  RowsOf(j) = {} => Status(j) = "absent" /\ Attempt(j) = 0
  BY DEF Status, Attempt
<1>3. ASSUME NEW j \in Jobs, RowsOf(j) # {}
      PROVE  \E i \in RowsOf(j) : IsLast(i)
  BY <1>3, HasLast
<1>4. ASSUME NEW j \in Jobs, NEW i \in RowsOf(j), IsLast(i)
      PROVE  Decides(i, Status(j)) /\ Attempt(j) = row[i].attempt
  <2>1. Last(j) \in RowsOf(j) /\ IsLast(Last(j))
    BY HasLast
  <2>2. Last(j) = i
    <3>1. i \in RowIds /\ Last(j) \in RowIds /\ SameJob(i, Last(j)) /\ SameJob(Last(j), i)
      BY <2>1 DEF RowsOf, SameJob
    <3>2. i \in Int /\ Last(j) \in Int
      BY <3>1 DEF IInv, TypeTables
    <3> QED
      BY <1>4, <2>1, <3>1, <3>2 DEF IsLast
  <2>3. Gone(i) => Status(j) = "lost"
    BY <2>2 DEF Status, Gone, Waits
  <2>4. Decides(i, Status(j))
    BY <2>2, <2>3, LastDecides DEF Decides, Waits
  <2> QED
    BY <2>2, <2>4 DEF Attempt
<1> QED
  BY <1>1, <1>2, <1>3, <1>4 DEF MapFacts

LEMMA MappedNext == IInv /\ [Next]_vars => MapFacts'
BY Mapped, NextInv, PTL

\* What a row says of its job stays.
SameRow(i) ==
  /\ place'[i] = "ready" <=> place[i] = "ready"
  /\ result'[i] = result[i]
  /\ i \in backoff' <=> i \in backoff
  /\ InSlot(i, "running")' <=> InSlot(i, "running")
  /\ InSlot(i, "push")' <=> InSlot(i, "push")

\* A job whose last row stays, and says the same, stays where it is.
LEMMA JobStays ==
  ASSUME MapFacts, MapFacts', NEW j \in Jobs, RowsOf(j)' = RowsOf(j),
         \A i \in RowsOf(j) : row'[i] = row[i] /\ (IsLast(i)' <=> IsLast(i)),
         \A i \in RowsOf(j) : IsLast(i) => SameRow(i)
  PROVE  Status(j)' = Status(j) /\ Attempt(j)' = Attempt(j)
<1>1. CASE RowsOf(j) = {}
  BY <1>1 DEF MapFacts
<1>2. CASE RowsOf(j) # {}
  <2>1. PICK i \in RowsOf(j) : IsLast(i)
    BY <1>2 DEF MapFacts
  <2>2. /\ Decides(i, Status(j)) /\ Attempt(j) = row[i].attempt
        /\ Decides(i, Status(j))' /\ Attempt(j)' = row'[i].attempt
    BY <2>1 DEF MapFacts
  <2>3. SameRow(i)
    BY <2>1
  <2>4. (Waits(i)' <=> Waits(i)) /\ (Gone(i)' <=> Gone(i))
    BY <2>3 DEF SameRow, Waits, Gone
  <2>5. Status(j)' = Status(j)
    BY <2>2, <2>3, <2>4 DEF Decides, SameRow, Gone
  <2> QED
    BY <2>2, <2>5
<1> QED
  BY <1>1, <1>2

LEMMA RowsOfStay ==
  ASSUME UNCHANGED row, NEW j
  PROVE  /\ RowsOf(j)' = RowsOf(j)
         /\ \A i \in RowsOf(j) : row'[i] = row[i] /\ (IsLast(i)' <=> IsLast(i))
BY SameRows DEF RowsOf, RowIds

\* A step that changes what is said of no last row is a step of no job.
LEMMA NoneMoves ==
  ASSUME MapFacts, MapFacts', UNCHANGED row, \A i \in RowIds : SameRow(i)
  PROVE  UNCHANGED <<StatusOf, AttemptOf>>
<1>1. ASSUME NEW j \in Jobs PROVE Status(j)' = Status(j) /\ Attempt(j)' = Attempt(j)
  <2>1. \A i \in RowsOf(j) : SameRow(i)
    BY DEF RowsOf
  <2> QED
    BY <2>1, RowsOfStay, JobStays
<1> QED
  BY <1>1 DEF StatusOf, AttemptOf

\* A step about one last row is a step of the job it belongs to.
LEMMA OneMoves ==
  ASSUME IInv, MapFacts, MapFacts', UNCHANGED row, NEW i \in RowIds, IsLast(i),
         \A k \in RowIds : k # i => SameRow(k)
  PROVE  \E j \in Jobs :
           /\ Decides(i, StatusOf[j]) /\ AttemptOf[j] = row[i].attempt
           /\ Decides(i, StatusOf[j])'
           /\ StatusOf' = [StatusOf EXCEPT ![j] = StatusOf'[j]]
           /\ AttemptOf' = AttemptOf
<1>1. PICK j \in Jobs : i \in RowsOf(j)
  BY DEF MapFacts
<1>2. i \in RowsOf(j)' /\ IsLast(i)'
  BY <1>1, RowsOfStay
<1>3. /\ Decides(i, Status(j)) /\ Attempt(j) = row[i].attempt
      /\ Decides(i, Status(j))' /\ Attempt(j)' = row[i].attempt
  BY <1>1, <1>2 DEF MapFacts
<1>4. ASSUME NEW k \in Jobs, k # j PROVE Status(k)' = Status(k) /\ Attempt(k)' = Attempt(k)
  <2>1. i \notin RowsOf(k)
    BY <1>1, <1>4 DEF RowsOf, Jobs
  <2>2. \A l \in RowsOf(k) : SameRow(l)
    BY <2>1 DEF RowsOf
  <2> QED
    BY <2>2, RowsOfStay, JobStays
<1>5. StatusOf[j] = Status(j) /\ AttemptOf[j] = Attempt(j) /\ StatusOf'[j] = Status(j)'
  BY DEF StatusOf, AttemptOf
<1>6. StatusOf' = [StatusOf EXCEPT ![j] = StatusOf'[j]] /\ AttemptOf' = AttemptOf
  BY <1>3, <1>4 DEF StatusOf, AttemptOf
<1> QED
  BY <1>3, <1>5, <1>6

----------------------------------------------------------------------------
(* The steps of the adapter as steps of the contract                       *)

\* A slot's step changes what is said of the row in it only.
LEMMA OtherRows ==
  ASSUME IInv, NEW s \in Slots, NEW i, SlotChange(s),
         slot[s].pc = "free" \/ slot[s].id = i, slot'[s].pc = "free" \/ slot'[s].id = i,
         \A k \in RowIds : k # i => /\ place'[k] = place[k] /\ result'[k] = result[k]
                                    /\ k \in backoff' <=> k \in backoff
  PROVE  \A k \in RowIds : k # i => SameRow(k)
<1>1. \A t \in Slots : t # s => slot'[t] = slot[t]
  BY SlotKeeps
<1>2. ASSUME NEW k \in RowIds, k # i, NEW pc, pc # "free"
      PROVE  InSlot(k, pc)' <=> InSlot(k, pc)
  BY <1>1, <1>2 DEF InSlot
<1> QED
  BY <1>2 DEF SameRow

\* The agent starts an attempt.
LEMMA PopIsRun ==
  ASSUME IInv, MapFacts, MapFacts', NEW s \in Slots, Pop(s)
  PROVE  Contract!Next
<1>1. PICK i \in Ready :
        /\ place' = [place EXCEPT ![i] = "claimed"]
        /\ slot' = [slot EXCEPT ![s] = [pc |-> "running", id |-> i, err |-> FALSE]]
  BY DEF Pop
<1>2. i \in RowIds /\ place[i] = "ready" /\ IsLast(i)
  BY DEF IInv, Ready, ReadyInv
<1>3. /\ slot[s].pc = "free"
      /\ UNCHANGED <<row, failure, epoch, workers, start, twice, nextWork, client, backoff, stop,
                     poolOpen, result, faults>>
  BY DEF Pop, StoreWorks, life
<1>4. slot'[s] = [pc |-> "running", id |-> i, err |-> FALSE]
  BY <1>1 DEF IInv, TypeProcess
<1>5. SlotChange(s)
  <2>1. slot'[s] \in SlotRec
    BY <1>2, <1>4 DEF SlotRec
  <2>2. slot' = [slot EXCEPT ![s] = slot'[s]]
    BY <1>1, <1>4
  <2>3. place' \in [RowIds -> {"ready", "claimed", "deleted"}]
    BY <1>1 DEF IInv, TypeTables
  <2> QED
    BY <1>3, <2>1, <2>2, <2>3, BoundAssumption DEF IInv, SlotChange, TypeTables, TypeProcess
<1>6. \A k \in RowIds : k # i => SameRow(k)
  <2>1. \A k \in RowIds : k # i => place'[k] = place[k]
    BY <1>1 DEF IInv, TypeTables
  <2>2. slot'[s].id = i
    BY <1>4
  <2> QED
    BY <1>3, <1>5, <2>1, <2>2, OtherRows
<1>7. PICK j \in Jobs :
        /\ Decides(i, StatusOf[j]) /\ Decides(i, StatusOf[j])'
        /\ StatusOf' = [StatusOf EXCEPT ![j] = StatusOf'[j]] /\ AttemptOf' = AttemptOf
  BY <1>2, <1>3, <1>6, OneMoves
<1>8. InSlot(i, "running")'
  BY <1>4 DEF InSlot
<1>9. StatusOf[j] = "queued" /\ StatusOf'[j] = "running"
  BY <1>2, <1>7, <1>8 DEF Decides
<1>10. Contract!Run(j)
  BY <1>7, <1>9 DEF Contract!Run, Contract!Move, StatusOf, AttemptOf, Attempt
<1> QED
  BY <1>10 DEF Contract!Next

\* The four ways a WorkerFunc returns.
LEMMA ReturnIsAnEnd ==
  ASSUME IInv, MapFacts, MapFacts', NEW s \in Slots, slot[s].pc = "running",
         NEW pc \in {"push", "record"}, NEW err \in BOOLEAN,
         NEW res \in {"ok", "failed", "retry"}, Return(s, pc, err, res),
         UNCHANGED <<row, place, failure, epoch, workers, start, twice, nextWork, client, stop,
                     poolOpen, faults>>,
         backoff' \in {backoff, backoff \cup {slot[s].id}},
         res = "retry" => Retriable(s),
         res = "retry" => pc = "push" \/ backoff' = backoff \cup {slot[s].id}
  PROVE  Contract!Next
<1> USE DEF IInv
<1>1. PICK i \in RowIds : i = slot[s].id /\ place[i] = "claimed" /\ result[i] = "none" /\ IsLast(i)
  BY DEF SlotInv
<1>2. /\ slot'[s] = [pc |-> pc, id |-> i, err |-> err]
      /\ result'[i] = res /\ \A k \in RowIds : k # i => result'[k] = result[k]
  BY <1>1 DEF Return, TypeProcess, TypeTables
<1>3. SlotChange(s)
  <2>1. slot'[s] \in SlotRec
    BY <1>1, <1>2 DEF SlotRec
  <2>2. slot' = [slot EXCEPT ![s] = slot'[s]]
    BY <1>1, <1>2 DEF Return
  <2>3. result' \in [RowIds -> {"none", "ok", "failed", "retry"}]
    BY <1>1 DEF Return, TypeTables
  <2>4. backoff' \subseteq RowIds
    BY <1>1 DEF TypeProcess
  <2> QED
    BY <2>1, <2>2, <2>3, <2>4, BoundAssumption DEF SlotChange, TypeTables, TypeProcess
<1>4. \A k \in RowIds : k # i => SameRow(k)
  <2>1. slot'[s].id = i /\ \A k \in RowIds : k # i => (k \in backoff' <=> k \in backoff)
    BY <1>1, <1>2
  <2> QED
    BY <1>1, <1>2, <1>3, <2>1, OtherRows
<1>5. PICK j \in Jobs :
        /\ Decides(i, StatusOf[j]) /\ Decides(i, StatusOf[j])' /\ AttemptOf[j] = row[i].attempt
        /\ StatusOf' = [StatusOf EXCEPT ![j] = StatusOf'[j]] /\ AttemptOf' = AttemptOf
  BY <1>1, <1>4, OneMoves
<1>6. StatusOf[j] = "running"
  BY <1>1, <1>5 DEF Decides, InSlot
<1>7. CASE res = "ok"
  <2>1. StatusOf'[j] = "succeeded"
    BY <1>2, <1>5, <1>7 DEF Decides
  <2>2. Contract!Succeed(j)
    BY <1>5, <1>6, <2>1 DEF Contract!Succeed, Contract!Move, StatusOf, AttemptOf, Attempt
  <2> QED
    BY <2>2 DEF Contract!Next
<1>8. CASE res = "failed"
  <2>1. StatusOf'[j] = "failed"
    BY <1>2, <1>5, <1>8 DEF Decides
  <2>2. Contract!Fail(j)
    BY <1>5, <1>6, <2>1 DEF Contract!Fail, Contract!Move, StatusOf, AttemptOf, Attempt
  <2> QED
    BY <2>2 DEF Contract!Next
<1>9. CASE res = "retry"
  <2>1. Waits(i)'
    BY <1>1, <1>2, <1>9 DEF Waits, InSlot
  <2>2. StatusOf'[j] = "waiting"
    BY <1>5, <2>1 DEF Decides
  <2>3. AttemptOf[j] < MaxAttempts
    BY <1>1, <1>5, <1>9 DEF Retriable
  <2>4. Contract!Defer(j)
    BY <1>5, <1>6, <2>2, <2>3 DEF Contract!Defer, Contract!Move, StatusOf, AttemptOf, Attempt
  <2> QED
    BY <2>4 DEF Contract!Next
<1> QED
  BY <1>7, <1>8, <1>9

LEMMA WorkerIsAnEnd ==
  ASSUME IInv, MapFacts, MapFacts', NEW s \in Slots,
         WorkerSucceeds(s) \/ WorkerFails(s) \/ WorkerRetriesNow(s) \/ WorkerRetriesLater(s)
  PROVE  Contract!Next
<1> USE DEF tables, life
<1>1. CASE WorkerSucceeds(s)
  BY <1>1, ReturnIsAnEnd DEF WorkerSucceeds
<1>2. CASE WorkerFails(s)
  BY <1>2, ReturnIsAnEnd DEF WorkerFails
<1>3. CASE WorkerRetriesNow(s)
  BY <1>3, ReturnIsAnEnd DEF WorkerRetriesNow, Retriable
<1>4. CASE WorkerRetriesLater(s)
  BY <1>4, ReturnIsAnEnd DEF WorkerRetriesLater, Retriable
<1> QED
  BY <1>1, <1>2, <1>3, <1>4

\* A last row that waited and is neither ready nor held any more: its job is lost.
LEMMA OneIsLost ==
  ASSUME IInv, MapFacts, MapFacts', UNCHANGED row, NEW i \in RowIds, IsLast(i),
         \A k \in RowIds : k # i => SameRow(k),
         Waits(i), Gone(i)'
  PROVE  Contract!Next
<1>1. PICK j \in Jobs :
        /\ Decides(i, StatusOf[j]) /\ Decides(i, StatusOf[j])'
        /\ StatusOf' = [StatusOf EXCEPT ![j] = StatusOf'[j]] /\ AttemptOf' = AttemptOf
  BY OneMoves
<1>2. StatusOf[j] = "waiting" /\ StatusOf'[j] = "lost"
  BY <1>1 DEF Decides
<1>3. StatusOf' = [k \in Jobs |-> IF k \in {j} THEN "lost" ELSE StatusOf[k]]
  BY <1>1, <1>2 DEF StatusOf
<1>4. \A k \in {j} : StatusOf[k] \in {"running", "waiting"}
  BY <1>2
<1>5. Contract!Lose({j})
  BY <1>1, <1>3, <1>4 DEF Contract!Lose, StatusOf, AttemptOf, Attempt
<1> QED
  BY <1>5 DEF Contract!Next

\* A failed re-enqueue loses the job.
LEMMA PushRetryErrorLoses ==
  ASSUME IInv, MapFacts, MapFacts', NEW s \in Slots, PushRetryError(s)
  PROVE  Contract!Next
<1> USE DEF IInv
<1>1. PICK i \in RowIds : /\ i = slot[s].id /\ place[i] = "claimed" /\ Again(i) /\ i \notin backoff
                          /\ slot[s].pc = "push"
  BY DEF PushRetryError, SlotInv
<1>2. /\ UNCHANGED <<row, place, result, backoff>>
      /\ slot'[s] = [pc |-> "record", id |-> i, err |-> TRUE]
      /\ \A t \in Slots : t # s => slot'[t] = slot[t]
  BY <1>1 DEF PushRetryError, TypeProcess, tables
<1>3. \A t \in Slots : t # s /\ slot[t].pc # "free" => slot[t].id # i
  BY <1>1 DEF SlotsApart
<1>4. ASSUME NEW k \in RowIds, k # i PROVE SameRow(k)
  BY <1>1, <1>2, <1>4 DEF SameRow, InSlot
<1>5. Waits(i) /\ Gone(i)'
  BY <1>1, <1>2, <1>3 DEF Waits, Gone, InSlot, Again
<1> QED
  BY <1>1, <1>2, <1>4, <1>5, OneIsLost DEF Again

\* The bookkeeping after a run moves no job: the row of the run may be deleted when
\* the next attempt has long been popped from its own row.
LEMMA SettleMovesNone ==
  ASSUME IInv, MapFacts, MapFacts', NEW s \in Slots, Record(s) \/ Delete(s)
  PROVE  UNCHANGED <<StatusOf, AttemptOf>>
<1> USE DEF IInv
<1>1. PICK i \in RowIds : i = slot[s].id /\ place[i] = "claimed" /\ slot[s].pc \in {"record", "delete"}
  BY DEF Record, Delete, SlotInv
<1>2. /\ UNCHANGED <<row, result, backoff>>
      /\ slot'[s].pc \in {"free", "delete"}
      /\ \A t \in Slots : t # s => slot'[t] = slot[t]
  BY DEF Record, Delete, TypeProcess, NoRun
<1>3. \A k \in RowIds : place'[k] = "ready" <=> place[k] = "ready"
  BY <1>1 DEF Record, Delete, TypeTables
<1>4. ASSUME NEW k \in RowIds PROVE SameRow(k)
  BY <1>1, <1>2, <1>3 DEF SameRow, InSlot
<1> QED
  BY <1>2, <1>4, NoneMoves

\* A back-off goroutine that gives up loses the job.
LEMMA GiveUpLoses ==
  ASSUME IInv, MapFacts, MapFacts', NEW i \in backoff, GiveUp(i)
  PROVE  Contract!Next
<1> USE DEF IInv
<1>1. UNCHANGED <<row, place, result, slot>> /\ backoff' = backoff \ {i}
  BY GiveUpFrame
<1>2. i \in RowIds /\ Again(i)
  BY DEF BackoffInv, TypeProcess
<1>3. place[i] # "ready" /\ ~InSlot(i, "running") /\ ~InSlot(i, "push")
  BY <1>2 DEF ReadyInv, Again, InSlot, SlotInv
<1>4. ASSUME NEW k \in RowIds, k # i PROVE SameRow(k)
  BY <1>1, <1>4 DEF SameRow, InSlot
<1>5. Waits(i) /\ Gone(i)'
  BY <1>1, <1>2, <1>3 DEF Waits, Gone, InSlot, Again
<1> QED
  BY <1>1, <1>2, <1>4, <1>5, OneIsLost DEF Again

\* A push makes its job queued, at the attempt of the new row, and moves no other.
LEMMA PushMoves ==
  ASSUME IInv, MapFacts, MapFacts', NEW r \in RowRec, PushRow(r), NEW i, Handover(i, r)
  PROVE  \E j \in Jobs :
           /\ i = 0 => StatusOf[j] = "absent"
           /\ i # 0 => Decides(i, StatusOf[j]) /\ AttemptOf[j] = row[i].attempt
           /\ StatusOf' = [StatusOf EXCEPT ![j] = "queued"]
           /\ AttemptOf' = [AttemptOf EXCEPT ![j] = r.attempt]
<1>1. PICK n \in Nat : Added(n, r)
  BY PushAdds
<1>2. RowIds = 1..n /\ (i # 0 <=> i \in RowIds)
  BY <1>1 DEF Added, Handover
<1>3. /\ \A k \in RowIds : /\ k \in RowIds' /\ k # n + 1
                           /\ row'[k] = row[k] /\ place'[k] = place[k] /\ result'[k] = result[k]
      /\ RowIds' = RowIds \cup {n + 1}
      /\ row'[n+1] = r /\ place'[n+1] = "ready"
      /\ \A k \in RowIds :
           IsLast(k)' <=> IsLast(k) /\ ~(row[k].epoch = r.epoch /\ row[k].work = r.work)
      /\ IsLast(n + 1)'
  BY <1>1, AddedRows DEF Handover
<1>4. PICK j \in Jobs : j[1] = r.epoch /\ j[2] = r.work
  <2>1. r.epoch \in 0..MaxCrashes /\ r.work \in WorkIDs
    BY BoundAssumption DEF RowRec, IInv, TypeProcess
  <2>2. <<r.epoch, r.work>> \in Jobs
    BY <2>1 DEF Jobs
  <2> QED
    BY <2>2
<1>5. Status(j)' = "queued" /\ Attempt(j)' = r.attempt
  <2>1. n + 1 \in RowsOf(j)'
    BY <1>3, <1>4 DEF RowsOf
  <2>2. Decides(n + 1, Status(j))' /\ Attempt(j)' = row'[n+1].attempt
    BY <1>3, <2>1 DEF MapFacts
  <2> QED
    BY <1>3, <2>2 DEF Decides
<1>6. ASSUME NEW k \in Jobs, k # j PROVE Status(k)' = Status(k) /\ Attempt(k)' = Attempt(k)
  <2>1. ~(k[1] = r.epoch /\ k[2] = r.work)
    BY <1>4, <1>6 DEF Jobs
  <2>2. RowsOf(k)' = RowsOf(k)
    BY <1>3, <2>1 DEF RowsOf
  <2>3. ASSUME NEW l \in RowsOf(k) PROVE /\ row'[l] = row[l] /\ (IsLast(l)' <=> IsLast(l))
                                         /\ SameRow(l)
    <3>1. l \in RowIds /\ ~(row[l].epoch = r.epoch /\ row[l].work = r.work)
      BY <2>1 DEF RowsOf
    <3>2. l # i
      BY <1>2, <3>1 DEF Handover
    <3>3. SameRow(l)
      BY <1>3, <3>1, <3>2 DEF SameRow, InSlot, Handover
    <3> QED
      BY <1>3, <3>1, <3>3
  <2> QED
    BY <2>2, <2>3, JobStays
<1>7. i = 0 => StatusOf[j] = "absent"
  <2>1. i = 0 => RowsOf(j) = {}
    BY <1>4 DEF Handover, RowsOf
  <2> QED
    BY <2>1 DEF MapFacts, StatusOf
<1>8. i # 0 => Decides(i, StatusOf[j]) /\ AttemptOf[j] = row[i].attempt
  <2>1. i # 0 => i \in RowsOf(j) /\ IsLast(i)
    BY <1>2, <1>4 DEF Handover, RowsOf, Again
  <2> QED
    BY <2>1 DEF MapFacts, StatusOf, AttemptOf
<1>9. /\ StatusOf' = [StatusOf EXCEPT ![j] = "queued"]
      /\ AttemptOf' = [AttemptOf EXCEPT ![j] = r.attempt]
  BY <1>5, <1>6 DEF StatusOf, AttemptOf
<1> QED
  BY <1>7, <1>8, <1>9

LEMMA EnqueueIsSubmit ==
  ASSUME IInv, MapFacts, MapFacts', NEW c \in Clients, EnqueuePush(c)
  PROVE  Contract!Next
<1>1. PICK r \in RowRec : PushRow(r) /\ Handover(0, r) /\ r.attempt = 1
  BY EnqueueHandover
<1>2. PICK j \in Jobs : /\ StatusOf[j] = "absent"
                        /\ StatusOf' = [StatusOf EXCEPT ![j] = "queued"]
                        /\ AttemptOf' = [AttemptOf EXCEPT ![j] = 1]
  BY <1>1, PushMoves
<1>3. /\ StatusOf' = [k \in Jobs |-> IF k \in {j} THEN "queued" ELSE StatusOf[k]]
      /\ AttemptOf' = [k \in Jobs |-> IF k \in {j} THEN 1 ELSE AttemptOf[k]]
  BY <1>2 DEF StatusOf, AttemptOf
<1>4. \A k \in {j} : StatusOf[k] = "absent"
  BY <1>2
<1>5. Contract!Submit({j})
  BY <1>3, <1>4 DEF Contract!Submit, StatusOf, AttemptOf, Attempt
<1> QED
  BY <1>5 DEF Contract!Next

\* The next attempt, from the runner or from the goroutine.
LEMMA RetryIsRequeue ==
  ASSUME IInv, MapFacts, MapFacts', NEW i \in RowIds, i # 0, NEW r \in RowRec, PushRow(r),
         Handover(i, r), r.attempt = row[i].attempt + 1, i \in backoff \/ InSlot(i, "push")
  PROVE  Contract!Next
<1>1. PICK j \in Jobs : /\ Decides(i, StatusOf[j]) /\ AttemptOf[j] = row[i].attempt
                        /\ StatusOf' = [StatusOf EXCEPT ![j] = "queued"]
                        /\ AttemptOf' = [AttemptOf EXCEPT ![j] = r.attempt]
  BY PushMoves
<1>2. StatusOf[j] = "waiting"
  BY <1>1 DEF Decides, Waits, Handover, Again
<1>3. AttemptOf' = [AttemptOf EXCEPT ![j] = AttemptOf[j] + 1]
  BY <1>1
<1>4. Contract!Requeue(j)
  BY <1>1, <1>2, <1>3 DEF Contract!Requeue, Contract!Move, StatusOf, AttemptOf, Attempt
<1> QED
  BY <1>4 DEF Contract!Next

LEMMA PushIsAStep ==
  ASSUME IInv, MapFacts, MapFacts', PushStep
  PROVE  Contract!Next
<1>1. CASE \E c \in Clients : EnqueuePush(c)
  BY <1>1, EnqueueIsSubmit
<1>2. CASE \E s \in Slots : PushRetry(s)
  BY <1>2, PushRetryHandover, RetryIsRequeue
<1>3. CASE \E i \in backoff : BackoffFires(i) /\ PushRow(NextAttempt(i)) /\ UNCHANGED faults
  BY <1>3, BackoffHandover, RetryIsRequeue
<1> QED
  BY <1>1, <1>2, <1>3 DEF PushStep

\* A crash loses every job that ran or waited in the process, and no other.
LEMMA CrashLoses ==
  ASSUME IInv, MapFacts, MapFacts', Crash
  PROVE  Contract!Next
<1> USE DEF IInv
<1>1. /\ UNCHANGED <<row, place,
                     result>> /\ backoff' = {} /\ \A s \in Slots : slot'[s].pc = "free"
  BY DEF Crash, tables, NoRun
<1>2. PICK J \in SUBSET Jobs : J = {j \in Jobs : Status(j) \in {"running", "waiting"}}
  OBVIOUS
<1>3. \A k \in RowIds : ~InSlot(k, "running")' /\ ~Waits(k)'
  BY <1>1 DEF InSlot, Waits
<1>4. ASSUME NEW j \in Jobs
      PROVE  /\ Status(j)' = IF j \in J THEN "lost" ELSE Status(j)
             /\ Attempt(j)' = Attempt(j)
  <2>1. CASE RowsOf(j) = {}
    <3>1. RowsOf(j)' = {}
      BY <1>1, <2>1, RowsOfStay
    <3> QED
      BY <1>2, <2>1, <3>1 DEF MapFacts
  <2>2. CASE RowsOf(j) # {}
    <3>1. PICK i \in RowsOf(j) : IsLast(i)
      BY <2>2 DEF MapFacts
    <3>2. i \in RowIds /\ i \in RowsOf(j)' /\ IsLast(i)' /\ row'[i] = row[i]
      BY <1>1, <3>1, RowsOfStay DEF RowsOf
    <3>3. /\ Decides(i, Status(j)) /\ Attempt(j) = row[i].attempt
          /\ Decides(i, Status(j))' /\ Attempt(j)' = row[i].attempt
      BY <3>1, <3>2 DEF MapFacts
    <3>4. InSlot(i, "running") => place[i] = "claimed" /\ result[i] = "none"
      BY DEF InSlot, SlotInv
    <3>5. Waits(i) => place[i] # "ready" /\ result[i] = "retry"
      BY <3>2 DEF Waits, ReadyInv
    <3>6. CASE j \in J
      <4>1. InSlot(i, "running") \/ Waits(i)
        BY <1>2, <3>3, <3>6 DEF Decides, Gone
      <4>2. Gone(i)'
        BY <1>1, <1>3, <3>2, <3>4, <3>5, <4>1 DEF Gone
      <4> QED
        BY <3>3, <3>6, <4>2 DEF Decides
    <3>7. CASE j \notin J
      <4>1. ~InSlot(i, "running") /\ ~Waits(i)
        BY <1>2, <3>3, <3>7 DEF Decides
      <4>2. Gone(i)' <=> Gone(i)
        BY <1>1, <1>3, <3>2, <4>1 DEF Gone
      <4>3. Status(j)' = Status(j)
        BY <1>1, <3>3, <4>1, <4>2 DEF Decides, Gone
      <4> QED
        BY <3>3, <3>7, <4>3
    <3> QED
      BY <3>6, <3>7
  <2> QED
    BY <2>1, <2>2
<1>5. StatusOf' = [j \in Jobs |-> IF j \in J THEN "lost" ELSE StatusOf[j]] /\ AttemptOf' = AttemptOf
  BY <1>4 DEF StatusOf, AttemptOf
<1>6. \A j \in J : StatusOf[j] \in {"running", "waiting"}
  BY <1>2 DEF StatusOf
<1>7. Contract!Lose(J)
  BY <1>5, <1>6 DEF Contract!Lose, StatusOf, AttemptOf, Attempt
<1> QED
  BY <1>7 DEF Contract!Next

----------------------------------------------------------------------------
LEMMA RefinesInit == Init => Contract!Init
BY DEF Init, Contract!Init, Status, RowsOf, RowIds

LEMMA RefinesNext == IInv /\ [Next]_vars => [Contract!Next]_(Contract!vars)
<1> SUFFICES ASSUME IInv, [Next]_vars PROVE Contract!Next \/ UNCHANGED <<StatusOf, AttemptOf>>
  BY DEF Contract!vars, StatusOf, AttemptOf, Attempt
<1>1. MapFacts /\ MapFacts'
  BY Mapped, MappedNext
<1>2. CASE QuietStep
  <2>1. UNCHANGED <<row, place, result, slot, backoff>>
    BY <1>2, QuietFrame
  <2>2. \A i \in RowIds : SameRow(i)
    BY <2>1 DEF SameRow, InSlot
  <2> QED
    BY <1>1, <2>1, <2>2, NoneMoves
<1>3. CASE PushStep
  BY <1>1, <1>3, PushIsAStep
<1>4. CASE \E s \in Slots : SlotStep(s) /\ ~PushRetry(s)
  BY <1>1, <1>4, PopIsRun, WorkerIsAnEnd, PushRetryErrorLoses, SettleMovesNone DEF SlotStep
<1>5. CASE \E i \in backoff : GiveUp(i)
  BY <1>1, <1>5, GiveUpLoses
<1>6. CASE Crash
  BY <1>1, <1>6, CrashLoses
<1> QED
  BY <1>2, <1>3, <1>4, <1>5, <1>6 DEF Next, ClientStep, QuietStep, PushStep, GiveUp

\* Whatever is enqueued, retried, delayed, stopped and crashed, the jobs of the
\* platform-lib adapter live by the contract, although every retry is a new row.
THEOREM PlatlibKeepsContract == Spec => ImplementsContract
BY SpecInv, RefinesInit, RefinesNext, PTL DEF Spec, ImplementsContract, Contract!Spec
=============================================================================
