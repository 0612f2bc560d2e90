--------------------------- MODULE PgStore_proofs ---------------------------
(***************************************************************************)
(* Proofs about PgStore, for any sets of workers, producers, pollers and   *)
(* addresses, and any bounds on rows, faults and crashes: the delivery of  *)
(* rows, then the refinement of WorkQueue, then addresses, permits and     *)
(* wake-ups.                                                               *)
(***************************************************************************)
EXTENDS PgStore, FiniteSetTheorems, TLAPS

\* A producer that still has to notify has a pending notification.
NotesPending == \A p \in Producers : ppc[p] = "notify" => notes[p] # 0

TypeInv == TypeOK /\ NotesPending

\* The initial tables and users are well typed.
LEMMA InitType == Init => TypeInv
<1> SUFFICES ASSUME Init PROVE TypeInv
  OBVIOUS
<1> USE DEF Init
<1>1. DOMAIN queue \subseteq RowIds /\ queue \in [DOMAIN queue -> Row]
  OBVIOUS
<1>2. nextId \in 1..(MaxRows + 1) /\ faults \in 0..MaxFaults /\ crashes \in 0..MaxCrashes
  BY BoundAssumption
<1>3. wpc \in [Workers -> WorkerSteps] /\ work \in [Workers -> Work]
  BY DEF WorkerSteps, Work, NoWork
<1>4. poll \in [Pollers -> [step : {"idle", "count", "answered"},
                            address : Addresses \cup {NoAddress},
                            complete : BOOLEAN, failure : BOOLEAN]]
  BY DEF NoPoll
<1>5. NotesPending
  BY DEF NotesPending
<1> QED
  BY <1>1, <1>2, <1>3, <1>4, <1>5 DEF TypeInv, TypeOK, RowIds

\* The steps of QueuePop keep the types.
LEMMA PopType ==
  ASSUME TypeInv, NEW w \in Workers,
         GetStep(w) \/ PopFault(w)
  PROVE  TypeInv'
<1> USE DEF TypeInv, TypeOK, NotesPending, NotByWorkers, tables, producerVars, faultVars,
            Goto, WorkerSteps, GetSteps, OwnSteps
<1>1. CASE Get(w)
  BY <1>1 DEF Get
<1>2. CASE Wake(w)
  BY <1>2 DEF Wake
<1>3. CASE Precount(w)
  BY <1>3 DEF Precount
<1>4. CASE InsertPermit(w)
  <2>1. work' \in [Workers -> Work]
    BY <1>4 DEF InsertPermit, Work
  <2> QED
    BY <1>4, <2>1 DEF InsertPermit
<1>5. CASE Claim(w)
  <2>1. PICK i \in Claimable : work' = [work EXCEPT ![w] =
         [permit |-> work[w].permit, row |-> i, address |-> queue[i].address]]
    BY <1>5 DEF Claim
  <2>2. i \in DOMAIN queue
    BY <2>1 DEF Claimable, Unclaimed, Visible
  <2>3. i \in RowIds /\ queue[i].address \in Addresses \cup {NoAddress}
    BY <2>2 DEF Row
  <2>4. work' \in [Workers -> Work]
    BY <2>1, <2>3 DEF Work
  <2> QED
    BY <1>5, <2>4 DEF Claim
<1>6. CASE ClaimNothing(w)
  <2>1. work' \in [Workers -> Work]
    BY <1>6 DEF ClaimNothing, Drop, NoWork, Work
  <2> QED
    BY <1>6, <2>1 DEF ClaimNothing, Drop
<1>7. CASE CommitClaim(w)
  <2> DEFINE r == work[w].row
  <2>a. work[w].permit \in Nat
    BY DEF Work
  <2>1. DOMAIN queue' = DOMAIN queue /\ queue' \in [DOMAIN queue -> Row]
    <3>1. queue' = [queue EXCEPT ![r] = [queue[r] EXCEPT !.permit = work[w].permit]]
      BY <1>7 DEF CommitClaim
    <3>2. CASE r \in DOMAIN queue
      <4>1. [queue[r] EXCEPT !.permit = work[w].permit] \in Row
        BY <2>a, <3>2 DEF Row
      <4> QED
        BY <3>1, <3>2, <4>1
    <3>3. CASE r \notin DOMAIN queue
      BY <3>1, <3>3
    <3> QED
      BY <3>2, <3>3
  <2>2. permits' \subseteq Nat
    BY <1>7 DEF CommitClaim, Work
  <2>3. deliveries' \in [RowIds -> Nat]
    <3>1. deliveries' = [deliveries EXCEPT ![r] = deliveries[r] + 1]
      BY <1>7 DEF CommitClaim, Deliver
    <3>2. CASE r \in RowIds
      BY <3>1, <3>2
    <3>3. CASE r \notin RowIds
      BY <3>1, <3>3
    <3> QED
      BY <3>2, <3>3
  <2> QED
    BY <1>7, <2>1, <2>2, <2>3 DEF CommitClaim, Deliver
<1>8. CASE PopFault(w)
  <2>1. work' \in [Workers -> Work]
    BY <1>8 DEF PopFault, Drop, NoWork, Work
  <2>2. faults' \in 0..MaxFaults /\ crashes' \in 0..MaxCrashes
    BY <1>8, BoundAssumption DEF PopFault, Fault
  <2> QED
    BY <1>8, <2>1, <2>2 DEF PopFault, Drop
<1> QED
  BY <1>1, <1>2, <1>3, <1>4, <1>5, <1>6, <1>7, <1>8 DEF GetStep

\* The agent's bookkeeping after a run keeps the types.
LEMMA AgentType ==
  ASSUME TypeInv, NEW w \in Workers,
         AgentStep(w) \/ RecordFault(w) \/ DeleteFault(w)
  PROVE  TypeInv'
<1> USE DEF TypeInv, TypeOK, NotesPending, NotByWorkers, tables, producerVars, faultVars,
            Goto, WorkerSteps, GetSteps, OwnSteps
<1>1. CASE Finish(w)
  BY <1>1 DEF Finish
<1>2. CASE ClearFailure(w)
  BY <1>2 DEF ClearFailure
<1>3. CASE InsertFailure(w)
  <2> DEFINE a == work[w].address
  <2>1. failures' = [failures EXCEPT ![a] = failures[a] + 1]
    BY <1>3 DEF InsertFailure
  <2>2. failures' \in [Addresses -> Nat]
    <3>1. CASE a \in Addresses
      BY <2>1, <3>1
    <3>2. CASE a \notin Addresses
      BY <2>1, <3>2
    <3> QED
      BY <3>1, <3>2
  <2> QED
    BY <1>3, <2>2 DEF InsertFailure
<1>4. CASE DeleteRow(w)
  <2>1. DOMAIN queue' \subseteq RowIds /\ queue' \in [DOMAIN queue' -> Row]
    BY <1>4 DEF DeleteRow
  <2> QED
    BY <1>4, <2>1 DEF DeleteRow
<1>5. CASE DeletePermit(w)
  <2>1. work' \in [Workers -> Work]
    BY <1>5 DEF DeletePermit, Drop, NoWork, Work
  <2> QED
    BY <1>5, <2>1 DEF DeletePermit, Drop
<1>6. CASE NotifyDeleted(w)
  <2>1. signal' \in [Workers -> BOOLEAN]
    BY <1>6 DEF NotifyDeleted, Broadcast, Listening
  <2> QED
    BY <1>6, <2>1 DEF NotifyDeleted
<1>7. CASE RecordFault(w)
  <2>1. faults' \in 0..MaxFaults /\ crashes' \in 0..MaxCrashes
    BY <1>7, BoundAssumption DEF RecordFault, Fault
  <2> QED
    BY <1>7, <2>1 DEF RecordFault
<1>8. CASE DeleteFault(w)
  <2>1. work' \in [Workers -> Work]
    BY <1>8 DEF DeleteFault, Drop, NoWork, Work
  <2>2. faults' \in 0..MaxFaults /\ crashes' \in 0..MaxCrashes
    BY <1>8, BoundAssumption DEF DeleteFault, Fault
  <2> QED
    BY <1>8, <2>1, <2>2 DEF DeleteFault, Drop
<1> QED
  BY <1>1, <1>2, <1>3, <1>4, <1>5, <1>6, <1>7, <1>8 DEF AgentStep

\* Pushes and transactions keep the types.
LEMMA ProducerType ==
  ASSUME TypeInv, NEW p \in Producers, ProducerStep(p)
  PROVE  TypeInv'
<1> USE DEF TypeInv, TypeOK, NotesPending, NotByProducers, faultVars
<1>1. ASSUME NEW a \in Addresses \cup {NoAddress}, NEW pr \in Priorities, Push(p, a, pr)
      PROVE  TypeInv'
  <2>1. nextId \in RowIds /\ nextId' \in 1..(MaxRows + 1)
    BY <1>1, BoundAssumption DEF Push, DrawId, RowIds
  <2>2. DOMAIN queue' = DOMAIN queue \cup {nextId} /\ queue' \in [DOMAIN queue' -> Row]
    BY <1>1 DEF Push, Insert, Row
  <2>3. notes' \in [Producers -> Nat] /\ NotesPending'
    BY <1>1 DEF Push
  <2>4. txRows' \in [Producers -> SUBSET RowIds]
    BY <1>1, <2>1 DEF Push
  <2>5. ppc' \in [Producers -> {"idle", "tx", "aborted", "notify"}]
    BY <1>1 DEF Push
  <2> QED
    BY <1>1, <2>1, <2>2, <2>3, <2>4, <2>5 DEF Push
<1>2. ASSUME NEW a \in Addresses, PushDuplicate(p, a)
      PROVE  TypeInv'
  <2>1. nextId' \in 1..(MaxRows + 1)
    BY <1>2, BoundAssumption DEF PushDuplicate, DrawId
  <2> QED
    BY <1>2, <2>1 DEF PushDuplicate
<1>3. CASE Notify(p)
  <2>1. signal' \in [Workers -> BOOLEAN]
    BY <1>3 DEF Notify, Broadcast, Listening
  <2>2. notes' \in [Producers -> Nat] /\ NotesPending'
    BY <1>3 DEF Notify
  <2> QED
    BY <1>3, <2>1, <2>2 DEF Notify
<1>4. CASE BeginTransactionQueue(p)
  BY <1>4 DEF BeginTransactionQueue
<1>5. CASE Commit(p)
  BY <1>5 DEF Commit
<1>6. ASSUME RollbackRows(p), faults' \in 0..MaxFaults, crashes' \in 0..MaxCrashes
      PROVE  TypeInv'
  <2>1. DOMAIN queue' \subseteq RowIds /\ queue' \in [DOMAIN queue' -> Row]
    BY <1>6 DEF RollbackRows
  <2> QED
    BY <1>6, <2>1 DEF RollbackRows
<1>7. CASE Rollback(p)
  BY <1>6, <1>7 DEF Rollback
<1>8. CASE CommitFault(p)
  BY <1>6, <1>8, BoundAssumption DEF CommitFault, Fault
<1>9. CASE PushFault(p)
  BY <1>9, BoundAssumption DEF PushFault, Fault
<1> QED
  BY <1>1, <1>2, <1>3, <1>4, <1>5, <1>7, <1>8, <1>9 DEF ProducerStep

\* Every step keeps the types.
LEMMA NextType == TypeInv /\ [Next]_vars => TypeInv'
<1> SUFFICES ASSUME TypeInv, [Next]_vars PROVE TypeInv'
  OBVIOUS
<1>1. ASSUME NEW w \in Workers, GetStep(w) \/ AgentStep(w) \/ FaultStep(w)
      PROVE  TypeInv'
  BY <1>1, PopType, AgentType DEF FaultStep
<1>2. ASSUME NEW q \in Pollers, PollerStep(q)
      PROVE  TypeInv'
  <2> USE DEF NotByPollers, tables, workerVars, producerVars, faultVars
  <2>1. poll' \in [Pollers -> [step : {"idle", "count", "answered"},
                               address : Addresses \cup {NoAddress},
                               complete : BOOLEAN, failure : BOOLEAN]]
    <3>1. ASSUME NEW a \in Addresses, PollFailure(q, a)
          PROVE  poll' \in [Pollers -> [step : {"idle", "count", "answered"},
                                        address : Addresses \cup {NoAddress},
                                        complete : BOOLEAN, failure : BOOLEAN]]
      BY <3>1 DEF PollFailure, TypeInv, TypeOK
    <3>2. CASE PollCount(q)
      BY <3>2 DEF PollCount, TypeInv, TypeOK, InProgress
    <3> QED
      BY <1>2, <3>1, <3>2 DEF PollerStep
  <2>2. UNCHANGED NotByPollers
    BY <1>2 DEF PollerStep, PollFailure, PollCount
  <2> QED
    BY <2>1, <2>2 DEF TypeInv, TypeOK, NotesPending
<1>3. CASE Crash
  <2>1. DOMAIN queue' \subseteq RowIds /\ queue' \in [DOMAIN queue' -> Row]
    BY <1>3 DEF Crash, Visible, TypeInv, TypeOK
  <2>2. wpc' \in [Workers -> WorkerSteps] /\ work' \in [Workers -> Work]
    BY <1>3 DEF Crash, WorkerSteps, Work, NoWork
  <2>3. poll' \in [Pollers -> [step : {"idle", "count", "answered"},
                               address : Addresses \cup {NoAddress},
                               complete : BOOLEAN, failure : BOOLEAN]]
    BY <1>3 DEF Crash, NoPoll
  <2>4. crashes' \in 0..MaxCrashes
    BY <1>3, BoundAssumption DEF Crash, TypeInv, TypeOK
  <2> QED
    BY <1>3, <2>1, <2>2, <2>3, <2>4 DEF Crash, TypeInv, TypeOK, NotesPending
<1>4. CASE UNCHANGED vars
  BY <1>4 DEF vars, tables, workerVars, producerVars, faultVars, TypeInv, TypeOK, NotesPending
<1> QED
  BY <1>1, <1>2, <1>3, <1>4, ProducerType DEF Next

\* The store's tables and users stay well typed.
THEOREM TypeCorrect == Spec => []TypeOK
<1>1. TypeInv => TypeOK
  BY DEF TypeInv
<1> QED
  BY InitType, NextType, <1>1, PTL DEF Spec

----------------------------------------------------------------------------
(* The inductive invariant behind DeliveredOnce and PermitsBackClaims.     *)

\* Ids and permits in use were drawn from their sequences; the rows of an open
\* transaction are unclaimed and belong to no other transaction.
RowsInv ==
  /\ \A i \in DOMAIN queue : i < nextId
  /\ \A p \in Producers : \A i \in txRows[p] : i \in DOMAIN queue /\ queue[i].permit = 0
  /\ \A p, q \in Producers : p # q => txRows[p] \cap txRows[q] = {}
  /\ \A k \in permits : k < nextPermit
  /\ \A w \in Workers : work[w].permit < nextPermit

\* A claimed row, committed or not, has a permit of its own.
ClaimsInv ==
  \A i \in DOMAIN queue : queue[i].permit # 0 =>
    /\ queue[i].permit \in permits
    /\ \A j \in DOMAIN queue : queue[j].permit = queue[i].permit => i = j

\* A row that is not there yet was not delivered; one that is there was
\* delivered when it is claimed.
DeliveriesInv ==
  \A i \in RowIds :
    /\ deliveries[i] <= 1
    /\ i >= nextId => deliveries[i] = 0
    /\ i \in DOMAIN queue => (queue[i].permit = 0 <=> deliveries[i] = 0)

\* No two workers have the same permit.
WorkersApart ==
  \A w, v \in Workers : w # v /\ work[w].permit # 0 => work[v].permit # work[w].permit

\* A permit of an open QueuePop is not committed.
PermittedInv ==
  \A w \in Workers : wpc[w] \in {"permitted", "claimed"} =>
    work[w].permit # 0 /\ work[w].permit \notin permits

\* The row an open QueuePop locked is committed, unclaimed, and locked by it
\* alone.
LockedInv ==
  \A w \in Workers : wpc[w] = "claimed" =>
    /\ work[w].row \in Visible
    /\ queue[work[w].row].permit = 0
    /\ \A v \in Workers : v # w /\ wpc[v] = "claimed" => work[v].row # work[w].row

\* A runner's row carries the permit it was popped with, until QueueDelete.
OwnedInv ==
  \A w \in Workers :
    /\ wpc[w] \in OwnSteps =>
         /\ work[w].permit # 0
         /\ work[w].row \in DOMAIN queue
         /\ queue[work[w].row].permit = work[w].permit
    /\ wpc[w] = "deletePermit" =>
         /\ work[w].permit # 0
         /\ \A i \in DOMAIN queue : queue[i].permit # work[w].permit

IInv ==
  /\ TypeInv
  /\ RowsInv
  /\ ClaimsInv
  /\ DeliveriesInv
  /\ WorkersApart
  /\ PermittedInv
  /\ LockedInv
  /\ OwnedInv

\* The invariant holds of the empty tables.
LEMMA InitInv == Init => IInv
<1> SUFFICES ASSUME Init PROVE IInv
  OBVIOUS
<1>1. TypeInv
  BY InitType
<1>2. RowsInv /\ ClaimsInv /\ WorkersApart
  BY DEF Init, RowsInv, ClaimsInv, WorkersApart, NoWork
<1>3. DeliveriesInv
  BY DEF Init, DeliveriesInv
<1>4. PermittedInv /\ LockedInv /\ OwnedInv
  BY DEF Init, PermittedInv, LockedInv, OwnedInv, OwnSteps
<1> QED
  BY <1>1, <1>2, <1>3, <1>4 DEF IInv

\* Steps at which a worker has neither a permit nor a row to care for.
Passive == {"idle", "pop", "counted", "wait", "notify"}

\* A worker that keeps its work moves within its ownership or lets go of it.
QuietWorker(w) ==
  \/ /\ work'[w] = work[w]
     /\ \/ wpc'[w] = wpc[w]
        \/ wpc[w] \in OwnSteps /\ wpc'[w] \in OwnSteps
        \/ wpc'[w] \in Passive
  \/ work'[w] = NoWork /\ wpc'[w] \in Passive

\* A step that only ends transactions, draws ids and moves quiet workers.
QuietStep ==
  /\ nextId' \in Nat /\ nextId' >= nextId
  /\ UNCHANGED <<permits, nextPermit, deliveries>>
  /\ DOMAIN queue' \subseteq DOMAIN queue
  /\ \A i \in DOMAIN queue' : queue'[i] = queue[i]
  /\ \A i \in DOMAIN queue \ DOMAIN queue' : i \in Uncommitted
  /\ \A p \in Producers : txRows'[p] \subseteq txRows[p] /\ txRows'[p] \subseteq DOMAIN queue'
  /\ \A w \in Workers : QuietWorker(w)

\* Such a step keeps the invariant: it claims nothing and lets no committed
\* row go.
LEMMA QuietStepInv ==
  ASSUME IInv, TypeInv', QuietStep
  PROVE  IInv'
<1> USE DEF IInv
<1>1. \A i \in DOMAIN queue : queue[i].permit # 0 => i \in DOMAIN queue'
  BY DEF QuietStep, Uncommitted, RowsInv
<1>2. Visible \subseteq Visible'
  BY DEF QuietStep, Uncommitted, Visible
<1>3. RowsInv'
  <2>1. \A i \in DOMAIN queue' : i < nextId'
    BY DEF RowsInv, QuietStep, TypeInv, TypeOK, RowIds
  <2>2. \A p \in Producers : \A i \in txRows'[p] : i \in DOMAIN queue' /\ queue'[i].permit = 0
    BY DEF RowsInv, QuietStep
  <2>3. \A p, q \in Producers : p # q => txRows'[p] \cap txRows'[q] = {}
    BY DEF RowsInv, QuietStep
  <2>4. \A w \in Workers : work'[w].permit < nextPermit'
    BY DEF RowsInv, QuietStep, QuietWorker, NoWork, TypeInv, TypeOK
  <2> QED
    BY <2>1, <2>2, <2>3, <2>4 DEF RowsInv, QuietStep
<1>4. ClaimsInv'
  BY DEF ClaimsInv, QuietStep
<1>5. DeliveriesInv'
  BY DEF DeliveriesInv, QuietStep, TypeInv, TypeOK, RowIds
<1>6. WorkersApart'
  BY DEF WorkersApart, QuietStep, QuietWorker, NoWork
<1>7. PermittedInv'
  BY DEF PermittedInv, QuietStep, QuietWorker, Passive, OwnSteps
<1>8. LockedInv'
  <2> SUFFICES ASSUME NEW w \in Workers, wpc'[w] = "claimed"
               PROVE  /\ work'[w].row \in Visible'
                      /\ queue'[work'[w].row].permit = 0
                      /\ \A v \in Workers : v # w /\ wpc'[v] = "claimed"
                                              => work'[v].row # work'[w].row
    BY DEF LockedInv
  <2>1. \A v \in Workers : wpc'[v] = "claimed" => wpc[v] = "claimed" /\ work'[v] = work[v]
    BY DEF QuietStep, QuietWorker, Passive, OwnSteps
  <2>2. work'[w].row \in Visible' /\ work[w].row \in DOMAIN queue'
    BY <1>2, <2>1 DEF LockedInv, Visible
  <2> QED
    BY <2>1, <2>2 DEF LockedInv, QuietStep
<1>9. OwnedInv'
  <2> SUFFICES ASSUME NEW w \in Workers
               PROVE  /\ wpc'[w] \in OwnSteps =>
                           /\ work'[w].permit # 0
                           /\ work'[w].row \in DOMAIN queue'
                           /\ queue'[work'[w].row].permit = work'[w].permit
                      /\ wpc'[w] = "deletePermit" =>
                           /\ work'[w].permit # 0
                           /\ \A i \in DOMAIN queue' : queue'[i].permit # work'[w].permit
    BY DEF OwnedInv
  <2>1. wpc'[w] \in OwnSteps => wpc[w] \in OwnSteps /\ work'[w] = work[w]
    BY DEF QuietStep, QuietWorker, Passive, OwnSteps
  <2>2. wpc'[w] = "deletePermit" => wpc[w] = "deletePermit" /\ work'[w] = work[w]
    BY DEF QuietStep, QuietWorker, Passive, OwnSteps
  <2> QED
    BY <1>1, <2>1, <2>2 DEF OwnedInv, QuietStep
<1> QED
  BY <1>3, <1>4, <1>5, <1>6, <1>7, <1>8, <1>9

\* The worker steps that touch neither a claim nor a permit are quiet.
LEMMA QuietWorkers ==
  ASSUME IInv, NEW w \in Workers,
         \/ Get(w) \/ Wake(w) \/ Precount(w) \/ ClaimNothing(w) \/ PopFault(w)
         \/ Finish(w) \/ ClearFailure(w) \/ InsertFailure(w) \/ RecordFault(w)
         \/ NotifyDeleted(w) \/ DeleteFault(w)
  PROVE  QuietStep
<1> USE DEF IInv, TypeInv, TypeOK, Goto, Drop, NotByWorkers, tables, producerVars
<1>1. UNCHANGED <<queue, nextId, permits, nextPermit, txRows, deliveries>>
  BY DEF Get, Wake, Precount, ClaimNothing, PopFault, Finish, ClearFailure, InsertFailure,
         RecordFault, NotifyDeleted, DeleteFault
<1>2. \A v \in Workers : v # w => wpc'[v] = wpc[v] /\ work'[v] = work[v]
  BY DEF Get, Wake, Precount, ClaimNothing, PopFault, Finish, ClearFailure, InsertFailure,
         RecordFault, NotifyDeleted, DeleteFault
<1>3. QuietWorker(w)
  <2>1. CASE Get(w) \/ Wake(w) \/ Precount(w) \/ NotifyDeleted(w)
    BY <2>1 DEF Get, Wake, Precount, NotifyDeleted, QuietWorker, Passive
  <2>2. CASE ClaimNothing(w) \/ PopFault(w) \/ DeleteFault(w)
    BY <2>2 DEF ClaimNothing, PopFault, DeleteFault, QuietWorker, Passive
  <2>3. CASE Finish(w) \/ ClearFailure(w) \/ InsertFailure(w) \/ RecordFault(w)
    BY <2>3 DEF Finish, ClearFailure, InsertFailure, RecordFault, QuietWorker, OwnSteps
  <2> QED
    BY <2>1, <2>2, <2>3
<1> QED
  BY <1>1, <1>2, <1>3 DEF QuietStep, QuietWorker, RowsInv

\* Everything a producer does but a successful push is quiet, and so are a
\* crash and the pollers.
LEMMA QuietOthers ==
  ASSUME IInv,
         \/ \E p \in Producers :
              \/ \E a \in Addresses : PushDuplicate(p, a)
              \/ Notify(p) \/ BeginTransactionQueue(p) \/ Commit(p) \/ Rollback(p)
              \/ PushFault(p) \/ CommitFault(p)
         \/ \E q \in Pollers : PollerStep(q)
         \/ Crash
         \/ UNCHANGED vars
  PROVE  QuietStep
<1> USE DEF IInv, TypeInv, TypeOK
<1>1. ASSUME NEW p \in Producers,
             \/ \E a \in Addresses : PushDuplicate(p, a)
             \/ Notify(p) \/ BeginTransactionQueue(p) \/ PushFault(p)
      PROVE  QuietStep
  BY <1>1 DEF PushDuplicate, PushFault, Notify, BeginTransactionQueue, DrawId, NotByProducers,
              QuietStep, QuietWorker, RowsInv
<1>2. ASSUME NEW p \in Producers, Commit(p)
      PROVE  QuietStep
  BY <1>2 DEF Commit, NotByProducers, QuietStep, QuietWorker, RowsInv
<1>3. ASSUME NEW p \in Producers, RollbackRows(p)
      PROVE  QuietStep
  <2>1. DOMAIN queue' = DOMAIN queue \ txRows[p]
    BY <1>3 DEF RollbackRows
  <2>2. \A q \in Producers : txRows'[q] \subseteq txRows[q] /\ txRows'[q] \subseteq DOMAIN queue'
    BY <1>3, <2>1 DEF RollbackRows, RowsInv
  <2>3. \A i \in DOMAIN queue' : queue'[i] = queue[i]
    BY <1>3 DEF RollbackRows
  <2> QED
    BY <1>3, <2>1, <2>2, <2>3 DEF RollbackRows, NotByProducers, QuietStep, QuietWorker, Uncommitted
<1>4. ASSUME NEW q \in Pollers, PollerStep(q)
      PROVE  QuietStep
  BY <1>4 DEF PollerStep, PollFailure, PollCount, NotByPollers, tables, workerVars,
              producerVars, QuietStep, QuietWorker, RowsInv
<1>5. CASE Crash
  BY <1>5 DEF Crash, Visible, QuietStep, QuietWorker, Passive, Uncommitted
<1>6. CASE UNCHANGED vars
  BY <1>6 DEF vars, tables, workerVars, producerVars, QuietStep, QuietWorker, RowsInv
<1> QED
  BY <1>1, <1>2, <1>3, <1>4, <1>5, <1>6 DEF Rollback, CommitFault

\* The permit QueuePop reserves is nobody's.
LEMMA InsertPermitInv ==
  ASSUME IInv, TypeInv', NEW w \in Workers, InsertPermit(w)
  PROVE  IInv'
<1> USE DEF IInv, InsertPermit, Goto, NotByWorkers, producerVars
<1>1. /\ UNCHANGED <<queue, nextId, permits, txRows, deliveries>>
      /\ work'[w].permit = nextPermit /\ nextPermit' = nextPermit + 1 /\ nextPermit \in Nat \ {0}
      /\ wpc'[w] = "permitted"
      /\ \A v \in Workers : v # w => wpc'[v] = wpc[v] /\ work'[v] = work[v]
      /\ Visible' = Visible
  BY DEF TypeInv, TypeOK, Visible, Uncommitted
<1>2. permits \subseteq Nat /\ \A v \in Workers : work[v].permit \in Nat
  BY DEF TypeInv, TypeOK, Work
<1>3. RowsInv'
  <2>1. \A k \in permits' : k < nextPermit'
    BY <1>1, <1>2 DEF RowsInv
  <2>2. \A v \in Workers : work'[v].permit < nextPermit'
    <3> SUFFICES ASSUME NEW v \in Workers PROVE work'[v].permit < nextPermit'
      OBVIOUS
    <3>1. CASE v = w
      BY <1>1, <3>1
    <3>2. CASE v # w
      BY <1>1, <1>2, <3>2 DEF RowsInv
    <3> QED
      BY <3>1, <3>2
  <2> QED
    BY <1>1, <2>1, <2>2 DEF RowsInv
<1>4. ClaimsInv' /\ DeliveriesInv'
  BY <1>1 DEF ClaimsInv, DeliveriesInv
<1>5. WorkersApart' /\ PermittedInv'
  <2>1. \A v \in Workers : work[v].permit # nextPermit
    BY <1>1, <1>2 DEF RowsInv
  <2>2. nextPermit \notin permits
    BY <1>1, <1>2 DEF RowsInv
  <2> QED
    BY <1>1, <2>1, <2>2 DEF WorkersApart, PermittedInv
<1>6. LockedInv' /\ OwnedInv'
  BY <1>1 DEF LockedInv, OwnedInv, OwnSteps
<1> QED
  BY <1>3, <1>4, <1>5, <1>6

\* SKIP LOCKED gives QueuePop a row that no other open QueuePop has.
LEMMA ClaimInv ==
  ASSUME IInv, TypeInv', NEW w \in Workers, Claim(w)
  PROVE  IInv'
<1> USE DEF IInv
<1>1. PICK i \in Claimable :
        work' = [work EXCEPT ![w] =
                  [permit |-> work[w].permit, row |-> i, address |-> queue[i].address]]
  BY DEF Claim
<1>2. /\ UNCHANGED <<queue, nextId, permits, nextPermit, txRows, deliveries>>
      /\ work'[w].permit = work[w].permit /\ work'[w].row = i
      /\ wpc[w] = "permitted" /\ wpc'[w] = "claimed"
      /\ \A v \in Workers : v # w => wpc'[v] = wpc[v] /\ work'[v] = work[v]
      /\ Visible' = Visible
  BY <1>1 DEF Claim, Goto, NotByWorkers, tables, producerVars, TypeInv, TypeOK, Visible, Uncommitted
<1>3. \A v \in Workers : work'[v].permit = work[v].permit
  BY <1>2
<1>4. RowsInv'
  BY <1>2, <1>3 DEF RowsInv
<1>5. ClaimsInv' /\ DeliveriesInv'
  BY <1>2 DEF ClaimsInv, DeliveriesInv
<1>6. WorkersApart' /\ PermittedInv'
  BY <1>2, <1>3 DEF WorkersApart, PermittedInv
<1>7. LockedInv'
  <2>1. i \in Visible /\ queue[i].permit = 0
    BY DEF Claimable, Unclaimed
  <2>2. \A v \in Workers : wpc[v] = "claimed" => work[v].row # i
    BY DEF Claimable, Locked
  <2> QED
    BY <1>2, <2>1, <2>2 DEF LockedInv
<1>8. OwnedInv'
  BY <1>2 DEF OwnedInv, OwnSteps
<1> QED
  BY <1>4, <1>5, <1>6, <1>7, <1>8

\* The commit of QueuePop gives an unclaimed row its first permit.
LEMMA CommitClaimInv ==
  ASSUME IInv, TypeInv', NEW w \in Workers, CommitClaim(w)
  PROVE  IInv'
<1> USE DEF IInv
<1> DEFINE r == work[w].row
           k == work[w].permit
<1>1. /\ UNCHANGED <<nextId, nextPermit, work, txRows>>
      /\ permits' = permits \cup {k}
      /\ wpc[w] = "claimed" /\ wpc'[w] = "running"
      /\ \A v \in Workers : v # w => wpc'[v] = wpc[v]
  BY DEF CommitClaim, Deliver, Goto, NotByWorkers, producerVars, TypeInv, TypeOK
<1>2. /\ r \in DOMAIN queue /\ r \in RowIds /\ r \in Visible
      /\ queue[r].permit = 0
      /\ k \in Nat /\ k # 0 /\ k \notin permits
  BY <1>1 DEF LockedInv, PermittedInv, Visible, TypeInv, TypeOK, Work
<1>3. /\ DOMAIN queue' = DOMAIN queue
      /\ queue'[r].permit = k
      /\ \A i \in DOMAIN queue : i # r => queue'[i] = queue[i]
  BY <1>2 DEF CommitClaim, TypeInv, TypeOK, Row
<1>4. /\ deliveries'[r] = deliveries[r] + 1
      /\ \A i \in RowIds : i # r => deliveries'[i] = deliveries[i]
  BY <1>2 DEF CommitClaim, Deliver, TypeInv, TypeOK
<1>5. Visible' = Visible
  BY <1>1, <1>3 DEF Visible, Uncommitted
<1>6. \A p \in Producers : r \notin txRows[p]
  BY <1>2 DEF Visible, Uncommitted
<1>7. \A i \in DOMAIN queue : queue[i].permit # k
  BY <1>2 DEF ClaimsInv
<1>8. RowsInv'
  <2>1. \A j \in permits' : j < nextPermit'
    BY <1>1 DEF RowsInv
  <2> QED
    BY <1>1, <1>3, <1>6, <2>1 DEF RowsInv
<1>9. ClaimsInv'
  BY <1>1, <1>2, <1>3, <1>7 DEF ClaimsInv
<1>10. DeliveriesInv'
  <2>1. deliveries[r] = 0 /\ r < nextId
    BY <1>2 DEF DeliveriesInv, RowsInv
  <2>2. r \in Nat /\ nextId \in Nat
    BY <1>2 DEF RowIds, TypeInv, TypeOK
  <2> QED
    BY <1>1, <1>2, <1>3, <1>4, <2>1, <2>2 DEF DeliveriesInv
<1>11. WorkersApart'
  BY <1>1 DEF WorkersApart
<1>12. PermittedInv'
  BY <1>1, <1>2 DEF PermittedInv, WorkersApart
<1>13. LockedInv'
  BY <1>1, <1>3, <1>5 DEF LockedInv, Visible
<1>14. OwnedInv'
  <2>1. \A v \in Workers : v # w /\ wpc[v] \in OwnSteps => work[v].row # r
    BY <1>2 DEF OwnedInv
  <2>2. \A v \in Workers : v # w => work[v].permit # k
    BY <1>2 DEF WorkersApart
  <2> QED
    BY <1>1, <1>2, <1>3, <2>1, <2>2 DEF OwnedInv, OwnSteps
<1> QED
  BY <1>8, <1>9, <1>10, <1>11, <1>12, <1>13, <1>14

\* QueueDelete removes the row of its permit and no other.
LEMMA DeleteRowInv ==
  ASSUME IInv, TypeInv', NEW w \in Workers, DeleteRow(w)
  PROVE  IInv'
<1> USE DEF IInv
<1> DEFINE k == work[w].permit
<1>1. /\ UNCHANGED <<nextId, permits, nextPermit, work, txRows, deliveries>>
      /\ wpc[w] = "deleteRow" /\ wpc'[w] = "deletePermit"
      /\ \A v \in Workers : v # w => wpc'[v] = wpc[v]
  BY DEF DeleteRow, Goto, NotByWorkers, producerVars, TypeInv, TypeOK
<1>2. /\ DOMAIN queue' = {i \in DOMAIN queue : queue[i].permit # k}
      /\ \A i \in DOMAIN queue' : queue'[i] = queue[i]
  BY DEF DeleteRow
<1>3. k # 0
  BY <1>1 DEF OwnedInv, OwnSteps
<1>4. \A i \in Visible : queue[i].permit = 0 => i \in Visible'
  BY <1>1, <1>2, <1>3 DEF Visible, Uncommitted
<1>5. RowsInv'
  BY <1>1, <1>2, <1>3 DEF RowsInv
<1>6. ClaimsInv' /\ DeliveriesInv'
  BY <1>1, <1>2 DEF ClaimsInv, DeliveriesInv
<1>7. WorkersApart' /\ PermittedInv'
  BY <1>1 DEF WorkersApart, PermittedInv
<1>8. LockedInv'
  BY <1>1, <1>2, <1>4 DEF LockedInv, Visible
<1>9. OwnedInv'
  <2>1. \A v \in Workers : v # w => work[v].permit # k
    BY <1>3 DEF WorkersApart
  <2> QED
    BY <1>1, <1>2, <1>3, <2>1 DEF OwnedInv, OwnSteps
<1> QED
  BY <1>5, <1>6, <1>7, <1>8, <1>9

\* By the time QueueDelete removes the permit no row carries it.
LEMMA DeletePermitInv ==
  ASSUME IInv, TypeInv', NEW w \in Workers, DeletePermit(w)
  PROVE  IInv'
<1> USE DEF IInv
<1>1. /\ UNCHANGED <<queue, nextId, nextPermit, txRows, deliveries>>
      /\ permits' = permits \ {work[w].permit}
      /\ wpc[w] = "deletePermit" /\ wpc'[w] = "notify"
      /\ work'[w] = NoWork
      /\ \A v \in Workers : v # w => wpc'[v] = wpc[v] /\ work'[v] = work[v]
      /\ Visible' = Visible
  BY DEF DeletePermit, Drop, Goto, NotByWorkers, producerVars, TypeInv, TypeOK, Visible, Uncommitted
<1>2. RowsInv'
  <2>1. \A v \in Workers : work'[v].permit < nextPermit'
    BY <1>1 DEF RowsInv, NoWork, TypeInv, TypeOK
  <2> QED
    BY <1>1, <2>1 DEF RowsInv
<1>3. ClaimsInv' /\ DeliveriesInv'
  BY <1>1 DEF ClaimsInv, DeliveriesInv, OwnedInv
<1>4. WorkersApart' /\ PermittedInv'
  BY <1>1 DEF WorkersApart, PermittedInv, NoWork
<1>5. LockedInv' /\ OwnedInv'
  BY <1>1 DEF LockedInv, OwnedInv, OwnSteps
<1> QED
  BY <1>2, <1>3, <1>4, <1>5

\* A pushed row is new and unclaimed.
LEMMA PushInv ==
  ASSUME IInv, TypeInv', NEW p \in Producers, NEW a, NEW pr, Push(p, a, pr)
  PROVE  IInv'
<1> USE DEF IInv
<1>1. /\ UNCHANGED <<permits, nextPermit, wpc, work, deliveries>>
      /\ nextId' = nextId + 1 /\ nextId \in RowIds /\ nextId \in Nat
  BY BoundAssumption DEF Push, DrawId, NotByProducers, TypeInv, TypeOK, RowIds
<1>2. /\ DOMAIN queue' = DOMAIN queue \cup {nextId}
      /\ nextId \notin DOMAIN queue
      /\ queue'[nextId].permit = 0
      /\ \A i \in DOMAIN queue : queue'[i] = queue[i]
  <2>1. nextId \notin DOMAIN queue
    BY <1>1 DEF RowsInv
  <2> QED
    BY <2>1 DEF Push, Insert
<1>3. /\ \A q \in Producers : q # p => txRows'[q] = txRows[q]
      /\ txRows'[p] = txRows[p] \/ txRows'[p] = txRows[p] \cup {nextId}
  BY DEF Push, TypeInv, TypeOK
<1>4. Visible \subseteq Visible'
  BY <1>2, <1>3 DEF Visible, Uncommitted
<1>5. RowsInv'
  <2>1. \A i \in DOMAIN queue' : i < nextId'
    BY <1>1, <1>2 DEF RowsInv, RowIds, TypeInv, TypeOK
  <2>2. \A q \in Producers : \A i \in txRows'[q] : i \in DOMAIN queue' /\ queue'[i].permit = 0
    BY <1>2, <1>3 DEF RowsInv
  <2>3. \A q \in Producers : nextId \notin txRows[q]
    BY <1>2 DEF RowsInv
  <2>4. \A q, o \in Producers : q # o => txRows'[q] \cap txRows'[o] = {}
    BY <1>3, <2>3 DEF RowsInv
  <2> QED
    BY <1>1, <2>1, <2>2, <2>4 DEF RowsInv
<1>6. ClaimsInv'
  BY <1>1, <1>2 DEF ClaimsInv
<1>7. DeliveriesInv'
  BY <1>1, <1>2 DEF DeliveriesInv, RowIds
<1>8. WorkersApart' /\ PermittedInv'
  BY <1>1 DEF WorkersApart, PermittedInv
<1>9. LockedInv'
  BY <1>1, <1>2, <1>4 DEF LockedInv, Visible
<1>10. OwnedInv'
  BY <1>1, <1>2 DEF OwnedInv
<1> QED
  BY <1>5, <1>6, <1>7, <1>8, <1>9, <1>10

\* Every step keeps the invariant.
LEMMA NextInv == IInv /\ [Next]_vars => IInv'
<1> SUFFICES ASSUME IInv, [Next]_vars PROVE IInv'
  OBVIOUS
<1>1. TypeInv'
  BY NextType DEF IInv
<1>2. ASSUME NEW w \in Workers, GetStep(w) \/ AgentStep(w) \/ FaultStep(w)
      PROVE  IInv'
  <2>1. CASE InsertPermit(w) \/ Claim(w) \/ CommitClaim(w) \/ DeleteRow(w) \/ DeletePermit(w)
    BY <1>1, <2>1, InsertPermitInv, ClaimInv, CommitClaimInv, DeleteRowInv, DeletePermitInv
  <2>2. CASE \/ Get(w) \/ Wake(w) \/ Precount(w) \/ ClaimNothing(w) \/ PopFault(w)
             \/ Finish(w) \/ ClearFailure(w) \/ InsertFailure(w) \/ RecordFault(w)
             \/ NotifyDeleted(w) \/ DeleteFault(w)
    BY <1>1, <2>2, QuietWorkers, QuietStepInv
  <2> QED
    BY <1>2, <2>1, <2>2 DEF GetStep, AgentStep, FaultStep
<1>3. ASSUME NEW p \in Producers, ProducerStep(p)
      PROVE  IInv'
  <2>1. ASSUME NEW a \in Addresses \cup {NoAddress}, NEW pr \in Priorities, Push(p, a, pr)
        PROVE  IInv'
    BY <1>1, <2>1, PushInv
  <2>2. CASE \/ \E a \in Addresses : PushDuplicate(p, a)
             \/ Notify(p) \/ BeginTransactionQueue(p) \/ Commit(p) \/ Rollback(p)
             \/ PushFault(p) \/ CommitFault(p)
    BY <1>1, <2>2, QuietOthers, QuietStepInv
  <2> QED
    BY <1>3, <2>1, <2>2 DEF ProducerStep
<1>4. CASE (\E q \in Pollers : PollerStep(q)) \/ Crash \/ UNCHANGED vars
  BY <1>1, <1>4, QuietOthers, QuietStepInv
<1> QED
  BY <1>2, <1>3, <1>4 DEF Next

\* QueuePop hands out no row twice, whatever fails or crashes, as long as an
\* error of its commit is not discarded.
THEOREM NoRowIsDeliveredTwice == Spec => []DeliveredOnce
<1>1. IInv => DeliveredOnce
  BY DEF IInv, DeliveriesInv, DeliveredOnce
<1> QED
  BY InitInv, NextInv, <1>1, PTL DEF Spec

\* Every claimed row has a permit of its own in queue_permits.
THEOREM EveryClaimHasItsPermit == Spec => []PermitsBackClaims
<1>1. IInv => PermitsBackClaims
  BY DEF IInv, ClaimsInv, PermitsBackClaims, Visible
<1> QED
  BY InitInv, NextInv, <1>1, PTL DEF Spec

----------------------------------------------------------------------------
(***************************************************************************)
(* PgStore implements WorkQueue: every step of the store is a step of the  *)
(* abstract queue under the mapping Ready, Held, Stuck, Done, or leaves    *)
(* all four alone.                                                         *)
(***************************************************************************)

HeldBy == [w \in Workers |-> Held(w)]

\* Rows that workers hold are committed and claimed.
LEMMA HeldRows ==
  ASSUME IInv, NEW w \in Workers, NEW i \in Held(w)
  PROVE  i \in Visible /\ queue[i].permit # 0 /\ queue[i].permit = work[w].permit
<1>1. wpc[w] \in OwnSteps /\ i = work[w].row
  BY DEF Held
<1>2. i \in DOMAIN queue /\ queue[i].permit # 0 /\ queue[i].permit = work[w].permit
  BY <1>1 DEF IInv, OwnedInv
<1>3. i \notin Uncommitted
  BY <1>2 DEF IInv, RowsInv, Uncommitted
<1> QED
  BY <1>2, <1>3 DEF Visible

\* A step that leaves the committed rows, their permits and the workers'
\* holdings alone is invisible to the abstract queue.
LEMMA Invisible ==
  ASSUME IInv,
         Visible' = Visible,
         \A i \in Visible : queue'[i].permit = queue[i].permit,
         \A w \in Workers : Held(w)' = Held(w),
         Done' = Done
  PROVE  UNCHANGED Queue!vars
<1>1. Ready' = Ready
  BY DEF Ready
<1>2. HeldBy' = HeldBy
  BY DEF HeldBy
<1>3. Stuck' = Stuck
  BY DEF Stuck, AllHeld
<1> QED
  BY <1>1, <1>2, <1>3 DEF Queue!vars, HeldBy

\* The steps of a worker that neither take nor give back a row.
LEMMA InvisibleWorkers ==
  ASSUME IInv, NEW w \in Workers,
         \/ Get(w) \/ Wake(w) \/ Precount(w) \/ InsertPermit(w) \/ Claim(w)
         \/ ClaimNothing(w) \/ PopFault(w) \/ Finish(w) \/ ClearFailure(w)
         \/ InsertFailure(w) \/ RecordFault(w) \/ DeletePermit(w) \/ NotifyDeleted(w)
  PROVE  UNCHANGED Queue!vars
<1> USE DEF IInv, TypeInv, TypeOK, Goto, Drop, NotByWorkers, tables, producerVars
<1>1. UNCHANGED <<queue, txRows, deliveries>>
  BY DEF Get, Wake, Precount, InsertPermit, Claim, ClaimNothing, PopFault, Finish,
         ClearFailure, InsertFailure, RecordFault, DeletePermit, NotifyDeleted
<1>2. \A v \in Workers : v # w => wpc'[v] = wpc[v] /\ work'[v] = work[v]
  BY DEF Get, Wake, Precount, InsertPermit, Claim, ClaimNothing, PopFault, Finish,
         ClearFailure, InsertFailure, RecordFault, DeletePermit, NotifyDeleted
<1>3. \/ wpc[w] \notin OwnSteps /\ wpc'[w] \notin OwnSteps
      \/ wpc[w] \in OwnSteps /\ wpc'[w] \in OwnSteps /\ work'[w] = work[w]
  <2> USE DEF OwnSteps
  <2>1. CASE Get(w) \/ Wake(w) \/ Precount(w) \/ InsertPermit(w) \/ Claim(w)
    BY <2>1 DEF Get, Wake, Precount, InsertPermit, Claim
  <2>2. CASE ClaimNothing(w) \/ PopFault(w) \/ DeletePermit(w) \/ NotifyDeleted(w)
    BY <2>2 DEF ClaimNothing, PopFault, DeletePermit, NotifyDeleted
  <2>3. CASE Finish(w) \/ ClearFailure(w) \/ InsertFailure(w) \/ RecordFault(w)
    BY <2>3 DEF Finish, ClearFailure, InsertFailure, RecordFault
  <2> QED
    BY <2>1, <2>2, <2>3
<1>4. \A v \in Workers : Held(v)' = Held(v)
  BY <1>2, <1>3 DEF Held
<1>5. Visible' = Visible /\ Done' = Done
  BY <1>1 DEF Visible, Uncommitted, Done
<1> QED
  BY <1>1, <1>4, <1>5, Invisible

\* The commit of QueuePop is Pop.
LEMMA CommitClaimIsPop ==
  ASSUME IInv, NEW w \in Workers, CommitClaim(w)
  PROVE  Queue!Next
<1> USE DEF IInv
<1> DEFINE r == work[w].row
<1>1. /\ UNCHANGED <<work, txRows>>
      /\ wpc[w] = "claimed" /\ wpc'[w] = "running"
      /\ \A v \in Workers : v # w => wpc'[v] = wpc[v]
  BY DEF CommitClaim, Deliver, Goto, NotByWorkers, producerVars, TypeInv, TypeOK
<1>2. /\ r \in DOMAIN queue /\ r \in RowIds /\ r \in Visible
      /\ queue[r].permit = 0 /\ work[w].permit # 0
  BY <1>1 DEF LockedInv, PermittedInv, Visible, TypeInv, TypeOK
<1>3. /\ DOMAIN queue' = DOMAIN queue
      /\ queue'[r].permit = work[w].permit
      /\ \A i \in DOMAIN queue : i # r => queue'[i] = queue[i]
  BY <1>2 DEF CommitClaim, TypeInv, TypeOK, Row
<1>4. /\ deliveries'[r] = deliveries[r] + 1
      /\ \A i \in RowIds : i # r => deliveries'[i] = deliveries[i]
  BY <1>2 DEF CommitClaim, Deliver, TypeInv, TypeOK
<1>5. Visible' = Visible
  BY <1>1, <1>3 DEF Visible, Uncommitted
<1>6. Held(w) = {} /\ Held(w)' = {r} /\ \A v \in Workers : v # w => Held(v)' = Held(v)
  BY <1>1 DEF Held, OwnSteps
<1>7. r \in Ready /\ Ready' = Ready \ {r}
  BY <1>2, <1>3, <1>5 DEF Ready, Visible
<1>8. HeldBy' = [HeldBy EXCEPT ![w] = {r}] /\ HeldBy[w] = {}
  BY <1>6 DEF HeldBy
<1>9. AllHeld' = AllHeld \cup {r}
  BY <1>6 DEF AllHeld
<1>10. {i \in Visible' : queue'[i].permit # 0} = {i \in Visible : queue[i].permit # 0} \cup {r}
  BY <1>2, <1>3, <1>5 DEF Visible
<1>11. Stuck' = Stuck
  BY <1>2, <1>9, <1>10 DEF Stuck
<1>12. Done' = Done
  BY <1>2, <1>3, <1>4 DEF Done
<1>13. Queue!Pop(w, r)
  BY <1>7, <1>8, <1>11, <1>12 DEF Queue!Pop, HeldBy
<1> QED
  BY <1>2, <1>13 DEF Queue!Next

\* The first statement of QueueDelete is Complete.
LEMMA DeleteRowIsComplete ==
  ASSUME IInv, NEW w \in Workers, DeleteRow(w)
  PROVE  Queue!Next
<1> USE DEF IInv
<1> DEFINE r == work[w].row
           k == work[w].permit
<1>1. /\ UNCHANGED <<work, txRows, deliveries>>
      /\ wpc[w] = "deleteRow" /\ wpc'[w] = "deletePermit"
      /\ \A v \in Workers : v # w => wpc'[v] = wpc[v]
  BY DEF DeleteRow, Goto, NotByWorkers, producerVars, TypeInv, TypeOK
<1>2. /\ k # 0 /\ r \in DOMAIN queue /\ r \in RowIds /\ queue[r].permit = k
  BY <1>1 DEF OwnedInv, OwnSteps, TypeInv, TypeOK
<1>3. \A i \in DOMAIN queue : queue[i].permit = k <=> i = r
  BY <1>2 DEF ClaimsInv
<1>4. DOMAIN queue' = DOMAIN queue \ {r} /\ \A i \in DOMAIN queue' : queue'[i] = queue[i]
  BY <1>3 DEF DeleteRow
<1>5. Held(w) = {r} /\ Held(w)' = {} /\ \A v \in Workers : v # w => Held(v)' = Held(v)
  BY <1>1 DEF Held, OwnSteps
<1>6. Visible' = Visible \ {r}
  BY <1>1, <1>4 DEF Visible, Uncommitted
<1>7. \A v \in Workers : v # w => r \notin Held(v)
  BY <1>2, HeldRows DEF WorkersApart
<1>8. Ready' = Ready
  BY <1>2, <1>4, <1>6 DEF Ready, Visible
<1>9. HeldBy' = [HeldBy EXCEPT ![w] = {}] /\ HeldBy[w] = {r}
  BY <1>5 DEF HeldBy
<1>10. AllHeld' = AllHeld \ {r}
  BY <1>5, <1>7 DEF AllHeld
<1>11. {i \in Visible' : queue'[i].permit # 0} = {i \in Visible : queue[i].permit # 0} \ {r}
  BY <1>4, <1>6 DEF Visible
<1>12. Stuck' = Stuck
  <2>1. r \in AllHeld
    BY <1>5 DEF AllHeld
  <2> QED
    BY <1>10, <1>11, <2>1 DEF Stuck
<1>13. Done' = Done \cup {r}
  <2>1. deliveries[r] > 0
    BY <1>2 DEF DeliveriesInv, TypeInv, TypeOK
  <2> QED
    BY <1>1, <1>2, <1>4, <2>1 DEF Done
<1>14. Queue!Complete(w)
  BY <1>8, <1>9, <1>12, <1>13 DEF Queue!Complete, HeldBy
<1> QED
  BY <1>14 DEF Queue!Next

\* A step after which the workers W hold nothing, and the committed rows are as
\* before, is Lose(W).
LEMMA LosingIsLose ==
  ASSUME IInv, NEW W \in SUBSET Workers,
         Visible' = Visible,
         \A i \in Visible : queue'[i].permit = queue[i].permit,
         \A w \in W : Held(w)' = {},
         \A w \in Workers \ W : Held(w)' = Held(w),
         \A v, w \in Workers : v # w => Held(v) \cap Held(w) = {},
         Done' = Done
  PROVE  Queue!Next
<1>1. Ready' = Ready
  BY DEF Ready
<1>2. HeldBy' = [w \in Workers |-> IF w \in W THEN {} ELSE HeldBy[w]]
  BY DEF HeldBy
<1>3. AllHeld \subseteq {i \in Visible : queue[i].permit # 0}
  BY HeldRows DEF AllHeld
<1>4. AllHeld' = AllHeld \ (UNION {HeldBy[w] : w \in W})
  <2>1. ASSUME NEW i \in AllHeld' PROVE i \in AllHeld /\ i \notin UNION {HeldBy[w] : w \in W}
    <3>1. PICK v \in Workers : i \in Held(v)'
      BY <2>1 DEF AllHeld
    <3>2. v \notin W /\ i \in Held(v)
      BY <3>1
    <3>3. \A w \in W : i \notin HeldBy[w]
      BY <3>2 DEF HeldBy
    <3> QED
      BY <3>2, <3>3 DEF AllHeld
  <2>2. ASSUME NEW i \in AllHeld, i \notin UNION {HeldBy[w] : w \in W} PROVE i \in AllHeld'
    <3>1. PICK v \in Workers : i \in Held(v)
      BY <2>2 DEF AllHeld
    <3>2. v \notin W
      BY <2>2, <3>1 DEF HeldBy
    <3> QED
      BY <3>1, <3>2 DEF AllHeld
  <2> QED
    BY <2>1, <2>2
<1>5. UNION {HeldBy[w] : w \in W} \subseteq AllHeld
  BY DEF AllHeld, HeldBy
<1>6. {i \in Visible' : queue'[i].permit # 0} = {i \in Visible : queue[i].permit # 0}
  OBVIOUS
<1>7. Stuck' = Stuck \cup (UNION {HeldBy[w] : w \in W})
  BY <1>3, <1>4, <1>5, <1>6 DEF Stuck
<1>8. Queue!Lose(W)
  BY <1>1, <1>2, <1>7 DEF Queue!Lose, HeldBy
<1> QED
  BY <1>8 DEF Queue!Next

\* No two workers hold the same row.
LEMMA HeldApart ==
  ASSUME IInv
  PROVE  \A v, w \in Workers : v # w => Held(v) \cap Held(w) = {}
<1> SUFFICES ASSUME NEW v \in Workers, NEW w \in Workers, v # w,
                    NEW i \in Held(v) \cap Held(w)
             PROVE  FALSE
  OBVIOUS
<1>1. work[v].permit = work[w].permit /\ work[w].permit # 0
  BY HeldRows
<1> QED
  BY <1>1 DEF IInv, WorkersApart

\* A statement of QueueDelete that fails, and a crash, lose rows.
LEMMA FaultsLose ==
  ASSUME IInv, (\E w \in Workers : DeleteFault(w)) \/ Crash
  PROVE  Queue!Next
<1> USE DEF IInv, TypeInv, TypeOK
<1>1. ASSUME NEW w \in Workers, DeleteFault(w)
      PROVE  Queue!Next
  <2>1. UNCHANGED <<queue, txRows, deliveries>>
    BY <1>1 DEF DeleteFault, NotByWorkers, tables, producerVars
  <2>2. Held(w)' = {} /\ \A v \in Workers \ {w} : Held(v)' = Held(v)
    BY <1>1 DEF DeleteFault, Drop, Goto, Held, OwnSteps
  <2>3. Visible' = Visible /\ Done' = Done
    BY <2>1 DEF Visible, Uncommitted, Done
  <2>4. {w} \in SUBSET Workers
    OBVIOUS
  <2>5. \A v \in {w} : Held(v)' = {}
    BY <2>2
  <2> QED
    BY <2>1, <2>2, <2>3, <2>4, <2>5, HeldApart, LosingIsLose
<1>2. CASE Crash
  <2>1. DOMAIN queue' = Visible /\ \A i \in Visible : queue'[i] = queue[i]
    BY <1>2 DEF Crash
  <2>2. Uncommitted' = {}
    BY <1>2 DEF Crash, Uncommitted
  <2>3. Visible' = Visible
    BY <2>1, <2>2 DEF Visible
  <2>4. \A i \in Uncommitted : deliveries[i] = 0
    BY DEF Uncommitted, RowsInv, DeliveriesInv
  <2>5. Done' = Done
    BY <1>2, <2>1, <2>4 DEF Crash, Done, Visible
  <2>6. \A w \in Workers : Held(w)' = {}
    BY <1>2 DEF Crash, Held, OwnSteps
  <2> QED
    BY <2>1, <2>3, <2>5, <2>6, HeldApart, LosingIsLose
<1> QED
  BY <1>1, <1>2

\* A step that makes the rows S visible, unclaimed, and changes nothing else, is
\* Push(S).
LEMMA AppearingIsPush ==
  ASSUME IInv, NEW S \in SUBSET RowIds,
         Visible' = Visible \cup S,
         S \cap Visible = {},
         \A i \in Visible : queue'[i].permit = queue[i].permit,
         \A i \in S : queue'[i].permit = 0 /\ deliveries[i] = 0,
         \A w \in Workers : Held(w)' = Held(w),
         Done' = Done
  PROVE  Queue!Next
<1>1. Ready' = Ready \cup S
  BY DEF Ready
<1>2. HeldBy' = HeldBy
  BY DEF HeldBy
<1>3. Stuck' = Stuck
  BY DEF Stuck, AllHeld
<1>4. S \cap Done = {}
  BY DEF Done
<1>5. S \cap (UNION {HeldBy[w] : w \in Workers}) = {}
  BY HeldRows DEF HeldBy
<1>6. S \cap Ready = {} /\ S \cap Stuck = {}
  BY DEF Ready, Stuck
<1>7. Queue!Push(S)
  BY <1>1, <1>2, <1>3, <1>4, <1>5, <1>6 DEF Queue!Push, Queue!Known, HeldBy
<1> QED
  BY <1>7 DEF Queue!Next

\* What producers do is Push or invisible.
LEMMA ProducersPush ==
  ASSUME IInv, NEW p \in Producers, ProducerStep(p)
  PROVE  Queue!Next \/ UNCHANGED Queue!vars
<1> USE DEF IInv, TypeInv, TypeOK
<1>1. UNCHANGED <<wpc, work, deliveries>>
  BY DEF ProducerStep, Push, PushDuplicate, PushFault, Notify, BeginTransactionQueue,
         Commit, Rollback, CommitFault, RollbackRows, NotByProducers
<1>2. \A w \in Workers : Held(w)' = Held(w)
  BY <1>1 DEF Held
<1>3. ASSUME NEW a \in Addresses \cup {NoAddress}, NEW pr \in Priorities, Push(p, a, pr)
      PROVE  Queue!Next \/ UNCHANGED Queue!vars
  <2>1. nextId \in RowIds /\ nextId \notin DOMAIN queue /\ deliveries[nextId] = 0
    BY <1>3, BoundAssumption DEF Push, DrawId, RowIds, RowsInv, DeliveriesInv
  <2>2. /\ DOMAIN queue' = DOMAIN queue \cup {nextId}
        /\ queue'[nextId].permit = 0
        /\ \A i \in DOMAIN queue : queue'[i] = queue[i]
    BY <1>3, <2>1 DEF Push, Insert
  <2>3. Done' = Done
    BY <1>1, <2>1, <2>2 DEF Done
  <2>4. CASE ppc[p] = "tx"
    <3>1. /\ txRows'[p] = txRows[p] \cup {nextId}
          /\ \A q \in Producers : q # p => txRows'[q] = txRows[q]
      BY <1>3, <2>4 DEF Push
    <3>2. Uncommitted' = Uncommitted \cup {nextId}
      BY <3>1 DEF Uncommitted
    <3>3. Visible' = Visible
      BY <2>1, <2>2, <3>2 DEF Visible
    <3>4. \A i \in Visible : queue'[i].permit = queue[i].permit
      BY <2>2 DEF Visible
    <3> QED
      BY <1>2, <2>3, <3>3, <3>4, Invisible
  <2>5. CASE ppc[p] # "tx"
    <3>1. txRows' = txRows
      BY <1>3, <2>5 DEF Push
    <3>2. nextId \notin Uncommitted
      BY <2>1 DEF Uncommitted, RowsInv
    <3>3. Visible' = Visible \cup {nextId} /\ {nextId} \cap Visible = {}
      BY <2>1, <2>2, <3>1, <3>2 DEF Visible, Uncommitted
    <3>4. \A i \in Visible : queue'[i].permit = queue[i].permit
      BY <2>2 DEF Visible
    <3>5. {nextId} \in SUBSET RowIds
      BY <2>1
    <3>6. \A i \in {nextId} : queue'[i].permit = 0 /\ deliveries[i] = 0
      BY <2>1, <2>2
    <3> QED
      BY <1>2, <2>3, <3>3, <3>4, <3>5, <3>6, AppearingIsPush
  <2> QED
    BY <2>4, <2>5
<1>4. CASE \/ \E a \in Addresses : PushDuplicate(p, a)
           \/ PushFault(p) \/ Notify(p) \/ BeginTransactionQueue(p)
  <2>1. UNCHANGED <<queue, txRows>>
    BY <1>4 DEF PushDuplicate, PushFault, Notify, BeginTransactionQueue
  <2>2. Visible' = Visible /\ Done' = Done
    BY <1>1, <2>1 DEF Visible, Uncommitted, Done
  <2> QED
    BY <1>2, <2>1, <2>2, Invisible
<1>5. CASE Commit(p)
  <2>1. /\ UNCHANGED queue
        /\ txRows'[p] = {}
        /\ \A q \in Producers : q # p => txRows'[q] = txRows[q]
    BY <1>5 DEF Commit
  <2>2. Uncommitted' = Uncommitted \ txRows[p]
    BY <2>1 DEF Uncommitted, RowsInv
  <2>3. txRows[p] \in SUBSET RowIds /\ txRows[p] \subseteq DOMAIN queue /\ txRows[p] \subseteq Uncommitted
    BY DEF Uncommitted, RowsInv
  <2>4. Visible' = Visible \cup txRows[p] /\ txRows[p] \cap Visible = {}
    BY <2>1, <2>2, <2>3 DEF Visible
  <2>5. \A i \in txRows[p] : queue'[i].permit = 0 /\ deliveries[i] = 0
    BY <2>1, <2>3 DEF RowsInv, DeliveriesInv
  <2>6. Done' = Done
    BY <1>1, <2>1 DEF Done
  <2> QED
    BY <1>2, <2>1, <2>3, <2>4, <2>5, <2>6, AppearingIsPush
<1>6. CASE RollbackRows(p)
  <2>1. /\ DOMAIN queue' = DOMAIN queue \ txRows[p]
        /\ \A i \in DOMAIN queue' : queue'[i] = queue[i]
        /\ txRows'[p] = {}
        /\ \A q \in Producers : q # p => txRows'[q] = txRows[q]
    BY <1>6 DEF RollbackRows
  <2>2. Uncommitted' = Uncommitted \ txRows[p] /\ txRows[p] \subseteq Uncommitted
    BY <2>1 DEF Uncommitted, RowsInv
  <2>3. Visible' = Visible
    BY <2>1, <2>2 DEF Visible
  <2>4. \A i \in txRows[p] : deliveries[i] = 0
    BY DEF RowsInv, DeliveriesInv
  <2>5. Done' = Done
    BY <1>1, <2>1, <2>4 DEF Done
  <2>6. \A i \in Visible : queue'[i].permit = queue[i].permit
    BY <2>1, <2>2 DEF Visible
  <2> QED
    BY <1>2, <2>3, <2>5, <2>6, Invisible
<1> QED
  BY <1>3, <1>4, <1>5, <1>6 DEF ProducerStep, Rollback, CommitFault

\* Every step of the store is a step of the abstract queue or invisible to it.
LEMMA NextRefines == IInv /\ [Next]_vars => [Queue!Next]_Queue!vars
<1> SUFFICES ASSUME IInv, [Next]_vars PROVE Queue!Next \/ UNCHANGED Queue!vars
  OBVIOUS
<1>1. ASSUME NEW w \in Workers, GetStep(w) \/ AgentStep(w) \/ FaultStep(w)
      PROVE  Queue!Next \/ UNCHANGED Queue!vars
  BY <1>1, InvisibleWorkers, CommitClaimIsPop, DeleteRowIsComplete, FaultsLose
     DEF GetStep, AgentStep, FaultStep
<1>2. CASE (\E q \in Pollers : PollerStep(q)) \/ UNCHANGED vars
  <2>1. UNCHANGED <<queue, txRows, deliveries, wpc, work>>
    BY <1>2 DEF PollerStep, PollFailure, PollCount, NotByPollers, vars, tables, workerVars,
                producerVars
  <2>2. Visible' = Visible /\ Done' = Done
    BY <2>1 DEF Visible, Uncommitted, Done
  <2>3. \A w \in Workers : Held(w)' = Held(w)
    BY <2>1 DEF Held
  <2> QED
    BY <2>1, <2>2, <2>3, Invisible
<1> QED
  BY <1>1, <1>2, ProducersPush, FaultsLose DEF Next

\* The initial tables are the empty abstract queue.
LEMMA InitRefines == Init => Queue!Init
<1> SUFFICES ASSUME Init PROVE Queue!Init
  OBVIOUS
<1>1. Visible = {}
  BY DEF Init, Visible
<1>2. \A w \in Workers : Held(w) = {}
  BY DEF Init, Held, OwnSteps
<1>3. Ready = {} /\ Stuck = {}
  BY <1>1 DEF Ready, Stuck
<1>4. Done = {}
  BY DEF Init, Done
<1> QED
  BY <1>2, <1>3, <1>4 DEF Queue!Init

\* The Postgres store implements the abstract work queue, through failing
\* statements and crashes.
THEOREM StoreImplementsWorkQueue == Spec => ImplementsWorkQueue
<1> QED
  BY InitInv, NextInv, InitRefines, NextRefines, PTL DEF Spec, ImplementsWorkQueue, Queue!Spec

----------------------------------------------------------------------------
(***************************************************************************)
(* What addressed work leaves on record, which permits are lost, and who   *)
(* is woken.                                                               *)
(***************************************************************************)

(* Addresses.                                                              *)

\* The UNIQUE index: an address is on one row at most, uncommitted ones too.
UniqueInv ==
  \A i, j \in DOMAIN queue :
    queue[i].address = queue[j].address /\ queue[i].address # NoAddress => i = j

\* A worker knows the address of the row it locked or owns.
KnownInv ==
  \A w \in Workers : wpc[w] \in OwnSteps \cup {"claimed"} =>
    work[w].address = queue[work[w].row].address

\* QueueAddressedComplete runs for addressed work, and inserts only after it
\* has cleared.
RecordInv ==
  \A w \in Workers :
    /\ wpc[w] \in {"clear", "insert"} => work[w].address \in Addresses
    /\ wpc[w] = "insert" => failed[w] /\ failures[work[w].address] = 0

AddressInv == IInv /\ UniqueInv /\ KnownInv /\ RecordInv /\ OneFailureRow /\ OutcomeOnRecord

\* Two workers never own work of the same address.
LEMMA AddressesApart ==
  ASSUME IInv, UniqueInv, KnownInv, NEW w \in Workers, NEW v \in Workers, w # v,
         wpc[w] \in OwnSteps, wpc[v] \in OwnSteps, work[w].address # NoAddress
  PROVE  work[v].address # work[w].address
<1>1. work[w].permit # work[v].permit
  BY DEF IInv, OwnedInv, WorkersApart
<1>2. /\ work[w].row \in DOMAIN queue /\ queue[work[w].row].permit = work[w].permit
      /\ work[v].row \in DOMAIN queue /\ queue[work[v].row].permit = work[v].permit
  BY DEF IInv, OwnedInv
<1> QED
  BY <1>1, <1>2 DEF UniqueInv, KnownInv

\* A step that pushes and records nothing: rows keep their addresses, and every
\* worker that owns work has owned it before.
SilentStep ==
  /\ UNCHANGED failures
  /\ DOMAIN queue' \subseteq DOMAIN queue
  /\ \A i \in DOMAIN queue' : queue'[i].address = queue[i].address
  /\ \A w \in Workers :
       /\ wpc'[w] \in OwnSteps \cup {"claimed"} =>
            /\ wpc[w] \in OwnSteps \cup {"claimed"}
            /\ work'[w] = work[w]
       /\ wpc'[w] \in {"clear", "insert", "deleteRow"} =>
            wpc'[w] = wpc[w] /\ failed'[w] = failed[w]
  /\ faults' = 0 => faults = 0

\* Such a step keeps what is known of addresses.
LEMMA SilentStepInv ==
  ASSUME AddressInv, IInv', SilentStep
  PROVE  AddressInv'
<1> USE DEF AddressInv
<1>1. UniqueInv'
  BY DEF UniqueInv, SilentStep
<1>2. KnownInv'
  <2> SUFFICES ASSUME NEW w \in Workers, wpc'[w] \in OwnSteps \cup {"claimed"}
               PROVE  work'[w].address = queue'[work'[w].row].address
    BY DEF KnownInv
  <2>1. work'[w].row \in DOMAIN queue'
    BY DEF IInv, OwnedInv, LockedInv, Visible
  <2> QED
    BY <2>1 DEF KnownInv, SilentStep
<1>3. RecordInv'
  BY DEF RecordInv, SilentStep, OwnSteps
<1>4. OneFailureRow'
  BY DEF OneFailureRow, SilentStep
<1>5. OutcomeOnRecord'
  BY DEF OutcomeOnRecord, SilentStep, OwnSteps
<1> QED
  BY <1>1, <1>2, <1>3, <1>4, <1>5

\* The worker steps that record nothing are silent.
LEMMA SilentWorkers ==
  ASSUME IInv, NEW w \in Workers,
         \/ Get(w) \/ Wake(w) \/ Precount(w) \/ InsertPermit(w) \/ ClaimNothing(w)
         \/ CommitClaim(w) \/ PopFault(w) \/ DeleteRow(w) \/ DeletePermit(w)
         \/ NotifyDeleted(w) \/ DeleteFault(w)
  PROVE  SilentStep
<1> USE DEF IInv, TypeInv, TypeOK, Goto, Drop, NotByWorkers, tables, producerVars, faultVars
<1>1. /\ \A v \in Workers : v # w =>
           wpc'[v] = wpc[v] /\ work'[v] = work[v] /\ failed'[v] = failed[v]
      /\ UNCHANGED failures
  BY DEF Get, Wake, Precount, InsertPermit, ClaimNothing, CommitClaim, Deliver, PopFault,
         DeleteRow, DeletePermit, NotifyDeleted, DeleteFault
<1>2. CASE \/ Get(w) \/ Wake(w) \/ Precount(w) \/ InsertPermit(w) \/ ClaimNothing(w)
           \/ DeletePermit(w) \/ NotifyDeleted(w)
  <2>1. UNCHANGED <<queue, faults>> /\ wpc'[w] \in {"pop", "wait", "counted", "permitted", "notify", "idle"}
    BY <1>2 DEF Get, Wake, Precount, InsertPermit, ClaimNothing, DeletePermit, NotifyDeleted
  <2> QED
    BY <1>1, <2>1 DEF SilentStep, OwnSteps
<1>3. CASE PopFault(w) \/ DeleteFault(w)
  <2>1. UNCHANGED queue /\ wpc'[w] = "idle" /\ faults' = faults + 1
    BY <1>3 DEF PopFault, DeleteFault, Fault
  <2> QED
    BY <1>1, <2>1 DEF SilentStep, OwnSteps
<1>4. CASE CommitClaim(w)
  <2>1. /\ UNCHANGED <<work, faults>> /\ wpc[w] = "claimed" /\ wpc'[w] = "running"
        /\ work[w].row \in DOMAIN queue
    BY <1>4 DEF CommitClaim, Deliver, LockedInv, Visible
  <2>2. /\ DOMAIN queue' = DOMAIN queue
        /\ \A i \in DOMAIN queue : queue'[i].address = queue[i].address
    BY <1>4, <2>1 DEF CommitClaim, Row
  <2> QED
    BY <1>1, <2>1, <2>2 DEF SilentStep, OwnSteps
<1>5. CASE DeleteRow(w)
  <2>1. UNCHANGED <<work, faults>> /\ wpc'[w] = "deletePermit"
    BY <1>5 DEF DeleteRow
  <2>2. /\ DOMAIN queue' \subseteq DOMAIN queue
        /\ \A i \in DOMAIN queue' : queue'[i].address = queue[i].address
    BY <1>5 DEF DeleteRow
  <2> QED
    BY <1>1, <2>1, <2>2 DEF SilentStep, OwnSteps
<1> QED
  BY <1>2, <1>3, <1>4, <1>5

\* Everything a producer does but a successful push is silent, and so are a
\* crash and the pollers.
LEMMA SilentOthers ==
  ASSUME IInv,
         \/ \E p \in Producers :
              \/ \E a \in Addresses : PushDuplicate(p, a)
              \/ Notify(p) \/ BeginTransactionQueue(p) \/ Commit(p) \/ Rollback(p)
              \/ PushFault(p) \/ CommitFault(p)
         \/ \E q \in Pollers : PollerStep(q)
         \/ Crash
         \/ UNCHANGED vars
  PROVE  SilentStep
<1>1. ASSUME NEW p \in Producers,
             \/ \E a \in Addresses : PushDuplicate(p, a)
             \/ Notify(p) \/ BeginTransactionQueue(p) \/ PushFault(p) \/ Commit(p)
      PROVE  SilentStep
  BY <1>1 DEF PushDuplicate, PushFault, Notify, BeginTransactionQueue, Commit, NotByProducers,
              faultVars, Fault, SilentStep, IInv, TypeInv, TypeOK
<1>2. ASSUME NEW p \in Producers, Rollback(p) \/ CommitFault(p)
      PROVE  SilentStep
  <2>1. /\ DOMAIN queue' \subseteq DOMAIN queue
        /\ \A i \in DOMAIN queue' : queue'[i] = queue[i]
    BY <1>2 DEF Rollback, CommitFault, RollbackRows
  <2>2. UNCHANGED <<failures, wpc, work, failed>> /\ (faults' = 0 => faults = 0)
    BY <1>2 DEF Rollback, CommitFault, RollbackRows, NotByProducers, faultVars, Fault, IInv,
                TypeInv, TypeOK
  <2> QED
    BY <2>1, <2>2 DEF SilentStep
<1>3. ASSUME NEW q \in Pollers, PollerStep(q)
      PROVE  SilentStep
  BY <1>3 DEF PollerStep, PollFailure, PollCount, NotByPollers, tables, workerVars, faultVars,
              SilentStep
<1>4. CASE Crash
  BY <1>4 DEF Crash, Visible, SilentStep, OwnSteps
<1>5. CASE UNCHANGED vars
  BY <1>5 DEF vars, tables, workerVars, faultVars, SilentStep
<1> QED
  BY <1>1, <1>2, <1>3, <1>4, <1>5

\* A pushed row has an address no other row has.
LEMMA PushAddress ==
  ASSUME AddressInv, IInv', NEW p \in Producers, NEW a, NEW pr, Push(p, a, pr)
  PROVE  AddressInv'
<1> USE DEF AddressInv
<1>1. UNCHANGED <<failures, wpc, work, failed, faults>>
  BY DEF Push, NotByProducers, faultVars
<1>2. nextId \notin DOMAIN queue
  BY DEF IInv, RowsInv, TypeInv, TypeOK
<1>3. /\ DOMAIN queue' = DOMAIN queue \cup {nextId}
      /\ queue'[nextId].address = a
      /\ \A i \in DOMAIN queue : queue'[i] = queue[i]
  BY <1>2 DEF Push, Insert
<1>4. a # NoAddress => \A i \in DOMAIN queue : queue[i].address # a
  BY DEF Push, Taken
<1>5. UniqueInv'
  BY <1>3, <1>4 DEF UniqueInv
<1>6. KnownInv'
  BY <1>1, <1>3 DEF KnownInv, IInv, OwnedInv, LockedInv, Visible
<1>7. RecordInv' /\ OneFailureRow' /\ OutcomeOnRecord'
  BY <1>1 DEF RecordInv, OneFailureRow, OutcomeOnRecord
<1> QED
  BY <1>5, <1>6, <1>7

\* QueuePop returns the address of the row it locks.
LEMMA ClaimAddress ==
  ASSUME AddressInv, IInv', NEW w \in Workers, Claim(w)
  PROVE  AddressInv'
<1> USE DEF AddressInv
<1>1. PICK i \in Claimable :
        work' = [work EXCEPT ![w] =
                  [permit |-> work[w].permit, row |-> i, address |-> queue[i].address]]
  BY DEF Claim
<1>2. /\ UNCHANGED <<queue, failures, failed, faults>>
      /\ work'[w].row = i /\ work'[w].address = queue[i].address
      /\ wpc'[w] = "claimed"
      /\ \A v \in Workers : v # w => wpc'[v] = wpc[v] /\ work'[v] = work[v]
  BY <1>1 DEF Claim, Goto, tables, faultVars, IInv, TypeInv, TypeOK
<1>3. UniqueInv' /\ OneFailureRow'
  BY <1>2 DEF UniqueInv, OneFailureRow
<1>4. KnownInv'
  BY <1>2 DEF KnownInv
<1>5. RecordInv' /\ OutcomeOnRecord'
  BY <1>2 DEF RecordInv, OutcomeOnRecord
<1> QED
  BY <1>3, <1>4, <1>5

\* The agent's bookkeeping touches the failures of one address, and nobody else
\* owns work of that address.
LEMMA RecordAddress ==
  ASSUME AddressInv, IInv', NEW w \in Workers,
         Finish(w) \/ ClearFailure(w) \/ InsertFailure(w) \/ RecordFault(w)
  PROVE  AddressInv'
<1> USE DEF AddressInv
<1> DEFINE a == work[w].address
<1>1. /\ UNCHANGED <<queue, work>>
      /\ \A v \in Workers : v # w => wpc'[v] = wpc[v] /\ failed'[v] = failed[v]
      /\ wpc[w] \in OwnSteps /\ wpc'[w] \in OwnSteps
  BY DEF Finish, ClearFailure, InsertFailure, RecordFault, Goto, tables, OwnSteps, IInv,
         TypeInv, TypeOK
<1>2. UniqueInv' /\ KnownInv'
  BY <1>1 DEF UniqueInv, KnownInv, OwnSteps
<1>3. \A v \in Workers : v # w /\ wpc[v] \in OwnSteps /\ a # NoAddress => work[v].address # a
  BY <1>1, AddressesApart
<1>4. a \in Addresses \cup {NoAddress} /\ failures \in [Addresses -> Nat] /\ wpc \in [Workers -> WorkerSteps]
      /\ failed \in [Workers -> BOOLEAN] /\ faults \in Nat
  BY DEF IInv, TypeInv, TypeOK, Work
<1>5. CASE Finish(w)
  <2>1. /\ UNCHANGED <<failures, faults>>
        /\ wpc'[w] \in {"clear", "deleteRow"}
        /\ wpc'[w] = "clear" => a \in Addresses
        /\ wpc'[w] = "deleteRow" => a = NoAddress
    BY <1>4, <1>5 DEF Finish, Goto, tables, faultVars
  <2> QED
    BY <1>1, <1>2, <2>1 DEF RecordInv, OneFailureRow, OutcomeOnRecord
<1>6. CASE ClearFailure(w)
  <2>1. a \in Addresses /\ a # NoAddress
    BY <1>6, AddressAssumption DEF ClearFailure, RecordInv
  <2>2. /\ UNCHANGED <<failed, faults>>
        /\ failures' = [failures EXCEPT ![a] = 0]
        /\ wpc'[w] = IF failed[w] THEN "insert" ELSE "deleteRow"
    BY <1>4, <1>6 DEF ClearFailure, Goto, faultVars
  <2>3. failures'[a] = 0 /\ \A b \in Addresses : b # a => failures'[b] = failures[b]
    BY <1>4, <2>1, <2>2
  <2>4. RecordInv'
    BY <1>1, <1>3, <1>4, <2>1, <2>2, <2>3 DEF RecordInv, OwnSteps
  <2>5. OneFailureRow'
    BY <1>4, <2>1, <2>3 DEF OneFailureRow
  <2>6. OutcomeOnRecord'
    <3> SUFFICES ASSUME faults' = 0, NEW v \in Workers, wpc'[v] = "deleteRow",
                        work'[v].address # NoAddress
                 PROVE  failures'[work'[v].address] = IF failed'[v] THEN 1 ELSE 0
      BY DEF OutcomeOnRecord
    <3>1. CASE v = w
      BY <1>1, <2>2, <2>3, <3>1
    <3>2. CASE v # w
      <4>1. work[v].address # a /\ wpc[v] = "deleteRow" /\ work[v].address \in Addresses
        BY <1>1, <1>3, <2>1, <3>2 DEF OwnSteps, IInv, TypeInv, TypeOK, Work
      <4> QED
        BY <1>1, <2>2, <2>3, <4>1 DEF OutcomeOnRecord
    <3> QED
      BY <3>1, <3>2
  <2> QED
    BY <1>2, <2>4, <2>5, <2>6
<1>7. CASE InsertFailure(w)
  <2>1. a \in Addresses /\ a # NoAddress /\ failed[w] /\ failures[a] = 0
    BY <1>7, AddressAssumption DEF InsertFailure, RecordInv
  <2>2. /\ UNCHANGED <<failed, faults>>
        /\ failures' = [failures EXCEPT ![a] = failures[a] + 1]
        /\ wpc'[w] = "deleteRow"
    BY <1>4, <1>7 DEF InsertFailure, Goto, faultVars
  <2>3. failures'[a] = 1 /\ \A b \in Addresses : b # a => failures'[b] = failures[b]
    BY <1>4, <2>1, <2>2
  <2>4. RecordInv'
    BY <1>1, <1>3, <1>4, <2>1, <2>2, <2>3 DEF RecordInv, OwnSteps
  <2>5. OneFailureRow'
    BY <1>4, <2>1, <2>3 DEF OneFailureRow
  <2>6. OutcomeOnRecord'
    <3> SUFFICES ASSUME faults' = 0, NEW v \in Workers, wpc'[v] = "deleteRow",
                        work'[v].address # NoAddress
                 PROVE  failures'[work'[v].address] = IF failed'[v] THEN 1 ELSE 0
      BY DEF OutcomeOnRecord
    <3>1. CASE v = w
      BY <1>1, <2>1, <2>2, <2>3, <3>1
    <3>2. CASE v # w
      <4>1. work[v].address # a /\ wpc[v] = "deleteRow" /\ work[v].address \in Addresses
        BY <1>1, <1>3, <2>1, <3>2 DEF OwnSteps, IInv, TypeInv, TypeOK, Work
      <4> QED
        BY <1>1, <2>2, <2>3, <4>1 DEF OutcomeOnRecord
    <3> QED
      BY <3>1, <3>2
  <2> QED
    BY <1>2, <2>4, <2>5, <2>6
<1>8. CASE RecordFault(w)
  <2>1. UNCHANGED <<failures, failed>> /\ wpc'[w] = "deleteRow" /\ faults' # 0
    BY <1>4, <1>8 DEF RecordFault, Goto, tables, Fault
  <2> QED
    BY <1>1, <1>2, <2>1 DEF RecordInv, OneFailureRow, OutcomeOnRecord
<1> QED
  BY <1>5, <1>6, <1>7, <1>8

\* Every step keeps what is known of addresses.
LEMMA NextAddress == AddressInv /\ [Next]_vars => AddressInv'
<1> SUFFICES ASSUME AddressInv, [Next]_vars PROVE AddressInv'
  OBVIOUS
<1>1. IInv /\ IInv'
  BY NextInv DEF AddressInv
<1>2. ASSUME NEW w \in Workers, GetStep(w) \/ AgentStep(w) \/ FaultStep(w)
      PROVE  AddressInv'
  <2>1. CASE \/ Claim(w)
             \/ Finish(w) \/ ClearFailure(w) \/ InsertFailure(w) \/ RecordFault(w)
    BY <1>1, <2>1, ClaimAddress, RecordAddress
  <2>2. CASE \/ Get(w) \/ Wake(w) \/ Precount(w) \/ InsertPermit(w) \/ ClaimNothing(w)
             \/ CommitClaim(w) \/ PopFault(w) \/ DeleteRow(w) \/ DeletePermit(w)
             \/ NotifyDeleted(w) \/ DeleteFault(w)
    BY <1>1, <2>2, SilentWorkers, SilentStepInv
  <2> QED
    BY <1>2, <2>1, <2>2 DEF GetStep, AgentStep, FaultStep
<1>3. ASSUME NEW p \in Producers, ProducerStep(p)
      PROVE  AddressInv'
  <2>1. ASSUME NEW a \in Addresses \cup {NoAddress}, NEW pr \in Priorities, Push(p, a, pr)
        PROVE  AddressInv'
    BY <1>1, <2>1, PushAddress
  <2>2. CASE \/ \E a \in Addresses : PushDuplicate(p, a)
             \/ Notify(p) \/ BeginTransactionQueue(p) \/ Commit(p) \/ Rollback(p)
             \/ PushFault(p) \/ CommitFault(p)
    BY <1>1, <2>2, SilentOthers, SilentStepInv
  <2> QED
    BY <1>3, <2>1, <2>2 DEF ProducerStep
<1>4. CASE (\E q \in Pollers : PollerStep(q)) \/ Crash \/ UNCHANGED vars
  BY <1>1, <1>4, SilentOthers, SilentStepInv
<1> QED
  BY <1>2, <1>3, <1>4 DEF Next

\* Nothing is on record of the empty tables.
LEMMA InitAddress == Init => AddressInv
<1> SUFFICES ASSUME Init PROVE AddressInv
  OBVIOUS
<1>1. IInv
  BY InitInv
<1>2. UniqueInv /\ KnownInv /\ RecordInv
  BY DEF Init, UniqueInv, KnownInv, RecordInv, OwnSteps
<1>3. OneFailureRow /\ OutcomeOnRecord
  BY DEF Init, OneFailureRow, OutcomeOnRecord
<1> QED
  BY <1>1, <1>2, <1>3 DEF AddressInv

\* QueueAddressedComplete never leaves two queue_failure rows for an address,
\* although it deletes and inserts without a transaction.
THEOREM NoSecondFailureRow == Spec => []OneFailureRow
<1>1. AddressInv => OneFailureRow
  BY DEF AddressInv
<1> QED
  BY InitAddress, NextAddress, <1>1, PTL DEF Spec

\* As long as no statement fails, queue_failure tells how a run ended when its
\* row is about to be deleted.
THEOREM OutcomeIsOnRecord == Spec => []OutcomeOnRecord
<1>1. AddressInv => OutcomeOnRecord
  BY DEF AddressInv
<1> QED
  BY InitAddress, NextAddress, <1>1, PTL DEF Spec

\* The row of a runner is visible to the count of IsQueueAddressComplete.
LEMMA OwnedIsInProgress ==
  ASSUME AddressInv, NEW w \in Workers, wpc[w] \in OwnSteps
  PROVE  InProgress(work[w].address)
<1>1. work[w].row \in DOMAIN queue /\ queue[work[w].row].permit # 0
  BY DEF AddressInv, IInv, OwnedInv
<1>2. work[w].row \notin Uncommitted
  BY <1>1 DEF AddressInv, IInv, RowsInv, Uncommitted
<1> QED
  BY <1>1, <1>2 DEF AddressInv, KnownInv, InProgress, Visible

\* IsQueueAddressComplete calls no address complete while its work is in the
\* hands of a runner or its outcome is being recorded.
THEOREM CompleteIsFinished == Spec => CompleteMeansFinished
<1> DEFINE Sound ==
      \A q \in Pollers : Answers(q) /\ poll'[q].complete /\ ~poll'[q].failure
        => \A w \in Workers : wpc[w] \in OwnSteps => work[w].address # poll'[q].address
<1>1. AddressInv /\ [Next]_vars => [Sound]_vars
  <2> SUFFICES ASSUME AddressInv, Next, NEW q \in Pollers, Answers(q),
                      poll'[q].complete, ~poll'[q].failure,
                      NEW w \in Workers, wpc[w] \in OwnSteps
               PROVE  work[w].address # poll'[q].address
    OBVIOUS
  <2>1. poll \in [Pollers -> [step : {"idle", "count", "answered"},
                              address : Addresses \cup {NoAddress},
                              complete : BOOLEAN, failure : BOOLEAN]]
    BY DEF AddressInv, IInv, TypeInv, TypeOK
  <2>2. ASSUME NEW o \in Pollers, PollCount(o)
        PROVE  work[w].address # poll'[q].address
    <3>1. o = q
      BY <2>1, <2>2 DEF PollCount, Answers
    <3>2. poll'[q].address = poll[q].address /\ ~InProgress(poll[q].address)
      BY <2>1, <2>2, <3>1 DEF PollCount
    <3> QED
      BY <3>2, OwnedIsInProgress
  <2>3. ASSUME NEW o \in Pollers, NEW a \in Addresses, PollFailure(o, a)
        PROVE  FALSE
    BY <2>1, <2>3 DEF PollFailure, Answers
  <2>4. CASE Crash
    BY <2>4 DEF Crash, NoPoll, Answers
  <2>5. ASSUME NEW v \in Workers, GetStep(v) \/ AgentStep(v) \/ FaultStep(v)
        PROVE  FALSE
    BY <2>5 DEF Answers, GetStep, AgentStep, FaultStep, NotByWorkers, Get, Wake, Precount,
                InsertPermit, Claim, ClaimNothing, CommitClaim, PopFault, Finish, ClearFailure,
                InsertFailure, RecordFault, DeleteRow, DeletePermit, NotifyDeleted, DeleteFault
  <2>6. ASSUME NEW p \in Producers, ProducerStep(p)
        PROVE  FALSE
    BY <2>6 DEF Answers, ProducerStep, NotByProducers, Push, PushDuplicate, PushFault, Notify,
                BeginTransactionQueue, Commit, Rollback, CommitFault, RollbackRows
  <2> QED
    BY <2>2, <2>3, <2>4, <2>5, <2>6 DEF Next, PollerStep
<1> QED
  BY InitAddress, NextAddress, <1>1, PTL DEF Spec, CompleteMeansFinished

----------------------------------------------------------------------------
(* Permits.                                                                *)

\* A worker without work has no permit; 0 is no permit's id.
FreeInv == 0 \notin permits /\ \A w \in Workers : wpc[w] \in Passive => work[w].permit = 0

LeakInv == IInv /\ FreeInv /\ IsFiniteSet(permits) /\ PermitLeakBounded

\* A step after which no more permits are without a worker than before.
LEMMA NothingLeaks ==
  ASSUME LeakInv, IInv', FreeInv', IsFiniteSet(permits'), Leaked' \subseteq Leaked,
         faults' >= faults, crashes' = crashes
  PROVE  LeakInv'
<1>1. IsFiniteSet(Leaked)
  BY FS_Subset DEF LeakInv, Leaked
<1>2. Cardinality(Leaked') <= Cardinality(Leaked)
  BY <1>1, FS_Subset
<1>3. IsFiniteSet(Leaked')
  BY <1>1, FS_Subset
<1>4. Cardinality(Leaked) \in Nat /\ Cardinality(Leaked') \in Nat /\ Cardinality(Workers) \in Nat
  BY <1>1, <1>3, FS_CardinalityType, WorkersAssumption
<1>5. faults \in Nat /\ faults' \in Nat /\ crashes \in Nat
  BY DEF LeakInv, IInv, TypeInv, TypeOK
<1>6. PermitLeakBounded'
  <2> DEFINE m == crashes * Cardinality(Workers)
  <2>1. m \in Nat
    BY <1>4, <1>5
  <2>2. Cardinality(Leaked) <= faults + m
    BY DEF LeakInv, PermitLeakBounded
  <2> HIDE DEF m
  <2>3. Cardinality(Leaked') <= faults' + m
    BY <1>2, <1>4, <1>5, <2>1, <2>2
  <2> QED
    BY <2>3 DEF m, PermitLeakBounded
<1> QED
  BY <1>6 DEF LeakInv

\* The worker steps that give up no committed permit.
LEMMA WorkerLeaks ==
  ASSUME LeakInv, IInv', NEW w \in Workers,
         GetStep(w) \/ AgentStep(w) \/ PopFault(w) \/ RecordFault(w)
  PROVE  LeakInv'
<1> USE DEF LeakInv, Goto, Drop, tables
<1>1. \A v \in Workers : v # w => wpc'[v] = wpc[v] /\ work'[v] = work[v]
  BY DEF GetStep, AgentStep, Get, Wake, Precount, InsertPermit, Claim, ClaimNothing, CommitClaim,
         Deliver, PopFault, Finish, ClearFailure, InsertFailure, RecordFault, DeleteRow,
         DeletePermit, NotifyDeleted, IInv, TypeInv, TypeOK
<1>2. wpc[w] \in WorkerSteps /\ work[w].permit \in Nat /\ faults \in Nat
  BY DEF IInv, TypeInv, TypeOK, Work
<1>3. faults' >= faults /\ crashes' = crashes
  BY <1>2 DEF GetStep, AgentStep, Get, Wake, Precount, InsertPermit, Claim, ClaimNothing,
         CommitClaim, PopFault, Finish, ClearFailure, InsertFailure, RecordFault, DeleteRow,
         DeletePermit, NotifyDeleted, Fault, faultVars
<1>4. CASE \/ Get(w) \/ Wake(w) \/ Precount(w) \/ Finish(w) \/ ClearFailure(w)
           \/ InsertFailure(w) \/ RecordFault(w) \/ DeleteRow(w) \/ NotifyDeleted(w)
  <2>1. UNCHANGED <<permits, work>>
    BY <1>4 DEF Get, Wake, Precount, Finish, ClearFailure, InsertFailure, RecordFault,
                DeleteRow, NotifyDeleted
  <2>2. wpc'[w] \in Passive => wpc[w] \in Passive
    BY <1>2, <1>4 DEF Get, Wake, Precount, Finish, ClearFailure, InsertFailure, RecordFault,
                DeleteRow, NotifyDeleted, Passive, IInv, TypeInv, TypeOK
  <2> QED
    BY <1>1, <1>3, <2>1, <2>2, NothingLeaks DEF FreeInv, Leaked
<1>5. CASE InsertPermit(w)
  <2>1. permits' = permits /\ wpc'[w] = "permitted" /\ wpc[w] = "counted" /\ work[w].permit = 0
    BY <1>5 DEF InsertPermit, IInv, TypeInv, TypeOK, FreeInv, Passive
  <2> QED
    BY <1>1, <1>3, <2>1, NothingLeaks DEF FreeInv, Leaked, Passive
<1>6. CASE Claim(w)
  <2>1. permits' = permits /\ wpc'[w] = "claimed" /\ work'[w].permit = work[w].permit
    BY <1>6 DEF Claim, IInv, TypeInv, TypeOK
  <2> QED
    BY <1>1, <1>3, <2>1, NothingLeaks DEF FreeInv, Leaked, Passive
<1>7. CASE ClaimNothing(w) \/ PopFault(w)
  <2>1. permits' = permits /\ work'[w].permit = 0 /\ wpc'[w] \in Passive
    BY <1>7 DEF ClaimNothing, PopFault, IInv, TypeInv, TypeOK, NoWork, Passive
  <2>2. work[w].permit \notin permits
    BY <1>7 DEF ClaimNothing, PopFault, FreeInv, IInv, PermittedInv, Passive
  <2> QED
    BY <1>1, <1>3, <2>1, <2>2, NothingLeaks DEF FreeInv, Leaked
<1>8. CASE CommitClaim(w)
  <2>1. /\ permits' = permits \cup {work[w].permit} /\ wpc'[w] = "running" /\ UNCHANGED work
        /\ work[w].permit # 0
    BY <1>8 DEF CommitClaim, Deliver, IInv, TypeInv, TypeOK, PermittedInv
  <2>2. IsFiniteSet(permits')
    BY <2>1, FS_AddElement
  <2> QED
    BY <1>1, <1>3, <2>1, <2>2, NothingLeaks DEF FreeInv, Leaked, Passive
<1>9. CASE DeletePermit(w)
  <2>1. permits' = permits \ {work[w].permit} /\ wpc'[w] = "notify" /\ work'[w].permit = 0
    BY <1>9 DEF DeletePermit, IInv, TypeInv, TypeOK, NoWork
  <2>2. IsFiniteSet(permits')
    BY <2>1, FS_RemoveElement
  <2> QED
    BY <1>1, <1>3, <2>1, <2>2, NothingLeaks DEF FreeInv, Leaked
<1> QED
  BY <1>4, <1>5, <1>6, <1>7, <1>8, <1>9 DEF GetStep, AgentStep

\* A failed QueueDelete loses the permit of one worker.
LEMMA DeleteFaultLeaks ==
  ASSUME LeakInv, IInv', NEW w \in Workers, DeleteFault(w)
  PROVE  LeakInv'
<1> USE DEF LeakInv
<1>1. /\ permits' = permits /\ faults' = faults + 1 /\ crashes' = crashes
      /\ work'[w].permit = 0 /\ wpc'[w] = "idle"
      /\ \A v \in Workers : v # w => wpc'[v] = wpc[v] /\ work'[v] = work[v]
  BY DEF DeleteFault, Fault, Goto, Drop, tables, NoWork, IInv, TypeInv, TypeOK
<1>2. Leaked' \subseteq Leaked \cup {work[w].permit}
  BY <1>1 DEF Leaked
<1>3. IsFiniteSet(Leaked)
  BY FS_Subset DEF Leaked
<1>4. /\ IsFiniteSet(Leaked \cup {work[w].permit})
      /\ Cardinality(Leaked \cup {work[w].permit}) \in Nat
      /\ Cardinality(Leaked) \in Nat
      /\ Cardinality(Leaked \cup {work[w].permit}) <= Cardinality(Leaked) + 1
  <2>1. IsFiniteSet(Leaked \cup {work[w].permit}) /\ Cardinality(Leaked) \in Nat
    BY <1>3, FS_AddElement, FS_CardinalityType
  <2>2. Cardinality(Leaked \cup {work[w].permit}) \in Nat
    BY <2>1, FS_CardinalityType
  <2>3. \/ Cardinality(Leaked \cup {work[w].permit}) = Cardinality(Leaked)
        \/ Cardinality(Leaked \cup {work[w].permit}) = Cardinality(Leaked) + 1
    BY <1>3, FS_AddElement
  <2> QED
    BY <2>1, <2>2, <2>3
<1>5. Cardinality(Leaked') <= Cardinality(Leaked \cup {work[w].permit}) /\ IsFiniteSet(Leaked')
  BY <1>2, <1>4, FS_Subset
<1>6. Cardinality(Leaked') \in Nat /\ Cardinality(Workers) \in Nat
  BY <1>5, FS_CardinalityType, WorkersAssumption
<1>7. faults \in Nat /\ crashes \in Nat
  BY DEF IInv, TypeInv, TypeOK
<1>8. PermitLeakBounded'
  <2> DEFINE m == crashes * Cardinality(Workers)
  <2>1. m \in Nat
    BY <1>6, <1>7
  <2>2. Cardinality(Leaked) <= faults + m
    BY DEF PermitLeakBounded
  <2> HIDE DEF m
  <2>3. Cardinality(Leaked') <= faults' + m
    BY <1>1, <1>4, <1>5, <1>6, <1>7, <2>1, <2>2
  <2> QED
    BY <1>1, <2>3 DEF m, PermitLeakBounded
<1>9. FreeInv'
  BY <1>1 DEF FreeInv
<1> QED
  BY <1>1, <1>8, <1>9

\* A crash loses at most one permit of each worker.
LEMMA CrashLeaks ==
  ASSUME LeakInv, IInv', Crash
  PROVE  LeakInv'
<1> USE DEF LeakInv
<1> DEFINE Own == {work[w].permit : w \in Workers}
           n == Cardinality(Workers)
<1>1. /\ UNCHANGED <<permits, faults>> /\ crashes' = crashes + 1
      /\ \A w \in Workers : work'[w].permit = 0
  BY DEF Crash, NoWork
<1>2. Leaked' \subseteq Leaked \cup Own
  BY <1>1 DEF Leaked
<1>3. IsFiniteSet(Leaked) /\ Cardinality(Leaked) \in Nat
  BY FS_Subset, FS_CardinalityType DEF Leaked
<1>4. IsFiniteSet(Own) /\ Cardinality(Own) <= n
  <2> DEFINE f == [w \in Workers |-> work[w].permit]
  <2>1. f \in Surjection(Workers, Own)
    BY DEF Surjection
  <2> QED
    BY <2>1, FS_Surjection, WorkersAssumption
<1>5. n \in Nat /\ Cardinality(Own) \in Nat
  BY <1>4, FS_CardinalityType, WorkersAssumption
<1>6. IsFiniteSet(Leaked \cup Own) /\ Cardinality(Leaked \cup Own) <= Cardinality(Leaked) + n
  <2>1. IsFiniteSet(Leaked \cap Own) /\ Cardinality(Leaked \cap Own) \in Nat
    BY <1>3, FS_Intersection, FS_CardinalityType
  <2>2. /\ IsFiniteSet(Leaked \cup Own)
        /\ Cardinality(Leaked \cup Own) =
             Cardinality(Leaked) + Cardinality(Own) - Cardinality(Leaked \cap Own)
    BY <1>3, <1>4, FS_Union
  <2> HIDE DEF Own, n
  <2> QED
    BY <1>3, <1>4, <1>5, <2>1, <2>2
<1>7. IsFiniteSet(Leaked') /\ Cardinality(Leaked') <= Cardinality(Leaked \cup Own)
  BY <1>2, <1>6, FS_Subset
<1>8. Cardinality(Leaked') \in Nat /\ Cardinality(Leaked \cup Own) \in Nat
  BY <1>6, <1>7, FS_CardinalityType
<1>9. faults \in Nat /\ crashes \in Nat
  BY DEF IInv, TypeInv, TypeOK
<1>10. PermitLeakBounded'
  <2>1. (crashes + 1) * n = crashes * n + n /\ crashes * n \in Nat
    BY <1>5, <1>9
  <2>2. Cardinality(Leaked) <= faults + crashes * n
    BY DEF PermitLeakBounded
  <2>3. Cardinality(Leaked') <= faults + (crashes * n + n)
    BY <1>3, <1>5, <1>6, <1>7, <1>8, <1>9, <2>1, <2>2
  <2> QED
    BY <1>1, <2>1, <2>3 DEF PermitLeakBounded
<1>11. FreeInv'
  BY <1>1 DEF FreeInv
<1> QED
  BY <1>1, <1>10, <1>11

\* Every step keeps the bound.
LEMMA NextLeak == LeakInv /\ [Next]_vars => LeakInv'
<1> SUFFICES ASSUME LeakInv, [Next]_vars PROVE LeakInv'
  OBVIOUS
<1>1. IInv'
  BY NextInv DEF LeakInv
<1>2. ASSUME NEW w \in Workers, GetStep(w) \/ AgentStep(w) \/ FaultStep(w)
      PROVE  LeakInv'
  BY <1>1, <1>2, WorkerLeaks, DeleteFaultLeaks DEF FaultStep
<1>3. ASSUME UNCHANGED <<permits, wpc, work, crashes>>, faults' >= faults
      PROVE  LeakInv'
  BY <1>1, <1>3, NothingLeaks DEF LeakInv, FreeInv, Leaked
<1>4. faults \in Nat
  BY DEF LeakInv, IInv, TypeInv, TypeOK
<1>5. ASSUME NEW p \in Producers, ProducerStep(p)
      PROVE  LeakInv'
  BY <1>3, <1>4, <1>5 DEF ProducerStep, NotByProducers, Push, PushDuplicate, PushFault, Notify,
       BeginTransactionQueue, Commit, Rollback, CommitFault, RollbackRows, Fault, faultVars
<1>6. ASSUME NEW q \in Pollers, PollerStep(q)
      PROVE  LeakInv'
  BY <1>3, <1>4, <1>6 DEF PollerStep, PollFailure, PollCount, NotByPollers, tables, workerVars,
                          faultVars
<1>7. CASE UNCHANGED vars
  BY <1>3, <1>4, <1>7 DEF vars, tables, workerVars, faultVars
<1> QED
  BY <1>1, <1>2, <1>5, <1>6, <1>7, CrashLeaks DEF Next

\* A permit is lost only to a failed statement or a crash, one for each worker
\* at most; every other end of a pop or a run gives its permit back.
THEOREM PermitLeaksAreBounded == Spec => []PermitLeakBounded
<1>1. Init => LeakInv
  <2> SUFFICES ASSUME Init PROVE LeakInv
    OBVIOUS
  <2>1. permits = {} /\ faults = 0 /\ crashes = 0 /\ FreeInv
    BY DEF Init, FreeInv, NoWork
  <2>2. Leaked = {}
    BY <2>1 DEF Leaked
  <2>3. Cardinality(Workers) \in Nat
    BY FS_CardinalityType, WorkersAssumption
  <2>4. PermitLeakBounded
    BY <2>1, <2>2, <2>3, FS_EmptySet DEF PermitLeakBounded
  <2> QED
    BY <2>1, <2>4, InitInv, FS_EmptySet DEF LeakInv
<1>2. LeakInv => PermitLeakBounded
  BY DEF LeakInv
<1> QED
  BY <1>1, NextLeak, <1>2, PTL DEF Spec

----------------------------------------------------------------------------
(* Wake-ups.                                                               *)

\* Rows of an open transaction have a note each, sent when it commits.
PendingInv ==
  \A p \in Producers : txRows[p] # {} => ppc[p] \in {"tx", "aborted"} /\ notes[p] # 0

Lookers == {w \in Workers : wpc[w] \in {"idle", "pop", "counted", "permitted", "notify"}}
SomeoneSleeps == \E w \in Workers : wpc[w] = "wait" /\ ~signal[w]
AllNotified == \A p \in Producers : ppc[p] # "notify"

\* A worker falls asleep when nothing is claimable.  Without a notification
\* since, every row that is claimable now was released by a rolled-back claim,
\* whose worker came back to look; and a looker that leaves takes a row with it.
Covered == SomeoneSleeps /\ AllNotified => Cardinality(Claimable) <= Cardinality(Lookers)

WakeInv == IInv /\ PendingInv /\ Covered

\* Workers and rows are finitely many, before and after a step.
LEMMA FiniteSides ==
  ASSUME IInv, IInv'
  PROVE  /\ IsFiniteSet(Claimable) /\ Cardinality(Claimable) \in Nat
         /\ IsFiniteSet(Lookers) /\ Cardinality(Lookers) \in Nat
         /\ IsFiniteSet(Claimable') /\ Cardinality(Claimable') \in Nat
         /\ IsFiniteSet(Lookers') /\ Cardinality(Lookers') \in Nat
<1>1. Claimable \subseteq RowIds /\ Claimable' \subseteq RowIds
  BY DEF Claimable, Unclaimed, Visible, IInv, TypeInv, TypeOK
<1>2. Lookers \subseteq Workers /\ Lookers' \subseteq Workers
  BY DEF Lookers
<1>3. IsFiniteSet(RowIds)
  BY FS_Interval, BoundAssumption DEF RowIds
<1>4. IsFiniteSet(Claimable) /\ IsFiniteSet(Claimable')
  BY <1>1, <1>3, FS_Subset
<1>5. IsFiniteSet(Lookers) /\ IsFiniteSet(Lookers')
  BY <1>2, FS_Subset, WorkersAssumption
<1> QED
  BY <1>4, <1>5, FS_CardinalityType

\* A step that releases no row, sends no worker away and puts none to sleep.
LEMMA StaysCovered ==
  ASSUME WakeInv, IInv', Claimable' \subseteq Claimable, Lookers \subseteq Lookers',
         SomeoneSleeps' => SomeoneSleeps, AllNotified' => AllNotified
  PROVE  Covered'
<1> SUFFICES ASSUME SomeoneSleeps', AllNotified'
             PROVE  Cardinality(Claimable') <= Cardinality(Lookers')
  BY DEF Covered
<1>1. /\ IsFiniteSet(Claimable) /\ Cardinality(Claimable) \in Nat
      /\ IsFiniteSet(Lookers) /\ Cardinality(Lookers) \in Nat
  BY FiniteSides DEF WakeInv
<1>2. /\ IsFiniteSet(Claimable') /\ Cardinality(Claimable') \in Nat
      /\ IsFiniteSet(Lookers') /\ Cardinality(Lookers') \in Nat
  BY FiniteSides DEF WakeInv
<1>3. Cardinality(Claimable) <= Cardinality(Lookers)
  BY DEF WakeInv, Covered
<1>4. Cardinality(Claimable') <= Cardinality(Claimable)
  BY <1>1, FS_Subset
<1>5. Cardinality(Lookers) <= Cardinality(Lookers')
  BY <1>2, FS_Subset
<1> QED
  BY <1>1, <1>2, <1>3, <1>4, <1>5

\* The locks are those of the workers between claim and commit.
LEMMA LocksStay ==
  ASSUME \A v \in Workers : wpc'[v] = "claimed" <=> wpc[v] = "claimed",
         \A v \in Workers : wpc[v] = "claimed" => work'[v] = work[v]
  PROVE  Locked' = Locked
<1>1. \A x : x \in Locked' <=> \E v \in Workers : wpc'[v] = "claimed" /\ x = work'[v].row
  BY DEF Locked
<1>2. \A x : x \in Locked <=> \E v \in Workers : wpc[v] = "claimed" /\ x = work[v].row
  BY DEF Locked
<1>3. \A x : x \in Locked' <=> x \in Locked
  BY <1>1, <1>2
<1> QED
  BY <1>3

\* What a worker does without a row: it sleeps only when nothing is claimable.
LEMMA LookerWakes ==
  ASSUME WakeInv, IInv', NEW w \in Workers,
         \/ Get(w) \/ Wake(w) \/ Precount(w) \/ InsertPermit(w) \/ ClaimNothing(w)
         \/ NotifyDeleted(w)
  PROVE  WakeInv'
<1> USE DEF WakeInv, IInv, TypeInv, TypeOK, Goto, Drop, tables, NotByWorkers, producerVars
<1>1. /\ UNCHANGED <<queue, txRows, notes, ppc>>
      /\ \A v \in Workers : v # w => wpc'[v] = wpc[v] /\ work'[v] = work[v]
      /\ wpc[w] # "claimed" /\ wpc'[w] # "claimed"
  BY DEF Get, Wake, Precount, InsertPermit, ClaimNothing, NotifyDeleted
<1>2. Claimable' = Claimable
  <2>1. /\ \A v \in Workers : wpc'[v] = "claimed" <=> wpc[v] = "claimed"
        /\ \A v \in Workers : wpc[v] = "claimed" => work'[v] = work[v]
    BY <1>1
  <2>2. Locked' = Locked
    BY <2>1, LocksStay
  <2> QED
    BY <1>1, <2>2 DEF Claimable, Unclaimed, Visible, Uncommitted
<1>3. PendingInv'
  BY <1>1 DEF PendingInv
<1>4. AllNotified' => AllNotified
  BY <1>1 DEF AllNotified
<1>5. CASE wpc'[w] = "wait"
  <2>1. Claimable = {}
    BY <1>5 DEF Get, Wake, Precount, InsertPermit, ClaimNothing, NotifyDeleted, Claimable
  <2>2. Cardinality(Claimable') = 0 /\ Cardinality(Lookers') \in Nat
    BY <1>2, <2>1, FS_EmptySet, FiniteSides
  <2> QED
    BY <1>3, <2>2 DEF Covered
<1>6. CASE wpc'[w] # "wait"
  <2>1. Lookers \subseteq Lookers'
    BY <1>1, <1>6 DEF Lookers, Get, Wake, Precount, InsertPermit, ClaimNothing, NotifyDeleted
  <2>2. \A v \in Workers : v # w /\ signal[v] => signal'[v]
    BY DEF Get, Wake, Precount, InsertPermit, ClaimNothing, NotifyDeleted, Broadcast
  <2>3. SomeoneSleeps' => SomeoneSleeps
    BY <1>1, <1>6, <2>2 DEF SomeoneSleeps
  <2> QED
    BY <1>2, <1>3, <1>4, <2>1, <2>3, StaysCovered
<1> QED
  BY <1>5, <1>6

\* A looker leaves with a row.
LEMMA ClaimWakes ==
  ASSUME WakeInv, IInv', NEW w \in Workers, Claim(w)
  PROVE  WakeInv'
<1> USE DEF WakeInv
<1>1. PICK i \in Claimable :
        work' = [work EXCEPT ![w] =
                  [permit |-> work[w].permit, row |-> i, address |-> queue[i].address]]
  BY DEF Claim
<1>2. /\ UNCHANGED <<queue, txRows, notes, ppc, signal>>
      /\ work'[w].row = i /\ wpc[w] = "permitted" /\ wpc'[w] = "claimed"
      /\ \A v \in Workers : v # w => wpc'[v] = wpc[v] /\ work'[v] = work[v]
  BY <1>1 DEF Claim, Goto, tables, NotByWorkers, producerVars, IInv, TypeInv, TypeOK
<1>3. Claimable' = Claimable \ {i}
  <2>1. Locked' = Locked \cup {i}
    BY <1>2 DEF Locked
  <2> QED
    BY <1>2, <2>1 DEF Claimable, Unclaimed, Visible, Uncommitted
<1>4. Lookers' = Lookers \ {w} /\ w \in Lookers
  BY <1>2 DEF Lookers
<1>5. /\ IsFiniteSet(Claimable) /\ Cardinality(Claimable) \in Nat
      /\ IsFiniteSet(Lookers) /\ Cardinality(Lookers) \in Nat
  BY FiniteSides DEF WakeInv
<1>6. /\ Cardinality(Claimable') = Cardinality(Claimable) - 1
      /\ Cardinality(Lookers') = Cardinality(Lookers) - 1
  BY <1>3, <1>4, <1>5, FS_RemoveElement
<1>7. (SomeoneSleeps' => SomeoneSleeps) /\ (AllNotified' => AllNotified)
  BY <1>2 DEF SomeoneSleeps, AllNotified
<1>8. Covered'
  BY <1>5, <1>6, <1>7 DEF Covered
<1>9. PendingInv'
  BY <1>2 DEF PendingInv
<1> QED
  BY <1>8, <1>9

\* A rolled-back claim releases one row, and its worker looks again.
LEMMA PopFaultWakes ==
  ASSUME WakeInv, IInv', NEW w \in Workers, PopFault(w)
  PROVE  WakeInv'
<1> USE DEF WakeInv
<1> DEFINE i == work[w].row
<1>1. /\ UNCHANGED <<queue, txRows, notes, ppc, signal>>
      /\ wpc[w] \in {"pop", "counted", "permitted", "claimed"} /\ wpc'[w] = "idle"
      /\ \A v \in Workers : v # w => wpc'[v] = wpc[v] /\ work'[v] = work[v]
  BY DEF PopFault, Goto, Drop, tables, NotByWorkers, producerVars, IInv, TypeInv, TypeOK
<1>2. (SomeoneSleeps' => SomeoneSleeps) /\ (AllNotified' => AllNotified) /\ PendingInv'
  BY <1>1 DEF SomeoneSleeps, AllNotified, PendingInv
<1>3. CASE wpc[w] # "claimed"
  <2>1. Locked' = Locked
    BY <1>1, <1>3 DEF Locked
  <2>2. Claimable' = Claimable /\ Lookers' = Lookers
    BY <1>1, <1>3, <2>1 DEF Claimable, Unclaimed, Visible, Uncommitted, Lookers
  <2> QED
    BY <1>2, <2>2, StaysCovered
<1>4. CASE wpc[w] = "claimed"
  <2>1. Locked \subseteq Locked' \cup {i}
    BY <1>1, <1>4 DEF Locked
  <2>2. Claimable' \subseteq Claimable \cup {i}
    BY <1>1, <2>1 DEF Claimable, Unclaimed, Visible, Uncommitted
  <2>3. Lookers' = Lookers \cup {w} /\ w \notin Lookers
    BY <1>1, <1>4 DEF Lookers
  <2>4. /\ IsFiniteSet(Claimable) /\ Cardinality(Claimable) \in Nat
        /\ IsFiniteSet(Lookers) /\ Cardinality(Lookers) \in Nat
    BY FiniteSides DEF WakeInv
  <2>5. /\ IsFiniteSet(Claimable \cup {i})
        /\ Cardinality(Claimable \cup {i}) \in {Cardinality(Claimable), Cardinality(Claimable) + 1}
    BY <2>4, FS_AddElement
  <2>6. Cardinality(Claimable') <= Cardinality(Claimable \cup {i}) /\ Cardinality(Claimable') \in Nat
    BY <2>2, <2>5, FS_Subset, FiniteSides
  <2>7. Cardinality(Lookers') = Cardinality(Lookers) + 1
    BY <2>3, <2>4, FS_AddElement
  <2>8. Cardinality(Claimable') <= Cardinality(Claimable) + 1
    BY <2>4, <2>5, <2>6
  <2>9. Covered'
    BY <1>2, <2>4, <2>6, <2>7, <2>8 DEF Covered
  <2> QED
    BY <1>2, <2>9
<1> QED
  BY <1>3, <1>4

\* From the commit of a claim to the end of QueueDelete nothing is released and
\* nobody stops looking.
LEMMA OwnerWakes ==
  ASSUME WakeInv, IInv', NEW w \in Workers,
         \/ CommitClaim(w) \/ Finish(w) \/ ClearFailure(w) \/ InsertFailure(w)
         \/ RecordFault(w) \/ DeleteRow(w) \/ DeletePermit(w) \/ DeleteFault(w)
  PROVE  WakeInv'
<1> USE DEF WakeInv
<1>1. /\ UNCHANGED <<txRows, notes, ppc, signal>>
      /\ \A v \in Workers : v # w => wpc'[v] = wpc[v] /\ work'[v] = work[v]
      /\ wpc[w] \notin {"idle", "pop", "counted", "permitted", "notify"}
      /\ wpc'[w] \notin {"wait", "claimed"}
  BY DEF CommitClaim, Deliver, Finish, ClearFailure, InsertFailure, RecordFault, DeleteRow,
         DeletePermit, DeleteFault, Goto, Drop, NotByWorkers, producerVars, IInv, TypeInv, TypeOK
<1>2. PendingInv' /\ Lookers \subseteq Lookers'
  BY <1>1 DEF PendingInv, Lookers
<1>3. (SomeoneSleeps' => SomeoneSleeps) /\ (AllNotified' => AllNotified)
  BY <1>1 DEF SomeoneSleeps, AllNotified
<1>4. CASE CommitClaim(w)
  <2> DEFINE r == work[w].row
  <2>1. wpc[w] = "claimed" /\ r \in DOMAIN queue /\ work[w].permit # 0
    BY <1>4 DEF CommitClaim, IInv, LockedInv, PermittedInv, Visible
  <2>2. /\ DOMAIN queue' = DOMAIN queue /\ queue'[r].permit # 0
        /\ \A i \in DOMAIN queue : i # r => queue'[i] = queue[i]
    BY <1>4, <2>1 DEF CommitClaim, IInv, TypeInv, TypeOK, Row
  <2>3. Locked \subseteq Locked' \cup {r}
    BY <1>1, <2>1 DEF Locked
  <2>4. Claimable' \subseteq Claimable
    BY <1>1, <2>2, <2>3 DEF Claimable, Unclaimed, Visible, Uncommitted
  <2> QED
    BY <1>2, <1>3, <2>4, StaysCovered
<1>5. CASE ~CommitClaim(w)
  <2>1. wpc[w] # "claimed"
    BY <1>5 DEF Finish, ClearFailure, InsertFailure, RecordFault, DeleteRow, DeletePermit,
                DeleteFault
  <2>2. /\ DOMAIN queue' \subseteq DOMAIN queue
        /\ \A i \in DOMAIN queue' : queue'[i] = queue[i]
    BY <1>5 DEF Finish, ClearFailure, InsertFailure, RecordFault, DeleteRow, DeletePermit,
                DeleteFault, tables
  <2>3. Locked' = Locked
    BY <1>1, <2>1 DEF Locked
  <2>4. Claimable' \subseteq Claimable
    BY <1>1, <2>2, <2>3 DEF Claimable, Unclaimed, Visible, Uncommitted
  <2> QED
    BY <1>2, <1>3, <2>4, StaysCovered
<1> QED
  BY <1>4, <1>5

\* A push or a commit that makes rows visible leaves a notification to be sent;
\* every notification reaches all that sleep.
LEMMA ProducerWakes ==
  ASSUME WakeInv, IInv', NEW p \in Producers, ProducerStep(p)
  PROVE  WakeInv'
<1> USE DEF WakeInv
<1>1. UNCHANGED <<wpc, work>>
  BY DEF ProducerStep, NotByProducers, Push, PushDuplicate, PushFault, Notify,
         BeginTransactionQueue, Commit, Rollback, CommitFault, RollbackRows
<1>2. Lookers' = Lookers /\ Locked' = Locked
  BY <1>1 DEF Lookers, Locked
<1>3. /\ txRows \in [Producers -> SUBSET RowIds] /\ notes \in [Producers -> Nat]
      /\ ppc \in [Producers -> {"idle", "tx", "aborted", "notify"}]
  BY DEF IInv, TypeInv, TypeOK
<1>4. ASSUME NEW a, NEW pr, Push(p, a, pr)
      PROVE  WakeInv'
  <2>1. PendingInv'
    BY <1>3, <1>4 DEF Push, PendingInv
  <2>2. CASE ppc[p] = "idle"
    <3>1. ppc'[p] = "notify"
      BY <1>3, <1>4, <2>2 DEF Push
    <3> QED
      BY <2>1, <3>1 DEF Covered, AllNotified
  <2>3. CASE ppc[p] = "tx"
    <3>1. UNCHANGED <<ppc, signal>> /\ txRows' = [txRows EXCEPT ![p] = txRows[p] \cup {nextId}]
      BY <1>3, <1>4, <2>3 DEF Push
    <3>2. Uncommitted' = Uncommitted \cup {nextId}
      BY <1>3, <3>1 DEF Uncommitted
    <3>3. nextId \notin DOMAIN queue
      BY DEF IInv, RowsInv, TypeInv, TypeOK
    <3>4. /\ DOMAIN queue' = DOMAIN queue \cup {nextId}
          /\ \A i \in DOMAIN queue : queue'[i] = queue[i]
      BY <1>4, <3>3 DEF Push, Insert
    <3>5. Visible' \subseteq Visible
      BY <3>2, <3>4 DEF Visible
    <3>6. Claimable' \subseteq Claimable
      BY <1>2, <3>4, <3>5 DEF Claimable, Unclaimed, Visible
    <3>7. (SomeoneSleeps' => SomeoneSleeps) /\ (AllNotified' => AllNotified)
      BY <1>1, <3>1 DEF SomeoneSleeps, AllNotified
    <3> QED
      BY <1>2, <2>1, <3>6, <3>7, StaysCovered
  <2> QED
    BY <1>4, <2>2, <2>3 DEF Push
<1>5. CASE Notify(p)
  <2>1. ~SomeoneSleeps'
    BY <1>1, <1>5 DEF Notify, Broadcast, Listening, GetSteps, SomeoneSleeps
  <2>2. PendingInv'
    BY <1>3, <1>5 DEF Notify, PendingInv
  <2> QED
    BY <2>1, <2>2 DEF Covered
<1>6. CASE Commit(p)
  <2>1. PendingInv'
    BY <1>3, <1>6 DEF Commit, PendingInv
  <2>2. CASE notes[p] # 0
    <3>1. ppc'[p] = "notify"
      BY <1>3, <1>6, <2>2 DEF Commit
    <3> QED
      BY <2>1, <3>1 DEF Covered, AllNotified
  <2>3. CASE notes[p] = 0
    <3>1. txRows[p] = {}
      BY <2>3 DEF PendingInv
    <3>2. UNCHANGED <<txRows, queue, signal>>
      BY <1>3, <1>6, <3>1 DEF Commit
    <3>3. Claimable' = Claimable
      BY <1>2, <3>2 DEF Claimable, Unclaimed, Visible, Uncommitted
    <3>4. (SomeoneSleeps' => SomeoneSleeps) /\ (AllNotified' => AllNotified)
      BY <1>1, <1>3, <1>6, <3>2 DEF Commit, SomeoneSleeps, AllNotified
    <3> QED
      BY <1>2, <2>1, <3>3, <3>4, StaysCovered
  <2> QED
    BY <2>2, <2>3
<1>7. CASE \/ \E a \in Addresses : PushDuplicate(p, a)
           \/ PushFault(p) \/ BeginTransactionQueue(p)
  <2>1. /\ UNCHANGED <<queue, txRows, notes, signal>>
        /\ ppc[p] # "notify" /\ ppc'[p] # "notify"
        /\ \A q \in Producers : q # p => ppc'[q] = ppc[q]
        /\ ppc[p] = "tx" => ppc'[p] \in {"tx", "aborted"}
        /\ ppc[p] \in {"idle", "tx"}
    BY <1>3, <1>7 DEF PushDuplicate, PushFault, BeginTransactionQueue
  <2>2. Claimable' = Claimable
    BY <1>2, <2>1 DEF Claimable, Unclaimed, Visible, Uncommitted
  <2>3. PendingInv' /\ (SomeoneSleeps' => SomeoneSleeps) /\ (AllNotified' => AllNotified)
    BY <1>1, <2>1 DEF PendingInv, SomeoneSleeps, AllNotified
  <2> QED
    BY <1>2, <2>2, <2>3, StaysCovered
<1>8. CASE Rollback(p) \/ CommitFault(p)
  <2>1. /\ ppc[p] # "notify" /\ RollbackRows(p)
    BY <1>8 DEF Rollback, CommitFault
  <2>2. PendingInv' /\ (SomeoneSleeps' => SomeoneSleeps) /\ (AllNotified' => AllNotified)
    BY <1>1, <1>3, <2>1 DEF RollbackRows, PendingInv, SomeoneSleeps, AllNotified
  <2>3. /\ DOMAIN queue' = DOMAIN queue \ txRows[p]
        /\ \A i \in DOMAIN queue' : queue'[i] = queue[i]
    BY <2>1 DEF RollbackRows
  <2>4. Uncommitted \subseteq Uncommitted' \cup txRows[p]
    BY <1>3, <2>1 DEF RollbackRows, Uncommitted
  <2>5. Claimable' \subseteq Claimable
    BY <1>2, <2>3, <2>4 DEF Claimable, Unclaimed, Visible
  <2> QED
    BY <1>2, <2>2, <2>5, StaysCovered
<1> QED
  BY <1>4, <1>5, <1>6, <1>7, <1>8 DEF ProducerStep

\* Every step keeps every sleeper covered.
LEMMA NextWakes == WakeInv /\ [Next]_vars => WakeInv'
<1> SUFFICES ASSUME WakeInv, [Next]_vars PROVE WakeInv'
  OBVIOUS
<1>1. IInv'
  BY NextInv DEF WakeInv
<1>2. ASSUME NEW w \in Workers, GetStep(w) \/ AgentStep(w) \/ FaultStep(w)
      PROVE  WakeInv'
  BY <1>1, <1>2, LookerWakes, ClaimWakes, PopFaultWakes, OwnerWakes
     DEF GetStep, AgentStep, FaultStep
<1>3. ASSUME UNCHANGED <<queue, wpc, work, signal, ppc, txRows, notes>>
      PROVE  WakeInv'
  <2>1. Claimable' = Claimable /\ Lookers' = Lookers
    BY <1>3 DEF Claimable, Unclaimed, Visible, Uncommitted, Locked, Lookers
  <2> QED
    BY <1>1, <1>3, <2>1 DEF WakeInv, PendingInv, Covered, SomeoneSleeps, AllNotified
<1>4. ASSUME NEW q \in Pollers, PollerStep(q)
      PROVE  WakeInv'
  BY <1>3, <1>4 DEF PollerStep, PollFailure, PollCount, NotByPollers, tables, workerVars,
                    producerVars
<1>5. CASE Crash
  BY <1>1, <1>5 DEF Crash, WakeInv, PendingInv, Covered, SomeoneSleeps
<1>6. CASE UNCHANGED vars
  BY <1>3, <1>6 DEF vars, tables, workerVars, producerVars
<1> QED
  BY <1>1, <1>2, <1>4, <1>5, <1>6, ProducerWakes DEF Next

\* No row stays claimable beside a sleeping worker that was not notified unless
\* a notification is due or another worker is on its way, however many claims
\* are rolled back.
THEOREM NoWakeupIsLost == Spec => []NoLostWakeup
<1>1. Init => WakeInv
  <2> SUFFICES ASSUME Init PROVE WakeInv
    OBVIOUS
  <2>1. ~SomeoneSleeps /\ PendingInv
    BY DEF Init, SomeoneSleeps, PendingInv
  <2> QED
    BY <2>1, InitInv DEF WakeInv, Covered
<1>2. WakeInv => NoLostWakeup
  <2> SUFFICES ASSUME WakeInv, NEW w \in Workers, wpc[w] = "wait", ~signal[w], Claimable # {},
                      AllNotified
               PROVE  Lookers # {}
    BY DEF NoLostWakeup, AllNotified, Lookers
  <2>1. IsFiniteSet(Claimable)
    <3>1. Claimable \subseteq RowIds
      BY DEF Claimable, Unclaimed, Visible, WakeInv, IInv, TypeInv, TypeOK
    <3>2. IsFiniteSet(RowIds)
      BY FS_Interval, BoundAssumption DEF RowIds
    <3> QED
      BY <3>1, <3>2, FS_Subset
  <2>2. Cardinality(Claimable) \in Nat /\ Cardinality(Claimable) # 0
    BY <2>1, FS_CardinalityType, FS_EmptySet
  <2>3. Cardinality(Claimable) <= Cardinality(Lookers)
    BY DEF WakeInv, Covered, SomeoneSleeps
  <2> QED
    BY <2>2, <2>3, FS_EmptySet
<1> QED
  BY <1>1, NextWakes, <1>2, PTL DEF Spec
=============================================================================
