------------------------------ MODULE PgStore ------------------------------
(***************************************************************************)
(* The Postgres work store of the platlib adapter (platlib/store.go), one  *)
(* action per SQL statement, used by                                       *)
(*   - workers, that loop over DatabaseQueue.Get -> runner -> agent        *)
(*     bookkeeping (QueueAddressedComplete, QueueDelete);                  *)
(*   - producers, that push rows one by one or inside a transaction;       *)
(*   - pollers, that ask whether the work of an address is complete.       *)
(* The three tables are `queue`, `queue_permits` and `queue_failure`.  All *)
(* users live in one process: a crash takes all of them, the tables stay.  *)
(***************************************************************************)
EXTENDS Integers, FiniteSets

CONSTANTS
  Workers, Producers, Pollers,
  Addresses,      \* addresses of addressed pushes
  NoAddress,      \* the NULL address of a plain push
  Priorities,     \* priorities rows are pushed with; lower is served first
  MaxPriority,    \* the maxPriority argument of QueuePop
  MaxRows,        \* bound: ids the queue.id sequence may hand out
  MaxFaults,      \* bound: statements that fail
  MaxCrashes      \* bound: process crashes

ASSUME WorkersAssumption == IsFiniteSet(Workers)
ASSUME AddressAssumption == NoAddress \notin Addresses
ASSUME PriorityAssumption == Priorities \subseteq Nat /\ MaxPriority \in Nat
ASSUME BoundAssumption ==
  MaxRows \in Nat /\ MaxFaults \in Nat /\ MaxCrashes \in Nat

VARIABLES
  \* The database.
  queue,          \* the rows of table queue, by id, uncommitted inserts too
  nextId,         \* sequence of queue.id
  permits,        \* committed ids of table queue_permits
  nextPermit,     \* sequence of queue_permits.id
  failures,       \* failures[a]: rows of queue_failure with address a
  \* The users.
  wpc, work, failed, signal,
  ppc, txRows, notes,
  poll,
  \* History and bounds.
  deliveries,     \* deliveries[i]: times row i was handed to a runner
  faults, crashes

tables == <<queue, nextId, permits, nextPermit, failures>>
workerVars == <<wpc, work, failed, signal>>
producerVars == <<ppc, txRows, notes>>
faultVars == <<faults, crashes>>
vars == <<tables, workerVars, producerVars, poll, deliveries, faultVars>>

RowIds == 1..MaxRows
Row == [address : Addresses \cup {NoAddress}, priority : Priorities, permit : Nat]

\* The QueueWork that QueuePop fills in; `row` is the row its UPDATE locked.
Work == [permit : Nat, row : RowIds \cup {0}, address : Addresses \cup {NoAddress}]
NoWork == [permit |-> 0, row |-> 0, address |-> NoAddress]

GetSteps == {"pop", "counted", "permitted", "claimed", "wait"}
OwnSteps == {"running", "clear", "insert", "deleteRow"}
WorkerSteps == GetSteps \cup OwnSteps \cup {"idle", "deletePermit", "notify"}

NoPoll == [step |-> "idle", address |-> NoAddress, complete |-> FALSE, failure |-> FALSE]

Uncommitted == UNION {txRows[p] : p \in Producers}
Visible == DOMAIN queue \ Uncommitted

\* Rows whose lock an open QueuePop transaction holds: its UPDATE is not
\* visible to others yet, and SKIP LOCKED passes over the row.
Locked == {work[w].row : w \in {v \in Workers : wpc[v] = "claimed"}}

\* The WHERE clause that QueuePop's count and claim share.
Unclaimed == {i \in Visible : queue[i].permit = 0 /\ queue[i].priority <= MaxPriority}
\* Mutant: FOR UPDATE SKIP LOCKED is left out.
ClaimableIgnoringLocks == Unclaimed
Claimable == Unclaimed \ Locked

\* ORDER BY priority ASC, id ASC
Before(i, j) ==
  \/ queue[i].priority < queue[j].priority
  \/ queue[i].priority = queue[j].priority /\ i <= j

\* Mutant: the count also asks for permit = 0.
InProgressUnclaimed(a) == \E i \in Visible : queue[i].address = a /\ queue[i].permit = 0
InProgress(a) == \E i \in Visible : queue[i].address = a

----------------------------------------------------------------------------
\* A notification wakes every Get that has subscribed.
Listening == {w \in Workers : wpc[w] \in GetSteps}
Broadcast == signal' = [w \in Workers |-> signal[w] \/ w \in Listening]

Fault == faults < MaxFaults /\ faults' = faults + 1 /\ UNCHANGED crashes

Goto(w, step) == wpc' = [wpc EXCEPT ![w] = step]

Drop(w) ==
  /\ work' = [work EXCEPT ![w] = NoWork]
  /\ failed' = [failed EXCEPT ![w] = FALSE]

\* What no step of a worker changes.
NotByWorkers == <<producerVars, poll>>

----------------------------------------------------------------------------
(* DatabaseQueue.Get: subscribe, then pop until a pop yields a row.        *)

Get(w) ==
  /\ wpc[w] = "idle"
  /\ Goto(w, "pop")
  /\ signal' = [signal EXCEPT ![w] = FALSE]
  /\ UNCHANGED <<tables, work, failed, NotByWorkers, deliveries, faultVars>>

Wake(w) ==
  /\ wpc[w] = "wait"
  /\ signal[w]
  /\ Goto(w, "pop")
  /\ signal' = [signal EXCEPT ![w] = FALSE]
  /\ UNCHANGED <<tables, work, failed, NotByWorkers, deliveries, faultVars>>

(* QueuePop *)

Precount(w) ==
  /\ wpc[w] = "pop"
  /\ Goto(w, IF Unclaimed = {} THEN "wait" ELSE "counted")
  /\ UNCHANGED <<tables, work, failed, signal, NotByWorkers, deliveries, faultVars>>

InsertPermit(w) ==
  /\ wpc[w] = "counted"
  /\ Goto(w, "permitted")
  /\ work' = [work EXCEPT ![w] = [permit |-> nextPermit, row |-> 0, address |-> NoAddress]]
  /\ nextPermit' = nextPermit + 1
  /\ UNCHANGED <<queue, nextId, permits, failures, failed, signal, NotByWorkers,
                 deliveries, faultVars>>

Claim(w) ==
  /\ wpc[w] = "permitted"
  /\ \E i \in Claimable :
       /\ \A j \in Claimable : Before(i, j)
       /\ work' = [work EXCEPT ![w] =
            [permit |-> work[w].permit, row |-> i, address |-> queue[i].address]]
  /\ Goto(w, "claimed")
  /\ UNCHANGED <<tables, failed, signal, NotByWorkers, deliveries, faultVars>>

\* Mutant: the closer commits although the claim found no row.
ClaimNothingCommitted(w) ==
  /\ wpc[w] = "permitted"
  /\ Claimable = {}
  /\ permits' = permits \cup {work[w].permit}
  /\ Goto(w, "wait")
  /\ Drop(w)
  /\ UNCHANGED <<queue, nextId, nextPermit, failures, signal, NotByWorkers, deliveries,
                 faultVars>>

\* The other workers took or locked every row since the count: the permit is
\* rolled back and Get waits.
ClaimNothing(w) ==
  /\ wpc[w] = "permitted"
  /\ Claimable = {}
  /\ Goto(w, "wait")
  /\ Drop(w)
  /\ UNCHANGED <<tables, signal, NotByWorkers, deliveries, faultVars>>

Deliver(w) ==
  /\ Goto(w, "running")
  /\ deliveries' = [deliveries EXCEPT ![work[w].row] = @ + 1]

\* Mutant: the closer rolls back where it should commit.
CommitClaimRolledBack(w) ==
  /\ wpc[w] = "claimed"
  /\ Deliver(w)
  /\ UNCHANGED <<tables, work, failed, signal, NotByWorkers, faultVars>>

CommitClaim(w) ==
  /\ wpc[w] = "claimed"
  /\ queue' = [queue EXCEPT ![work[w].row].permit = work[w].permit]
  /\ permits' = permits \cup {work[w].permit}
  /\ Deliver(w)
  /\ UNCHANGED <<nextId, nextPermit, failures, work, failed, signal, NotByWorkers,
                 faultVars>>

\* The deferred closer discards the error of Commit: the claim is rolled back
\* and the work is returned all the same.
CommitClaimLost(w) ==
  /\ wpc[w] = "claimed"
  /\ Fault
  /\ Deliver(w)
  /\ UNCHANGED <<tables, work, failed, signal, NotByWorkers>>

\* Any statement of QueuePop before the commit fails, the claim also after it has
\* locked its row: the transaction is rolled back, Get returns the error, the
\* agent calls Get again.
PopFault(w) ==
  /\ wpc[w] \in {"pop", "counted", "permitted", "claimed"}
  /\ Fault
  /\ Goto(w, "idle")
  /\ Drop(w)
  /\ UNCHANGED <<tables, signal, NotByWorkers, deliveries>>

----------------------------------------------------------------------------
(* The agent after the pop: run, record or clear a failure of addressed    *)
(* work, delete the row.                                                   *)

Finish(w) ==
  /\ wpc[w] = "running"
  /\ \E err \in BOOLEAN : failed' = [failed EXCEPT ![w] = err]
  /\ Goto(w, IF work[w].address = NoAddress THEN "deleteRow" ELSE "clear")
  /\ UNCHANGED <<tables, work, signal, NotByWorkers, deliveries, faultVars>>

(* QueueAddressedComplete *)

\* Mutant: the old failure is only deleted to make room for a new one.
ClearFailureIfFailed(w) ==
  /\ wpc[w] = "clear"
  /\ failures' = [failures EXCEPT ![work[w].address] = IF failed[w] THEN 0 ELSE @]
  /\ Goto(w, IF failed[w] THEN "insert" ELSE "deleteRow")
  /\ UNCHANGED <<queue, nextId, permits, nextPermit, work, failed, signal,
                 NotByWorkers, deliveries, faultVars>>

ClearFailure(w) ==
  /\ wpc[w] = "clear"
  /\ failures' = [failures EXCEPT ![work[w].address] = 0]
  /\ Goto(w, IF failed[w] THEN "insert" ELSE "deleteRow")
  /\ UNCHANGED <<queue, nextId, permits, nextPermit, work, failed, signal,
                 NotByWorkers, deliveries, faultVars>>

InsertFailure(w) ==
  /\ wpc[w] = "insert"
  /\ failures' = [failures EXCEPT ![work[w].address] = @ + 1]
  /\ Goto(w, "deleteRow")
  /\ UNCHANGED <<queue, nextId, permits, nextPermit, work, failed, signal,
                 NotByWorkers, deliveries, faultVars>>

\* Either statement fails; the agent goes on to delete the row.
RecordFault(w) ==
  /\ wpc[w] \in {"clear", "insert"}
  /\ Fault
  /\ Goto(w, "deleteRow")
  /\ UNCHANGED <<tables, work, failed, signal, NotByWorkers, deliveries>>

(* QueueDelete: two statements, no transaction, then a notification. *)

\* Mutant: the permit is deleted before the row.
DeletePermitBeforeRow(w) ==
  /\ wpc[w] = "deleteRow"
  /\ permits' = permits \ {work[w].permit}
  /\ Goto(w, "deletePermit")
  /\ UNCHANGED <<queue, nextId, nextPermit, failures, work, failed, signal,
                 NotByWorkers, deliveries, faultVars>>

DeleteRow(w) ==
  /\ wpc[w] = "deleteRow"
  /\ queue' = [i \in {j \in DOMAIN queue : queue[j].permit # work[w].permit} |-> queue[i]]
  /\ Goto(w, "deletePermit")
  /\ UNCHANGED <<nextId, permits, nextPermit, failures, work, failed, signal,
                 NotByWorkers, deliveries, faultVars>>

DeletePermit(w) ==
  /\ wpc[w] = "deletePermit"
  /\ permits' = permits \ {work[w].permit}
  /\ Goto(w, "notify")
  /\ Drop(w)
  /\ UNCHANGED <<queue, nextId, nextPermit, failures, signal, NotByWorkers,
                 deliveries, faultVars>>

NotifyDeleted(w) ==
  /\ wpc[w] = "notify"
  /\ Broadcast
  /\ Goto(w, "idle")
  /\ UNCHANGED <<tables, work, failed, NotByWorkers, deliveries, faultVars>>

\* Either statement fails: QueueDelete returns at once, nobody is notified.
DeleteFault(w) ==
  /\ wpc[w] \in {"deleteRow", "deletePermit"}
  /\ Fault
  /\ Goto(w, "idle")
  /\ Drop(w)
  /\ UNCHANGED <<tables, signal, NotByWorkers, deliveries>>

----------------------------------------------------------------------------
(* QueuePush and QueuePushAddressed, the store bound to no transaction or  *)
(* to the transaction of BeginTransactionQueue.                            *)

NotByProducers == <<permits, nextPermit, failures, wpc, work, failed, poll, deliveries>>

\* Mutant: the unique index covers unclaimed rows only.
TakenUnclaimed(a) ==
  a # NoAddress /\ \E i \in DOMAIN queue : queue[i].address = a /\ queue[i].permit = 0

Taken(a) == a # NoAddress /\ \E i \in DOMAIN queue : queue[i].address = a

\* An address that another open transaction inserted makes the INSERT wait for
\* the outcome of that transaction.
MustWait(p, a) ==
  a # NoAddress /\ \E i \in Uncommitted \ txRows[p] : queue[i].address = a

Insert(a, pr) ==
  queue' = [i \in DOMAIN queue \cup {nextId} |->
              IF i = nextId THEN [address |-> a, priority |-> pr, permit |-> 0]
                            ELSE queue[i]]

\* The sequence advances whether the INSERT succeeds or not.
DrawId == nextId <= MaxRows /\ nextId' = nextId + 1

\* Mutant: a push outside a transaction forgets its notification.
PushSilently(p, a, pr) ==
  /\ ppc[p] \in {"idle", "tx"}
  /\ ~MustWait(p, a)
  /\ ~Taken(a)
  /\ DrawId
  /\ Insert(a, pr)
  /\ notes' = [notes EXCEPT ![p] = IF ppc[p] = "tx" THEN @ + 1 ELSE @]
  /\ txRows' = [txRows EXCEPT ![p] = IF ppc[p] = "tx" THEN @ \cup {nextId} ELSE @]
  /\ UNCHANGED <<ppc, signal, NotByProducers, faultVars>>

Push(p, a, pr) ==
  /\ ppc[p] \in {"idle", "tx"}
  /\ ~MustWait(p, a)
  /\ ~Taken(a)
  /\ DrawId
  /\ Insert(a, pr)
  /\ notes' = [notes EXCEPT ![p] = @ + 1]
  /\ txRows' = [txRows EXCEPT ![p] = IF ppc[p] = "tx" THEN @ \cup {nextId} ELSE @]
  /\ ppc' = [ppc EXCEPT ![p] = IF @ = "tx" THEN "tx" ELSE "notify"]
  /\ UNCHANGED <<signal, NotByProducers, faultVars>>

\* Unique violation: ErrDuplicateAddressedPush, and a transaction is aborted.
PushDuplicate(p, a) ==
  /\ ppc[p] \in {"idle", "tx"}
  /\ ~MustWait(p, a)
  /\ Taken(a)
  /\ DrawId
  /\ ppc' = [ppc EXCEPT ![p] = IF @ = "tx" THEN "aborted" ELSE "idle"]
  /\ UNCHANGED <<queue, txRows, notes, signal, NotByProducers, faultVars>>

\* The INSERT fails for another reason: the push returns the error.
PushFault(p) ==
  /\ ppc[p] \in {"idle", "tx"}
  /\ Fault
  /\ ppc' = [ppc EXCEPT ![p] = IF @ = "tx" THEN "aborted" ELSE "idle"]
  /\ UNCHANGED <<queue, nextId, txRows, notes, signal, NotByProducers>>

\* queueNotify outside a transaction, or one note of CompleteTransaction.
Notify(p) ==
  /\ ppc[p] = "notify"
  /\ Broadcast
  /\ notes' = [notes EXCEPT ![p] = @ - 1]
  /\ ppc' = [ppc EXCEPT ![p] = IF notes[p] = 1 THEN "idle" ELSE "notify"]
  /\ UNCHANGED <<queue, nextId, txRows, NotByProducers, faultVars>>

BeginTransactionQueue(p) ==
  /\ ppc[p] = "idle"
  /\ ppc' = [ppc EXCEPT ![p] = "tx"]
  /\ UNCHANGED <<queue, nextId, txRows, notes, signal, NotByProducers, faultVars>>

(* CompleteTransaction *)

\* Mutant: the pending notifications are dropped on success too.
CommitDroppingNotes(p) ==
  /\ ppc[p] = "tx"
  /\ txRows' = [txRows EXCEPT ![p] = {}]
  /\ notes' = [notes EXCEPT ![p] = 0]
  /\ ppc' = [ppc EXCEPT ![p] = "idle"]
  /\ UNCHANGED <<queue, nextId, signal, NotByProducers, faultVars>>

\* Mutant: a commit flushes one notification even when none is pending.
CommitAlwaysNotifying(p) ==
  /\ ppc[p] = "tx"
  /\ txRows' = [txRows EXCEPT ![p] = {}]
  /\ ppc' = [ppc EXCEPT ![p] = "notify"]
  /\ UNCHANGED <<queue, nextId, notes, signal, NotByProducers, faultVars>>

Commit(p) ==
  /\ ppc[p] = "tx"
  /\ txRows' = [txRows EXCEPT ![p] = {}]
  /\ ppc' = [ppc EXCEPT ![p] = IF notes[p] = 0 THEN "idle" ELSE "notify"]
  /\ UNCHANGED <<queue, nextId, notes, signal, NotByProducers, faultVars>>

RollbackRows(p) ==
  /\ queue' = [i \in DOMAIN queue \ txRows[p] |-> queue[i]]
  /\ txRows' = [txRows EXCEPT ![p] = {}]
  /\ notes' = [notes EXCEPT ![p] = 0]
  /\ ppc' = [ppc EXCEPT ![p] = "idle"]
  /\ UNCHANGED <<nextId, signal, NotByProducers>>

\* The caller reports an error, or the transaction was aborted.
Rollback(p) ==
  /\ ppc[p] \in {"tx", "aborted"}
  /\ RollbackRows(p)
  /\ UNCHANGED faultVars

CommitFault(p) ==
  /\ ppc[p] = "tx"
  /\ Fault
  /\ RollbackRows(p)

----------------------------------------------------------------------------
(* IsQueueAddressComplete: two queries with no transaction around them.    *)

NotByPollers == <<tables, workerVars, producerVars, deliveries, faultVars>>

PollFailure(q, a) ==
  /\ poll[q].step \in {"idle", "answered"}
  /\ poll' = [poll EXCEPT ![q] =
       IF failures[a] > 0
         THEN [step |-> "answered", address |-> a, complete |-> TRUE, failure |-> TRUE]
         ELSE [step |-> "count", address |-> a, complete |-> FALSE, failure |-> FALSE]]
  /\ UNCHANGED NotByPollers

PollCount(q) ==
  /\ poll[q].step = "count"
  /\ poll' = [poll EXCEPT ![q] =
       [step |-> "answered", address |-> poll[q].address,
        complete |-> ~InProgress(poll[q].address), failure |-> FALSE]]
  /\ UNCHANGED NotByPollers

----------------------------------------------------------------------------
(* The process dies and is started again: open transactions are rolled     *)
(* back, the tables are kept (schema.sql creates them IF NOT EXISTS), and  *)
(* nothing of the start-up path touches claimed rows or permits.           *)

Crash ==
  /\ crashes < MaxCrashes
  /\ crashes' = crashes + 1
  /\ queue' = [i \in Visible |-> queue[i]]
  /\ wpc' = [w \in Workers |-> "idle"]
  /\ work' = [w \in Workers |-> NoWork]
  /\ failed' = [w \in Workers |-> FALSE]
  /\ signal' = [w \in Workers |-> FALSE]
  /\ ppc' = [p \in Producers |-> "idle"]
  /\ txRows' = [p \in Producers |-> {}]
  /\ notes' = [p \in Producers |-> 0]
  /\ poll' = [q \in Pollers |-> NoPoll]
  /\ UNCHANGED <<nextId, permits, nextPermit, failures, deliveries, faults>>

----------------------------------------------------------------------------
Init ==
  /\ queue = [i \in {} |-> 0]
  /\ nextId = 1
  /\ permits = {}
  /\ nextPermit = 1
  /\ failures = [a \in Addresses |-> 0]
  /\ wpc = [w \in Workers |-> "idle"]
  /\ work = [w \in Workers |-> NoWork]
  /\ failed = [w \in Workers |-> FALSE]
  /\ signal = [w \in Workers |-> FALSE]
  /\ ppc = [p \in Producers |-> "idle"]
  /\ txRows = [p \in Producers |-> {}]
  /\ notes = [p \in Producers |-> 0]
  /\ poll = [q \in Pollers |-> NoPoll]
  /\ deliveries = [i \in RowIds |-> 0]
  /\ faults = 0
  /\ crashes = 0

GetStep(w) == Get(w) \/ Wake(w) \/ Precount(w) \/ InsertPermit(w) \/ Claim(w)
              \/ ClaimNothing(w) \/ CommitClaim(w)

AgentStep(w) == Finish(w) \/ ClearFailure(w) \/ InsertFailure(w) \/ DeleteRow(w)
                \/ DeletePermit(w) \/ NotifyDeleted(w)

FaultStep(w) == PopFault(w) \/ RecordFault(w) \/ DeleteFault(w)

ProducerStep(p) ==
  \/ \E a \in Addresses \cup {NoAddress}, pr \in Priorities : Push(p, a, pr)
  \/ \E a \in Addresses : PushDuplicate(p, a)
  \/ Notify(p) \/ BeginTransactionQueue(p) \/ Commit(p) \/ Rollback(p)
  \/ PushFault(p) \/ CommitFault(p)

PollerStep(q) == PollCount(q) \/ \E a \in Addresses : PollFailure(q, a)

Next ==
  \/ \E w \in Workers : GetStep(w) \/ AgentStep(w) \/ FaultStep(w)
  \/ \E p \in Producers : ProducerStep(p)
  \/ \E q \in Pollers : PollerStep(q)
  \/ Crash

Spec == Init /\ [][Next]_vars

\* A worker goroutine and a pending notification always run on; producers may
\* stop pushing or keep a transaction open, and nothing has to fail.
Fairness ==
  /\ \A w \in Workers : WF_vars(GetStep(w)) /\ WF_vars(AgentStep(w))
  /\ \A p \in Producers : WF_vars(Notify(p))

FairSpec == Spec /\ Fairness

\* The store with the discarded commit error of QueuePop.
LossyNext == Next \/ \E w \in Workers : CommitClaimLost(w)
LossySpec == Init /\ [][LossyNext]_vars

----------------------------------------------------------------------------
(* Properties                                                              *)

\* Type invariant of the tables and of the users' program counters.
TypeOK ==
  /\ DOMAIN queue \subseteq RowIds /\ queue \in [DOMAIN queue -> Row]
  /\ nextId \in 1..(MaxRows + 1)
  /\ permits \subseteq Nat
  /\ nextPermit \in Nat \ {0}
  /\ failures \in [Addresses -> Nat]
  /\ wpc \in [Workers -> WorkerSteps]
  /\ work \in [Workers -> Work]
  /\ failed \in [Workers -> BOOLEAN]
  /\ signal \in [Workers -> BOOLEAN]
  /\ ppc \in [Producers -> {"idle", "tx", "aborted", "notify"}]
  /\ txRows \in [Producers -> SUBSET RowIds]
  /\ notes \in [Producers -> Nat]
  /\ poll \in [Pollers -> [step : {"idle", "count", "answered"},
                            address : Addresses \cup {NoAddress},
                            complete : BOOLEAN, failure : BOOLEAN]]
  /\ deliveries \in [RowIds -> Nat]
  /\ faults \in 0..MaxFaults
  /\ crashes \in 0..MaxCrashes

\* QueuePop hands a row to at most one runner, ever: neither two concurrent
\* claims, nor a failed statement, nor a crash makes a row run twice.  The one
\* exception is a failed commit of the claim, which QueuePop discards: Spec
\* leaves that fault out, LossySpec has it and violates the invariant.
DeliveredOnce == \A i \in RowIds : deliveries[i] <= 1

\* A claimed row always has its permit in queue_permits, and no two rows share
\* one: QueuePop commits both together, and QueueDelete removes the row before
\* the permit, so that stopping between the two never leaves a claim without
\* its permit.
PermitsBackClaims ==
  \A i \in Visible : queue[i].permit # 0 =>
    /\ queue[i].permit \in permits
    /\ \A j \in Visible : queue[j].permit = queue[i].permit => i = j

\* Permits leak only where something fails: a failed statement loses the permit
\* of one worker, a crash those of all, and nothing at start-up releases them
\* (store.go:147 says "when the process restarts").  An empty-handed claim, a
\* rolled-back one and a finished run leave none.
Leaked == {k \in permits : \A w \in Workers : work[w].permit # k}
PermitLeakBounded == Cardinality(Leaked) <= faults + crashes * Cardinality(Workers)

\* QueueAddressedComplete never leaves "both an old and a new row" for an
\* address (store.go:397), though its two statements are not a transaction:
\* the UNIQUE address keeps a second worker away until the first is done.
OneFailureRow == \A a \in Addresses : failures[a] <= 1

\* When the row of an address is about to go, so that the next poll may call the
\* address complete, queue_failure says how this run ended and nothing of an
\* earlier run: the failure is on record iff this run failed, whatever the other
\* workers record meanwhile.
OutcomeOnRecord ==
  faults = 0 => \A w \in Workers :
    wpc[w] = "deleteRow" /\ work[w].address # NoAddress =>
      failures[work[w].address] = IF failed[w] THEN 1 ELSE 0

Answers(q) == poll'[q] # poll[q] /\ poll'[q].step = "answered"

\* IsQueueAddressComplete never answers (true, nil) while a runner works on the
\* address or its outcome is being recorded, whatever happens between its two
\* queries.
CompleteMeansFinished ==
  [][\A q \in Pollers : Answers(q) /\ poll'[q].complete /\ ~poll'[q].failure
        => \A w \in Workers : wpc[w] \in OwnSteps => work[w].address # poll'[q].address]_vars

\* No wake-up is lost: a row never stays claimable beside a sleeping worker
\* that no notification reached, unless a notification is still to be sent or
\* some worker is on its way to look.  Pushes notify after the commit, and a
\* worker whose claim is rolled back tells nobody but looks again itself.
NoLostWakeup ==
  \A w \in Workers : wpc[w] = "wait" /\ ~signal[w] /\ Claimable # {} =>
    \/ \E p \in Producers : ppc[p] = "notify"
    \/ \E v \in Workers : wpc[v] \in {"idle", "pop", "counted", "permitted", "notify"}

\* Every committed row that QueuePop may serve is claimed in the end.
EveryRowIsClaimed == \A i \in RowIds : i \in Unclaimed ~> i \notin Unclaimed

\* The refinement mapping: uncommitted rows do not exist yet, a row is held
\* from the commit of its claim to its DELETE, a claimed row that nobody holds
\* is stuck, and a delivered row that is gone is done.
Ready == {i \in Visible : queue[i].permit = 0}
Held(w) == IF wpc[w] \in OwnSteps THEN {work[w].row} ELSE {}
AllHeld == UNION {Held(w) : w \in Workers}
Stuck == {i \in Visible : queue[i].permit # 0} \ AllHeld
Done == {i \in RowIds : deliveries[i] > 0} \ DOMAIN queue

Queue == INSTANCE WorkQueue WITH
  ready <- Ready, held <- [w \in Workers |-> Held(w)], stuck <- Stuck, done <- Done

\* The store implements the abstract work queue: each committed row is handed to
\* one worker, leaves the table only by the hand of that worker, and is never
\* handed out again once its worker lost it.
ImplementsWorkQueue == Queue!Spec
=============================================================================
