--------------------------- MODULE Analyze_proofs ---------------------------
(***************************************************************************)
(* Proofs about Analyze, for every file that RunLog allows, any number of  *)
(* requests, attempts and tenants, and any warm-up: the totals agree with  *)
(* the events, the tenants share them out, and the latency samples are     *)
(* those of the file.                                                      *)
(***************************************************************************)
EXTENDS Analyze, SumTheorems

----------------------------------------------------------------------------
(* The file                                                                *)

\* How many events of a kind the workers have written, and the requests by answer.
Written(k) == SumFunctionOnSet([r \in Requests |-> log[r][k]], Requests)
Answered(o) == {r \in Requests : outcome[r] = o}

LEMMA TotalIsWritten == \A k : Log!Total(k) = Written(k)
<1>1. \A F, S : Log!SumFunctionOnSet(F, S) = SumFunctionOnSet(F, S)
  BY DEF Log!SumFunctionOnSet, SumFunctionOnSet, Log!FoldFunctionOnSet, FoldFunctionOnSet,
         Log!MapThenFoldSet, MapThenFoldSet
<1>2. \A F : Log!SumFunction(F) = SumFunctionOnSet(F, DOMAIN F)
  BY <1>1 DEF Log!SumFunction
<1> QED
  BY <1>2 DEF Log!Total, Written

LEMMA SameCardinality == \A S : Log!Cardinality(S) = Cardinality(S)
BY DEF Log!Cardinality, Cardinality

\* A job has one attempt at a time and at most one completion, its last event.
FileInv ==
  /\ phase \in {"new", "open", "ended", "closed"}
  /\ outcome \in [Requests -> {"none", "enqueued", "failed"}]
  /\ log \in [Requests -> [started : Nat, completed : {0, 1}, failed : Nat]]
  /\ \A r \in Requests :
       /\ log[r].started <= log[r].completed + log[r].failed + 1
       /\ Log!Running(r) => log[r].completed = 0
  /\ now \in Nat
  /\ tenant \in [Requests -> Tenants]
  /\ clean \in BOOLEAN
  /\ phase \in {"new", "open"} => end = Log!NoEnd
  /\ phase = "ended" => end # Log!NoEnd
  /\ clean => phase = "ended"

\* A step that writes no event of a worker and no answer.
Quiet == RunStart \/ RunEnd \/ Break \/ Tick \/ (\E g \in Levels : Sampled(g)) \/ UNCHANGED vars

LEMMA QuietFile ==
  ASSUME Quiet
  PROVE  UNCHANGED <<outcome, log, tenant, file, early>>
BY DEF Quiet, RunStart, RunEnd, Break, Tick, Sampled, Log!RunStart, Log!RunEnd,
       Log!RunEndWithError, Log!Close, vars, logVars, history

LEMMA AcceptedType ==
  ASSUME FileInv
  PROVE  Log!Accepted \in Nat /\ Log!Accepted = Cardinality(Answered("enqueued"))
<1>1. IsFiniteSet(Answered("enqueued"))
  BY RunAssumption, FS_Subset DEF Answered
<1>2. Log!Accepted = Cardinality(Answered("enqueued"))
  BY SameCardinality DEF Log!Accepted, Answered
<1> QED
  BY <1>1, <1>2, FS_CardinalityType

LEMMA QuietInv ==
  ASSUME FileInv, Quiet
  PROVE  FileInv'
<1> USE DEF FileInv
<1>1. UNCHANGED <<outcome, log, tenant>>
  BY QuietFile
<1>2. \A r \in Requests : /\ log'[r].started <= log'[r].completed + log'[r].failed + 1
                          /\ Log!Running(r)' => log'[r].completed = 0
  BY <1>1 DEF Log!Running
<1>3. CASE RunStart
  BY <1>1, <1>2, <1>3 DEF RunStart, Log!RunStart
<1>4. CASE Tick \/ (\E g \in Levels : Sampled(g)) \/ UNCHANGED vars
  <2>1. UNCHANGED logVars /\ now' \in Nat
    BY <1>4 DEF Tick, Sampled, vars
  <2> QED
    BY <1>1, <1>2, <2>1 DEF logVars
<1>5. CASE RunEnd
  <2>1. end' # Log!NoEnd
    <3>1. CASE Log!RunEndWithError
      <4>1. Log!NoCounters.enqueued = -2 /\ Log!NoEnd.enqueued = -1
        BY DEF Log!NoCounters, Log!NoEnd
      <4> QED
        BY <3>1, <4>1 DEF Log!RunEndWithError
    <3>2. ASSUME NEW c, NEW f, Log!RunEnd(c, f) PROVE end' # Log!NoEnd
      <4>1. end'.enqueued = Log!Accepted /\ Log!NoEnd.enqueued = -1
        BY <3>2 DEF Log!RunEnd, Log!NoEnd
      <4> QED
        BY <4>1, AcceptedType
    <3> QED
      BY <1>5, <3>1, <3>2 DEF RunEnd
  <2>2. phase' = "ended" /\ clean' \in BOOLEAN /\ now' = now
    BY <1>5 DEF RunEnd, Log!RunEnd, Log!RunEndWithError
  <2> QED
    BY <1>1, <1>2, <2>1, <2>2
<1>6. CASE Break
  BY <1>1, <1>2, <1>6 DEF Break, Log!Close
<1> QED
  BY <1>3, <1>4, <1>5, <1>6 DEF Quiet

LEMMA AnswerInv ==
  ASSUME FileInv, NEW r \in Requests, Enqueued(r) \/ Rejected(r)
  PROVE  /\ FileInv' /\ UNCHANGED <<phase, log, end, clean, tenant, now>>
         /\ phase = "open" /\ outcome[r] = "none"
         /\ \A q \in Requests : q # r => outcome'[q] = outcome[q]
         /\ outcome'[r] = IF Enqueued(r) THEN "enqueued" ELSE "failed"
<1> USE DEF FileInv
<1>1. /\ UNCHANGED <<phase, log, end, clean, tenant, now>> /\ phase = "open" /\ outcome[r] = "none"
      /\ \/ outcome' = [outcome EXCEPT ![r] = "enqueued"]
         \/ outcome' = [outcome EXCEPT ![r] = "failed"] /\ ~Enqueued(r)
      /\ ~Enqueued(r) => outcome' = [outcome EXCEPT ![r] = "failed"]
      /\ Enqueued(r) => outcome' = [outcome EXCEPT ![r] = "enqueued"]
  BY DEF Enqueued, Rejected, Log!Answer
<1>2. \A q \in Requests : Log!Running(q)' <=> Log!Running(q)
  BY <1>1 DEF Log!Running
<1>3. FileInv'
  BY <1>1, <1>2
<1> QED
  BY <1>1, <1>3

\* One event about one job.
LEMMA WorkerInv ==
  ASSUME FileInv, NEW r \in Requests, NEW k \in {"started", "completed", "failed"},
         \/ k = "started" /\ Log!Started(r)
         \/ k \in {"completed", "failed"} /\ Log!Ended(r, k),
         UNCHANGED <<now, tenant>>
  PROVE  /\ FileInv' /\ UNCHANGED <<phase, outcome, end, clean>> /\ ~clean /\ phase # "new"
         /\ \A q \in Requests : q # r => log'[q] = log[q]
         /\ log'[r] = [log[r] EXCEPT ![k] = log[r][k] + 1]
         /\ log[r].completed = 0
<1> USE DEF FileInv
<1>1. /\ UNCHANGED <<phase, outcome, end, clean>> /\ ~clean /\ phase # "new"
      /\ log' = [log EXCEPT ![r] = [log[r] EXCEPT ![k] = log[r][k] + 1]]
      /\ k = "started" => ~Log!Running(r) /\ log[r].completed = 0
      /\ k # "started" => Log!Running(r)
  BY DEF Log!Started, Log!Ended, Log!Writable
<1>2. log[r] \in [started : Nat, completed : {0, 1}, failed : Nat]
  OBVIOUS
<1>3. log[r].completed = 0 /\ log[r].started <= 0 + log[r].failed + 1
  BY <1>1
<1>4. log'[r] = [log[r] EXCEPT ![k] = log[r][k] + 1] /\ \A q \in Requests : q # r => log'[q] = log[q]
  BY <1>1
<1>5. /\ log'[r] \in [started : Nat, completed : {0, 1}, failed : Nat]
      /\ log'[r].started <= log'[r].completed + log'[r].failed + 1
      /\ log'[r].started > log'[r].completed + log'[r].failed => log'[r].completed = 0
  <2>1. CASE k = "started"
    <3>1. log'[r] = [started |-> log[r].started + 1, completed |-> 0, failed |-> log[r].failed]
      BY <1>2, <1>3, <1>4, <2>1
    <3>2. ~(log[r].started > log[r].completed + log[r].failed)
      BY <1>1, <2>1 DEF Log!Running
    <3> QED
      BY <1>2, <1>3, <3>1, <3>2
  <2>2. CASE k = "completed"
    <3>1. log'[r] = [started |-> log[r].started, completed |-> 1, failed |-> log[r].failed]
      <4>1. log[r].completed + 1 = 1
        BY <1>3
      <4> QED
        BY <1>2, <1>4, <2>2, <4>1
    <3> QED
      BY <1>2, <1>3, <3>1
  <2>3. CASE k = "failed"
    <3>1. log'[r] = [started |-> log[r].started, completed |-> 0, failed |-> log[r].failed + 1]
      BY <1>2, <1>3, <1>4, <2>3
    <3> QED
      BY <1>2, <1>3, <3>1
  <2> QED
    BY <2>1, <2>2, <2>3
<1>6. log' \in [Requests -> [started : Nat, completed : {0, 1}, failed : Nat]]
  BY <1>1, <1>5
<1>7. \A q \in Requests : /\ log'[q].started <= log'[q].completed + log'[q].failed + 1
                          /\ Log!Running(q)' => log'[q].completed = 0
  <2>1. ASSUME NEW q \in Requests, q # r
        PROVE  /\ log'[q].started <= log'[q].completed + log'[q].failed + 1
               /\ Log!Running(q)' => log'[q].completed = 0
    BY <1>4, <2>1 DEF Log!Running
  <2>2. Log!Running(r)' => log'[r].completed = 0
    BY <1>5 DEF Log!Running
  <2> QED
    BY <1>5, <2>1, <2>2
<1>8. FileInv'
  BY <1>1, <1>6, <1>7
<1> QED
  BY <1>1, <1>3, <1>4, <1>8

LEMMA InitFile == Init => FileInv
<1> SUFFICES ASSUME Init PROVE FileInv
  OBVIOUS
<1> USE DEF Init, Log!Init
<1>1. \A r \in Requests : log[r] = [started |-> 0, completed |-> 0, failed |-> 0]
  OBVIOUS
<1>2. \A r \in Requests : /\ log[r].started <= log[r].completed + log[r].failed + 1
                          /\ ~Log!Running(r)
  BY <1>1 DEF Log!Running
<1>3. log \in [Requests -> [started : Nat, completed : {0, 1}, failed : Nat]]
  OBVIOUS
<1> QED
  BY <1>2, <1>3 DEF FileInv

\* What one more event does to the numbers of events.
LEMMA WrittenChange ==
  ASSUME FileInv, NEW r \in Requests, NEW k \in {"started", "completed", "failed"},
         \A q \in Requests : q # r => log'[q] = log[q],
         log'[r] = [log[r] EXCEPT ![k] = log[r][k] + 1]
  PROVE  \A j \in {"completed", "failed"} :
           /\ Written(j) \in Nat
           /\ Written(j)' = Written(j) + (IF j = k THEN 1 ELSE 0)
<1> SUFFICES ASSUME NEW j \in {"completed", "failed"}
             PROVE  Written(j) \in Nat /\ Written(j)' = Written(j) + (IF j = k THEN 1 ELSE 0)
  OBVIOUS
<1> DEFINE F == [s \in Requests |-> log[s][j]]
           G == [s \in Requests |-> log'[s][j]]
<1>1. \A s \in Requests : log[s] \in [started : Nat, completed : {0, 1}, failed : Nat]
  BY DEF FileInv
<1>2. \A s \in Requests : F[s] \in Nat /\ (s # r => G[s] = F[s])
  BY <1>1
<1>3. G[r] = F[r] + (IF j = k THEN 1 ELSE 0)
  <2>1. log[r] \in [started : Nat, completed : {0, 1}, failed : Nat]
    BY <1>1
  <2>2. j = k => log'[r][j] = log[r][j] + 1
    BY <2>1
  <2>3. j # k => log'[r][j] = log[r][j] /\ log[r][j] \in Nat
    BY <2>1
  <2>4. CASE j = k
    BY <2>2, <2>4
  <2>5. CASE j # k
    <3>1. F[r] = log[r][j] /\ G[r] = log[r][j] /\ log[r][j] \in Nat
      BY <2>3, <2>5
    <3> HIDE DEF F, G
    <3> QED
      BY <2>5, <3>1
  <2> QED
    BY <2>4, <2>5
<1>4. Written(j) = SumFunctionOnSet(F, Requests) /\ Written(j)' = SumFunctionOnSet(G, Requests)
  BY DEF Written
<1> HIDE DEF F, G
<1>5. SumFunctionOnSet(F, Requests) \in Nat
  BY <1>2, RunAssumption, SumNat
<1>6. SumFunctionOnSet(G, Requests) = SumFunctionOnSet(F, Requests) + (G[r] - F[r])
  <2>1. \A s \in Requests : F[s] \in Int /\ G[s] \in Int
    BY <1>2, <1>3
  <2>2. \A s \in Requests \ {r} : F[s] = G[s]
    BY <1>2
  <2> QED
    BY <2>1, <2>2, RunAssumption, SumChange
<1>7. \A a \in Nat : \A b \in {0, 1} : (a + b) - a = b
  OBVIOUS
<1>8. G[r] - F[r] = IF j = k THEN 1 ELSE 0
  BY <1>2, <1>3, <1>7
<1> QED
  BY <1>4, <1>5, <1>6, <1>8

LEMMA WrittenType == FileInv => \A j \in {"completed", "failed"} : Written(j) \in Nat
<1> SUFFICES ASSUME FileInv, NEW j \in {"completed", "failed"} PROVE Written(j) \in Nat
  OBVIOUS
<1> DEFINE F == [s \in Requests |-> log[s][j]]
<1>1. \A s \in Requests : F[s] \in Nat
  BY DEF FileInv
<1>2. Written(j) = SumFunctionOnSet(F, Requests)
  BY DEF Written
<1> HIDE DEF F
<1> QED
  BY <1>1, <1>2, RunAssumption, SumNat

----------------------------------------------------------------------------
(* The cases of the switch                                                 *)

Fields == {"startTime", "endTime", "enqueued", "completed", "failed", "enqueueTS", "startTS",
           "tenantByJob", "pickup", "work", "e2e", "perTenantPickup", "perTenant", "errors",
           "maxGoroutines", "readable"}

\* Which of the variables of analyzeReader a case may change.
Only(s, t, fs) == DOMAIN t = Fields /\ \A f \in Fields \ fs : t[f] = s[f]

LEMMA Cases ==
  ASSUME NEW s, DOMAIN s = Fields, NEW at
  PROVE  /\ Only(s, OnRunStart(s, at), {"startTime"})
         /\ OnRunStart(s, at).startTime = at
         /\ \A c : /\ Only(s, OnRunEnd(s, at, c), {"endTime", "enqueued", "completed", "failed"})
                   /\ OnRunEnd(s, at, c).endTime = at
                   /\ c # Log!NoCounters => /\ OnRunEnd(s, at, c).enqueued = c.enqueued
                                            /\ OnRunEnd(s, at, c).completed = c.completed
                                            /\ OnRunEnd(s, at, c).failed = c.failed
         /\ \A r, t : Only(s, OnEnqueued(s, at, r, t), {"enqueueTS", "tenantByJob", "perTenant"})
         /\ \A r : Only(s, OnStarted(s, at, r), {"startTS", "pickup", "perTenantPickup"})
         /\ \A r, t : Only(s, OnCompleted(s, at, r, t), {"perTenant", "work", "e2e"})
         /\ \A c : Only(s, OnFailed(s, c), {"errors"})
         /\ \A g : Only(s, OnSample(s, g), {"maxGoroutines"})
<1> USE DEF Only, Fields
<1>1. Only(s, OnRunStart(s, at), {"startTime"}) /\ OnRunStart(s, at).startTime = at
  BY DEF OnRunStart
<1>2. ASSUME NEW c
      PROVE  /\ Only(s, OnRunEnd(s, at, c), {"endTime", "enqueued", "completed", "failed"})
             /\ OnRunEnd(s, at, c).endTime = at
             /\ c # Log!NoCounters => /\ OnRunEnd(s, at, c).enqueued = c.enqueued
                                      /\ OnRunEnd(s, at, c).completed = c.completed
                                      /\ OnRunEnd(s, at, c).failed = c.failed
  <2>1. CASE c = Log!NoCounters
    BY <2>1 DEF OnRunEnd
  <2>2. CASE c # Log!NoCounters
    BY <2>2 DEF OnRunEnd
  <2> QED
    BY <2>1, <2>2
<1>3. \A r, t : Only(s, OnEnqueued(s, at, r, t), {"enqueueTS", "tenantByJob", "perTenant"})
  BY DEF OnEnqueued
<1>4. \A r : Only(s, OnStarted(s, at, r), {"startTS", "pickup", "perTenantPickup"})
  BY DEF OnStarted
<1>5. \A r, t : Only(s, OnCompleted(s, at, r, t), {"perTenant", "work", "e2e"})
  <2> SUFFICES ASSUME NEW r, NEW t
               PROVE  Only(s, OnCompleted(s, at, r, t), {"perTenant", "work", "e2e"})
    OBVIOUS
  <2> DEFINE counts == s.perTenant
             c == IF t \in DOMAIN counts THEN [counts EXCEPT ![t].completed = @ + 1] ELSE counts
             u == [s EXCEPT !.perTenant = c]
  <2>1. OnCompleted(s, at, r, t) = IF Warm(s, at) THEN u
                                   ELSE [u EXCEPT !.work = SampleSince(@, s.startTS, r, at),
                                                  !.e2e = SampleSince(@, s.enqueueTS, r, at)]
    BY DEF OnCompleted
  <2> HIDE DEF c
  <2>2. DOMAIN u = Fields /\ \A f \in Fields \ {"perTenant"} : u[f] = s[f]
    OBVIOUS
  <2> HIDE DEF u
  <2>3. CASE Warm(s, at)
    BY <2>1, <2>2, <2>3
  <2>4. CASE ~Warm(s, at)
    <3>1. PICK w, e : w = SampleSince(u.work, s.startTS, r, at) /\ e = SampleSince(u.e2e, s.enqueueTS, r, at)
      OBVIOUS
    <3>2. PICK v : v = [u EXCEPT !.work = w, !.e2e = e]
      OBVIOUS
    <3>3. OnCompleted(s, at, r, t) = v
      BY <2>1, <2>4, <3>1, <3>2
    <3>4. DOMAIN v = Fields /\ \A f \in Fields \ {"work", "e2e"} : v[f] = u[f]
      BY <2>2, <3>2
    <3> QED
      BY <2>2, <3>3, <3>4
  <2> QED
    BY <2>3, <2>4
<1>6. \A c : Only(s, OnFailed(s, c), {"errors"})
  BY DEF OnFailed
<1>7. \A g : Only(s, OnSample(s, g), {"maxGoroutines"})
  BY DEF OnSample
<1> QED
  BY <1>1, <1>2, <1>3, <1>4, <1>5, <1>6, <1>7

LEMMA BrokenCase ==
  ASSUME NEW s, DOMAIN s = Fields
  PROVE  Only(s, OnBrokenLine(s), {"readable"}) /\ ~OnBrokenLine(s).readable
BY DEF OnBrokenLine, Only, Fields

LEMMA BagAddCopies ==
  ASSUME NEW B, \A y \in DOMAIN B : B[y] \in Nat, NEW x
  PROVE  /\ \A y \in DOMAIN BagAdd(B, x) : BagAdd(B, x)[y] \in Nat
         /\ \A y : /\ Copies(y, B) \in Nat
                   /\ Copies(y, BagAdd(B, x)) = IF y = x THEN Copies(y, B) + 1 ELSE Copies(y, B)
BY DEF Copies, BagAdd

----------------------------------------------------------------------------
(* The totals                                                              *)

ErrorTotal == SumFunctionOnSet([c \in Columns |-> Copies(c, sum.errors)], Columns)

\* The error table holds the failures of both stages, and the counters of a clean run
\* those of its run_end, which counted the events.
TotalsInv ==
  /\ DOMAIN sum = Fields
  /\ phase = "new" => sum.startTime = None
  /\ phase \in {"open", "ended"} => sum.startTime # None
  /\ end # Log!NoEnd <=> sum.endTime # None
  /\ sum.endTime # None => sum.startTime # None
  /\ sum.readable <=> phase # "closed"
  /\ \A c \in DOMAIN sum.errors : sum.errors[c] \in Nat
  /\ ErrorTotal = Written("failed") + Cardinality(Answered("failed"))
  /\ clean => /\ sum.completed = Written("completed")
              /\ sum.enqueued = Cardinality(Answered("enqueued"))
              /\ sum.failed = Written("failed")

LEMMA ColumnsFinite == IsFiniteSet(Columns)
<1>1. \A S, x : IsFiniteSet(S) => IsFiniteSet(S \cup {x})
  BY FS_AddElement
<1>2. Columns = ((({} \cup {"rate_limit"}) \cup {"transient"}) \cup {"permanent"})
                  \cup {"unclassified"}
  BY DEF Columns
<1> QED
  BY <1>1, <1>2, FS_EmptySet

LEMMA InitTotals == Init => TotalsInv
<1> SUFFICES ASSUME Init PROVE TotalsInv
  OBVIOUS
<1>1. /\ DOMAIN sum = Fields /\ sum.startTime = None /\ sum.endTime = None /\ sum.errors = NoMap
      /\ sum.readable
  BY DEF Init, Fresh, Fields
<1>2. phase = "new" /\ clean = FALSE /\ end = Log!NoEnd /\ Answered("failed") = {}
  BY DEF Init, Log!Init, Answered
<1>3. Written("failed") = 0
  <2> DEFINE F == [r \in Requests |-> log[r]["failed"]]
  <2>1. \A r \in Requests : F[r] = 0
    BY DEF Init, Log!Init
  <2>2. Written("failed") = SumFunctionOnSet(F, Requests)
    BY DEF Written
  <2> HIDE DEF F
  <2> QED
    BY <2>1, <2>2, RunAssumption, SumZero
<1>4. ErrorTotal = 0
  <2> DEFINE F == [c \in Columns |-> Copies(c, sum.errors)]
  <2>1. \A c \in Columns : F[c] = 0
    BY <1>1 DEF Copies, NoMap
  <2>2. ErrorTotal = SumFunctionOnSet(F, Columns)
    BY DEF ErrorTotal
  <2> HIDE DEF F
  <2> QED
    BY <2>1, <2>2, ColumnsFinite, SumZero
<1>5. DOMAIN sum.errors = {} /\ Cardinality(Answered("failed")) = 0
  BY <1>1, <1>2, FS_EmptySet DEF NoMap
<1> QED
  BY <1>1, <1>2, <1>3, <1>4, <1>5 DEF TotalsInv

\* A failure of either stage goes into one column.
LEMMA FailureCounted ==
  ASSUME TotalsInv, NEW class \in Classes \cup {""}, sum' = OnFailed(sum, class)
  PROVE  /\ Only(sum, sum', {"errors"})
         /\ \A c \in DOMAIN sum'.errors : sum'.errors[c] \in Nat
         /\ ErrorTotal' = ErrorTotal + 1
<1>0. PICK col : col = IF class = "" THEN "unclassified" ELSE class
  OBVIOUS
<1> DEFINE F == [c \in Columns |-> Copies(c, sum.errors)]
           G == [c \in Columns |-> Copies(c, sum'.errors)]
<1>1. Only(sum, sum', {"errors"}) /\ sum'.errors = BagAdd(sum.errors, col)
  BY <1>0, Cases DEF TotalsInv, OnFailed, Fields
<1>2. /\ \A c \in DOMAIN sum'.errors : sum'.errors[c] \in Nat
      /\ \A c : /\ Copies(c, sum.errors) \in Nat
                /\ Copies(c, sum'.errors) = IF c = col THEN Copies(c, sum.errors) + 1
                                             ELSE Copies(c, sum.errors)
  <2>1. \A c \in DOMAIN sum.errors : sum.errors[c] \in Nat
    BY DEF TotalsInv
  <2>2. /\ \A c \in DOMAIN BagAdd(sum.errors, col) : BagAdd(sum.errors, col)[c] \in Nat
        /\ \A c : /\ Copies(c, sum.errors) \in Nat
                  /\ Copies(c, BagAdd(sum.errors, col)) =
                       IF c = col THEN Copies(c, sum.errors) + 1 ELSE Copies(c, sum.errors)
    BY <2>1, BagAddCopies
  <2> QED
    BY <1>1, <2>2
<1>3. col \in Columns
  BY <1>0, ClassAssumption DEF Columns
<1>4. \A c \in Columns : F[c] \in Nat /\ G[c] = IF c = col THEN F[c] + 1 ELSE F[c]
  BY <1>2
<1>5. ErrorTotal = SumFunctionOnSet(F, Columns) /\ ErrorTotal' = SumFunctionOnSet(G, Columns)
  BY DEF ErrorTotal
<1> HIDE DEF F, G
<1>6. SumFunctionOnSet(G, Columns) = SumFunctionOnSet(F, Columns) + 1
  BY <1>3, <1>4, ColumnsFinite, SumIncrement
<1> QED
  BY <1>1, <1>2, <1>5, <1>6

\* Steps that leave the failures alone.
LEMMA SameErrors ==
  ASSUME TotalsInv, UNCHANGED <<outcome, log>>, sum'.errors = sum.errors
  PROVE  /\ \A c \in DOMAIN sum'.errors : sum'.errors[c] \in Nat
         /\ ErrorTotal' = Written("failed")' + Cardinality(Answered("failed"))'
         /\ Written("completed")' = Written("completed") /\ Written("failed")' = Written("failed")
         /\ \A o : Answered(o)' = Answered(o)
BY DEF TotalsInv, ErrorTotal, Written, Answered

LEMMA RunEndTotals ==
  ASSUME FileInv, TotalsInv, RunEnd
  PROVE  TotalsInv'
<1>1. UNCHANGED <<outcome, log>> /\ phase = "open" /\ phase' = "ended"
      /\ sum' = OnRunEnd(sum, now, end')
  BY DEF RunEnd, Log!RunEnd, Log!RunEndWithError
<1>2. /\ Only(sum, sum', {"endTime", "enqueued", "completed", "failed"})
      /\ sum'.endTime = now
      /\ end' # Log!NoCounters => /\ sum'.enqueued = end'.enqueued
                                  /\ sum'.completed = end'.completed
                                  /\ sum'.failed = end'.failed
  <2>1. DOMAIN sum = Fields
    BY DEF TotalsInv
  <2> QED
    BY <1>1, <2>1, Cases
<1>3. /\ sum'.errors = sum.errors /\ sum'.startTime = sum.startTime /\ DOMAIN sum' = Fields
      /\ sum'.readable = sum.readable
  BY <1>2 DEF Only, Fields
<1>4. ASSUME clean'
      PROVE  /\ sum'.completed = Written("completed")
             /\ sum'.enqueued = Cardinality(Answered("enqueued"))
             /\ sum'.failed = Written("failed")
  <2>1. PICK c, f \in 0..Cardinality(Log!Busy) : Log!RunEnd(c, f)
    BY <1>4 DEF RunEnd, Log!RunEndWithError
  <2>2. Log!Busy = {}
    BY <1>4, <2>1 DEF Log!RunEnd
  <2>3. c = 0 /\ f = 0
    BY <2>1, <2>2, FS_EmptySet
  <2>4. end' = [enqueued |-> Log!Accepted, completed |-> Log!Total("completed") + c,
                failed |-> Log!Total("failed") + f]
    BY <2>1 DEF Log!RunEnd
  <2>5. end'.enqueued # -2
    BY <2>4, AcceptedType
  <2>6. end' # Log!NoCounters
    BY <2>5 DEF Log!NoCounters
  <2>7. Log!Total("completed") + c = Written("completed") /\ Log!Total("failed") + f = Written("failed")
    BY <2>3, TotalIsWritten, WrittenType
  <2> QED
    BY <1>2, <2>4, <2>6, <2>7, AcceptedType
<1>5. now # None
  BY DEF FileInv, None
<1>6. end' # Log!NoEnd
  BY <1>1, QuietInv DEF FileInv, Quiet
<1> QED
  BY <1>1, <1>2, <1>3, <1>4, <1>5, <1>6, SameErrors DEF TotalsInv

LEMMA QuietTotals ==
  ASSUME FileInv, TotalsInv, Quiet
  PROVE  TotalsInv'
<1>1. DOMAIN sum = Fields /\ now # None
  BY DEF TotalsInv, FileInv, None
<1>2. CASE RunEnd
  BY <1>2, RunEndTotals
<1>3. CASE RunStart
  <2>1. UNCHANGED <<outcome, log, end, clean>> /\ phase = "new" /\ phase' = "open"
        /\ sum' = OnRunStart(sum, now)
    BY <1>3 DEF RunStart, Log!RunStart
  <2>2. Only(sum, sum', {"startTime"}) /\ sum'.startTime = now
    BY <1>1, <2>1, Cases
  <2>3. /\ sum'.errors = sum.errors /\ sum'.endTime = sum.endTime /\ DOMAIN sum' = Fields
        /\ sum'.readable = sum.readable
    BY <2>2 DEF Only, Fields
  <2>4. ~clean
    BY <2>1 DEF FileInv
  <2> QED
    BY <1>1, <2>1, <2>2, <2>3, <2>4, SameErrors DEF TotalsInv
<1>4. CASE Tick \/ (\E g \in Levels : Sampled(g)) \/ UNCHANGED vars
  <2>1. UNCHANGED logVars /\ (sum' = sum \/ \E g \in Levels : sum' = OnSample(sum, g))
    BY <1>4 DEF Tick, Sampled, vars
  <2>2. Only(sum, sum', {"maxGoroutines"})
    BY <1>1, <2>1, Cases DEF Only
  <2>3. /\ sum'.errors = sum.errors /\ sum'.endTime = sum.endTime /\ DOMAIN sum' = Fields
        /\ sum'.startTime = sum.startTime /\ sum'.completed = sum.completed
        /\ sum'.enqueued = sum.enqueued /\ sum'.failed = sum.failed
        /\ sum'.readable = sum.readable
    BY <2>2 DEF Only, Fields
  <2>4. UNCHANGED <<outcome, log>>
    BY <2>1 DEF logVars
  <2>5. /\ \A c \in DOMAIN sum'.errors : sum'.errors[c] \in Nat
        /\ ErrorTotal' = Written("failed")' + Cardinality(Answered("failed"))'
        /\ Written("completed")' = Written("completed") /\ Written("failed")' = Written("failed")
        /\ \A o : Answered(o)' = Answered(o)
    BY <2>3, <2>4, SameErrors
  <2> QED
    BY <2>1, <2>3, <2>5 DEF TotalsInv, logVars
<1>5. CASE Break
  <2>1. /\ UNCHANGED <<outcome, log, end, clean>> /\ ~clean /\ phase' = "closed"
        /\ sum' = OnBrokenLine(sum)
    BY <1>5 DEF Break, Log!Close
  <2>2. Only(sum, sum', {"readable"}) /\ ~sum'.readable
    BY <1>1, <2>1, BrokenCase
  <2>3. /\ sum'.errors = sum.errors /\ sum'.endTime = sum.endTime /\ DOMAIN sum' = Fields
        /\ sum'.startTime = sum.startTime
    BY <2>2 DEF Only, Fields
  <2> QED
    BY <2>1, <2>2, <2>3, SameErrors DEF TotalsInv
<1> QED
  BY <1>2, <1>3, <1>4, <1>5 DEF Quiet

\* A case of the switch that leaves the times, the counters and the errors alone.
LEMMA EventKeeps ==
  ASSUME TotalsInv, NEW fs \in SUBSET {"enqueueTS", "tenantByJob", "perTenant", "startTS", "pickup",
                                       "perTenantPickup", "work", "e2e"},
         Only(sum, sum', fs)
  PROVE  /\ DOMAIN sum' = Fields /\ UNCHANGED <<sum.errors, sum.startTime, sum.endTime, sum.readable>>
         /\ \A c \in DOMAIN sum'.errors : sum'.errors[c] \in Nat
         /\ ErrorTotal' = ErrorTotal
BY DEF TotalsInv, Only, Fields, ErrorTotal

LEMMA AnswerTotals ==
  ASSUME FileInv, TotalsInv, NEW r \in Requests, Enqueued(r) \/ Rejected(r)
  PROVE  TotalsInv'
<1>1. /\ UNCHANGED <<phase, log, end, clean>> /\ phase = "open" /\ outcome[r] = "none"
      /\ \A q \in Requests : q # r => outcome'[q] = outcome[q]
      /\ outcome'[r] = IF Enqueued(r) THEN "enqueued" ELSE "failed"
  BY AnswerInv
<1>2. ~clean /\ DOMAIN sum = Fields
  BY <1>1 DEF FileInv, TotalsInv
<1>3. Written("failed")' = Written("failed")
  BY <1>1 DEF Written
<1>4. CASE Enqueued(r)
  <2>1. Only(sum, sum', {"enqueueTS", "tenantByJob", "perTenant"})
    BY <1>2, <1>4, Cases DEF Enqueued
  <2>2. /\ DOMAIN sum' = Fields /\ UNCHANGED <<sum.errors, sum.startTime, sum.endTime, sum.readable>>
        /\ \A c \in DOMAIN sum'.errors : sum'.errors[c] \in Nat
        /\ ErrorTotal' = ErrorTotal
    BY <2>1, EventKeeps
  <2>3. Answered("failed")' = Answered("failed")
    BY <1>1, <1>4 DEF Answered
  <2> QED
    BY <1>1, <1>2, <1>3, <2>2, <2>3 DEF TotalsInv
<1>5. CASE ~Enqueued(r)
  <2>1. sum' = OnFailed(sum, "")
    BY <1>5 DEF Rejected
  <2>2. /\ Only(sum, sum', {"errors"})
        /\ \A c \in DOMAIN sum'.errors : sum'.errors[c] \in Nat
        /\ ErrorTotal' = ErrorTotal + 1
    BY <2>1, FailureCounted
  <2>3. Answered("failed")' = Answered("failed") \cup {r} /\ r \notin Answered("failed")
    BY <1>1, <1>5 DEF Answered
  <2>4. IsFiniteSet(Answered("failed"))
    BY RunAssumption, FS_Subset DEF Answered
  <2>5. Cardinality(Answered("failed")') = Cardinality(Answered("failed")) + 1
        /\ Cardinality(Answered("failed")) \in Nat
    BY <2>3, <2>4, FS_AddElement, FS_CardinalityType
  <2>6. ErrorTotal = Written("failed") + Cardinality(Answered("failed")) /\ Written("failed") \in Nat
    BY WrittenType DEF TotalsInv
  <2>7. \A a, b \in Nat : (a + b) + 1 = a + (b + 1)
    OBVIOUS
  <2>8. ErrorTotal' = Written("failed")' + Cardinality(Answered("failed"))'
    BY <1>3, <2>2, <2>5, <2>6, <2>7
  <2>9. /\ DOMAIN sum' = Fields /\ sum'.startTime = sum.startTime /\ sum'.endTime = sum.endTime
        /\ sum'.readable = sum.readable
    BY <2>2 DEF Only, Fields
  <2> QED
    BY <1>1, <1>2, <2>2, <2>8, <2>9 DEF TotalsInv
<1> QED
  BY <1>4, <1>5

LEMMA WorkerTotals ==
  ASSUME FileInv, TotalsInv, NEW r \in Requests,
         Started(r) \/ Completed(r) \/ \E class \in Classes : Failed(r, class)
  PROVE  TotalsInv'
<1>1. PICK k \in {"started", "completed", "failed"} :
        \/ k = "started" /\ Started(r)
        \/ k = "completed" /\ Completed(r)
        \/ k = "failed" /\ \E class \in Classes : Failed(r, class)
  OBVIOUS
<1>2. /\ \/ k = "started" /\ Log!Started(r)
         \/ k \in {"completed", "failed"} /\ Log!Ended(r, k)
      /\ UNCHANGED <<now, tenant>>
  BY <1>1 DEF Started, Completed, Failed
<1>3. /\ UNCHANGED <<phase, outcome, end, clean>> /\ ~clean /\ phase # "new"
      /\ \A q \in Requests : q # r => log'[q] = log[q]
      /\ log'[r] = [log[r] EXCEPT ![k] = log[r][k] + 1]
  BY <1>2, WorkerInv
<1>4. Written("failed") \in Nat /\ Written("failed")' = Written("failed") + (IF k = "failed" THEN 1 ELSE 0)
  BY <1>3, WrittenChange
<1>5. Answered("failed")' = Answered("failed") /\ DOMAIN sum = Fields
  BY <1>3 DEF Answered, TotalsInv
<1>6. CASE k # "failed"
  <2>1. \/ Only(sum, sum', {"startTS", "pickup", "perTenantPickup"})
        \/ Only(sum, sum', {"perTenant", "work", "e2e"})
    <3>1. sum' = OnStarted(sum, now, r) \/ sum' = OnCompleted(sum, now, r, tenant[r])
      BY <1>1, <1>6 DEF Started, Completed
    <3>2. /\ Only(sum, OnStarted(sum, now, r), {"startTS", "pickup", "perTenantPickup"})
          /\ Only(sum, OnCompleted(sum, now, r, tenant[r]), {"perTenant", "work", "e2e"})
      BY <1>5, Cases
    <3> QED
      BY <3>1, <3>2
  <2>2. /\ DOMAIN sum' = Fields /\ UNCHANGED <<sum.errors, sum.startTime, sum.endTime, sum.readable>>
        /\ \A c \in DOMAIN sum'.errors : sum'.errors[c] \in Nat
        /\ ErrorTotal' = ErrorTotal
    BY <2>1, EventKeeps
  <2>3. Written("failed")' = Written("failed")
    BY <1>4, <1>6
  <2> QED
    BY <1>3, <1>5, <2>2, <2>3 DEF TotalsInv
<1>7. CASE k = "failed"
  <2>1. PICK class \in Classes : sum' = OnFailed(sum, class)
    BY <1>1, <1>7 DEF Failed
  <2>2. /\ Only(sum, sum', {"errors"})
        /\ \A c \in DOMAIN sum'.errors : sum'.errors[c] \in Nat
        /\ ErrorTotal' = ErrorTotal + 1
    BY <2>1, FailureCounted
  <2>3. ErrorTotal = Written("failed") + Cardinality(Answered("failed"))
    BY DEF TotalsInv
  <2>4. Cardinality(Answered("failed")) \in Nat
    <3>1. IsFiniteSet(Answered("failed"))
      BY RunAssumption, FS_Subset DEF Answered
    <3> QED
      BY <3>1, FS_CardinalityType
  <2>5. \A a, b \in Nat : (a + b) + 1 = (a + 1) + b
    OBVIOUS
  <2>6. Written("failed")' = Written("failed") + 1
    BY <1>4, <1>7
  <2>7. ErrorTotal' = Written("failed")' + Cardinality(Answered("failed"))'
    BY <1>4, <1>5, <2>2, <2>3, <2>4, <2>5, <2>6
  <2>8. /\ DOMAIN sum' = Fields /\ sum'.startTime = sum.startTime /\ sum'.endTime = sum.endTime
        /\ sum'.readable = sum.readable
    BY <2>2 DEF Only, Fields
  <2> QED
    BY <1>3, <2>2, <2>7, <2>8 DEF TotalsInv
<1> QED
  BY <1>6, <1>7

LEMMA NextTotals == FileInv /\ TotalsInv /\ [Next]_vars => FileInv' /\ TotalsInv'
<1> SUFFICES ASSUME FileInv, TotalsInv, [Next]_vars PROVE FileInv' /\ TotalsInv'
  OBVIOUS
<1>1. CASE Quiet
  BY <1>1, QuietInv, QuietTotals
<1>2. ASSUME NEW r \in Requests, Enqueued(r) \/ Rejected(r) PROVE FileInv' /\ TotalsInv'
  BY <1>2, AnswerInv, AnswerTotals
<1>3. ASSUME NEW r \in Requests, Started(r) \/ Completed(r) \/ \E class \in Classes : Failed(r, class)
      PROVE  FileInv' /\ TotalsInv'
  <2>1. FileInv'
    BY <1>3, WorkerInv DEF Started, Completed, Failed
  <2> QED
    BY <1>3, <2>1, WorkerTotals
<1> QED
  BY <1>1, <1>2, <1>3 DEF Next, Quiet

LEMMA SpecTotals == Spec => [](FileInv /\ TotalsInv)
BY InitFile, InitTotals, NextTotals, PTL DEF Spec

\* A file yields a summary exactly when it has its run_end and no broken line, and in a
\* clean run the counters of run_end, the completions, the accepted requests and the
\* error table agree with the events.
THEOREM TotalsAlwaysAgree == Spec => []TotalsAgree
<1>1. FileInv /\ TotalsInv => TotalsAgree
  <2> SUFFICES ASSUME FileInv, TotalsInv PROVE TotalsAgree
    OBVIOUS
  <2>1. Analyzed(sum) <=> end # Log!NoEnd /\ phase # "closed"
    BY DEF FileInv, TotalsInv, Analyzed
  <2>2. SumFunction([c \in Columns |-> Copies(c, sum.errors)]) = ErrorTotal
    BY DEF SumFunction, ErrorTotal
  <2>3. Cardinality({r \in Requests : outcome[r] = "failed"}) = Cardinality(Answered("failed"))
    BY DEF Answered
  <2> QED
    BY <2>1, <2>2, <2>3, TotalIsWritten, AcceptedType DEF TotalsAgree, TotalsInv
<1> QED
  BY <1>1, SpecTotals, PTL

----------------------------------------------------------------------------
(* The tenants                                                             *)

Counts(t) == IF t \in DOMAIN sum.perTenant THEN sum.perTenant[t] ELSE NewTenant
Mine(t) == {r \in Requests : tenant[r] = t /\ outcome[r] = "enqueued"}
Done(t) == {r \in Requests : tenant[r] = t /\ r \notin early /\ log[r].completed = 1}

\* A tenant is known once one of its requests is accepted; a completion that comes before
\* that is early.
SharesInv ==
  /\ early \subseteq {r \in Requests : log[r].completed = 1}
  /\ \A t \in Tenants :
       /\ t \in DOMAIN sum.perTenant <=> Mine(t) # {}
       /\ Counts(t) = [enqueued |-> Cardinality(Mine(t)), completed |-> Cardinality(Done(t))]

LEMMA InitShares == Init => SharesInv
<1> SUFFICES ASSUME Init PROVE SharesInv
  OBVIOUS
<1>1. sum.perTenant = NoMap /\ early = {}
  BY DEF Init, Fresh
<1>2. \A t : Mine(t) = {} /\ Done(t) = {}
  BY DEF Init, Log!Init, Mine, Done
<1>3. \A t : t \notin DOMAIN sum.perTenant /\ Counts(t) = NewTenant
  BY <1>1 DEF Counts, NoMap
<1> QED
  BY <1>1, <1>2, <1>3, FS_EmptySet DEF SharesInv, NewTenant

LEMMA SharesKept ==
  ASSUME SharesInv, sum'.perTenant = sum.perTenant, UNCHANGED <<tenant, early>>,
         \A r \in Requests : /\ outcome'[r] = "enqueued" <=> outcome[r] = "enqueued"
                             /\ log'[r].completed = log[r].completed
  PROVE  SharesInv'
<1>1. \A t : Mine(t)' = Mine(t)
  BY DEF Mine
<1>2. \A t : Done(t)' = Done(t)
  BY DEF Done
<1>3. \A t : Counts(t)' = Counts(t)
  BY DEF Counts
<1> QED
  BY <1>1, <1>2, <1>3 DEF SharesInv

LEMMA FiniteShares == \A t : IsFiniteSet(Mine(t)) /\ IsFiniteSet(Done(t))
BY RunAssumption, FS_Subset DEF Mine, Done

LEMMA EnqueuedShares ==
  ASSUME FileInv, TotalsInv, SharesInv, NEW r \in Requests, Enqueued(r)
  PROVE  SharesInv'
<1>1. /\ UNCHANGED <<log, tenant>> /\ outcome[r] = "none" /\ outcome'[r] = "enqueued"
      /\ \A q \in Requests : q # r => outcome'[q] = outcome[q]
  BY AnswerInv
<1>2. PICK t \in Tenants : t = tenant[r]
  BY DEF FileInv
<1>3. early' = early /\ sum' = OnEnqueued(sum, now, r, t)
  BY <1>2 DEF Enqueued
<1>4. sum'.perTenant = Put(sum.perTenant, t, [Counts(t) EXCEPT !.enqueued = @ + 1])
  BY <1>3 DEF OnEnqueued, Counts, TotalsInv, Fields
<1>5. \A u : Done(u)' = Done(u)
  BY <1>1, <1>3 DEF Done
<1>6. ASSUME NEW u \in Tenants, u # t
      PROVE  Mine(u)' = Mine(u) /\ Counts(u)' = Counts(u)
             /\ (u \in DOMAIN sum'.perTenant <=> u \in DOMAIN sum.perTenant)
  <2>1. Mine(u)' = Mine(u)
    BY <1>1, <1>2, <1>6 DEF Mine
  <2>2. /\ u \in DOMAIN sum'.perTenant <=> u \in DOMAIN sum.perTenant
        /\ u \in DOMAIN sum.perTenant => sum'.perTenant[u] = sum.perTenant[u]
    BY <1>4, <1>6 DEF Put
  <2> QED
    BY <2>1, <2>2 DEF Counts
<1>7. Mine(t)' = Mine(t) \cup {r} /\ r \notin Mine(t)
  BY <1>1, <1>2 DEF Mine
<1>8. Cardinality(Mine(t)') = Cardinality(Mine(t)) + 1
  BY <1>7, FiniteShares, FS_AddElement
<1>9. t \in DOMAIN sum'.perTenant /\ Counts(t)' = [Counts(t) EXCEPT !.enqueued = @ + 1]
  BY <1>4 DEF Put, Counts
<1>10. Counts(t)' = [enqueued |-> Cardinality(Mine(t)'), completed |-> Cardinality(Done(t)')]
  <2>1. Counts(t) = [enqueued |-> Cardinality(Mine(t)), completed |-> Cardinality(Done(t))]
    BY DEF SharesInv
  <2> QED
    BY <1>5, <1>8, <1>9, <2>1
<1>11. Mine(t)' # {}
  BY <1>7
<1>12. early' \subseteq {q \in Requests : log'[q].completed = 1}
  BY <1>1, <1>3 DEF SharesInv
<1>13. ASSUME NEW u \in Tenants
       PROVE  /\ u \in DOMAIN sum'.perTenant <=> Mine(u)' # {}
              /\ Counts(u)' = [enqueued |-> Cardinality(Mine(u)'),
                               completed |-> Cardinality(Done(u)')]
  <2>1. CASE u = t
    BY <1>9, <1>10, <1>11, <2>1
  <2>2. CASE u # t
    BY <1>5, <1>6, <2>2 DEF SharesInv
  <2> QED
    BY <2>1, <2>2
<1> QED
  BY <1>12, <1>13 DEF SharesInv

LEMMA CompletedShares ==
  ASSUME FileInv, TotalsInv, SharesInv, NEW r \in Requests, Completed(r)
  PROVE  SharesInv'
<1>1. /\ UNCHANGED <<outcome, tenant>> /\ log[r].completed = 0 /\ log'[r].completed = 1
      /\ \A q \in Requests : q # r => log'[q] = log[q]
  <2>1. /\ UNCHANGED <<outcome, tenant>> /\ log[r].completed = 0
        /\ log'[r] = [log[r] EXCEPT !.completed = log[r].completed + 1]
        /\ \A q \in Requests : q # r => log'[q] = log[q]
    BY WorkerInv DEF Completed
  <2>2. log[r] \in [started : Nat, completed : {0, 1}, failed : Nat]
    BY DEF FileInv
  <2>3. log[r].completed + 1 = 1
    BY <2>1
  <2> QED
    BY <2>1, <2>2, <2>3
<1>2. PICK t \in Tenants : t = tenant[r]
  BY DEF FileInv
<1>3. sum' = OnCompleted(sum, now, r, t) /\ early' = IF Mine(t) # {} THEN early ELSE early \cup {r}
  BY <1>2 DEF Completed, Mine
<1>4. sum'.perTenant = IF t \in DOMAIN sum.perTenant
                       THEN [sum.perTenant EXCEPT ![t].completed = @ + 1] ELSE sum.perTenant
  <2> DEFINE P == IF t \in DOMAIN sum.perTenant
                  THEN [sum.perTenant EXCEPT ![t].completed = @ + 1] ELSE sum.perTenant
             u == [sum EXCEPT !.perTenant = P]
  <2>1. DOMAIN sum = Fields /\ DOMAIN u = Fields /\ u.perTenant = P
    BY DEF TotalsInv, Fields
  <2>2. sum' = IF Warm(sum, now) THEN u
               ELSE [u EXCEPT !.work = SampleSince(@, sum.startTS, r, now),
                              !.e2e = SampleSince(@, sum.enqueueTS, r, now)]
    BY <1>3 DEF OnCompleted
  <2> HIDE DEF u, P
  <2>3. sum'.perTenant = P
    BY <2>1, <2>2 DEF Fields
  <2> QED
    BY <2>3 DEF P
<1>5. \A u : Mine(u)' = Mine(u)
  BY <1>1 DEF Mine
<1>6. r \notin early /\ early' \subseteq {q \in Requests : log'[q].completed = 1}
  BY <1>1, <1>3 DEF SharesInv
<1>7. ASSUME NEW u \in Tenants, u # t
      PROVE  Done(u)' = Done(u) /\ Counts(u)' = Counts(u)
  <2>1. Done(u)' = Done(u)
    BY <1>1, <1>2, <1>3, <1>7 DEF Done
  <2>2. Counts(u)' = Counts(u)
    BY <1>4, <1>7 DEF Counts
  <2> QED
    BY <2>1, <2>2
<1>8. DOMAIN sum'.perTenant = DOMAIN sum.perTenant
  BY <1>4
<1>9. Counts(t)' = [enqueued |-> Cardinality(Mine(t)'), completed |-> Cardinality(Done(t)')]
  <2>1. /\ Counts(t) = [enqueued |-> Cardinality(Mine(t)), completed |-> Cardinality(Done(t))]
        /\ t \in DOMAIN sum.perTenant <=> Mine(t) # {}
    BY DEF SharesInv
  <2>2. CASE Mine(t) # {}
    <3>1. Done(t)' = Done(t) \cup {r} /\ r \notin Done(t)
      BY <1>1, <1>2, <1>3, <1>6, <2>2 DEF Done
    <3>2. Cardinality(Done(t)') = Cardinality(Done(t)) + 1
      BY <3>1, FiniteShares, FS_AddElement
    <3>3. Counts(t)' = [Counts(t) EXCEPT !.completed = @ + 1]
      BY <1>4, <2>1, <2>2 DEF Counts
    <3> QED
      BY <1>5, <2>1, <3>2, <3>3
  <2>3. CASE Mine(t) = {}
    <3>1. Done(t)' = Done(t)
      BY <1>1, <1>3, <2>3 DEF Done
    <3>2. Counts(t)' = Counts(t)
      BY <1>4, <2>1, <2>3 DEF Counts
    <3> QED
      BY <1>5, <2>1, <3>1, <3>2
  <2> QED
    BY <2>2, <2>3
<1>10. ASSUME NEW u \in Tenants
       PROVE  /\ u \in DOMAIN sum'.perTenant <=> Mine(u)' # {}
              /\ Counts(u)' = [enqueued |-> Cardinality(Mine(u)'),
                               completed |-> Cardinality(Done(u)')]
  <2>1. CASE u = t
    BY <1>5, <1>8, <1>9, <2>1 DEF SharesInv
  <2>2. CASE u # t
    BY <1>5, <1>7, <1>8, <2>2 DEF SharesInv
  <2> QED
    BY <2>1, <2>2
<1> QED
  BY <1>6, <1>10 DEF SharesInv

\* The parts of the cases that the samples are made of.
LEMMA StartedCase ==
  ASSUME NEW s, DOMAIN s = Fields, NEW at, NEW r
  PROVE  /\ OnStarted(s, at, r).startTS = Put(s.startTS, r, at)
         /\ Warm(s, at) \/ r \notin DOMAIN s.enqueueTS =>
              /\ OnStarted(s, at, r).pickup = s.pickup
              /\ OnStarted(s, at, r).perTenantPickup = s.perTenantPickup
         /\ ~Warm(s, at) /\ r \in DOMAIN s.enqueueTS =>
              /\ OnStarted(s, at, r).pickup = BagAdd(s.pickup, at - s.enqueueTS[r])
              /\ OnStarted(s, at, r).perTenantPickup =
                   [s.perTenantPickup EXCEPT ![s.tenantByJob[r]] =
                      BagAdd(s.perTenantPickup[s.tenantByJob[r]], at - s.enqueueTS[r])]
<1> USE DEF Fields
<1> DEFINE b == [s EXCEPT !.startTS = Put(@, r, at)]
<1>1. DOMAIN b = Fields /\ b.startTS = Put(s.startTS, r, at) /\ b.pickup = s.pickup
      /\ b.perTenantPickup = s.perTenantPickup
  OBVIOUS
<1>2. OnStarted(s, at, r) = IF Warm(s, at) \/ r \notin DOMAIN s.enqueueTS THEN b
        ELSE [b EXCEPT !.pickup = BagAdd(@, at - s.enqueueTS[r]),
                       !.perTenantPickup[s.tenantByJob[r]] = BagAdd(@, at - s.enqueueTS[r])]
  BY DEF OnStarted
<1> HIDE DEF b
<1>3. CASE Warm(s, at) \/ r \notin DOMAIN s.enqueueTS
  BY <1>1, <1>2, <1>3
<1>4. CASE ~(Warm(s, at) \/ r \notin DOMAIN s.enqueueTS)
  <2>1. OnStarted(s, at, r) = [b EXCEPT !.pickup = BagAdd(@, at - s.enqueueTS[r]),
                       !.perTenantPickup[s.tenantByJob[r]] = BagAdd(@, at - s.enqueueTS[r])]
    BY <1>2, <1>4
  <2>2. /\ OnStarted(s, at, r).startTS = b.startTS
        /\ OnStarted(s, at, r).pickup = BagAdd(b.pickup, at - s.enqueueTS[r])
        /\ OnStarted(s, at, r).perTenantPickup =
             [b.perTenantPickup EXCEPT ![s.tenantByJob[r]] =
                BagAdd(b.perTenantPickup[s.tenantByJob[r]], at - s.enqueueTS[r])]
    BY <1>1, <2>1
  <2> QED
    BY <1>1, <1>4, <2>2
<1> QED
  BY <1>3, <1>4

LEMMA StartedMaps ==
  ASSUME NEW s, DOMAIN s = Fields, NEW at, NEW r
  PROVE  /\ OnStarted(s, at, r).startTS = Put(s.startTS, r, at)
         /\ OnStarted(s, at, r).pickup =
              IF ~Warm(s, at) /\ r \in DOMAIN s.enqueueTS
              THEN BagAdd(s.pickup, at - s.enqueueTS[r]) ELSE s.pickup
<1> USE DEF Fields
<1>1. CASE ~Warm(s, at) /\ r \in DOMAIN s.enqueueTS
  <2>1. /\ OnStarted(s, at, r).startTS = Put(s.startTS, r, at)
        /\ OnStarted(s, at, r).pickup = BagAdd(s.pickup, at - s.enqueueTS[r])
    BY <1>1 DEF OnStarted
  <2> QED
    BY <1>1, <2>1
<1>2. CASE ~(~Warm(s, at) /\ r \in DOMAIN s.enqueueTS)
  <2>1. /\ OnStarted(s, at, r).startTS = Put(s.startTS, r, at)
        /\ OnStarted(s, at, r).pickup = s.pickup
    BY <1>2 DEF OnStarted
  <2> QED
    BY <1>2, <2>1
<1> QED
  BY <1>1, <1>2

LEMMA EnqueuedCase ==
  ASSUME NEW s, DOMAIN s = Fields, NEW at, NEW r, NEW t
  PROVE  /\ OnEnqueued(s, at, r, t).enqueueTS = Put(s.enqueueTS, r, at)
         /\ OnEnqueued(s, at, r, t).tenantByJob = Put(s.tenantByJob, r, t)
BY DEF OnEnqueued, Fields

LEMMA CompletedCase ==
  ASSUME NEW s, DOMAIN s = Fields, NEW at, NEW r, NEW t
  PROVE  /\ Warm(s, at) => /\ OnCompleted(s, at, r, t).work = s.work
                           /\ OnCompleted(s, at, r, t).e2e = s.e2e
         /\ ~Warm(s, at) =>
              /\ OnCompleted(s, at, r, t).work = SampleSince(s.work, s.startTS, r, at)
              /\ OnCompleted(s, at, r, t).e2e = SampleSince(s.e2e, s.enqueueTS, r, at)
BY DEF OnCompleted, Fields

Counted(B) == \A x \in DOMAIN B : B[x] \in Nat
Shared(x) == SumFunctionOnSet([t \in Tenants |-> Copies(x, sum.perTenantPickup[t])], Tenants)

\* A job whose enqueue is known has its tenant, and its pickup samples go to both bags.
PickupInv ==
  /\ DOMAIN sum.tenantByJob = DOMAIN sum.enqueueTS
  /\ \A r \in DOMAIN sum.tenantByJob : sum.tenantByJob[r] \in Tenants
  /\ DOMAIN sum.perTenantPickup = Tenants
  /\ Counted(sum.pickup) /\ \A t \in Tenants : Counted(sum.perTenantPickup[t])
  /\ \A x : Copies(x, sum.pickup) = Shared(x)

LEMMA InitPickup == Init => PickupInv
<1> SUFFICES ASSUME Init PROVE PickupInv
  OBVIOUS
<1>1. /\ sum.tenantByJob = NoMap /\ sum.enqueueTS = NoMap /\ sum.pickup = NoMap
      /\ sum.perTenantPickup = [t \in Tenants |-> NoMap]
  BY DEF Init, Fresh
<1>2. \A x : Copies(x, NoMap) = 0
  BY DEF Copies, NoMap
<1>3. ASSUME NEW x PROVE Shared(x) = 0
  <2> DEFINE F == [t \in Tenants |-> Copies(x, sum.perTenantPickup[t])]
  <2>1. \A t \in Tenants : F[t] = 0
    BY <1>1, <1>2
  <2>2. Shared(x) = SumFunctionOnSet(F, Tenants)
    BY DEF Shared
  <2> HIDE DEF F
  <2> QED
    BY <2>1, <2>2, TenantAssumption, SumZero
<1> QED
  BY <1>1, <1>2, <1>3 DEF PickupInv, Counted, NoMap

LEMMA PickupKept ==
  ASSUME PickupInv, UNCHANGED <<sum.tenantByJob, sum.enqueueTS, sum.pickup, sum.perTenantPickup>>
  PROVE  PickupInv'
<1>1. \A x : Shared(x)' = Shared(x)
  BY DEF Shared
<1> QED
  BY <1>1 DEF PickupInv

LEMMA StartedPickup ==
  ASSUME TotalsInv, PickupInv, NEW r \in Requests, Started(r)
  PROVE  PickupInv'
<1>1. sum' = OnStarted(sum, now, r) /\ DOMAIN sum = Fields
  BY DEF Started, TotalsInv
<1>2. Only(sum, sum', {"startTS", "pickup", "perTenantPickup"})
  BY <1>1, Cases
<1>3. UNCHANGED <<sum.tenantByJob, sum.enqueueTS>>
  BY <1>2 DEF Only, Fields
<1>4. CASE Warm(sum, now) \/ r \notin DOMAIN sum.enqueueTS
  <2>1. UNCHANGED <<sum.pickup, sum.perTenantPickup>>
    <3>1. sum' = [sum EXCEPT !.startTS = Put(@, r, now)]
      BY <1>1, <1>4 DEF OnStarted
    <3> QED
      BY <1>1, <3>1 DEF Fields
  <2> QED
    BY <1>3, <2>1, PickupKept
<1>5. CASE ~Warm(sum, now) /\ r \in DOMAIN sum.enqueueTS
  <2>1. PICK t \in Tenants : t = sum.tenantByJob[r]
    BY <1>5 DEF PickupInv
  <2>2. PICK d : d = now - sum.enqueueTS[r]
    OBVIOUS
  <2>3. /\ sum'.pickup = BagAdd(sum.pickup, d)
        /\ sum'.perTenantPickup =
             [sum.perTenantPickup EXCEPT ![t] = BagAdd(sum.perTenantPickup[t], d)]
    <3>1. /\ sum'.pickup = BagAdd(sum.pickup, now - sum.enqueueTS[r])
          /\ sum'.perTenantPickup =
               [sum.perTenantPickup EXCEPT ![sum.tenantByJob[r]] =
                  BagAdd(sum.perTenantPickup[sum.tenantByJob[r]], now - sum.enqueueTS[r])]
      BY <1>1, <1>5, StartedCase
    <3> QED
      BY <2>1, <2>2, <3>1
  <2>4. /\ Counted(sum.pickup) /\ \A u \in Tenants : Counted(sum.perTenantPickup[u])
        /\ DOMAIN sum.perTenantPickup = Tenants
    BY DEF PickupInv
  <2>5. \A B : Counted(B) => /\ Counted(BagAdd(B, d))
                             /\ \A y : /\ Copies(y, B) \in Nat
                                       /\ Copies(y, BagAdd(B, d)) =
                                            IF y = d THEN Copies(y, B) + 1 ELSE Copies(y, B)
    BY BagAddCopies DEF Counted
  <2>6. /\ \A u \in Tenants : u # t => sum'.perTenantPickup[u] = sum.perTenantPickup[u]
        /\ sum'.perTenantPickup[t] = BagAdd(sum.perTenantPickup[t], d)
        /\ DOMAIN sum'.perTenantPickup = Tenants
    BY <2>3, <2>4
  <2>7. Counted(sum'.pickup) /\ \A u \in Tenants : Counted(sum'.perTenantPickup[u])
    BY <2>3, <2>4, <2>5, <2>6
  <2>8. ASSUME NEW x PROVE Copies(x, sum'.pickup) = Shared(x)'
    <3> DEFINE F == [u \in Tenants |-> Copies(x, sum.perTenantPickup[u])]
               G == [u \in Tenants |-> Copies(x, sum'.perTenantPickup[u])]
    <3>1. Shared(x) = SumFunctionOnSet(F, Tenants) /\ Shared(x)' = SumFunctionOnSet(G, Tenants)
      BY DEF Shared
    <3>2. Copies(x, sum.pickup) = Shared(x)
      BY DEF PickupInv
    <3>3. CASE x = d
      <4>1. Copies(x, sum'.pickup) = Copies(x, sum.pickup) + 1
        BY <2>3, <2>4, <2>5, <3>3
      <4>2. \A u \in Tenants : F[u] \in Nat /\ G[u] = IF u = t THEN F[u] + 1 ELSE F[u]
        BY <2>4, <2>5, <2>6, <3>3
      <4> HIDE DEF F, G
      <4>3. SumFunctionOnSet(G, Tenants) = SumFunctionOnSet(F, Tenants) + 1
        BY <4>2, TenantAssumption, SumIncrement
      <4> QED
        BY <3>1, <3>2, <4>1, <4>3
    <3>4. CASE x # d
      <4>1. Copies(x, sum'.pickup) = Copies(x, sum.pickup)
        BY <2>3, <2>4, <2>5, <3>4
      <4>2. \A u \in Tenants : G[u] = F[u]
        BY <2>4, <2>5, <2>6, <3>4
      <4> HIDE DEF F, G
      <4>3. SumFunctionOnSet(G, Tenants) = SumFunctionOnSet(F, Tenants)
        BY <4>2, TenantAssumption, SumAgree
      <4> QED
        BY <3>1, <3>2, <4>1, <4>3
    <3> QED
      BY <3>3, <3>4
  <2> QED
    BY <1>3, <2>6, <2>7, <2>8 DEF PickupInv
<1> QED
  BY <1>4, <1>5

LEMMA EnqueuedPickup ==
  ASSUME FileInv, TotalsInv, PickupInv, NEW r \in Requests, Enqueued(r)
  PROVE  PickupInv'
<1>1. sum' = OnEnqueued(sum, now, r, tenant[r]) /\ DOMAIN sum = Fields /\ tenant[r] \in Tenants
  BY DEF Enqueued, TotalsInv, FileInv
<1>2. Only(sum, sum', {"enqueueTS", "tenantByJob", "perTenant"})
  BY <1>1, Cases
<1>3. UNCHANGED <<sum.pickup, sum.perTenantPickup>>
  BY <1>2 DEF Only, Fields
<1>4. sum'.enqueueTS = Put(sum.enqueueTS, r, now) /\ sum'.tenantByJob = Put(sum.tenantByJob, r, tenant[r])
  BY <1>1, EnqueuedCase
<1>5. /\ DOMAIN sum'.tenantByJob = DOMAIN sum'.enqueueTS
      /\ \A q \in DOMAIN sum'.tenantByJob : sum'.tenantByJob[q] \in Tenants
  BY <1>1, <1>4 DEF Put, PickupInv
<1>6. \A x : Shared(x)' = Shared(x)
  BY <1>3 DEF Shared
<1> QED
  BY <1>3, <1>5, <1>6 DEF PickupInv

\* Steps that leave the tenants and the samples alone.
LEMMA OtherStep ==
  ASSUME FileInv, TotalsInv,
         \/ Quiet
         \/ \E r \in Requests : Rejected(r) \/ \E class \in Classes : Failed(r, class)
  PROVE  /\ UNCHANGED <<tenant, early, file>>
         /\ \E fs \in SUBSET {"startTime", "endTime", "enqueued", "completed", "failed", "errors",
                              "maxGoroutines", "readable"} : Only(sum, sum', fs)
         /\ \A r \in Requests : /\ outcome'[r] = "enqueued" <=> outcome[r] = "enqueued"
                                /\ log'[r].completed = log[r].completed
<1>1. DOMAIN sum = Fields
  BY DEF TotalsInv
<1>2. CASE Quiet
  <2>1. UNCHANGED <<outcome, log, tenant, early, file>>
    BY <1>2, QuietFile
  <2>2. \E fs \in SUBSET {"startTime", "endTime", "enqueued", "completed", "failed", "errors",
                          "maxGoroutines", "readable"} : Only(sum, sum', fs)
    <3>1. CASE RunStart
      <4>1. Only(sum, sum', {"startTime"})
        BY <1>1, <3>1, Cases DEF RunStart
      <4> QED
        BY <4>1
    <3>2. CASE RunEnd
      <4>1. Only(sum, sum', {"endTime", "enqueued", "completed", "failed"})
        BY <1>1, <3>2, Cases DEF RunEnd
      <4> QED
        BY <4>1
    <3>3. CASE \E g \in Levels : Sampled(g)
      <4>1. Only(sum, sum', {"maxGoroutines"})
        BY <1>1, <3>3, Cases DEF Sampled
      <4> QED
        BY <4>1
    <3>4. CASE Tick \/ UNCHANGED vars
      <4>1. Only(sum, sum', {})
        BY <1>1, <3>4 DEF Tick, vars, Only
      <4> QED
        BY <4>1
    <3>5. CASE Break
      <4>1. Only(sum, sum', {"readable"})
        BY <1>1, <3>5, BrokenCase DEF Break
      <4> QED
        BY <4>1
    <3> QED
      BY <1>2, <3>1, <3>2, <3>3, <3>4, <3>5 DEF Quiet
  <2> QED
    BY <2>1, <2>2
<1>3. ASSUME NEW r \in Requests, Rejected(r) \/ \E class \in Classes : Failed(r, class)
      PROVE  /\ UNCHANGED <<tenant, early, file>>
             /\ Only(sum, sum', {"errors"})
             /\ \A q \in Requests : /\ outcome'[q] = "enqueued" <=> outcome[q] = "enqueued"
                                    /\ log'[q].completed = log[q].completed
  <2>1. UNCHANGED <<tenant, early, file>> /\ \E class : sum' = OnFailed(sum, class)
    BY <1>3 DEF Rejected, Failed, history
  <2>2. Only(sum, sum', {"errors"})
    BY <1>1, <2>1, Cases
  <2>3. CASE Rejected(r)
    <3>1. UNCHANGED log /\ outcome' = [outcome EXCEPT ![r] = "failed"] /\ outcome[r] = "none"
      BY <2>3 DEF Rejected, Log!Answer
    <3> QED
      BY <2>1, <2>2, <3>1 DEF FileInv
  <2>4. CASE \E class \in Classes : Failed(r, class)
    <3>1. /\ UNCHANGED outcome
          /\ \A q \in Requests : q # r => log'[q] = log[q]
          /\ log'[r] = [log[r] EXCEPT !.failed = log[r].failed + 1]
      BY <2>4, WorkerInv DEF Failed
    <3>2. log'[r].completed = log[r].completed
      BY <3>1 DEF FileInv
    <3> QED
      BY <2>1, <2>2, <3>1, <3>2
  <2> QED
    BY <1>3, <2>3, <2>4
<1> QED
  BY <1>2, <1>3

LEMMA StartedKeeps ==
  ASSUME FileInv, TotalsInv, NEW r \in Requests, Started(r)
  PROVE  /\ UNCHANGED <<tenant, early, outcome>> /\ UNCHANGED sum.perTenant
         /\ \A q \in Requests : log'[q].completed = log[q].completed
<1>1. /\ UNCHANGED <<outcome, tenant, early>>
      /\ \A q \in Requests : q # r => log'[q] = log[q]
      /\ log'[r] = [log[r] EXCEPT !.started = log[r].started + 1]
  BY WorkerInv DEF Started
<1>2. log'[r].completed = log[r].completed
  BY <1>1 DEF FileInv
<1>3. sum' = OnStarted(sum, now, r) /\ DOMAIN sum = Fields
  BY DEF Started, TotalsInv
<1>4. Only(sum, OnStarted(sum, now, r), {"startTS", "pickup", "perTenantPickup"})
  BY <1>3, Cases
<1>5. sum'.perTenant = sum.perTenant
  BY <1>3, <1>4 DEF Only, Fields
<1> QED
  BY <1>1, <1>2, <1>5

LEMMA NextTenants ==
  FileInv /\ TotalsInv /\ SharesInv /\ PickupInv /\ [Next]_vars => SharesInv' /\ PickupInv'
<1> SUFFICES ASSUME FileInv, TotalsInv, SharesInv, PickupInv, [Next]_vars
             PROVE  SharesInv' /\ PickupInv'
  OBVIOUS
<1>1. CASE \/ Quiet
           \/ \E r \in Requests : Rejected(r) \/ \E class \in Classes : Failed(r, class)
  <2>1. PICK fs \in SUBSET {"startTime", "endTime", "enqueued", "completed", "failed", "errors",
                            "maxGoroutines", "readable"} : Only(sum, sum', fs)
    BY <1>1, OtherStep
  <2>2. UNCHANGED <<sum.perTenant, sum.tenantByJob, sum.enqueueTS, sum.pickup, sum.perTenantPickup>>
    BY <2>1 DEF Only, Fields
  <2>3. SharesInv'
    BY <1>1, <2>2, OtherStep, SharesKept
  <2> QED
    BY <2>2, <2>3, PickupKept
<1>2. ASSUME NEW r \in Requests, Enqueued(r) PROVE SharesInv' /\ PickupInv'
  BY <1>2, EnqueuedShares, EnqueuedPickup
<1>3. ASSUME NEW r \in Requests, Started(r) PROVE SharesInv' /\ PickupInv'
  <2>1. SharesInv'
    BY <1>3, StartedKeeps, SharesKept
  <2> QED
    BY <1>3, <2>1, StartedPickup
<1>4. ASSUME NEW r \in Requests, Completed(r) PROVE SharesInv' /\ PickupInv'
  <2>1. sum' = OnCompleted(sum, now, r, tenant[r]) /\ DOMAIN sum = Fields
    BY <1>4 DEF Completed, TotalsInv
  <2>2. Only(sum, OnCompleted(sum, now, r, tenant[r]), {"perTenant", "work", "e2e"})
    BY <2>1, Cases
  <2>3. UNCHANGED <<sum.tenantByJob, sum.enqueueTS, sum.pickup, sum.perTenantPickup>>
    BY <2>1, <2>2 DEF Only, Fields
  <2> QED
    BY <1>4, <2>3, CompletedShares, PickupKept
<1> QED
  BY <1>1, <1>2, <1>3, <1>4 DEF Next, Quiet

LEMMA SpecTenants == Spec => [](SharesInv /\ PickupInv)
BY InitShares, InitPickup, NextTenants, SpecTotals, PTL DEF Spec

\* Every accepted request and every pickup sample belongs to one tenant, and so does every
\* completion, also one in the warm-up, except those recorded before the first
\* job_enqueued of their tenant.
THEOREM TenantsShareTheRun == Spec => []TenantsAddUp
<1>1. SharesInv /\ PickupInv => TenantsAddUp
  <2> SUFFICES ASSUME SharesInv, PickupInv PROVE TenantsAddUp
    OBVIOUS
  <2>1. ASSUME NEW t \in Tenants
        PROVE  /\ Counts(t).enqueued =
                    Cardinality({r \in {q \in Requests : tenant[q] = t} : outcome[r] = "enqueued"})
               /\ Counts(t).completed =
                    Cardinality({r \in {q \in Requests : tenant[q] = t} \ early : log[r].completed = 1})
    <3>1. Counts(t).enqueued = Cardinality(Mine(t)) /\ Counts(t).completed = Cardinality(Done(t))
      BY DEF SharesInv
    <3>2. Mine(t) = {r \in {q \in Requests : tenant[q] = t} : outcome[r] = "enqueued"}
      BY DEF Mine
    <3>3. Done(t) = {r \in {q \in Requests : tenant[q] = t} \ early : log[r].completed = 1}
      BY DEF Done
    <3> QED
      BY <3>1, <3>2, <3>3
  <2>2. ASSUME NEW x \in DOMAIN sum.pickup
        PROVE  sum.pickup[x] = SumFunction([t \in Tenants |-> Copies(x, sum.perTenantPickup[t])])
    <3>1. Copies(x, sum.pickup) = sum.pickup[x]
      BY DEF Copies
    <3>2. SumFunction([t \in Tenants |-> Copies(x, sum.perTenantPickup[t])]) = Shared(x)
      BY DEF SumFunction, Shared
    <3> QED
      BY <3>1, <3>2 DEF PickupInv
  <2> QED
    BY <2>1, <2>2 DEF TenantsAddUp, Counts
<1> QED
  BY <1>1, SpecTenants, PTL

----------------------------------------------------------------------------
(* The samples                                                             *)

\* A set of naturals that is bounded and not empty has a largest member.
LEMMA MaxIsLargest ==
  ASSUME NEW m \in Nat, NEW S, S \subseteq 1..m, S # {}
  PROVE  Max(S) \in S /\ \A y \in S : Max(S) >= y
<1> DEFINE C == {k \in Nat : \E x \in S : k = m - x}
<1>1. C \subseteq Nat /\ C # {}
  <2>1. PICK x : x \in S
    OBVIOUS
  <2>2. m - x \in C
    BY <2>1
  <2> QED
    BY <2>2
<1>2. PICK k \in C : \A j \in C : k <= j
  <2> HIDE DEF C
  <2> QED
    BY <1>1, LeastNatural
<1>3. PICK x \in S : k = m - x
  OBVIOUS
<1>4. \A y \in S : x >= y
  <2>1. SUFFICES ASSUME NEW y \in S PROVE x >= y
    OBVIOUS
  <2>2. m - y \in C
    OBVIOUS
  <2>3. m - x <= m - y
    BY <1>2, <1>3, <2>2
  <2> QED
    BY <2>3
<1> QED
  BY <1>3, <1>4 DEF Max

LEMMA MaxIsLast ==
  ASSUME NEW m \in Nat, NEW S, S \subseteq 1..m
  PROVE  Max(S \cup {m + 1}) = m + 1
<1>1. S \cup {m + 1} \subseteq 1..(m + 1) /\ S \cup {m + 1} # {} /\ m + 1 \in Nat
  OBVIOUS
<1>2. Max(S \cup {m + 1}) \in S \cup {m + 1} /\ Max(S \cup {m + 1}) >= m + 1
  BY <1>1, MaxIsLargest
<1>3. \A x \in 1..(m + 1) : x >= m + 1 => x = m + 1
  OBVIOUS
<1> QED
  BY <1>1, <1>2, <1>3

\* How often the members of T have each value.
Tally(T, L) == [x \in {L[e] : e \in T} |-> Cardinality({e \in T : L[e] = x})]

LEMMA TallyAdd ==
  ASSUME NEW T, IsFiniteSet(T), NEW e, e \notin T, NEW L, NEW M, \A f \in T : M[f] = L[f]
  PROVE  Tally(T \cup {e}, M) = BagAdd(Tally(T, L), M[e])
<1> DEFINE At(x) == {f \in T : L[f] = x}
           New(x) == {f \in T \cup {e} : M[f] = x}
           A == {L[f] : f \in T}
           B == {M[f] : f \in T \cup {e}}
<1>1. B = A \cup {M[e]}
  OBVIOUS
<1>2. \A x : x # M[e] => New(x) = At(x)
  OBVIOUS
<1>3. New(M[e]) = At(M[e]) \cup {e} /\ e \notin At(M[e])
  OBVIOUS
<1>4. \A x : IsFiniteSet(At(x)) /\ (x \notin A => At(x) = {})
  BY FS_Subset
<1>5. Cardinality(New(M[e])) = Cardinality(At(M[e])) + 1
  <2> HIDE DEF At, New
  <2> QED
    BY <1>3, <1>4, FS_AddElement
<1>6. M[e] \notin A => Cardinality(New(M[e])) = 1
  <2> HIDE DEF At, New, A
  <2> QED
    BY <1>4, <1>5, FS_EmptySet
<1>7. /\ Tally(T, L) = [x \in A |-> Cardinality(At(x))]
      /\ Tally(T \cup {e}, M) = [x \in B |-> Cardinality(New(x))]
  BY DEF Tally
<1> HIDE DEF At, New, A, B
<1>8. CASE M[e] \in A
  <2>1. B = A
    BY <1>1, <1>8
  <2>2. BagAdd(Tally(T, L), M[e]) =
          [x \in A |-> IF x = M[e] THEN Cardinality(At(x)) + 1 ELSE Cardinality(At(x))]
    BY <1>7, <1>8 DEF BagAdd
  <2> QED
    BY <1>2, <1>5, <1>7, <2>1, <2>2
<1>9. CASE M[e] \notin A
  <2>1. BagAdd(Tally(T, L), M[e]) =
          [x \in A \cup {M[e]} |-> IF x = M[e] THEN 1 ELSE Cardinality(At(x))]
    BY <1>7, <1>9 DEF BagAdd
  <2> QED
    BY <1>1, <1>2, <1>6, <1>7, <1>9, <2>1
<1> QED
  BY <1>8, <1>9

\* The definitions behind SamplesAreTrue, for a file f and a start time s.
Kinds == {"enqueued", "started", "completed"}
Files == [Requests -> Seq([kind : Kinds, at : Nat])]
EventsIn(f) == UNION {{r} \X DOMAIN f[r] : r \in Requests}
SinceIn(f, r, i, k) == {j \in 1..(i - 1) : f[r][j].kind = k}
LatencyIn(f, e, from) == f[e[1]][e[2]].at - f[e[1]][Max(SinceIn(f, e[1], e[2], from))].at
TakenIn(f, s, of, from) ==
  {e \in EventsIn(f) : /\ f[e[1]][e[2]].kind = of
                       /\ f[e[1]][e[2]].at >= s + Warmup
                       /\ SinceIn(f, e[1], e[2], from) # {}}
MeasuredIn(f, s, of, from) ==
  Tally(TakenIn(f, s, of, from), [e \in TakenIn(f, s, of, from) |-> LatencyIn(f, e, from)])

LEMMA MeasuredIs ==
  \A of, from : Measured(of, from) = MeasuredIn(file, sum.startTime, of, from)
<1> SUFFICES ASSUME NEW of, NEW from
             PROVE  Measured(of, from) = MeasuredIn(file, sum.startTime, of, from)
  OBVIOUS
<1>1. Taken(of, from) = TakenIn(file, sum.startTime, of, from)
  BY DEF Taken, TakenIn, Events, EventsIn, Since, SinceIn
<1>2. \A e : Latency(e, from) = LatencyIn(file, e, from)
  BY DEF Latency, LatencyIn, Since, SinceIn
<1> DEFINE T == Taken(of, from)
           L == [e \in T |-> LatencyIn(file, e, from)]
<1>3. {Latency(e, from) : e \in T} = {L[e] : e \in T}
  BY <1>2
<1>4. \A x : {e \in T : Latency(e, from) = x} = {e \in T : L[e] = x}
  BY <1>2
<1>5. Measured(of, from) = Tally(T, L)
  BY <1>3, <1>4 DEF Measured, Tally
<1> QED
  BY <1>1, <1>5 DEF MeasuredIn

\* g is f with one more event, the n-th about r.
Grown(f, g, r, n, k, at) ==
  /\ n = Len(f[r]) + 1
  /\ g = [f EXCEPT ![r] = Append(@, [kind |-> k, at |-> at])]

OneMore(f, g, r, n, k, at) ==
  /\ g \in Files
  /\ \A q \in Requests : q # r => g[q] = f[q]
  /\ n \in Nat /\ n > 0 /\ Len(f[r]) = n - 1 /\ Len(g[r]) = n
  /\ \A i \in 1..(n - 1) : g[r][i] = f[r][i]
  /\ g[r][n] = [kind |-> k, at |-> at]

LEMMA GrownFile ==
  ASSUME NEW f \in Files, NEW g, NEW r \in Requests, NEW n, NEW k \in Kinds, NEW at \in Nat,
         Grown(f, g, r, n, k, at)
  PROVE  OneMore(f, g, r, n, k, at)
<1> DEFINE ev == [kind |-> k, at |-> at]
<1>1. f[r] \in Seq([kind : Kinds, at : Nat]) /\ ev \in [kind : Kinds, at : Nat]
  BY DEF Files
<1>2. g[r] = Append(f[r], ev) /\ \A q \in Requests : q # r => g[q] = f[q]
  BY DEF Grown, Files
<1>3. g \in Files
  <2>1. Append(f[r], ev) \in Seq([kind : Kinds, at : Nat])
    BY <1>1
  <2> HIDE DEF ev
  <2> QED
    BY <1>1, <1>2, <2>1 DEF Files, Grown, ev
<1> HIDE DEF ev
<1>4. n \in Nat /\ n > 0 /\ Len(f[r]) = n - 1
  BY <1>1 DEF Grown
<1>5. Len(g[r]) = n /\ g[r][n] = ev /\ \A i \in 1..(n - 1) : g[r][i] = f[r][i]
  BY <1>1, <1>2, <1>4
<1> QED
  BY <1>2, <1>3, <1>4, <1>5 DEF ev, OneMore

SinceMore(f, g, r, n, k, j) ==
  /\ \A q \in Requests : \A i \in 1..(Len(f[q]) + 1) : SinceIn(g, q, i, j) = SinceIn(f, q, i, j)
  /\ \A q \in Requests : q # r => SinceIn(g, q, Len(g[q]) + 1, j) = SinceIn(f, q, Len(f[q]) + 1, j)
  /\ SinceIn(g, r, n + 1, j) = IF j = k THEN SinceIn(f, r, n, j) \cup {n} ELSE SinceIn(f, r, n, j)
  /\ SinceIn(f, r, n, j) \subseteq 1..(n - 1)

LEMMA GrownSince ==
  ASSUME NEW f \in Files, NEW g, NEW r \in Requests, NEW n, NEW k \in Kinds, NEW at \in Nat,
         Grown(f, g, r, n, k, at), NEW j \in Kinds
  PROVE  SinceMore(f, g, r, n, k, j)
<1>1. /\ \A q \in Requests : q # r => g[q] = f[q]
      /\ n \in Nat /\ n > 0 /\ Len(f[r]) = n - 1
      /\ \A i \in 1..(n - 1) : g[r][i] = f[r][i]
      /\ g[r][n] = [kind |-> k, at |-> at]
  <2>1. OneMore(f, g, r, n, k, at)
    BY GrownFile
  <2> QED
    BY <2>1 DEF OneMore
<1>2. \A q \in Requests : Len(f[q]) \in Nat
  BY DEF Files
<1>3. ASSUME NEW q \in Requests, NEW i \in 1..(Len(f[q]) + 1)
      PROVE  SinceIn(g, q, i, j) = SinceIn(f, q, i, j)
  <2>1. CASE q = r
    <3>1. \A l \in 1..(i - 1) : l \in 1..(n - 1)
      BY <1>1, <1>2, <2>1
    <3> QED
      BY <1>1, <2>1, <3>1 DEF SinceIn
  <2>2. CASE q # r
    BY <1>1, <2>2 DEF SinceIn
  <2> QED
    BY <2>1, <2>2
<1>4. \A q \in Requests : q # r => SinceIn(g, q, Len(g[q]) + 1, j) = SinceIn(f, q, Len(f[q]) + 1, j)
  BY <1>1 DEF SinceIn
<1>5. SinceIn(g, r, n + 1, j) = IF j = k THEN SinceIn(f, r, n, j) \cup {n} ELSE SinceIn(f, r, n, j)
  <2>1. 1..((n + 1) - 1) = (1..(n - 1)) \cup {n} /\ n \notin 1..(n - 1)
    BY <1>1
  <2>2. \A l \in 1..(n - 1) : g[r][l].kind = f[r][l].kind
    BY <1>1
  <2>3. g[r][n].kind = k
    BY <1>1
  <2> QED
    BY <2>1, <2>2, <2>3 DEF SinceIn
<1>6. SinceIn(f, r, n, j) \subseteq 1..(n - 1)
  BY DEF SinceIn
<1> QED
  BY <1>3, <1>4, <1>5, <1>6 DEF SinceMore

\* m holds the time of the last event of kind k about each job that has one.
TracksIn(f, m, k) ==
  \A q \in Requests :
    LET S == SinceIn(f, q, Len(f[q]) + 1, k) IN
    /\ q \in DOMAIN m <=> S # {}
    /\ q \in DOMAIN m => m[q] = f[q][Max(S)].at

LEMMA GrownTracks ==
  ASSUME NEW f \in Files, NEW g, NEW r \in Requests, NEW n, NEW k \in Kinds, NEW at \in Nat,
         Grown(f, g, r, n, k, at), NEW m, NEW j \in Kinds, TracksIn(f, m, j)
  PROVE  /\ j # k => TracksIn(g, m, j)
         /\ j = k => TracksIn(g, Put(m, r, at), j)
<1> DEFINE S(q) == SinceIn(f, q, Len(f[q]) + 1, j)
           U(q) == SinceIn(g, q, Len(g[q]) + 1, j)
<1>1. /\ \A q \in Requests : q # r => g[q] = f[q]
      /\ n \in Nat /\ n > 0 /\ Len(f[r]) + 1 = n /\ Len(g[r]) + 1 = n + 1
      /\ \A i \in 1..(n - 1) : g[r][i] = f[r][i]
      /\ g[r][n] = [kind |-> k, at |-> at]
  <2>1. n \in Nat /\ Len(f[r]) = n - 1 /\ Len(g[r]) = n
    <3>1. OneMore(f, g, r, n, k, at)
      BY GrownFile
    <3> QED
      BY <3>1 DEF OneMore
  <2>2. Len(f[r]) + 1 = n /\ Len(g[r]) + 1 = n + 1
    BY <2>1
  <2>3. /\ \A q \in Requests : q # r => g[q] = f[q]
        /\ n > 0 /\ g[r][n] = [kind |-> k, at |-> at]
        /\ \A i \in 1..(n - 1) : g[r][i] = f[r][i]
    <3>1. OneMore(f, g, r, n, k, at)
      BY GrownFile
    <3> QED
      BY <3>1 DEF OneMore
  <2> QED
    BY <2>1, <2>2, <2>3
<1>2. /\ \A q \in Requests : q # r => U(q) = S(q)
      /\ U(r) = IF j = k THEN S(r) \cup {n} ELSE S(r)
      /\ S(r) \subseteq 1..(n - 1)
  <2>1. /\ \A q \in Requests : q # r => U(q) = S(q)
        /\ SinceIn(g, r, n + 1, j) = IF j = k THEN SinceIn(f, r, n, j) \cup {n}
                                     ELSE SinceIn(f, r, n, j)
        /\ SinceIn(f, r, n, j) \subseteq 1..(n - 1)
    <3>1. SinceMore(f, g, r, n, k, j)
      BY GrownSince
    <3> QED
      BY <3>1 DEF SinceMore
  <2>2. S(r) = SinceIn(f, r, n, j) /\ U(r) = SinceIn(g, r, n + 1, j)
    BY <1>1
  <2> QED
    BY <2>1, <2>2
<1>3. \A q \in Requests : /\ q \in DOMAIN m <=> S(q) # {}
                          /\ q \in DOMAIN m => m[q] = f[q][Max(S(q))].at
  BY DEF TracksIn
<1> HIDE DEF S, U
<1>4. ASSUME j # k PROVE TracksIn(g, m, j)
  <2>1. \A q \in Requests : U(q) = S(q)
    BY <1>2, <1>4
  <2>2. r \in DOMAIN m => g[r][Max(S(r))] = f[r][Max(S(r))]
    <3>1. S(r) # {} => Max(S(r)) \in S(r)
      BY <1>1, <1>2, MaxIsLargest
    <3> QED
      BY <1>1, <1>2, <1>3, <3>1
  <2>3. \A q \in Requests : /\ q \in DOMAIN m <=> U(q) # {}
                            /\ q \in DOMAIN m => m[q] = g[q][Max(U(q))].at
    BY <1>1, <1>3, <2>1, <2>2
  <2> QED
    BY <2>3 DEF TracksIn, U
<1>5. ASSUME j = k PROVE TracksIn(g, Put(m, r, at), j)
  <2>1. U(r) = S(r) \cup {n} /\ (n - 1) + 1 = n /\ n - 1 \in Nat
    BY <1>1, <1>2, <1>5
  <2>2. Max(U(r)) = n
    <3>1. Max(S(r) \cup {(n - 1) + 1}) = (n - 1) + 1
      BY <1>2, <2>1, MaxIsLast
    <3> QED
      BY <2>1, <3>1
  <2>3. /\ DOMAIN Put(m, r, at) = DOMAIN m \cup {r}
        /\ Put(m, r, at)[r] = at
        /\ \A q \in DOMAIN m : q # r => Put(m, r, at)[q] = m[q]
    BY DEF Put
  <2>4. g[r][Max(U(r))].at = at
    BY <1>1, <2>2
  <2>5. ASSUME NEW q \in Requests
        PROVE  /\ q \in DOMAIN Put(m, r, at) <=> U(q) # {}
               /\ q \in DOMAIN Put(m, r, at) => Put(m, r, at)[q] = g[q][Max(U(q))].at
    <3>1. CASE q = r
      BY <2>1, <2>3, <2>4, <3>1
    <3>2. CASE q # r
      BY <1>1, <1>2, <1>3, <2>3, <3>2
    <3> QED
      BY <3>1, <3>2
  <2> QED
    BY <2>5 DEF TracksIn, U
<1> QED
  BY <1>4, <1>5

LEMMA EventsMembers ==
  ASSUME NEW f, NEW e
  PROVE  e \in EventsIn(f) <=> \E q \in Requests : \E i \in DOMAIN f[q] : e = <<q, i>>
<1>1. e \in EventsIn(f) <=> \E q \in Requests : e \in {q} \X DOMAIN f[q]
  BY DEF EventsIn
<1>2. \A q : e \in {q} \X DOMAIN f[q] <=> \E i \in DOMAIN f[q] : e = <<q, i>>
  OBVIOUS
<1> QED
  BY <1>1, <1>2

LEMMA GrownEvents ==
  ASSUME NEW f \in Files, NEW g, NEW r \in Requests, NEW n, NEW k \in Kinds, NEW at \in Nat,
         Grown(f, g, r, n, k, at)
  PROVE  /\ EventsIn(g) = EventsIn(f) \cup {<<r, n>>} /\ <<r, n>> \notin EventsIn(f)
         /\ \A e \in EventsIn(f) : e[1] \in Requests /\ e[2] \in 1..Len(f[e[1]])
<1>1. /\ \A q \in Requests : q # r => g[q] = f[q]
      /\ n \in Nat /\ n > 0 /\ Len(f[r]) = n - 1 /\ Len(g[r]) = n /\ g \in Files
  <2>1. OneMore(f, g, r, n, k, at)
    BY GrownFile
  <2> QED
    BY <2>1 DEF OneMore
<1>2. \A q \in Requests : DOMAIN f[q] = 1..Len(f[q]) /\ DOMAIN g[q] = 1..Len(g[q])
  BY <1>1 DEF Files
<1>3. DOMAIN g[r] = DOMAIN f[r] \cup {n} /\ n \notin DOMAIN f[r]
  <2>1. 1..n = (1..(n - 1)) \cup {n} /\ n \notin 1..(n - 1)
    BY <1>1
  <2> QED
    BY <1>1, <1>2, <2>1
<1>4. \A e : e \in EventsIn(f) <=> \E q \in Requests : \E i \in DOMAIN f[q] : e = <<q, i>>
  BY EventsMembers
<1>5. \A e : e \in EventsIn(g) <=> \E q \in Requests : \E i \in DOMAIN g[q] : e = <<q, i>>
  BY EventsMembers
<1>6. EventsIn(g) = EventsIn(f) \cup {<<r, n>>}
  <2>1. ASSUME NEW e \in EventsIn(g) PROVE e \in EventsIn(f) \cup {<<r, n>>}
    <3>1. PICK q \in Requests : \E i \in DOMAIN g[q] : e = <<q, i>>
      BY <1>5
    <3>2. PICK i \in DOMAIN g[q] : e = <<q, i>>
      BY <3>1
    <3> QED
      BY <1>1, <1>3, <1>4, <3>2
  <2>2. ASSUME NEW e \in EventsIn(f) PROVE e \in EventsIn(g)
    <3>1. PICK q \in Requests : \E i \in DOMAIN f[q] : e = <<q, i>>
      BY <1>4
    <3>2. PICK i \in DOMAIN f[q] : e = <<q, i>>
      BY <3>1
    <3>3. i \in DOMAIN g[q]
      BY <1>1, <1>3
    <3> QED
      BY <1>5, <3>2, <3>3
  <2>3. <<r, n>> \in EventsIn(g)
    BY <1>3, <1>5
  <2> QED
    BY <2>1, <2>2, <2>3
<1>7. <<r, n>> \notin EventsIn(f)
  <2>1. \A q, i : <<q, i>> = <<r, n>> => q = r /\ i = n
    OBVIOUS
  <2> QED
    BY <1>3, <1>4, <2>1
<1>8. \A e \in EventsIn(f) : e[1] \in Requests /\ e[2] \in 1..Len(f[e[1]])
  <2>1. SUFFICES ASSUME NEW e \in EventsIn(f) PROVE e[1] \in Requests /\ e[2] \in 1..Len(f[e[1]])
    OBVIOUS
  <2>2. PICK q \in Requests : \E i \in DOMAIN f[q] : e = <<q, i>>
    BY <1>4
  <2> QED
    BY <1>2, <2>2
<1> QED
  BY <1>6, <1>7, <1>8

\* The sample that the n-th event about r adds, if it is one of those measured.
MeasuredMore(f, g, r, n, k, at, s, of, from) ==
  /\ IsFiniteSet(TakenIn(g, s, of, from))
  /\ MeasuredIn(g, s, of, from) =
       IF k = of /\ at >= s + Warmup /\ SinceIn(f, r, n, from) # {}
       THEN BagAdd(MeasuredIn(f, s, of, from), at - f[r][Max(SinceIn(f, r, n, from))].at)
       ELSE MeasuredIn(f, s, of, from)

LEMMA GrownMeasured ==
  ASSUME NEW f \in Files, NEW g, NEW r \in Requests, NEW n, NEW k \in Kinds, NEW at \in Nat,
         Grown(f, g, r, n, k, at), NEW s \in Int, NEW of \in Kinds, NEW from \in Kinds,
         IsFiniteSet(TakenIn(f, s, of, from))
  PROVE  MeasuredMore(f, g, r, n, k, at, s, of, from)
<1> DEFINE T == TakenIn(f, s, of, from)
           V == TakenIn(g, s, of, from)
           L == [e \in T |-> LatencyIn(f, e, from)]
           M == [e \in V |-> LatencyIn(g, e, from)]
           new == <<r, n>>
           here == k = of /\ at >= s + Warmup /\ SinceIn(f, r, n, from) # {}
<1>1. /\ \A q \in Requests : q # r => g[q] = f[q]
      /\ n \in Nat /\ n > 0 /\ Len(f[r]) = n - 1
      /\ \A i \in 1..(n - 1) : g[r][i] = f[r][i]
      /\ g[r][n] = [kind |-> k, at |-> at]
  <2>1. OneMore(f, g, r, n, k, at)
    BY GrownFile
  <2> QED
    BY <2>1 DEF OneMore
<1>2. /\ \A q \in Requests : \A i \in 1..(Len(f[q]) + 1) : SinceIn(g, q, i, from) = SinceIn(f, q, i, from)
      /\ SinceIn(f, r, n, from) \subseteq 1..(n - 1)
  <2>1. SinceMore(f, g, r, n, k, from)
    BY GrownSince
  <2> QED
    BY <2>1 DEF SinceMore
<1>3. /\ EventsIn(g) = EventsIn(f) \cup {new} /\ new \notin EventsIn(f)
      /\ \A e \in EventsIn(f) : e[1] \in Requests /\ e[2] \in 1..Len(f[e[1]])
  BY GrownEvents
<1>4. \A q \in Requests : Len(f[q]) \in Nat
  BY DEF Files
<1>5. ASSUME NEW e \in EventsIn(f)
      PROVE  /\ g[e[1]][e[2]] = f[e[1]][e[2]]
             /\ SinceIn(g, e[1], e[2], from) = SinceIn(f, e[1], e[2], from)
             /\ SinceIn(f, e[1], e[2], from) # {} => LatencyIn(g, e, from) = LatencyIn(f, e, from)
  <2>1. PICK q \in Requests : q = e[1]
    BY <1>3
  <2>2. PICK i \in 1..Len(f[q]) : i = e[2]
    BY <1>3, <2>1
  <2>3. \A l \in 1..Len(f[q]) : g[q][l] = f[q][l]
    BY <1>1
  <2>4. SinceIn(g, q, i, from) = SinceIn(f, q, i, from)
    <3>1. i \in 1..(Len(f[q]) + 1)
      BY <1>4
    <3> QED
      BY <1>2, <3>1
  <2>5. SinceIn(f, q, i, from) # {} =>
          /\ Max(SinceIn(f, q, i, from)) \in 1..Len(f[q])
    <3>1. SinceIn(f, q, i, from) \subseteq 1..Len(f[q])
      BY <1>4 DEF SinceIn
    <3> QED
      BY <1>4, <3>1, MaxIsLargest
  <2>6. SinceIn(f, q, i, from) # {} =>
          g[q][Max(SinceIn(g, q, i, from))] = f[q][Max(SinceIn(f, q, i, from))]
    BY <2>3, <2>4, <2>5
  <2> QED
    BY <2>1, <2>2, <2>3, <2>4, <2>6 DEF LatencyIn
<1>6. new[1] = r /\ new[2] = n /\ g[new[1]][new[2]] = [kind |-> k, at |-> at]
  BY <1>1
<1>7. SinceIn(g, r, n, from) = SinceIn(f, r, n, from)
  <2>1. n \in 1..(Len(f[r]) + 1)
    BY <1>1
  <2> QED
    BY <1>2, <2>1
<1>8. /\ \A e \in EventsIn(f) : e \in V <=> e \in T
      /\ new \in V <=> here
      /\ V \subseteq EventsIn(f) \cup {new} /\ T \subseteq EventsIn(f)
  <2>1. \A e \in EventsIn(f) : e \in V <=> e \in T
    BY <1>3, <1>5 DEF TakenIn
  <2>2. new \in V <=> here
    <3>1. new \in EventsIn(g) /\ g[new[1]][new[2]].kind = k /\ g[new[1]][new[2]].at = at
      BY <1>3, <1>6
    <3>2. SinceIn(g, new[1], new[2], from) = SinceIn(f, r, n, from)
      BY <1>6, <1>7
    <3> HIDE DEF new
    <3> QED
      BY <3>1, <3>2 DEF TakenIn
  <2>3. V \subseteq EventsIn(f) \cup {new} /\ T \subseteq EventsIn(f)
    BY <1>3 DEF TakenIn
  <2> QED
    BY <2>1, <2>2, <2>3
<1>9. \A e \in T : e \in V /\ M[e] = L[e]
  <2>1. \A e \in T : e \in EventsIn(f) /\ SinceIn(f, e[1], e[2], from) # {}
    BY DEF TakenIn
  <2> QED
    BY <1>5, <1>8, <2>1
<1>10. MeasuredIn(f, s, of, from) = Tally(T, L) /\ MeasuredIn(g, s, of, from) = Tally(V, M)
  BY DEF MeasuredIn
<1>11. here => M[new] = at - f[r][Max(SinceIn(f, r, n, from))].at
  <2>1. SUFFICES ASSUME here PROVE M[new] = at - f[r][Max(SinceIn(f, r, n, from))].at
    OBVIOUS
  <2>2. M[new] = LatencyIn(g, new, from)
    BY <1>8, <2>1
  <2>3. LatencyIn(g, new, from) = g[r][n].at - g[r][Max(SinceIn(f, r, n, from))].at
    BY <1>6, <1>7 DEF LatencyIn
  <2>4. g[r][Max(SinceIn(f, r, n, from))] = f[r][Max(SinceIn(f, r, n, from))]
    <3>1. n - 1 \in Nat
      BY <1>1
    <3>2. Max(SinceIn(f, r, n, from)) \in 1..(n - 1)
      BY <1>2, <2>1, <3>1, MaxIsLargest
    <3> QED
      BY <1>1, <3>2
  <2> QED
    BY <1>1, <2>2, <2>3, <2>4
<1>12. IsFiniteSet(T) /\ new \notin T
  BY <1>3, <1>8
<1> HIDE DEF T, V, new
<1>13. CASE here
  <2>1. V = T \cup {new}
    BY <1>8, <1>13
  <2>2. IsFiniteSet(V)
    BY <1>12, <2>1, FS_AddElement
  <2>3. Tally(V, M) = BagAdd(Tally(T, L), M[new])
    <3> HIDE DEF L, M
    <3> QED
      BY <1>9, <1>12, <2>1, TallyAdd
  <2> QED
    BY <1>10, <1>11, <1>13, <2>2, <2>3 DEF V, MeasuredMore
<1>14. CASE ~here
  <2>1. V = T
    BY <1>8, <1>14
  <2>2. M = L
    BY <1>9, <2>1
  <2> QED
    BY <1>10, <1>12, <1>14, <2>1, <2>2 DEF V, MeasuredMore
<1> QED
  BY <1>13, <1>14

\* What analyzeReader remembers of the events is what the samples are measured from.
SampleInv ==
  /\ file \in Files
  /\ phase = "new" => EventsIn(file) = {}
  /\ sum.startTime \in Int
  /\ TracksIn(file, sum.enqueueTS, "enqueued") /\ TracksIn(file, sum.startTS, "started")
  /\ \A of, from \in Kinds : IsFiniteSet(TakenIn(file, sum.startTime, of, from))
  /\ sum.pickup = MeasuredIn(file, sum.startTime, "started", "enqueued")
  /\ sum.work = MeasuredIn(file, sum.startTime, "completed", "started")
  /\ sum.e2e = MeasuredIn(file, sum.startTime, "completed", "enqueued")

LEMMA NothingTaken ==
  ASSUME NEW f, EventsIn(f) = {}, NEW s, NEW of, NEW from
  PROVE  TakenIn(f, s, of, from) = {} /\ MeasuredIn(f, s, of, from) = NoMap
<1>1. TakenIn(f, s, of, from) = {}
  BY DEF TakenIn
<1>2. \A L : Tally({}, L) = NoMap
  BY DEF Tally, NoMap
<1> QED
  BY <1>1, <1>2 DEF MeasuredIn

LEMMA InitSamples == Init => SampleInv
<1> SUFFICES ASSUME Init PROVE SampleInv
  OBVIOUS
<1>1. /\ sum.startTime = None /\ sum.enqueueTS = NoMap /\ sum.startTS = NoMap
      /\ sum.pickup = NoMap /\ sum.work = NoMap /\ sum.e2e = NoMap
      /\ file = [r \in Requests |-> <<>>]
  BY DEF Init, Fresh
<1>2. file \in Files
  BY <1>1 DEF Files
<1>3. EventsIn(file) = {}
  <2>1. \A q \in Requests : DOMAIN file[q] = {}
    BY <1>1
  <2> QED
    BY <2>1, EventsMembers
<1>4. \A k : TracksIn(file, NoMap, k)
  <2>1. \A q \in Requests : Len(file[q]) + 1 = 1
    BY <1>1
  <2>2. \A q, k : SinceIn(file, q, 1, k) = {}
    BY DEF SinceIn
  <2> QED
    BY <2>1, <2>2 DEF TracksIn, NoMap
<1>5. \A of, from : /\ IsFiniteSet(TakenIn(file, sum.startTime, of, from))
                    /\ MeasuredIn(file, sum.startTime, of, from) = NoMap
  BY <1>3, NothingTaken, FS_EmptySet
<1> QED
  BY <1>1, <1>2, <1>3, <1>4, <1>5 DEF SampleInv, None

\* An event about r: what becomes of the bag of one kind of samples and of the memory.
LEMMA EventStep ==
  ASSUME FileInv, TotalsInv, SampleInv, phase \in {"open", "ended"},
         NEW r \in Requests, NEW k \in Kinds, Event(k, r), sum'.startTime = sum.startTime
  PROVE  /\ file' \in Files
         /\ \A of, from \in Kinds : IsFiniteSet(TakenIn(file', sum'.startTime, of, from))
         /\ \A m : \A j \in Kinds : TracksIn(file, m, j) =>
              /\ j # k => TracksIn(file', m, j)
              /\ j = k => TracksIn(file', Put(m, r, now), j)
         /\ \A m : \A of, from \in Kinds : TracksIn(file, m, from) =>
              MeasuredIn(file', sum'.startTime, of, from) =
                IF k = of /\ ~Warm(sum, now) /\ r \in DOMAIN m
                THEN BagAdd(MeasuredIn(file, sum.startTime, of, from), now - m[r])
                ELSE MeasuredIn(file, sum.startTime, of, from)
<1>1. PICK n : n = Len(file[r]) + 1
  OBVIOUS
<1>2. file \in Files /\ now \in Nat /\ sum.startTime \in Int
  BY DEF SampleInv, FileInv
<1>3. Grown(file, file', r, n, k, now)
  BY <1>1 DEF Grown, Event
<1>4. file' \in Files
  <2>1. OneMore(file, file', r, n, k, now)
    BY <1>2, <1>3, GrownFile
  <2> QED
    BY <2>1 DEF OneMore
<1>5. ~Warm(sum, now) <=> now >= sum.startTime + Warmup
  <2>1. sum.startTime # None
    BY DEF TotalsInv
  <2> QED
    BY <1>2, <2>1, TimeAssumption DEF Warm
<1>6. ASSUME NEW of \in Kinds, NEW from \in Kinds
      PROVE  /\ IsFiniteSet(TakenIn(file', sum.startTime, of, from))
             /\ MeasuredIn(file', sum.startTime, of, from) =
                  IF k = of /\ now >= sum.startTime + Warmup /\ SinceIn(file, r, n, from) # {}
                  THEN BagAdd(MeasuredIn(file, sum.startTime, of, from),
                              now - file[r][Max(SinceIn(file, r, n, from))].at)
                  ELSE MeasuredIn(file, sum.startTime, of, from)
  <2>1. IsFiniteSet(TakenIn(file, sum.startTime, of, from))
    BY DEF SampleInv
  <2>2. MeasuredMore(file, file', r, n, k, now, sum.startTime, of, from)
    BY <1>2, <1>3, <2>1, GrownMeasured
  <2> QED
    BY <2>2 DEF MeasuredMore
<1>7. ASSUME NEW m, NEW of \in Kinds, NEW from \in Kinds, TracksIn(file, m, from)
      PROVE  MeasuredIn(file', sum.startTime, of, from) =
                IF k = of /\ ~Warm(sum, now) /\ r \in DOMAIN m
                THEN BagAdd(MeasuredIn(file, sum.startTime, of, from), now - m[r])
                ELSE MeasuredIn(file, sum.startTime, of, from)
  <2>1. /\ r \in DOMAIN m <=> SinceIn(file, r, n, from) # {}
        /\ r \in DOMAIN m => m[r] = file[r][Max(SinceIn(file, r, n, from))].at
    BY <1>1, <1>7 DEF TracksIn
  <2>2. CASE k = of /\ ~Warm(sum, now) /\ r \in DOMAIN m
    BY <1>5, <1>6, <2>1, <2>2
  <2>3. CASE ~(k = of /\ ~Warm(sum, now) /\ r \in DOMAIN m)
    BY <1>5, <1>6, <2>1, <2>3
  <2> QED
    BY <2>2, <2>3
<1>8. \A m : \A j \in Kinds : TracksIn(file, m, j) =>
        /\ j # k => TracksIn(file', m, j)
        /\ j = k => TracksIn(file', Put(m, r, now), j)
  BY <1>2, <1>3, GrownTracks
<1> QED
  BY <1>4, <1>6, <1>7, <1>8

LEMMA SamplesKept ==
  ASSUME SampleInv, UNCHANGED file, phase' = "new" => phase = "new",
         UNCHANGED <<sum.enqueueTS, sum.startTS, sum.pickup, sum.work, sum.e2e>>,
         sum'.startTime = sum.startTime \/ (phase = "new" /\ sum'.startTime \in Int)
  PROVE  SampleInv'
<1>1. CASE sum'.startTime = sum.startTime
  BY <1>1 DEF SampleInv
<1>2. CASE phase = "new" /\ sum'.startTime \in Int
  <2>1. EventsIn(file) = {}
    BY <1>2 DEF SampleInv
  <2>2. \A s, of, from : TakenIn(file, s, of, from) = {} /\ MeasuredIn(file, s, of, from) = NoMap
    BY <2>1, NothingTaken
  <2> QED
    BY <1>2, <2>1, <2>2, FS_EmptySet DEF SampleInv
<1> QED
  BY <1>1, <1>2

LEMMA EnqueuedSamples ==
  ASSUME FileInv, TotalsInv, SampleInv, NEW r \in Requests, Enqueued(r)
  PROVE  SampleInv'
<1>1. /\ Event("enqueued", r) /\ sum' = OnEnqueued(sum, now, r, tenant[r]) /\ DOMAIN sum = Fields
      /\ phase = "open" /\ phase' = "open"
  BY DEF Enqueued, TotalsInv, Log!Answer
<1>2. Only(sum, OnEnqueued(sum, now, r, tenant[r]), {"enqueueTS", "tenantByJob", "perTenant"})
  BY <1>1, Cases
<1>3. UNCHANGED <<sum.startTime, sum.startTS, sum.pickup, sum.work, sum.e2e>>
  BY <1>1, <1>2 DEF Only, Fields
<1>4. sum'.enqueueTS = Put(sum.enqueueTS, r, now)
  BY <1>1, EnqueuedCase
<1>5. /\ "enqueued" \in Kinds /\ "started" \in Kinds /\ "completed" \in Kinds
  BY DEF Kinds
<1>6. /\ file' \in Files
      /\ \A of, from \in Kinds : IsFiniteSet(TakenIn(file', sum'.startTime, of, from))
      /\ \A m : \A j \in Kinds : TracksIn(file, m, j) =>
           /\ j # "enqueued" => TracksIn(file', m, j)
           /\ j = "enqueued" => TracksIn(file', Put(m, r, now), j)
      /\ \A m : \A of, from \in Kinds : TracksIn(file, m, from) /\ of # "enqueued" =>
           MeasuredIn(file', sum'.startTime, of, from) = MeasuredIn(file, sum.startTime, of, from)
  BY <1>1, <1>3, <1>5, EventStep
<1>7. TracksIn(file, sum.enqueueTS, "enqueued") /\ TracksIn(file, sum.startTS, "started")
  BY DEF SampleInv
<1>8. TracksIn(file', sum'.enqueueTS, "enqueued") /\ TracksIn(file', sum'.startTS, "started")
  BY <1>3, <1>4, <1>5, <1>6, <1>7
<1>9. /\ sum'.pickup = MeasuredIn(file', sum'.startTime, "started", "enqueued")
      /\ sum'.work = MeasuredIn(file', sum'.startTime, "completed", "started")
      /\ sum'.e2e = MeasuredIn(file', sum'.startTime, "completed", "enqueued")
  BY <1>3, <1>5, <1>6, <1>7 DEF SampleInv
<1> QED
  BY <1>1, <1>3, <1>6, <1>8, <1>9 DEF SampleInv

LEMMA StartedSamples ==
  ASSUME FileInv, TotalsInv, SampleInv, NEW r \in Requests, Started(r)
  PROVE  SampleInv'
<1>1. /\ Event("started", r) /\ sum' = OnStarted(sum, now, r) /\ DOMAIN sum = Fields
      /\ phase \in {"open", "ended"} /\ phase' = phase
  BY DEF Started, TotalsInv, Log!Started, Log!Writable
<1>2. Only(sum, OnStarted(sum, now, r), {"startTS", "pickup", "perTenantPickup"})
  BY <1>1, Cases
<1>3. UNCHANGED <<sum.startTime, sum.enqueueTS, sum.work, sum.e2e>>
  BY <1>1, <1>2 DEF Only, Fields
<1>4. sum'.startTS = Put(sum.startTS, r, now)
  BY <1>1, StartedMaps
<1>5. sum'.pickup = IF ~Warm(sum, now) /\ r \in DOMAIN sum.enqueueTS
                    THEN BagAdd(sum.pickup, now - sum.enqueueTS[r]) ELSE sum.pickup
  BY <1>1, StartedMaps
<1>6. /\ "enqueued" \in Kinds /\ "started" \in Kinds /\ "completed" \in Kinds
  BY DEF Kinds
<1>7. /\ file' \in Files
      /\ \A of, from \in Kinds : IsFiniteSet(TakenIn(file', sum'.startTime, of, from))
      /\ \A m : \A j \in Kinds : TracksIn(file, m, j) =>
           /\ j # "started" => TracksIn(file', m, j)
           /\ j = "started" => TracksIn(file', Put(m, r, now), j)
      /\ \A m : \A of, from \in Kinds : TracksIn(file, m, from) =>
           MeasuredIn(file', sum'.startTime, of, from) =
             IF "started" = of /\ ~Warm(sum, now) /\ r \in DOMAIN m
             THEN BagAdd(MeasuredIn(file, sum.startTime, of, from), now - m[r])
             ELSE MeasuredIn(file, sum.startTime, of, from)
  BY <1>1, <1>3, <1>6, EventStep
<1>8. TracksIn(file, sum.enqueueTS, "enqueued") /\ TracksIn(file, sum.startTS, "started")
  BY DEF SampleInv
<1>9. TracksIn(file', sum'.enqueueTS, "enqueued") /\ TracksIn(file', sum'.startTS, "started")
  BY <1>3, <1>4, <1>6, <1>7, <1>8
<1>10. /\ sum'.pickup = MeasuredIn(file', sum'.startTime, "started", "enqueued")
       /\ sum'.work = MeasuredIn(file', sum'.startTime, "completed", "started")
       /\ sum'.e2e = MeasuredIn(file', sum'.startTime, "completed", "enqueued")
  <2>1. MeasuredIn(file', sum'.startTime, "started", "enqueued") =
          IF ~Warm(sum, now) /\ r \in DOMAIN sum.enqueueTS
          THEN BagAdd(MeasuredIn(file, sum.startTime, "started", "enqueued"), now - sum.enqueueTS[r])
          ELSE MeasuredIn(file, sum.startTime, "started", "enqueued")
    BY <1>6, <1>7, <1>8
  <2>2. MeasuredIn(file', sum'.startTime, "completed", "started") =
          MeasuredIn(file, sum.startTime, "completed", "started")
    BY <1>6, <1>7, <1>8
  <2>3. MeasuredIn(file', sum'.startTime, "completed", "enqueued") =
          MeasuredIn(file, sum.startTime, "completed", "enqueued")
    BY <1>6, <1>7, <1>8
  <2>4. /\ sum.pickup = MeasuredIn(file, sum.startTime, "started", "enqueued")
        /\ sum.work = MeasuredIn(file, sum.startTime, "completed", "started")
        /\ sum.e2e = MeasuredIn(file, sum.startTime, "completed", "enqueued")
    BY DEF SampleInv
  <2> QED
    BY <1>3, <1>5, <2>1, <2>2, <2>3, <2>4
<1> QED
  BY <1>1, <1>3, <1>7, <1>9, <1>10 DEF SampleInv

LEMMA CompletedSamples ==
  ASSUME FileInv, TotalsInv, SampleInv, NEW r \in Requests, Completed(r)
  PROVE  SampleInv'
<1>1. /\ Event("completed", r) /\ sum' = OnCompleted(sum, now, r, tenant[r]) /\ DOMAIN sum = Fields
      /\ phase \in {"open", "ended"} /\ phase' = phase
  BY DEF Completed, TotalsInv, Log!Ended, Log!Writable
<1>2. Only(sum, OnCompleted(sum, now, r, tenant[r]), {"perTenant", "work", "e2e"})
  BY <1>1, Cases
<1>3. UNCHANGED <<sum.startTime, sum.enqueueTS, sum.startTS, sum.pickup>>
  BY <1>1, <1>2 DEF Only, Fields
<1>4. /\ sum'.work = IF ~Warm(sum, now) /\ r \in DOMAIN sum.startTS
                     THEN BagAdd(sum.work, now - sum.startTS[r]) ELSE sum.work
      /\ sum'.e2e = IF ~Warm(sum, now) /\ r \in DOMAIN sum.enqueueTS
                    THEN BagAdd(sum.e2e, now - sum.enqueueTS[r]) ELSE sum.e2e
  <2>1. CASE Warm(sum, now)
    BY <1>1, <2>1, CompletedCase
  <2>2. CASE ~Warm(sum, now)
    <3>1. /\ sum'.work = SampleSince(sum.work, sum.startTS, r, now)
          /\ sum'.e2e = SampleSince(sum.e2e, sum.enqueueTS, r, now)
      BY <1>1, <2>2, CompletedCase
    <3> QED
      BY <2>2, <3>1 DEF SampleSince
  <2> QED
    BY <2>1, <2>2
<1>5. /\ "enqueued" \in Kinds /\ "started" \in Kinds /\ "completed" \in Kinds
  BY DEF Kinds
<1>6. /\ file' \in Files
      /\ \A of, from \in Kinds : IsFiniteSet(TakenIn(file', sum'.startTime, of, from))
      /\ \A m : \A j \in Kinds : TracksIn(file, m, j) /\ j # "completed" => TracksIn(file', m, j)
      /\ \A m : \A of, from \in Kinds : TracksIn(file, m, from) =>
           MeasuredIn(file', sum'.startTime, of, from) =
             IF "completed" = of /\ ~Warm(sum, now) /\ r \in DOMAIN m
             THEN BagAdd(MeasuredIn(file, sum.startTime, of, from), now - m[r])
             ELSE MeasuredIn(file, sum.startTime, of, from)
  BY <1>1, <1>3, <1>5, EventStep
<1>7. TracksIn(file, sum.enqueueTS, "enqueued") /\ TracksIn(file, sum.startTS, "started")
  BY DEF SampleInv
<1>8. TracksIn(file', sum'.enqueueTS, "enqueued") /\ TracksIn(file', sum'.startTS, "started")
  BY <1>3, <1>5, <1>6, <1>7
<1>9. /\ sum'.pickup = MeasuredIn(file', sum'.startTime, "started", "enqueued")
      /\ sum'.work = MeasuredIn(file', sum'.startTime, "completed", "started")
      /\ sum'.e2e = MeasuredIn(file', sum'.startTime, "completed", "enqueued")
  <2>1. MeasuredIn(file', sum'.startTime, "completed", "started") =
          IF ~Warm(sum, now) /\ r \in DOMAIN sum.startTS
          THEN BagAdd(MeasuredIn(file, sum.startTime, "completed", "started"), now - sum.startTS[r])
          ELSE MeasuredIn(file, sum.startTime, "completed", "started")
    BY <1>5, <1>6, <1>7
  <2>2. MeasuredIn(file', sum'.startTime, "completed", "enqueued") =
          IF ~Warm(sum, now) /\ r \in DOMAIN sum.enqueueTS
          THEN BagAdd(MeasuredIn(file, sum.startTime, "completed", "enqueued"), now - sum.enqueueTS[r])
          ELSE MeasuredIn(file, sum.startTime, "completed", "enqueued")
    BY <1>5, <1>6, <1>7
  <2>3. MeasuredIn(file', sum'.startTime, "started", "enqueued") =
          MeasuredIn(file, sum.startTime, "started", "enqueued")
    BY <1>5, <1>6, <1>7
  <2>4. /\ sum.pickup = MeasuredIn(file, sum.startTime, "started", "enqueued")
        /\ sum.work = MeasuredIn(file, sum.startTime, "completed", "started")
        /\ sum.e2e = MeasuredIn(file, sum.startTime, "completed", "enqueued")
    BY DEF SampleInv
  <2> QED
    BY <1>3, <1>4, <2>1, <2>2, <2>3, <2>4
<1> QED
  BY <1>1, <1>3, <1>6, <1>8, <1>9 DEF SampleInv

LEMMA NextSamples == FileInv /\ TotalsInv /\ SampleInv /\ [Next]_vars => SampleInv'
<1> SUFFICES ASSUME FileInv, TotalsInv, SampleInv, [Next]_vars PROVE SampleInv'
  OBVIOUS
<1>1. CASE RunStart
  <2>1. /\ UNCHANGED file /\ phase = "new" /\ sum' = OnRunStart(sum, now) /\ DOMAIN sum = Fields
    BY <1>1 DEF RunStart, Log!RunStart, history, TotalsInv
  <2>2. Only(sum, OnRunStart(sum, now), {"startTime"}) /\ sum'.startTime = now
    BY <2>1, Cases
  <2>3. /\ UNCHANGED <<sum.enqueueTS, sum.startTS, sum.pickup, sum.work, sum.e2e>>
        /\ sum'.startTime \in Int
    BY <2>1, <2>2 DEF Only, Fields, FileInv
  <2> QED
    BY <2>1, <2>3, SamplesKept
<1>2. CASE /\ ~RunStart
           /\ \/ Quiet
              \/ \E r \in Requests : Rejected(r) \/ \E class \in Classes : Failed(r, class)
  <2>1. UNCHANGED file
    BY <1>2, OtherStep
  <2>2. phase' = "new" => phase = "new"
    BY <1>2 DEF Quiet, RunEnd, Break, Tick, Sampled, Rejected, Failed, Log!RunEnd,
                Log!RunEndWithError, Log!Close, Log!Answer, Log!Ended, vars, logVars
  <2>3. DOMAIN sum = Fields
    BY DEF TotalsInv
  <2>4. \/ sum' = sum \/ \E g : sum' = OnSample(sum, g) \/ \E c : sum' = OnFailed(sum, c)
        \/ \E c : sum' = OnRunEnd(sum, now, c)
        \/ sum' = OnBrokenLine(sum)
    BY <1>2 DEF Quiet, RunEnd, Break, Tick, Sampled, Rejected, Failed, vars
  <2>5. \E fs \in SUBSET {"endTime", "enqueued", "completed", "failed", "errors", "maxGoroutines",
                          "readable"} : Only(sum, sum', fs)
    <3>1. \/ Only(sum, sum', {}) \/ Only(sum, sum', {"maxGoroutines"}) \/ Only(sum, sum', {"errors"})
          \/ Only(sum, sum', {"endTime", "enqueued", "completed", "failed"})
          \/ Only(sum, sum', {"readable"})
      <4>1. CASE sum' = sum
        BY <2>3, <4>1 DEF Only
      <4>2. CASE \E g : sum' = OnSample(sum, g)
        BY <2>3, <4>2, Cases
      <4>3. CASE \E c : sum' = OnFailed(sum, c)
        BY <2>3, <4>3, Cases
      <4>4. CASE \E c : sum' = OnRunEnd(sum, now, c)
        BY <2>3, <4>4, Cases
      <4>5. CASE sum' = OnBrokenLine(sum)
        BY <2>3, <4>5, BrokenCase
      <4> QED
        BY <2>4, <4>1, <4>2, <4>3, <4>4, <4>5
    <3> QED
      BY <3>1
  <2>6. UNCHANGED <<sum.enqueueTS, sum.startTS, sum.pickup, sum.work, sum.e2e, sum.startTime>>
    BY <2>5 DEF Only, Fields
  <2> QED
    BY <2>1, <2>2, <2>6, SamplesKept
<1>3. ASSUME NEW r \in Requests, Enqueued(r) \/ Started(r) \/ Completed(r) PROVE SampleInv'
  BY <1>3, EnqueuedSamples, StartedSamples, CompletedSamples
<1> QED
  BY <1>1, <1>2, <1>3 DEF Next, Quiet

LEMMA SpecSamples == Spec => []SampleInv
BY InitSamples, NextSamples, SpecTotals, PTL DEF Spec

\* While no line is broken, the latency samples are those of the file, whatever overtook
\* what: a retry is measured from its own start as work and from the enqueue as pickup, a
\* start in the warm-up still counts for its work, and a start before its job_enqueued
\* yields no pickup sample.
THEOREM SamplesStayTrue == Spec => []SamplesAreTrue
<1>1. SampleInv => SamplesAreTrue
  BY MeasuredIs DEF SampleInv, SamplesAreTrue
<1> QED
  BY <1>1, SpecSamples, PTL
=============================================================================
