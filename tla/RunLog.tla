------------------------------- MODULE RunLog -------------------------------
(***************************************************************************)
(* What one run may write to its result file, with no word on how the run  *)
(* is organised: which events about a request may follow which, and what   *)
(* run_end promises about the rest of the file.  BenchRun implements this  *)
(* specification; Analyze reads the files it allows.                       *)
(***************************************************************************)
EXTENDS Integers, FiniteSetsExt

CONSTANTS
  Requests,     \* the requests of the run; a job is named by its request
  MaxAttempts

VARIABLES
  phase,    \* "new", "open" after run_start, "ended" after run_end, "closed"
  outcome,  \* outcome[r]: "none", job_"enqueued", or job_"failed" at the enqueue stage
  log,      \* log[r]: how many worker events of each kind there are about r
  end,      \* the counters of run_end
  clean     \* run_end was written after every worker function had returned

vars == <<phase, outcome, log, end, clean>>

NoEnd == [enqueued |-> -1, completed |-> -1, failed |-> -1]
NoCounters == [enqueued |-> -2, completed |-> -2, failed |-> -2]

Total(kind) == SumFunction([r \in Requests |-> log[r][kind]])
Accepted == Cardinality({r \in Requests : outcome[r] = "enqueued"})

\* An attempt at r has its job_started and not yet its outcome.
Running(r) == log[r].started > log[r].completed + log[r].failed
Busy == {r \in Requests : Running(r)}

Init ==
  /\ phase = "new"
  /\ outcome = [r \in Requests |-> "none"]
  /\ log = [r \in Requests |-> [started |-> 0, completed |-> 0, failed |-> 0]]
  /\ end = NoEnd
  /\ clean = FALSE

RunStart ==
  /\ phase = "new"
  /\ phase' = "open"
  /\ UNCHANGED <<outcome, log, end, clean>>

\* job_enqueued, or the job_failed of a refused Enqueue.
Answer(r, o) ==
  /\ phase = "open"
  /\ outcome[r] = "none"
  /\ outcome' = [outcome EXCEPT ![r] = o]
  /\ UNCHANGED <<phase, log, end, clean>>

\* Worker functions write before run_end, or after it when the run gave up waiting.
Writable == phase = "open" \/ (phase = "ended" /\ ~clean)

\* One attempt at a time, none after a completion.  A worker may be faster than
\* the goroutine that records job_enqueued, and a refused Enqueue may have
\* inserted its job all the same.
Started(r) ==
  /\ Writable
  /\ ~Running(r)
  /\ log[r].completed = 0
  /\ log[r].started < MaxAttempts
  /\ log' = [log EXCEPT ![r].started = @ + 1]
  /\ UNCHANGED <<phase, outcome, end, clean>>

\* job_completed or job_failed of a worker function.
Ended(r, kind) ==
  /\ Writable
  /\ Running(r)
  /\ log' = [log EXCEPT ![r][kind] = @ + 1]
  /\ UNCHANGED <<phase, outcome, end, clean>>

\* run_end: its counters are ahead of the events by outcomes that were counted
\* and not recorded yet.  A clean run has none: every worker function returned.
RunEnd(completed, failed) ==
  /\ phase = "open"
  /\ completed + failed <= Cardinality(Busy)
  /\ end' = [enqueued |-> Accepted,
             completed |-> Total("completed") + completed,
             failed |-> Total("failed") + failed]
  /\ clean' \in {FALSE, Busy = {}}
  /\ phase' = "ended"
  /\ UNCHANGED <<outcome, log>>

\* run_end of a run whose harness did not stop: no counters.
RunEndWithError ==
  /\ phase = "open"
  /\ end' = NoCounters
  /\ clean' = FALSE
  /\ phase' = "ended"
  /\ UNCHANGED <<outcome, log>>

\* The file is closed, in whatever state: also by a process that dies.
Close ==
  /\ phase # "closed"
  /\ phase' = "closed"
  /\ UNCHANGED <<outcome, log, end, clean>>

Next ==
  \/ RunStart \/ Close
  \/ \E r \in Requests :
       \/ Answer(r, "enqueued") \/ Answer(r, "failed")
       \/ Started(r) \/ Ended(r, "completed") \/ Ended(r, "failed")
  \/ \E completed, failed \in 0..Cardinality(Busy) : RunEnd(completed, failed)
  \/ RunEndWithError

Spec == Init /\ [][Next]_vars
=============================================================================
