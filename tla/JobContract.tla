---------------------------- MODULE JobContract ----------------------------
(***************************************************************************)
(* What a benchmark harness promises about a job, whatever library is      *)
(* behind it (queue.Harness, queue.WorkerFunc): a job is run one attempt   *)
(* at a time, every attempt at most once, a failed attempt is followed by  *)
(* the next one or by none, and there are at most MaxAttempts.             *)
(***************************************************************************)
EXTENDS Naturals

CONSTANTS Jobs, MaxAttempts

VARIABLES
  status,     \* status[j]: where job j is in its life
  attempt     \* attempt[j]: the attempt it is in, or ended in; 0 before

vars == <<status, attempt>>

Ended == {"succeeded", "failed", "lost"}

Init ==
  /\ status = [j \in Jobs |-> "absent"]
  /\ attempt = [j \in Jobs |-> 0]

Move(j, from, to) ==
  /\ status[j] = from
  /\ status' = [status EXCEPT ![j] = to]

\* One job, or a batch of them.
Submit(J) ==
  /\ \A j \in J : status[j] = "absent"
  /\ status' = [j \in Jobs |-> IF j \in J THEN "queued" ELSE status[j]]
  /\ attempt' = [j \in Jobs |-> IF j \in J THEN 1 ELSE attempt[j]]

Run(j) == Move(j, "queued", "running") /\ UNCHANGED attempt

Succeed(j) == Move(j, "running", "succeeded") /\ UNCHANGED attempt

\* A permanent error ends a job at any attempt, other errors at the last one.
Fail(j) == Move(j, "running", "failed") /\ UNCHANGED attempt

\* Another attempt is due.
Defer(j) ==
  /\ attempt[j] < MaxAttempts
  /\ Move(j, "running", "waiting")
  /\ UNCHANGED attempt

Requeue(j) ==
  /\ Move(j, "waiting", "queued")
  /\ attempt' = [attempt EXCEPT ![j] = @ + 1]

\* The jobs J are given up where they are: a shutdown or a failed re-enqueue
\* drops a due attempt, a crash takes every attempt that runs or is due.
Lose(J) ==
  /\ \A j \in J : status[j] \in {"running", "waiting"}
  /\ status' = [j \in Jobs |-> IF j \in J THEN "lost" ELSE status[j]]
  /\ UNCHANGED attempt

Next ==
  \/ \E j \in Jobs : Run(j) \/ Succeed(j) \/ Fail(j) \/ Defer(j) \/ Requeue(j)
  \/ \E J \in SUBSET Jobs : Submit(J) \/ Lose(J)

Spec == Init /\ [][Next]_vars
=============================================================================
