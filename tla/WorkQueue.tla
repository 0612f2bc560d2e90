----------------------------- MODULE WorkQueue -----------------------------
(***************************************************************************)
(* What a work queue promises its users, with no word on how: a pushed row *)
(* is handed to one worker, once, and it leaves the queue only by the hand *)
(* of that worker.  A worker may lose the row it holds (its process dies,  *)
(* or the statement that should remove the row fails); a lost row stays in *)
(* the table, claimed, and is never handed out again.                      *)
(*                                                                         *)
(* PgStore implements this specification.                                  *)
(***************************************************************************)
CONSTANTS Workers, RowIds

VARIABLES
  ready,    \* rows that may be handed out
  held,     \* held[w]: the rows (at most one) worker w is responsible for
  stuck,    \* rows claimed by a worker that lost them
  done      \* rows whose worker removed them

vars == <<ready, held, stuck, done>>

Known == ready \cup (UNION {held[w] : w \in Workers}) \cup stuck \cup done

Init ==
  /\ ready = {}
  /\ held = [w \in Workers |-> {}]
  /\ stuck = {}
  /\ done = {}

\* The rows of one push, or of one committed transaction, appear together.
Push(S) ==
  /\ S \cap Known = {}
  /\ ready' = ready \cup S
  /\ UNCHANGED <<held, stuck, done>>

Pop(w, i) ==
  /\ held[w] = {}
  /\ i \in ready
  /\ ready' = ready \ {i}
  /\ held' = [held EXCEPT ![w] = {i}]
  /\ UNCHANGED <<stuck, done>>

Complete(w) ==
  /\ held[w] # {}
  /\ done' = done \cup held[w]
  /\ held' = [held EXCEPT ![w] = {}]
  /\ UNCHANGED <<ready, stuck>>

\* The workers W lose what they hold: one worker by a failed statement, all
\* of them when the process dies.
Lose(W) ==
  /\ stuck' = stuck \cup (UNION {held[w] : w \in W})
  /\ held' = [w \in Workers |-> IF w \in W THEN {} ELSE held[w]]
  /\ UNCHANGED <<ready, done>>

Next ==
  \/ \E S \in SUBSET RowIds : Push(S)
  \/ \E w \in Workers, i \in RowIds : Pop(w, i)
  \/ \E w \in Workers : Complete(w)
  \/ \E W \in SUBSET Workers : Lose(W)

Spec == Init /\ [][Next]_vars
=============================================================================
