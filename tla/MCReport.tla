------------------------------ MODULE MCReport ------------------------------
(* Directories that Report is checked on.                                  *)
EXTENDS Report, SequencesExt, Bags

File(scenario, library, start, rate, pickup, tenants) ==
  [kind |-> "run", scenario |-> scenario, library |-> library, start |-> start,
   rate |-> rate, count |-> rate, pickup |-> pickup, tenants |-> tenants]

Samples(low, high) == SetToBag({1}) (+) [x \in {2, 3} |-> IF x = 2 THEN low ELSE high]

\* Up to three entries, in every order of scenario, library and start.
Plain ==
  {File(s, l, t, r, [x \in {r} |-> 1], <<>>) : s \in 1..2, l \in 1..2, t \in 1..2, r \in 1..2}
    \cup {[kind |-> "bad"], [kind |-> "other"]}

\* Four or five runs of one scenario and library, with three rates.
Repeats ==
  {[i \in 1..n |-> File(1, 1, 1, f[i], [x \in {4 - f[i]} |-> 1], <<>>)] :
     n \in 4..5, f \in [1..5 -> 1..3]}

\* Bags around the sizes at which P50, P95 and P99 move to another sample.
Sized ==
  {<<File(1, 1, 1, 1, Samples(low, high), <<>>)>> :
     low \in {1, 9, 18, 19, 50, 95, 98, 99}, high \in 1..6}

\* Two runs of a scenario, with and without skew, ties, silent and no tenants.
Fairness ==
  {<<File(1, 1, 1, 1, EmptyBag, f), File(1, l, 2, 1, EmptyBag, g)>> :
     l \in 1..2, f \in [1..3 -> {1, 2, 3, 5}], g \in [1..2 -> {0, 1, 3}] \cup {<<>>}}

MCDirs == SeqOf(Plain, 3) \cup Repeats \cup Sized \cup Fairness
=============================================================================
