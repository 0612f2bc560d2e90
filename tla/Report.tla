------------------------------- MODULE Report -------------------------------
(***************************************************************************)
(* From the result files to the report: AnalyzeDir, GroupRuns and the      *)
(* tables of RenderMarkdown.  A file is its summary (Analyze says how it   *)
(* comes about) or an error.  Go ranges over a map in any order, so every  *)
(* such loop picks its next key nondeterministically.                      *)
(***************************************************************************)
EXTENDS Integers, Sequences, Functions, FiniteSetsExt

CONSTANT Dirs   \* the directories: sequences of entries in the order of their names

(* An entry is [kind, scenario, library, start, rate, count, pickup, tenants]: *)
(* `kind` is "run", "bad" for a file that does not analyze, or "other" for a   *)
(* name without .jsonl; `rate` is the throughput, `count` stands for each of   *)
(* Enqueued, Completed, Failed and the error counts, `pickup` is the bag of    *)
(* pickup samples, tenants[t] the jobs that tenant t enqueued.                 *)

ASSUME DirsAssumption ==
  \A d \in Dirs :
    /\ Len(d) \in Nat /\ DOMAIN d = 1..Len(d)
    /\ \A i \in DOMAIN d :
         /\ d[i].kind \in {"run", "bad", "other"}
         /\ d[i].kind = "run" =>
              /\ d[i].scenario \in Int /\ d[i].library \in Int /\ d[i].start \in Int
              /\ d[i].rate \in Int /\ d[i].count \in Nat
              /\ IsFiniteSet(DOMAIN d[i].pickup) /\ DOMAIN d[i].pickup \subseteq Int
              /\ \A x \in DOMAIN d[i].pickup : d[i].pickup[x] \in Nat \ {0}
              /\ IsFiniteSet(DOMAIN d[i].tenants)
              /\ \A t \in DOMAIN d[i].tenants : d[i].tenants[t] \in Nat

VARIABLES
  dir,
  pc,         \* "read", "group", "tenants", "done" or "error"
  next,       \* the entry AnalyzeDir reads next
  runs,       \* summaries
  out,        \* the groups, in the order they are printed
  visited,    \* keys of the map in range that were visited
  place,      \* the group, and the run in it, whose row is next
  row,        \* what the loop of pickExtremes has found for it
  fairness    \* the rows of the per-tenant tables, by place

vars == <<dir, pc, next, runs, out, visited, place, row, fairness>>
table == <<place, row, fairness>>

----------------------------------------------------------------------------
(* summarize and the aggregates, over bags of values *)

\* The k-th smallest member of bag B, from 0: sorted[k].
Nth(B, k) ==
  CHOOSE x \in DOMAIN B :
    /\ SumFunctionOnSet(B, {y \in DOMAIN B : y < x}) <= k
    /\ SumFunctionOnSet(B, {y \in DOMAIN B : y <= x}) > k

Clamp(k, n) == IF k < 0 THEN 0 ELSE IF k >= n THEN n - 1 ELSE k

\* Mutant: the index is rounded down.
PctDown(B, p) ==
  LET n == SumFunction(B) IN
  IF n = 0 THEN 0 ELSE Nth(B, Clamp((p * n) \div 100 - 1, n))

\* The index is ceil(p * n) - 1.
Pct(B, p) ==
  LET n == SumFunction(B) IN
  IF n = 0 THEN 0 ELSE Nth(B, Clamp((p * n + 99) \div 100 - 1, n))

BagOf(s) == [x \in Range(s) |-> Cardinality({i \in DOMAIN s : s[i] = x})]

\* Mutant: the values are not sorted.
MedianUnsorted(s) == s[Len(s) \div 2 + 1]

MedianF(s) == Nth(BagOf(s), Len(s) \div 2)

MinF(s) == Min(Range(s))
MaxF(s) == Max(Range(s))

\* The members of S in the order of `before`.
Ranked(S, before) ==
  [k \in 1..Cardinality(S) |-> CHOOSE x \in S : Cardinality({y \in S : <<y, x>> \in before}) = k - 1]

Pairs(s) == (DOMAIN s) \X (DOMAIN s)

\* sort.SliceStable, for the positions that `less` puts before one another: a member
\* goes behind those that are less, and behind equal ones that were in front of it.
StableSort(s, less) ==
  LET order == Ranked(DOMAIN s, {p \in Pairs(s) :
                 p \in less \/ (p[1] < p[2] /\ <<p[2], p[1]>> \notin less)})
  IN [k \in DOMAIN s |-> s[order[k]]]

----------------------------------------------------------------------------
(* AnalyzeDir *)

Skip ==
  /\ pc = "read" /\ next <= Len(dir)
  /\ dir[next].kind = "other"
  /\ next' = next + 1
  /\ UNCHANGED <<dir, pc, runs, out, visited, table>>

ReadRun ==
  /\ pc = "read" /\ next <= Len(dir)
  /\ dir[next].kind = "run"
  /\ runs' = Append(runs, dir[next])
  /\ next' = next + 1
  /\ UNCHANGED <<dir, pc, out, visited, table>>

\* The first file that does not analyze ends the report.
ReadBad ==
  /\ pc = "read" /\ next <= Len(dir)
  /\ dir[next].kind = "bad"
  /\ pc' = "error"
  /\ runs' = <<>>
  /\ UNCHANGED <<dir, next, out, visited, table>>

\* The order of the runs: by scenario, library, start time.
Earlier(r, s) ==
  \/ r.scenario < s.scenario
  \/ r.scenario = s.scenario /\ r.library < s.library
  \/ r.scenario = s.scenario /\ r.library = s.library /\ r.start < s.start

SortRuns ==
  /\ pc = "read" /\ next > Len(dir)
  /\ runs' = StableSort(runs, {p \in Pairs(runs) : Earlier(runs[p[1]], runs[p[2]])})
  /\ pc' = "group"
  /\ UNCHANGED <<dir, next, out, visited, table>>

----------------------------------------------------------------------------
(* GroupRuns *)

Key(r) == <<r.scenario, r.library>>
Keys == {Key(runs[i]) : i \in DOMAIN runs}

\* A count added up over the runs, as each column of the error breakdown is.
Total(members) == SumFunction([i \in DOMAIN members |-> members[i].count])

\* populateGroupStats
Stats(members) ==
  LET rates == [i \in DOMAIN members |-> members[i].rate]
      p95s == [i \in DOMAIN members |-> Pct(members[i].pickup, 95)]
  IN [medRate |-> MedianF(rates), minRate |-> MinF(rates), maxRate |-> MaxF(rates),
      medP95 |-> MedianF(p95s), minP95 |-> MinF(p95s), maxP95 |-> MaxF(p95s),
      total |-> Total(members)]

\* The runs with key k, in the order they are in.
Members(rs, k) ==
  LET mine == {i \in DOMAIN rs : Key(rs[i]) = k}
      order == Ranked(mine, {p \in mine \X mine : p[1] < p[2]})
  IN [n \in DOMAIN order |-> rs[order[n]]]

Group(rs, k) == [key |-> k, runs |-> Members(rs, k), stats |-> Stats(Members(rs, k))]

CollectGroup(k) ==
  /\ pc = "group"
  /\ k \in Keys \ visited
  /\ out' = Append(out, Group(runs, k))
  /\ visited' = visited \cup {k}
  /\ UNCHANGED <<dir, pc, next, runs, table>>

KeyLess(k, l) == k[1] < l[1] \/ (k[1] = l[1] /\ k[2] < l[2])

\* Mutant: groups are only sorted by scenario.
SortGroupsByScenario ==
  /\ pc = "group" /\ visited = Keys
  /\ out' = StableSort(out, {p \in Pairs(out) : out[p[1]].key[1] < out[p[2]].key[1]})
  /\ pc' = "tenants"
  /\ UNCHANGED <<dir, next, runs, visited, table>>

SortGroups ==
  /\ pc = "group" /\ visited = Keys
  /\ out' = StableSort(out, {p \in Pairs(out) : KeyLess(out[p[1]].key, out[p[2]].key)})
  /\ pc' = "tenants"
  /\ UNCHANGED <<dir, next, runs, visited, table>>

----------------------------------------------------------------------------
(* renderPerTenantSection, for the runs in the order of the groups *)

Places == UNION {{g} \X DOMAIN out[g].runs : g \in DOMAIN out}
RunAt(p) == out[p[1]].runs[p[2]]

\* Some tenant of the run enqueued more than twice as much as another.
Skewed(r) ==
  LET counts == {r.tenants[t] : t \in DOMAIN r.tenants} IN
  Cardinality(DOMAIN r.tenants) >= 2 /\ Min(counts) > 0 /\ Max(counts) > 2 * Min(counts)

HasSkew(scenario) == \E p \in Places : RunAt(p).scenario = scenario /\ Skewed(RunAt(p))

NoRow == [noisy |-> {}, quiet |-> {}, seen |-> {}]

\* Mutant: `else if` between the two comparisons.
VisitElse(per, acc, t) ==
  LET more == acc.noisy = {} \/ \A n \in acc.noisy : per[t] > per[n]
      less == acc.quiet = {} \/ \A q \in acc.quiet : per[t] < per[q]
  IN [noisy |-> IF more THEN {t} ELSE acc.noisy,
      quiet |-> IF less /\ ~more THEN {t} ELSE acc.quiet, seen |-> acc.seen \cup {t}]

\* The body of the loop of pickExtremes; {} is the empty tenant of its start.
Visit(per, acc, t) ==
  LET more == acc.noisy = {} \/ \A n \in acc.noisy : per[t] > per[n]
      less == acc.quiet = {} \/ \A q \in acc.quiet : per[t] < per[q]
  IN [noisy |-> IF more THEN {t} ELSE acc.noisy,
      quiet |-> IF less THEN {t} ELSE acc.quiet, seen |-> acc.seen \cup {t}]

\* pickExtremes comes to some tenant of the run whose row is next.
PickExtremes ==
  /\ pc = "tenants" /\ place \in Places
  /\ HasSkew(RunAt(place).scenario)
  /\ \E t \in DOMAIN RunAt(place).tenants \ row.seen : row' = Visit(RunAt(place).tenants, row, t)
  /\ UNCHANGED <<dir, pc, next, runs, out, visited, place, fairness>>

\* The row of a run; a scenario without skew has no table.
TenantRow ==
  /\ pc = "tenants" /\ place \in Places
  /\ HasSkew(RunAt(place).scenario) => row.seen = DOMAIN RunAt(place).tenants
  /\ fairness' = [p \in DOMAIN fairness \cup {place} |-> IF p = place THEN row ELSE fairness[p]]
  /\ row' = NoRow
  /\ place' = IF <<place[1], place[2] + 1>> \in Places THEN <<place[1], place[2] + 1>>
              ELSE <<place[1] + 1, 1>>
  /\ UNCHANGED <<dir, pc, next, runs, out, visited>>

Finish ==
  /\ pc = "tenants"
  /\ place \notin Places
  /\ pc' = "done"
  /\ UNCHANGED <<dir, next, runs, out, visited, table>>

Init ==
  /\ dir \in Dirs
  /\ pc = "read"
  /\ next = 1
  /\ runs = <<>> /\ out = <<>>
  /\ visited = {}
  /\ place = <<1, 1>> /\ row = NoRow /\ fairness = <<>>

Next ==
  \/ Skip \/ ReadRun \/ ReadBad \/ SortRuns
  \/ \E k \in Keys : CollectGroup(k)
  \/ SortGroups \/ PickExtremes \/ TenantRow \/ Finish

Spec == Init /\ [][Next]_vars

----------------------------------------------------------------------------
(* Properties                                                              *)

RunFiles == {i \in DOMAIN dir : dir[i].kind = "run"}

\* A report that is printed holds every result file of the directory, whatever
\* order Go visits its maps in: one group for each scenario and library, in
\* ascending order, with all its runs in the order they were started and their
\* counts added up.  A file that does not analyze prevents the report.
ReportIsComplete ==
  pc \in {"tenants", "done"} =>
    /\ \A i \in DOMAIN dir : dir[i].kind # "bad"
    /\ {out[g].key : g \in DOMAIN out} = {Key(dir[i]) : i \in RunFiles}
    /\ \A g, h \in DOMAIN out : g < h => KeyLess(out[g].key, out[h].key)
    /\ \A g \in DOMAIN out :
         LET mine == {i \in RunFiles : Key(dir[i]) = out[g].key} IN
         /\ BagOf(out[g].runs) =
              [r \in {dir[i] : i \in mine} |-> Cardinality({i \in mine : dir[i] = r})]
         /\ \A a, b \in DOMAIN out[g].runs : a < b => out[g].runs[a].start <= out[g].runs[b].start
         /\ out[g].stats.total = SumFunction([i \in mine |-> dir[i].count])

UpTo(B, x) == SumFunctionOnSet(B, {y \in DOMAIN B : y <= x})

\* P50, P95 and P99 are nearest-rank percentiles: the smallest sample that at
\* least that share of the samples do not exceed.
PercentilesAreNearestRank ==
  \A i \in DOMAIN runs, p \in {50, 95, 99} :
    LET B == runs[i].pickup
        x == Pct(B, p)
    IN DOMAIN B # {} => /\ x \in DOMAIN B /\ 100 * UpTo(B, x) >= p * SumFunction(B)
                        /\ \A y \in DOMAIN B : y < x => 100 * UpTo(B, y) < p * SumFunction(B)

\* At least half of the members of s are on either side of m.
Splits(m, s) ==
  /\ 2 * Cardinality({i \in DOMAIN s : s[i] <= m}) >= Len(s)
  /\ 2 * Cardinality({i \in DOMAIN s : s[i] >= m}) >= Len(s)

\* The median printed for a group has at least half of its runs on either side,
\* and the printed minimum and maximum around it, also for one or two runs.
MediansSplitTheRuns ==
  \A g \in DOMAIN out :
    LET members == out[g].runs
        st == out[g].stats
    IN /\ Splits(st.medRate, [i \in DOMAIN members |-> members[i].rate])
       /\ st.medRate \in st.minRate..st.maxRate
       /\ Splits(st.medP95, [i \in DOMAIN members |-> Pct(members[i].pickup, 95)])
       /\ st.medP95 \in st.minP95..st.maxP95

\* Every run gets its row, and every row of a fairness table compares a busiest
\* tenant of the run with a quietest one, in whatever order the tenants are visited;
\* in a run with skew these are two tenants.
ExtremesAreExtreme ==
  /\ pc = "done" => DOMAIN fairness = Places
  /\ \A p \in DOMAIN fairness : HasSkew(RunAt(p).scenario) =>
       LET per == RunAt(p).tenants IN
       /\ \A t \in DOMAIN per : /\ \E n \in fairness[p].noisy : per[n] >= per[t]
                                /\ \E q \in fairness[p].quiet : per[q] <= per[t]
       /\ Skewed(RunAt(p)) => fairness[p].noisy # fairness[p].quiet
=============================================================================
