------------------------------ MODULE Workload ------------------------------
(***************************************************************************)
(* The workload generator: how a Spec becomes a stream of requests, and    *)
(* how Generator.Run paces it.  A random float in [0, 1) is a draw from    *)
(* 0..Grid-1, so that a probability p is the number p * Grid and its share *)
(* of the draws can be counted.  The clock counts ticks of the ticker.     *)
(***************************************************************************)
EXTENDS Integers, Sequences, FiniteSetsExt

CONSTANTS
  Specs,    \* the specs that the generator is made for
  Grid,     \* granularity of probabilities and multipliers
  Cap,      \* room in the channel of requests
  MaxLag    \* how far the clock runs past the end of the spec

ASSUME GridAssumption == Grid \in Nat /\ Grid % 20 = 0 /\ Grid > 0
ASSUME BoundAssumption == Cap \in Nat \ {0} /\ MaxLag \in Nat \ {0}
ASSUME SpecsAssumption ==
  \A s \in Specs : s.duration \in Nat /\ s.rate \in Int
                  /\ s.curve.start \in Nat /\ s.curve.window \in Nat /\ s.curve.mult \in Nat

\* Fractions are fractions, no class is listed twice, and the grid is fine enough for the
\* draws of every class to be counted.
ASSUME SamplerAssumption ==
  \A s \in Specs : /\ s.tenants \in Nat /\ s.skew \in 0..Grid
                   /\ \A c \in {"rate_limit", "transient", "permanent"} : s.errors[c] \in 0..Grid
ASSUME MixAssumption ==
  \A s \in Specs :
    /\ Len(s.mix) \in Nat /\ DOMAIN s.mix = 1..Len(s.mix)
    /\ \A i, j \in DOMAIN s.mix : s.mix[i] = s.mix[j] => i = j
    /\ \A i \in DOMAIN s.mix : s.mix[i].weight \in Nat
    /\ LET upTo(n) == SumFunction([j \in 1..n |-> s.mix[j].weight]) IN
       upTo(Len(s.mix)) > 0 => \A i \in DOMAIN s.mix : (Grid * upTo(i)) % upTo(Len(s.mix)) = 0

VARIABLES
  spec,       \* g.spec
  total,      \* g.totalWeight
  lossy,      \* Run is given a dropped callback
  pc,         \* "new", "ready", "select", "generate", "send" or "closed"
  clock,
  tick,       \* time stamp of the tick in the ticker's channel, or 0
  left,       \* requests the current tick still has to send
  req,        \* the request being sent, or None
  chan,       \* requests in the channel
  taken,      \* requests that were received from it
  dropped,    \* calls of the callback
  generated,  \* calls of nextRequest
  late,       \* of the requests handed over, those after Duration
  missed,     \* a tick found the ticker's channel full
  cancelled   \* ctx is done

gen == <<spec, total, lossy>>
vars == <<spec, total, lossy, pc, clock, tick, left, req, chan, taken, dropped,
          generated, late, missed, cancelled>>

None == [none |-> TRUE]
Draws == 0..(Grid - 1)

----------------------------------------------------------------------------
(* The built-in scenarios *)

Class(kind, weight, min, max) == [kind |-> kind, weight |-> weight, min |-> min, max |-> max]
NoClass == Class("", 0, 0, 0)

defaultMix ==
  <<Class("entity_update", 60, 5, 30), Class("tenant_snapshot", 20, 20, 150),
    Class("entity_enrich", 15, 100, 800), Class("document_process", 5, 1000, 5000)>>

ErrorClasses == <<"rate_limit", "transient", "permanent">>
NoErrors == [c \in {"rate_limit", "transient", "permanent"} |-> 0]

\* Mutant: the end of the window belongs to it.
BurstInclusive(curve, t) ==
  IF t >= curve.start /\ t <= curve.start + curve.window THEN curve.mult ELSE Grid

\* The multiplier of RateCurve at time t; a spec without a curve has an empty window.
Burst(curve, t) ==
  IF t >= curve.start /\ t < curve.start + curve.window THEN curve.mult ELSE Grid

Flat == [start |-> 0, window |-> 0, mult |-> Grid]

Plain(duration, tenants, rate) ==
  [duration |-> duration, tenants |-> tenants, skew |-> 0, rate |-> rate,
   curve |-> Flat, mix |-> defaultMix, errors |-> NoErrors]

SpecFor ==
  [steady                   |-> Plain(10, 5, 50),
   steady_over              |-> Plain(10, 5, 50),
   steady_under             |-> Plain(10, 5, 30),
   steady_balanced          |-> Plain(10, 5, 80),
   burst                    |-> [Plain(15, 5, 50) EXCEPT
                                  !.curve = [start |-> 5, window |-> 5, mult |-> 10 * Grid]],
   noisy_neighbor           |-> [Plain(10, 10, 50) EXCEPT !.skew = Grid \div 2],
   rate_limit_pressure      |-> [Plain(10, 5, 30) EXCEPT
                                  !.errors = [NoErrors EXCEPT !["rate_limit"] = (3 * Grid) \div 10]],
   noisy_neighbor_saturated |-> [Plain(10, 10, 100) EXCEPT !.skew = (9 * Grid) \div 10],
   high_scale               |-> Plain(15, 10, 300),
   notify_latency           |-> [Plain(10, 1, 20) EXCEPT
                                  !.mix = <<Class("entity_update", 1, 0, 0)>>]]

\* The flags of `bench run` that replace a field of the spec; 0 is a flag not given.
Override(s, duration, rate, tenants) ==
  [s EXCEPT !.duration = IF duration > 0 THEN duration ELSE @,
            !.rate = IF rate > 0 THEN rate ELSE @,
            !.tenants = IF tenants > 0 THEN tenants ELSE @]

----------------------------------------------------------------------------
(* The samplers *)

WeightUpTo(i) == SumFunction([j \in 1..i |-> spec.mix[j].weight])

\* Mutant: a draw on the boundary belongs to the class before it.
PickKindInclusive(d) ==
  LET hit == {i \in DOMAIN spec.mix : d * total <= Grid * WeightUpTo(i)} IN
  IF spec.mix = <<>> THEN NoClass
  ELSE IF total <= 0 THEN spec.mix[1] ELSE spec.mix[Min(hit)]

\* The class of a draw.  The fall-through after the loop of the code is not
\* reached: the last sum is totalWeight itself.
PickKind(d) ==
  LET hit == {i \in DOMAIN spec.mix : d * total < Grid * WeightUpTo(i)} IN
  IF spec.mix = <<>> THEN NoClass
  ELSE IF total <= 0 THEN spec.mix[1] ELSE spec.mix[Min(hit)]

\* Mutant: the noisy tenant also takes part in the uniform choice.
StartIdxZero == 0

StartIdx == IF spec.skew > 0 /\ spec.tenants > 1 THEN 1 ELSE 0

Rest == 0..(spec.tenants - StartIdx - 1)

\* The index of the tenant for a draw of the skew and one among the others; -1 is uuid.Nil.
PickTenant(d, i) ==
  IF spec.tenants = 0 THEN -1
  ELSE IF spec.skew > 0 /\ d < spec.skew THEN 0 ELSE StartIdx + i

Tenants == IF spec.tenants = 0 THEN {-1} ELSE {PickTenant(d, i) : d \in Draws, i \in Rest}

\* Mutant: the loop has no break.
FailWithErrorLast(d) ==
  LET hits == {i \in 1..3 : d[i] < spec.errors[ErrorClasses[i]]} IN
  IF hits = {} THEN "" ELSE ErrorClasses[Max(hits)]

\* The error class of a payload for one draw per class: the first that hits.
FailWithError(d) ==
  LET hits == {i \in 1..3 : d[i] < spec.errors[ErrorClasses[i]]} IN
  IF hits = {} THEN "" ELSE ErrorClasses[Min(hits)]

\* Which errors can be drawn: a class is preceded by classes that may miss.
Errors ==
  LET p(i) == spec.errors[ErrorClasses[i]] IN
  {ErrorClasses[i] : i \in {j \in 1..3 : p(j) > 0 /\ \A k \in 1..(j - 1) : p(k) < Grid}}
    \cup (IF \A k \in 1..3 : p(k) < Grid THEN {""} ELSE {})

\* The payloads of a class; the bytes are left out.
BuildPayload(c) ==
  [work : IF c.max > c.min THEN c.min..c.max ELSE {c.min}, fail : Errors]

\* The kind and the payload come from two calls of pickKind.
NextRequest ==
  LET classes == {PickKind(d) : d \in Draws} IN
  [tenant : Tenants, kind : {c.kind : c \in classes},
   payload : UNION {BuildPayload(c) : c \in classes}]

\* How many requests a tick with multiplier m sends.
Count(m, d) == m \div Grid + (IF d < m % Grid THEN 1 ELSE 0)

----------------------------------------------------------------------------
(* Generator.Run *)

NewGenerator ==
  /\ pc = "new"
  /\ total' = WeightUpTo(Len(spec.mix))
  /\ pc' = "ready"
  /\ UNCHANGED <<spec, lossy, clock, tick, left, req, chan, taken, dropped, generated, late,
                 missed, cancelled>>

\* A rate that is not positive closes the channel at once.
Run ==
  /\ pc = "ready"
  /\ pc' = IF spec.rate <= 0 THEN "closed" ELSE "select"
  /\ UNCHANGED <<gen, clock, tick, left, req, chan, taken, dropped, generated, late, missed,
                 cancelled>>

CtxDone ==
  /\ pc = "select"
  /\ cancelled
  /\ pc' = "closed"
  /\ UNCHANGED <<gen, clock, tick, left, req, chan, taken, dropped, generated, late, missed,
                 cancelled>>

Deadline ==
  /\ pc = "select"
  /\ tick # 0
  /\ tick >= spec.duration
  /\ pc' = "closed"
  /\ tick' = 0
  /\ UNCHANGED <<gen, clock, left, req, chan, taken, dropped, generated, late, missed, cancelled>>

\* Mutant: `==` instead of `>=` in the check of the deadline.
TickOverlooked ==
  /\ pc = "select"
  /\ tick # 0
  /\ tick # spec.duration
  /\ \E d \in Draws : left' = Count(Burst(spec.curve, tick), d)
  /\ tick' = 0
  /\ pc' = IF left' = 0 THEN "select" ELSE "generate"
  /\ UNCHANGED <<gen, clock, req, chan, taken, dropped, generated, late, missed, cancelled>>

\* Deadline and curve are read at the time stamp of the tick, not at the clock.
Tick ==
  /\ pc = "select"
  /\ tick # 0
  /\ tick < spec.duration
  /\ \E d \in Draws : left' = Count(Burst(spec.curve, tick), d)
  /\ tick' = 0
  /\ pc' = IF left' = 0 THEN "select" ELSE "generate"
  /\ UNCHANGED <<gen, clock, req, chan, taken, dropped, generated, late, missed, cancelled>>

Generate ==
  /\ pc = "generate"
  /\ req' \in NextRequest
  /\ generated' = generated + 1
  /\ pc' = "send"
  /\ UNCHANGED <<gen, clock, tick, left, chan, taken, dropped, late, missed, cancelled>>

\* The request is out of the generator's hands.
HandedOver ==
  /\ req' = None
  /\ left' = left - 1
  /\ pc' = IF left = 1 THEN "select" ELSE "generate"
  /\ late' = late + (IF clock >= spec.duration THEN 1 ELSE 0)
  /\ UNCHANGED <<gen, clock, tick, taken, generated, missed, cancelled>>

Send ==
  /\ pc = "send"
  /\ chan < Cap
  /\ chan' = chan + 1
  /\ HandedOver
  /\ UNCHANGED dropped

\* Mutant: a request without room is skipped and the callback not called.
DropUncounted ==
  /\ pc = "send" /\ lossy
  /\ chan = Cap
  /\ HandedOver
  /\ UNCHANGED <<chan, dropped>>

Drop ==
  /\ pc = "send" /\ lossy
  /\ chan = Cap
  /\ dropped' = dropped + 1
  /\ HandedOver
  /\ UNCHANGED chan

\* Mutant: the blocking send does not listen to ctx.
SendCancelledNever == FALSE /\ UNCHANGED vars

SendCancelled ==
  /\ pc = "send" /\ ~lossy
  /\ cancelled
  /\ pc' = "closed"
  /\ UNCHANGED <<gen, clock, tick, left, req, chan, taken, dropped, generated, late, missed,
                 cancelled>>

Generator ==
  NewGenerator \/ Run \/ CtxDone \/ Deadline \/ Tick \/ Generate \/ Send \/ Drop \/ SendCancelled

----------------------------------------------------------------------------
(* Its environment *)

\* Time passes while Run runs; the ticker keeps one tick and skips the others.
Clock ==
  /\ pc \in {"select", "generate", "send"}
  /\ clock < spec.duration + MaxLag \/ tick = 0
  /\ clock' = IF clock < spec.duration + MaxLag THEN clock + 1 ELSE clock
  /\ tick' = IF tick = 0 THEN clock' ELSE tick
  /\ missed' = (missed \/ tick # 0)
  /\ UNCHANGED <<gen, pc, left, req, chan, taken, dropped, generated, late, cancelled>>

\* An enqueuer receives a request; one that hangs in Enqueue receives none.
Receive ==
  /\ chan > 0
  /\ chan' = chan - 1
  /\ taken' = taken + 1
  /\ UNCHANGED <<gen, pc, clock, tick, left, req, dropped, generated, late, missed, cancelled>>

Cancel ==
  /\ ~cancelled
  /\ cancelled' = TRUE
  /\ UNCHANGED <<gen, pc, clock, tick, left, req, chan, taken, dropped, generated, late, missed>>

Init ==
  /\ spec \in Specs
  /\ lossy \in BOOLEAN
  /\ total = 0
  /\ pc = "new"
  /\ clock = 0 /\ tick = 0
  /\ left = 0 /\ req = None
  /\ chan = 0 /\ taken = 0 /\ dropped = 0
  /\ generated = 0 /\ late = 0
  /\ missed = FALSE /\ cancelled = FALSE

Next == Generator \/ Clock \/ Receive \/ Cancel

Spec == Init /\ [][Next]_vars

\* The generator's goroutine runs and time passes; nobody has to receive.
FairSpec == Spec /\ WF_vars(Generator) /\ WF_vars(Clock)

----------------------------------------------------------------------------
(* Properties                                                              *)

KindShare(i) == Cardinality({d \in Draws : PickKind(d) = spec.mix[i]})

\* pickKind gives every class exactly its weight's share of the draws, and a
\* class of weight zero none, wherever it stands in JobMix; if no class has
\* weight the first one gets all.
MixIsProportional ==
  pc = "ready" => \A i \in DOMAIN spec.mix :
    IF total = 0 THEN (KindShare(i) > 0) <=> (i = 1)
    ELSE KindShare(i) * WeightUpTo(Len(spec.mix)) = Grid * spec.mix[i].weight

Pairs == Draws \X Rest
TenantShare(t) == Cardinality({p \in Pairs : PickTenant(p[1], p[2]) = t})

\* pickTenant gives the noisy tenant exactly the fraction TenantSkew of the jobs
\* and the others equal parts of the remainder; without skew all get the same,
\* and a single tenant gets everything.
SkewIsExact ==
  pc = "ready" /\ spec.tenants > 0 =>
    LET all == 0..(spec.tenants - 1) IN
    /\ SumFunction([t \in all |-> TenantShare(t)]) = Cardinality(Pairs)
    /\ \A t, u \in all \ {0} : TenantShare(t) = TenantShare(u)
    /\ spec.tenants > 1 =>
         IF spec.skew > 0 THEN TenantShare(0) * Grid = spec.skew * Cardinality(Pairs)
         ELSE TenantShare(0) = TenantShare(1)

ErrorShare(c) == Cardinality({d \in [1..3 -> Draws] : FailWithError(d) = c})

\* Error injection samples rate_limit, transient and permanent in this order and
\* the first hit wins: a class gets its probability times the chance that the
\* classes before it miss.
ErrorsCompose ==
  pc = "ready" =>
    LET p(i) == spec.errors[ErrorClasses[i]]
    IN /\ ErrorShare("rate_limit") = p(1) * Grid * Grid
       /\ ErrorShare("transient") = (Grid - p(1)) * p(2) * Grid
       /\ ErrorShare("permanent") = (Grid - p(1)) * (Grid - p(2)) * p(3)

TicksBefore(t) == 1..(t - 1)
BurstTicks == Cardinality(TicksBefore(spec.duration)
                          \cap (spec.curve.start..(spec.curve.start + spec.curve.window - 1)))

\* The stream carries the burst: a run in which no tick was skipped makes one
\* request for every tick before Duration outside the window and the multiplier
\* inside, a fraction of it rounded up or down; no run makes more.
StreamFollowsCurve ==
  LET quiet == Cardinality(TicksBefore(spec.duration)) - BurstTicks
      low == quiet + BurstTicks * (spec.curve.mult \div Grid)
      high == quiet + BurstTicks * ((spec.curve.mult + Grid - 1) \div Grid)
  IN spec.duration > 0 =>
       /\ generated <= high
       /\ pc = "closed" /\ ~cancelled /\ ~missed /\ spec.rate > 0 => generated >= low

\* However long the receivers hang, no more is sent after Duration than the rest
\* of the tick that hung and the one tick that waited in the ticker.
OverrunIsBounded ==
  LET most == Max({1, (spec.curve.mult + Grid - 1) \div Grid}) IN late <= 2 * most

\* Every request that was made was received, waits in the channel, was reported to
\* the callback, or is the one in hand; without a callback none is dropped.
NoneSkippedSilently ==
  /\ generated = taken + chan + dropped + (IF req = None THEN 0 ELSE 1)
  /\ ~lossy => dropped = 0
  /\ pc = "closed" /\ req # None => cancelled

\* Run closes its channel once ctx is cancelled, with a callback also without,
\* even if nobody receives from the channel any more.
GeneratorCloses == (cancelled \/ lossy) ~> (pc = "closed")

\* "WorkMillisMin / Max define the uniform range of synthetic work duration for
\* jobs of this class."  The two calls of pickKind in nextRequest break it.
KindMatchesPayload ==
  req # None => \E i \in DOMAIN spec.mix :
    /\ spec.mix[i].kind = req.kind
    /\ req.payload.work \in spec.mix[i].min..spec.mix[i].max
=============================================================================
