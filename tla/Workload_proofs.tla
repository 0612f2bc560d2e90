--------------------------- MODULE Workload_proofs ---------------------------
(***************************************************************************)
(* Proofs about the generator, for any specs, channel and lag: no request  *)
(* is skipped silently, what is sent after Duration is bounded, and the    *)
(* stream follows the rate curve; then the samplers, whose shares of the   *)
(* draws are exact for any mix, skew and error rates.                      *)
(***************************************************************************)
EXTENDS Workload, SumTheorems

Steps == {"new", "ready", "select", "generate", "send", "closed"}

TypeInv ==
  /\ spec \in Specs /\ lossy \in BOOLEAN /\ pc \in Steps
  /\ clock \in Nat /\ tick \in Nat /\ left \in Nat
  /\ chan \in Nat /\ taken \in Nat /\ dropped \in Nat /\ generated \in Nat /\ late \in Nat
  /\ missed \in BOOLEAN /\ cancelled \in BOOLEAN

\* The generator between two steps: it holds a request while it sends, and a tick
\* has something left until the next select.
StepInv ==
  /\ pc \in {"new", "ready"} => clock = 0 /\ tick = 0
  /\ pc \in {"new", "ready", "select"} => left = 0
  /\ pc \in {"generate", "send"} => left > 0
  /\ pc \in {"new", "ready", "select", "generate"} => req = None
  /\ pc = "send" => req # None
  /\ tick <= clock

\* What a tick of the curve sends, at the least and at the most.
Floor(s) == s.curve.mult \div Grid
Ceil(s) == (s.curve.mult + Grid - 1) \div Grid
Most(s) == Max({1, Ceil(s)})

OverrunInv ==
  /\ left <= Most(spec)
  /\ clock < spec.duration => late = 0
  /\ clock >= spec.duration =>
       late + left + (IF tick # 0 /\ tick < spec.duration THEN Most(spec) ELSE 0) <= 2 * Most(spec)

\* The ticks up to t, and what they send if none is skipped.
Window(s) == s.curve.start..(s.curve.start + s.curve.window - 1)
Quiet(s, t) == Cardinality((1..t) \ Window(s))
Bursts(s, t) == Cardinality((1..t) \cap Window(s))
High(s, t) == Quiet(s, t) + Bursts(s, t) * Ceil(s)
Low(s, t) == Quiet(s, t) + Bursts(s, t) * Floor(s)

\* The last tick that may have been dealt with, and what it has still to send.
Behind ==
  LET t == IF tick # 0 THEN tick - 1 ELSE clock IN
  IF t < spec.duration THEN t ELSE spec.duration - 1
Pending == IF pc = "generate" THEN left ELSE IF pc = "send" THEN left - 1 ELSE 0

StreamInv ==
  spec.duration > 0 =>
    /\ generated + Pending <= High(spec, Behind)
    /\ ~missed /\ tick # 0 => tick = clock
    /\ ~missed /\ ~cancelled => generated + Pending >= Low(spec, Behind)
    /\ pc = "closed" /\ ~cancelled /\ spec.rate > 0 => clock >= spec.duration /\ tick = 0

IInv == TypeInv /\ StepInv /\ NoneSkippedSilently /\ OverrunInv /\ StreamInv

----------------------------------------------------------------------------
(* What a tick sends                                                       *)

LEMMA Products ==
  /\ \A a, b \in Nat : a * b \in Nat
  /\ \A a, b, c \in Nat : a <= b => a * c <= b * c
  /\ \A a, c \in Nat : (a + 1) * c = a * c + c
<1>1. \A a, b \in Nat : a * b \in Nat
  OBVIOUS
<1>2. \A a, c \in Nat : (a + 1) * c = a * c + c
  OBVIOUS
<1>3. ASSUME NEW a \in Nat, NEW b \in Nat, NEW c \in Nat, a <= b PROVE a * c <= b * c
  <2>1. PICK d \in Nat : b = a + d
    BY <1>3
  <2>2. (a + d) * c = a * c + d * c /\ d * c \in Nat /\ a * c \in Nat
    OBVIOUS
  <2> QED
    BY <2>1, <2>2
<1> QED
  BY <1>1, <1>2, <1>3

LEMMA Division ==
  ASSUME NEW m \in Nat
  PROVE  /\ m \div Grid \in Nat /\ m % Grid \in 0..(Grid - 1)
         /\ m = (m \div Grid) * Grid + (m % Grid)
         /\ (m + Grid - 1) \div Grid = m \div Grid + (IF m % Grid > 0 THEN 1 ELSE 0)
<1> DEFINE q == m \div Grid
           r == m % Grid
<1>1. q \in Nat /\ r \in 0..(Grid - 1) /\ m = q * Grid + r
  BY GridAssumption
<1> HIDE DEF q, r
<1>2. r = 0 => (m + Grid - 1) \div Grid = q
  <2>1. (q * Grid + (Grid - 1)) \div Grid = q
    BY <1>1, GridAssumption
  <2>2. r = 0 => m + Grid - 1 = q * Grid + (Grid - 1)
    BY <1>1, GridAssumption
  <2> QED
    BY <2>1, <2>2
<1>3. r > 0 => (m + Grid - 1) \div Grid = q + 1
  <2>1. (q + 1) * Grid = q * Grid + Grid
    BY <1>1, GridAssumption
  <2>2. r > 0 => r - 1 \in 0..(Grid - 1) /\ m + Grid - 1 = (q + 1) * Grid + (r - 1)
    BY <1>1, <2>1, GridAssumption
  <2>3. r > 0 => ((q + 1) * Grid + (r - 1)) \div Grid = q + 1
    BY <1>1, <2>2, GridAssumption
  <2> QED
    BY <2>2, <2>3
<1>4. (m + Grid - 1) \div Grid = q + (IF r > 0 THEN 1 ELSE 0)
  BY <1>1, <1>2, <1>3, GridAssumption
<1> QED
  BY <1>1, <1>4 DEF q, r

\* A tick at time t sends one request, or between Floor and Ceil of them in a burst.
LEMMA TickSends ==
  ASSUME NEW s \in Specs, NEW t \in Nat, NEW d \in Draws
  PROVE  LET n == Count(Burst(s.curve, t), d) IN
         /\ n \in Nat
         /\ t \in Window(s) => Floor(s) <= n /\ n <= Ceil(s)
         /\ t \notin Window(s) => n = 1
<1> DEFINE m == s.curve.mult
<1>1. m \in Nat /\ s.curve.start \in Nat /\ s.curve.window \in Nat
  BY SpecsAssumption
<1>2. CASE t \in Window(s)
  <2>1. Burst(s.curve, t) = m
    BY <1>1, <1>2 DEF Burst, Window
  <2>2. Count(m, d) = m \div Grid + (IF d < m % Grid THEN 1 ELSE 0)
    BY DEF Count
  <2>3. /\ m \div Grid \in Nat /\ m % Grid \in 0..(Grid - 1)
        /\ Ceil(s) = m \div Grid + (IF m % Grid > 0 THEN 1 ELSE 0)
    BY <1>1, Division DEF Ceil
  <2>4. Floor(s) = m \div Grid
    BY DEF Floor
  <2>5. d \in Nat
    BY GridAssumption DEF Draws
  <2> HIDE DEF m
  <2> QED
    BY <1>2, <2>1, <2>2, <2>3, <2>4, <2>5, GridAssumption
<1>3. CASE t \notin Window(s)
  <2>1. Burst(s.curve, t) = Grid
    BY <1>1, <1>3 DEF Burst, Window
  <2>2. Grid \div Grid = 1 /\ Grid % Grid = 0
    BY GridAssumption
  <2>3. ~(d < Grid % Grid)
    BY <2>2, GridAssumption DEF Draws
  <2> QED
    BY <1>3, <2>1, <2>2, <2>3 DEF Count
<1> QED
  BY <1>2, <1>3

LEMMA MostIsMost ==
  ASSUME NEW s \in Specs
  PROVE  Floor(s) \in Nat /\ Ceil(s) \in Nat /\ Most(s) \in Nat /\ Most(s) >= 1 /\ Most(s) >= Ceil(s)
<1>1. Floor(s) \in Nat /\ Ceil(s) \in Nat
  BY SpecsAssumption, Division DEF Floor, Ceil
<1> DEFINE S == {1, Ceil(s)}
<1>2. \E x \in S : \A y \in S : x >= y
  BY <1>1
<1>3. Most(s) \in S /\ \A y \in S : Most(s) >= y
  BY <1>2 DEF Most, Max
<1> QED
  BY <1>1, <1>3

----------------------------------------------------------------------------
(* What the ticks up to t send                                             *)

LEMMA Counts ==
  ASSUME NEW s \in Specs, NEW t \in Nat
  PROVE  /\ IsFiniteSet((1..t) \ Window(s)) /\ IsFiniteSet((1..t) \cap Window(s))
         /\ Quiet(s, t) \in Nat /\ Bursts(s, t) \in Nat
         /\ Quiet(s, t) = t - Bursts(s, t)
<1>1. IsFiniteSet(1..t) /\ Cardinality(1..t) = t
  BY FS_Interval
<1>2. /\ IsFiniteSet((1..t) \ Window(s))
      /\ Quiet(s, t) = Cardinality(1..t) - Cardinality((1..t) \cap Window(s))
  BY <1>1, FS_Difference DEF Quiet
<1>3. IsFiniteSet((1..t) \cap Window(s))
  BY <1>1, FS_Subset
<1> QED
  BY <1>1, <1>2, <1>3, FS_CardinalityType DEF Quiet, Bursts

\* One tick more.
LEMMA OneTick ==
  ASSUME NEW s \in Specs, NEW t \in Nat
  PROVE  IF t + 1 \in Window(s)
           THEN Bursts(s, t + 1) = Bursts(s, t) + 1 /\ Quiet(s, t + 1) = Quiet(s, t)
           ELSE Bursts(s, t + 1) = Bursts(s, t) /\ Quiet(s, t + 1) = Quiet(s, t) + 1
<1>1. 1..(t+1) = (1..t) \cup {t + 1} /\ t + 1 \notin 1..t
  OBVIOUS
<1>2. CASE t + 1 \in Window(s)
  <2>1. (1..(t+1)) \cap Window(s) = ((1..t) \cap Window(s)) \cup {t + 1}
    BY <1>1, <1>2
  <2>2. Bursts(s, t + 1) = Bursts(s, t) + 1
    BY <1>1, <2>1, Counts, FS_AddElement DEF Bursts
  <2>3. (1..(t+1)) \ Window(s) = (1..t) \ Window(s)
    BY <1>1, <1>2
  <2> QED
    BY <1>2, <2>2, <2>3 DEF Quiet
<1>3. CASE t + 1 \notin Window(s)
  <2>1. (1..(t+1)) \ Window(s) = ((1..t) \ Window(s)) \cup {t + 1}
    BY <1>1, <1>3
  <2>2. Quiet(s, t + 1) = Quiet(s, t) + 1
    BY <1>1, <2>1, Counts, FS_AddElement DEF Quiet
  <2>3. (1..(t+1)) \cap Window(s) = (1..t) \cap Window(s)
    BY <1>1, <1>3
  <2> QED
    BY <1>3, <2>2, <2>3 DEF Bursts
<1> QED
  BY <1>2, <1>3

LEMMA SumsAreNat ==
  ASSUME NEW s \in Specs, NEW t \in Nat
  PROVE  High(s, t) \in Nat /\ Low(s, t) \in Nat
<1>1. Quiet(s, t) \in Nat /\ Bursts(s, t) \in Nat /\ Ceil(s) \in Nat /\ Floor(s) \in Nat
  BY Counts, MostIsMost
<1>2. Bursts(s, t) * Ceil(s) \in Nat /\ Bursts(s, t) * Floor(s) \in Nat
  BY <1>1, Products
<1> QED
  BY <1>1, <1>2 DEF High, Low

\* The tick after t sends no more and no less than the curve says.
LEMMA NextTick ==
  ASSUME NEW s \in Specs, NEW t \in Nat, NEW d \in Draws
  PROVE  LET n == Count(Burst(s.curve, t + 1), d) IN
         High(s, t) + n <= High(s, t + 1) /\ Low(s, t) + n >= Low(s, t + 1)
<1> DEFINE n == Count(Burst(s.curve, t + 1), d)
           b == Bursts(s, t)
           q == Quiet(s, t)
<1>1. b \in Nat /\ q \in Nat /\ Ceil(s) \in Nat /\ Floor(s) \in Nat
  BY Counts, MostIsMost
<1>2. /\ n \in Nat
      /\ t + 1 \in Window(s) => Floor(s) <= n /\ n <= Ceil(s)
      /\ t + 1 \notin Window(s) => n = 1
  BY TickSends
<1>3. /\ (b + 1) * Ceil(s) = b * Ceil(s) + Ceil(s) /\ b * Ceil(s) \in Nat
      /\ (b + 1) * Floor(s) = b * Floor(s) + Floor(s) /\ b * Floor(s) \in Nat
  BY <1>1, Products
<1> HIDE DEF n
<1>4. CASE t + 1 \in Window(s)
  <2>1. Bursts(s, t + 1) = b + 1 /\ Quiet(s, t + 1) = q
    BY <1>4, OneTick
  <2>2. High(s, t + 1) = q + (b * Ceil(s) + Ceil(s)) /\ Low(s, t + 1) = q + (b * Floor(s) + Floor(s))
    BY <1>3, <2>1 DEF High, Low
  <2>3. High(s, t) = q + b * Ceil(s) /\ Low(s, t) = q + b * Floor(s)
    BY DEF High, Low
  <2> HIDE DEF b, q
  <2> QED
    BY <1>1, <1>2, <1>3, <1>4, <2>2, <2>3 DEF n
<1>5. CASE t + 1 \notin Window(s)
  <2>1. Bursts(s, t + 1) = b /\ Quiet(s, t + 1) = q + 1
    BY <1>5, OneTick
  <2>2. High(s, t + 1) = (q + 1) + b * Ceil(s) /\ Low(s, t + 1) = (q + 1) + b * Floor(s)
    BY <2>1 DEF High, Low
  <2>3. High(s, t) = q + b * Ceil(s) /\ Low(s, t) = q + b * Floor(s)
    BY DEF High, Low
  <2> HIDE DEF b, q
  <2> QED
    BY <1>1, <1>2, <1>3, <1>5, <2>2, <2>3 DEF n
<1> QED
  BY <1>4, <1>5

\* Ticks that were skipped could only have sent more.
LEMMA HighGrows ==
  ASSUME NEW s \in Specs, NEW t \in Nat, NEW u \in Nat, t <= u
  PROVE  High(s, t) <= High(s, u)
<1>1. 1..t \subseteq 1..u
  OBVIOUS
<1>2. Quiet(s, t) <= Quiet(s, u)
  <2>1. (1..t) \ Window(s) \subseteq (1..u) \ Window(s)
    BY <1>1
  <2> QED
    BY <2>1, Counts, FS_Subset DEF Quiet
<1>3. Bursts(s, t) <= Bursts(s, u)
  <2>1. (1..t) \cap Window(s) \subseteq (1..u) \cap Window(s)
    BY <1>1
  <2> QED
    BY <2>1, Counts, FS_Subset DEF Bursts
<1>4. /\ Quiet(s, t) \in Nat /\ Quiet(s, u) \in Nat /\ Bursts(s, t) \in Nat /\ Bursts(s, u) \in Nat
      /\ Ceil(s) \in Nat
  BY Counts, MostIsMost
<1>5. /\ Bursts(s, t) * Ceil(s) <= Bursts(s, u) * Ceil(s)
      /\ Bursts(s, t) * Ceil(s) \in Nat /\ Bursts(s, u) * Ceil(s) \in Nat
  BY <1>3, <1>4, Products
<1> QED
  BY <1>2, <1>4, <1>5 DEF High

LEMMA NoTicks ==
  ASSUME NEW s \in Specs
  PROVE  High(s, 0) >= 0 /\ Low(s, 0) = 0
<1>1. Quiet(s, 0) = 0 /\ Bursts(s, 0) = 0
  <2>1. 0 \in Nat
    OBVIOUS
  <2>2. Quiet(s, 0) \in Nat /\ Bursts(s, 0) \in Nat /\ Quiet(s, 0) = 0 - Bursts(s, 0)
    BY <2>1, Counts
  <2> QED
    BY <2>2
<1>2. Floor(s) \in Nat
  BY MostIsMost
<1> QED
  BY <1>1, <1>2, SumsAreNat DEF Low

----------------------------------------------------------------------------
(* The steps                                                               *)

LEMMA RequestIsNotNone ==
  ASSUME NEW r \in NextRequest
  PROVE  r # None
<1>1. \A A, B, C : \A x \in [tenant : A, kind : B, payload : C] : x # [none |-> TRUE]
  <2> SUFFICES ASSUME NEW A, NEW B, NEW C, NEW x \in [tenant : A, kind : B, payload : C],
                      x = [none |-> TRUE]
               PROVE  FALSE
    OBVIOUS
  <2>1. "tenant" \in DOMAIN x
    OBVIOUS
  <2>2. DOMAIN x = {"none"}
    OBVIOUS
  <2> QED
    BY <2>1, <2>2
<1> QED
  BY <1>1 DEF NextRequest, None

LEMMA InitInv == Init => IInv
<1> SUFFICES ASSUME Init PROVE IInv
  OBVIOUS
<1> USE DEF Init
<1>1. spec.duration \in Nat /\ Most(spec) \in Nat /\ High(spec, 0) >= 0 /\ Low(spec, 0) = 0
  BY SpecsAssumption, MostIsMost, NoTicks
<1>2. TypeInv /\ StepInv /\ NoneSkippedSilently
  <2>1. TypeInv
    BY DEF TypeInv, Steps
  <2>2. StepInv
    BY DEF StepInv
  <2>3. NoneSkippedSilently
    BY DEF NoneSkippedSilently
  <2> QED
    BY <2>1, <2>2, <2>3
<1>3. OverrunInv
  BY <1>1 DEF OverrunInv
<1>4. StreamInv
  <2>1. Pending = 0 /\ (spec.duration > 0 => Behind = 0)
    BY <1>1 DEF Pending, Behind
  <2> QED
    BY <1>1, <2>1 DEF StreamInv
<1> QED
  BY <1>2, <1>3, <1>4 DEF IInv

\* Requests are counted where they go.
LEMMA CountInv ==
  ASSUME IInv, [Next]_vars
  PROVE  TypeInv' /\ StepInv' /\ NoneSkippedSilently'
<1> USE DEF IInv, TypeInv, Steps, StepInv, NoneSkippedSilently
<1>1. CASE NewGenerator \/ Run \/ CtxDone \/ Deadline \/ SendCancelled \/ Cancel \/ UNCHANGED vars
  <2> USE <1>1 DEF NewGenerator, Run, CtxDone, Deadline, SendCancelled, Cancel, gen, vars
  <2>1. TypeInv'
    OBVIOUS
  <2>2. StepInv'
    OBVIOUS
  <2>3. NoneSkippedSilently'
    OBVIOUS
  <2> QED
    BY <2>1, <2>2, <2>3
<1>2. CASE Tick
  <2>1. PICK d \in Draws : left' = Count(Burst(spec.curve, tick), d)
    BY <1>2 DEF Tick
  <2>2. left' \in Nat
    BY <2>1, TickSends
  <2> QED
    BY <1>2, <2>2 DEF Tick, gen
<1>3. CASE Generate
  <2>1. req' # None
    BY <1>3, RequestIsNotNone DEF Generate
  <2> QED
    BY <1>3, <2>1 DEF Generate, gen
<1>4. CASE Send \/ Drop
  BY <1>4 DEF Send, Drop, HandedOver, gen
<1>5. CASE Clock
  <2>1. spec.duration \in Nat
    BY SpecsAssumption
  <2> QED
    BY <1>5, <2>1 DEF Clock, gen
<1>6. CASE Receive
  BY <1>6 DEF Receive, gen
<1> QED
  BY <1>1, <1>2, <1>3, <1>4, <1>5, <1>6 DEF Next, Generator

\* Arithmetic that the provers need spelt out where a variable is primed.
LEMMA SumsBelow ==
  /\ \A a, b, c, d, h \in Nat : a + b <= c + d /\ c + d <= h => a + b <= h
  /\ \A a, b \in Nat : a + b \in Nat /\ a + b <= a + b /\ a + 0 <= a + b
  /\ \A a, b, m \in Nat : a + 0 + m <= 2 * m /\ b <= m => a + b + 0 <= 2 * m
  /\ \A a \in Nat : a > 0 => a - 1 \in Nat
OBVIOUS

\* After Duration a tick that hangs and the one that waits are all that is sent.
LEMMA OverrunStep ==
  ASSUME IInv, [Next]_vars
  PROVE  OverrunInv'
<1> DEFINE m == Most(spec)
           D == spec.duration
<1>1. m \in Nat /\ D \in Nat /\ UNCHANGED spec
  <2>1. UNCHANGED spec
    BY DEF Next, Generator, NewGenerator, Run, CtxDone, Deadline, Tick, Generate, Send, Drop,
           HandedOver, SendCancelled, Clock, Receive, Cancel, gen, vars
  <2> QED
    BY <2>1, MostIsMost, SpecsAssumption DEF IInv, TypeInv
<1>2. /\ clock \in Nat /\ tick \in Nat /\ left \in Nat /\ late \in Nat
      /\ left <= m
      /\ clock < D => late = 0
      /\ clock >= D => late + left + (IF tick # 0 /\ tick < D THEN m ELSE 0) <= 2 * m
      /\ tick <= clock
      /\ pc = "select" => left = 0
      /\ pc = "send" => left > 0
  BY DEF IInv, TypeInv, OverrunInv, StepInv
<1> SUFFICES /\ left' <= m
             /\ clock' < D => late' = 0
             /\ clock' >= D => late' + left' + (IF tick' # 0 /\ tick' < D THEN m ELSE 0) <= 2 * m
  BY <1>1 DEF OverrunInv
<1>3. m' = m /\ D' = D
  BY <1>1
<1> HIDE DEF m, D
<1>4. CASE UNCHANGED <<clock, tick, left, late>>
  BY <1>2, <1>4
<1>5. CASE Deadline
  <2>1. UNCHANGED <<clock, left, late>> /\ tick' = 0
    BY <1>5 DEF Deadline
  <2> QED
    BY <1>1, <1>2, <2>1
<1>6. CASE Tick
  <2>1. PICK d \in Draws : left' = Count(Burst(spec.curve, tick), d)
    BY <1>6 DEF Tick
  <2>2. left' \in Nat /\ left' <= m
    BY <2>1, TickSends, MostIsMost DEF m, IInv, TypeInv
  <2>3. UNCHANGED <<clock, late>> /\ tick' = 0 /\ left = 0 /\ tick # 0 /\ tick < D
    BY <1>2, <1>6 DEF Tick, D
  <2>4. PICK n \in Nat : n = left' /\ n <= m
    BY <2>2
  <2>5. clock >= D => late + 0 + m <= 2 * m
    BY <1>2, <2>3
  <2>6. clock >= D => late + n + 0 <= 2 * m
    BY <1>1, <1>2, <2>4, <2>5, SumsBelow
  <2> QED
    BY <1>2, <2>3, <2>4, <2>6
<1>7. CASE Send \/ Drop
  <2>1. /\ left' = left - 1 /\ left > 0 /\ UNCHANGED <<clock, tick>>
        /\ late' = late + (IF clock >= D THEN 1 ELSE 0)
    BY <1>2, <1>7 DEF Send, Drop, HandedOver, D
  <2> QED
    BY <1>1, <1>2, <2>1
<1>8. CASE Clock
  <2>1. /\ UNCHANGED <<left, late>>
        /\ clock' = clock + 1 \/ (clock' = clock /\ clock >= D)
        /\ tick' = IF tick = 0 THEN clock' ELSE tick
    BY <1>1, <1>2, <1>8, BoundAssumption DEF Clock, D
  <2>2. CASE clock < D
    BY <1>1, <1>2, <2>1, <2>2
  <2>3. CASE clock >= D
    BY <1>1, <1>2, <2>1, <2>3
  <2> QED
    BY <1>1, <1>2, <2>2, <2>3
<1> QED
  BY <1>4, <1>5, <1>6, <1>7, <1>8 DEF Next, Generator, NewGenerator, Run, CtxDone, Generate,
     SendCancelled, Receive, Cancel, gen, vars

\* A step that is not of the ticker moves requests only.
LEMMA StreamKeeps ==
  ASSUME IInv, UNCHANGED <<spec, clock, tick, missed>>, cancelled => cancelled',
         generated \in Nat, generated' \in Nat, Pending \in Nat, Pending' \in Nat,
         generated' + Pending' <= generated + Pending,
         ~cancelled' => generated' + Pending' = generated + Pending,
         pc' = "closed" => pc = "closed" \/ cancelled' \/ ~(spec.rate > 0)
  PROVE  StreamInv'
<1>1. Behind' = Behind
  BY DEF Behind
<1>2. ASSUME spec.duration > 0 PROVE generated' + Pending' <= High(spec, Behind)
  <2>1. generated + Pending <= High(spec, Behind) /\ Behind \in Nat
    BY <1>2, SpecsAssumption DEF IInv, StreamInv, Behind, TypeInv
  <2>2. High(spec, Behind) \in Nat
    BY <2>1, SumsAreNat DEF IInv, TypeInv
  <2> QED
    BY <2>1, <2>2, SumsBelow
<1>3. ASSUME spec.duration > 0, ~missed, ~cancelled'
      PROVE  generated' + Pending' >= Low(spec, Behind)
  BY <1>3 DEF IInv, StreamInv
<1>4. ASSUME spec.duration > 0, pc' = "closed", ~cancelled', spec.rate > 0
      PROVE  clock >= spec.duration /\ tick = 0
  BY <1>4 DEF IInv, StreamInv
<1>5. spec.duration > 0 /\ ~missed /\ tick # 0 => tick = clock
  BY DEF IInv, StreamInv
<1> QED
  BY <1>1, <1>2, <1>3, <1>4, <1>5 DEF StreamInv

LEMMA StreamStep ==
  ASSUME IInv, [Next]_vars
  PROVE  StreamInv'
<1> DEFINE D == spec.duration
<1>1. TypeInv' /\ StepInv'
  BY CountInv
<1>2. generated \in Nat /\ generated' \in Nat /\ Pending \in Nat /\ Pending' \in Nat /\ D \in Nat
  <2>1. generated \in Nat /\ left \in Nat /\ (pc = "send" => left > 0) /\ D \in Nat
    BY SpecsAssumption DEF IInv, TypeInv, StepInv
  <2>2. generated' \in Nat /\ left' \in Nat /\ (pc' = "send" => left' > 0)
    BY <1>1 DEF TypeInv, StepInv
  <2>3. Pending \in Nat /\ Pending' \in Nat
    BY <2>1, <2>2, SumsBelow DEF Pending
  <2> QED
    BY <2>1, <2>2, <2>3
<1>3. CASE NewGenerator \/ Run \/ CtxDone \/ SendCancelled \/ Receive \/ Cancel \/ UNCHANGED vars
  <2>1. /\ UNCHANGED <<spec, clock, tick, missed, generated, left>> /\ (cancelled => cancelled')
        /\ Pending' = Pending \/ (Pending' = 0 /\ cancelled')
        /\ pc' = "closed" => pc = "closed" \/ cancelled' \/ ~(spec.rate > 0)
    <3>1. CASE Run
      <4>1. spec.rate <= 0 => ~(spec.rate > 0)
        BY SpecsAssumption DEF IInv, TypeInv
      <4> QED
        BY <3>1, <4>1 DEF Run, Pending, gen
    <3>2. CASE ~Run
      BY <1>3, <3>2 DEF NewGenerator, CtxDone, SendCancelled, Receive, Cancel, Pending, gen, vars
    <3> QED
      BY <3>1, <3>2
  <2>2. generated' + Pending' <= generated + Pending
    BY <1>2, <2>1, SumsBelow
  <2>3. ~cancelled' => generated' + Pending' = generated + Pending
    BY <2>1
  <2> QED
    BY <1>2, <2>1, <2>2, <2>3, StreamKeeps
<1>4. CASE Generate \/ Send \/ Drop
  <2>1. /\ UNCHANGED <<spec, clock, tick, missed, cancelled>>
        /\ pc' # "closed"
    BY <1>4 DEF Generate, Send, Drop, HandedOver, gen
  <2>2. generated' + Pending' = generated + Pending
    <3>1. left \in Nat
      BY DEF IInv, TypeInv
    <3>2. CASE Generate
      <4>1. Pending = left /\ Pending' = left - 1 /\ generated' = generated + 1
        BY <3>2 DEF Generate, Pending
      <4> QED
        BY <1>2, <3>1, <4>1
    <3>3. CASE Send \/ Drop
      <4>1. generated' = generated /\ Pending = left - 1 /\ Pending' = left - 1
        BY <3>1, <3>3 DEF Send, Drop, HandedOver, Pending
      <4> QED
        BY <4>1
    <3> QED
      BY <1>4, <3>2, <3>3
  <2>3. generated' + Pending' <= generated + Pending
    BY <1>2, <2>2, SumsBelow
  <2> QED
    BY <1>2, <2>1, <2>2, <2>3, StreamKeeps
<1>5. CASE Deadline \/ Tick \/ Clock
  <2> SUFFICES ASSUME D > 0
               PROVE  /\ generated' + Pending' <= High(spec, Behind')
                      /\ ~missed' /\ tick' # 0 => tick' = clock'
                      /\ ~missed' /\ ~cancelled' => generated' + Pending' >= Low(spec, Behind')
                      /\ pc' = "closed" /\ ~cancelled' /\ spec.rate > 0 =>
                           clock' >= D /\ tick' = 0
    <3>1. UNCHANGED spec
      BY <1>5 DEF Deadline, Tick, Clock, gen
    <3> QED
      BY <3>1 DEF StreamInv
  <2>1. /\ generated + Pending <= High(spec, Behind)
        /\ ~missed /\ tick # 0 => tick = clock
        /\ ~missed /\ ~cancelled => generated + Pending >= Low(spec, Behind)
        /\ clock \in Nat /\ tick \in Nat /\ tick <= clock /\ spec \in Specs
    BY DEF IInv, StreamInv, TypeInv, StepInv
  <2>2. CASE Deadline
    <3>1. /\ UNCHANGED <<spec, clock, generated, missed, cancelled>> /\ tick' = 0
          /\ tick # 0 /\ tick >= D /\ Pending' = Pending
      BY <2>2 DEF Deadline, Pending, gen
    <3>2. Behind = D - 1 /\ Behind' = D - 1 /\ clock >= D
      BY <1>2, <2>1, <3>1 DEF Behind
    <3> QED
      BY <2>1, <3>1, <3>2
  <2>3. CASE Clock
    <3>1. /\ UNCHANGED <<spec, generated, cancelled>> /\ Pending' = Pending /\ pc' # "closed"
          /\ clock' = IF clock < D + MaxLag THEN clock + 1 ELSE clock
          /\ tick' = IF tick = 0 THEN clock' ELSE tick
          /\ missed' = (missed \/ tick # 0)
      BY <2>3 DEF Clock, Pending, gen
    <3>2. Behind' = Behind
      <4>1. CASE tick = 0
        BY <1>2, <2>1, <3>1, <4>1, BoundAssumption DEF Behind
      <4>2. CASE tick # 0
        BY <3>1, <4>2 DEF Behind
      <4> QED
        BY <4>1, <4>2
    <3> QED
      BY <2>1, <3>1, <3>2
  <2>4. CASE Tick
    <3>1. /\ UNCHANGED <<spec, clock, generated, missed, cancelled>> /\ tick' = 0
          /\ tick # 0 /\ tick < D /\ Pending = 0 /\ pc' # "closed"
      BY <2>4 DEF Tick, Pending, gen
    <3>2. PICK d \in Draws : left' = Count(Burst(spec.curve, tick), d)
      BY <2>4 DEF Tick
    <3>3. PICK n \in Nat : n = Count(Burst(spec.curve, tick), d)
      BY <2>1, <3>2, TickSends
    <3>4. Pending' = n
      BY <2>4, <3>2, <3>3 DEF Tick, Pending
    <3>5. PICK t \in Nat : tick = t + 1
      BY <2>1, <3>1
    <3>6. Behind = t /\ Behind' \in Nat /\ t + 1 <= Behind' /\ (clock = tick => Behind' = t + 1)
      BY <1>2, <2>1, <3>1, <3>5 DEF Behind
    <3>7. High(spec, t) + n <= High(spec, t + 1) /\ Low(spec, t) + n >= Low(spec, t + 1)
      BY <2>1, <3>3, <3>5, NextTick
    <3>8. /\ High(spec, t) \in Nat /\ High(spec, t + 1) \in Nat /\ High(spec, Behind') \in Nat
          /\ Low(spec, t) \in Nat /\ Low(spec, t + 1) \in Nat
      BY <2>1, <3>6, SumsAreNat
    <3>9. High(spec, t + 1) <= High(spec, Behind')
      BY <2>1, <3>6, HighGrows
    <3>10. generated + n <= High(spec, Behind')
      BY <1>2, <2>1, <3>1, <3>6, <3>7, <3>8, <3>9
    <3>11. ~missed /\ ~cancelled => generated + n >= Low(spec, Behind')
      BY <1>2, <2>1, <3>1, <3>6, <3>7, <3>8
    <3> QED
      BY <3>1, <3>4, <3>10, <3>11
  <2> QED
    BY <1>5, <2>2, <2>3, <2>4
<1> QED
  BY <1>3, <1>4, <1>5 DEF Next, Generator

LEMMA SpecInv == Spec => []IInv
<1>1. IInv /\ [Next]_vars => IInv'
  BY CountInv, OverrunStep, StreamStep DEF IInv
<1> QED
  BY <1>1, InitInv, PTL DEF Spec

----------------------------------------------------------------------------
\* Every request that nextRequest made is in the channel, received, reported to the
\* callback or in hand, whatever the receivers and ctx do.
THEOREM NoneIsSkippedSilently == Spec => []NoneSkippedSilently
<1>1. IInv => NoneSkippedSilently
  BY DEF IInv
<1> QED
  BY <1>1, SpecInv, PTL

\* However long the receivers hang, what Run sends after Duration is at most what two
\* ticks send.
THEOREM OverrunStaysBounded == Spec => []OverrunIsBounded
<1>1. IInv => OverrunIsBounded
  <2> SUFFICES ASSUME IInv PROVE late <= 2 * Most(spec)
    BY DEF OverrunIsBounded, Most, Ceil
  <2>1. Most(spec) \in Nat /\ late \in Nat /\ left \in Nat /\ clock \in Nat /\ spec.duration \in Nat
    BY MostIsMost, SpecsAssumption DEF IInv, TypeInv
  <2> QED
    BY <2>1 DEF IInv, OverrunInv
<1> QED
  BY <1>1, SpecInv, PTL

\* Whatever the curve and however the ticks are skipped, the stream carries no more
\* than the curve asks for, and no less if no tick was skipped.
THEOREM StreamKeepsToCurve == Spec => []StreamFollowsCurve
<1>1. IInv => StreamFollowsCurve
  <2> SUFFICES ASSUME IInv, spec.duration > 0
               PROVE  LET quiet == Cardinality(TicksBefore(spec.duration)) - BurstTicks
                          low == quiet + BurstTicks * (spec.curve.mult \div Grid)
                          high == quiet + BurstTicks * ((spec.curve.mult + Grid - 1) \div Grid)
                      IN /\ generated <= high
                         /\ pc = "closed" /\ ~cancelled /\ ~missed /\ spec.rate > 0 =>
                              generated >= low
    BY DEF StreamFollowsCurve
  <2>1. PICK t \in Nat : t = spec.duration - 1
    BY SpecsAssumption DEF IInv, TypeInv
  <2>2. spec \in Specs /\ TicksBefore(spec.duration) = 1..t /\ Cardinality(1..t) = t
    BY <2>1, FS_Interval DEF IInv, TypeInv, TicksBefore
  <2>3. BurstTicks = Bursts(spec, t) /\ Quiet(spec, t) = t - Bursts(spec, t)
    BY <2>2, Counts DEF BurstTicks, Bursts, Window
  <2>4. /\ High(spec, t) = t - BurstTicks + BurstTicks * Ceil(spec)
        /\ Low(spec, t) = t - BurstTicks + BurstTicks * Floor(spec)
    BY <2>3 DEF High, Low
  <2>5. /\ Behind \in Nat /\ Behind <= t /\ Pending \in Nat /\ generated \in Nat
        /\ pc = "closed" => Pending = 0
    BY <2>1, SpecsAssumption DEF IInv, TypeInv, StepInv, Behind, Pending
  <2>6. High(spec, Behind) <= High(spec, t) /\ High(spec, Behind) \in Nat /\ High(spec, t) \in Nat
    BY <2>2, <2>5, HighGrows, SumsAreNat
  <2>7. generated <= High(spec, t)
    BY <2>5, <2>6 DEF IInv, StreamInv
  <2>8. ASSUME pc = "closed", ~cancelled, ~missed, spec.rate > 0 PROVE generated >= Low(spec, t)
    <3>1. clock >= spec.duration /\ tick = 0
      BY <2>8 DEF IInv, StreamInv
    <3>2. Behind = t
      BY <2>1, <3>1, SpecsAssumption DEF Behind, IInv, TypeInv
    <3>3. generated + Pending >= Low(spec, Behind) /\ Pending = 0
      BY <2>5, <2>8 DEF IInv, StreamInv
    <3> QED
      BY <2>5, <3>2, <3>3
  <2> QED
    BY <2>2, <2>4, <2>7, <2>8 DEF Ceil, Floor
<1> QED
  BY <1>1, SpecInv, PTL

----------------------------------------------------------------------------
(* The samplers: what share of the draws a choice gets                     *)

LEMMA IntervalCount ==
  ASSUME NEW a \in Int, NEW b \in Int, a <= b
  PROVE  IsFiniteSet(a..(b - 1)) /\ Cardinality(a..(b - 1)) = b - a
<1>1. PICK c \in Int : c = b - 1
  OBVIOUS
<1>2. IsFiniteSet(a..c) /\ Cardinality(a..c) = IF a > c THEN 0 ELSE c - a + 1
  BY FS_Interval
<1>3. CASE a > c
  BY <1>1, <1>2, <1>3
<1>4. CASE ~(a > c)
  BY <1>1, <1>2, <1>4
<1> QED
  BY <1>3, <1>4

LEMMA AllDraws == IsFiniteSet(Draws) /\ Cardinality(Draws) = Grid /\ Draws = 0..(Grid - 1)
BY IntervalCount, GridAssumption DEF Draws

LEMMA TenantShares ==
  ASSUME spec \in Specs, spec.tenants > 0
  PROVE  /\ IsFiniteSet(Pairs) /\ Cardinality(Pairs) = Grid * (spec.tenants - StartIdx)
         /\ \A p \in Pairs : PickTenant(p[1], p[2]) \in 0..(spec.tenants - 1)
         /\ \A t \in (0..(spec.tenants - 1)) \ {0} : TenantShare(t) = Grid - spec.skew
         /\ spec.tenants > 1 /\ spec.skew > 0 => TenantShare(0) = spec.skew * (spec.tenants - 1)
         /\ spec.tenants > 1 /\ spec.skew = 0 => TenantShare(0) = Grid
<1>1. PICK n \in Nat, k \in 0..Grid : n = spec.tenants /\ k = spec.skew /\ n > 0
  BY SamplerAssumption
<1>2. StartIdx = (IF k > 0 /\ n > 1 THEN 1 ELSE 0) /\ StartIdx \in {0, 1} /\ n - StartIdx \in Nat
  BY <1>1 DEF StartIdx
<1>3. IsFiniteSet(Rest) /\ Cardinality(Rest) = n - StartIdx /\ Rest = 0..(n - StartIdx - 1)
  <2>1. PICK m \in Nat : m = n - StartIdx
    BY <1>2
  <2>2. Rest = 0..(m - 1)
    BY <1>1, <2>1 DEF Rest
  <2> QED
    BY <2>1, <2>2, IntervalCount
<1>4. IsFiniteSet(Pairs) /\ Cardinality(Pairs) = Grid * (n - StartIdx)
  <2>1. IsFiniteSet(Pairs) /\ Cardinality(Pairs) = Cardinality(Draws) * Cardinality(Rest)
    BY <1>3, AllDraws, FS_Product DEF Pairs
  <2> QED
    BY <1>3, <2>1, AllDraws
<1>5. \A d \in Draws, i \in Rest :
        PickTenant(d, i) = IF k > 0 /\ d < k THEN 0 ELSE StartIdx + i
  BY <1>1 DEF PickTenant
<1>6. \A p \in Pairs : PickTenant(p[1], p[2]) \in 0..(n - 1)
  BY <1>1, <1>2, <1>3, <1>5 DEF Pairs
<1>7. ASSUME NEW t \in (0..(n - 1)) \ {0} PROVE TenantShare(t) = Grid - k
  <2>1. t - StartIdx \in Rest
    BY <1>1, <1>2, <1>3
  <2>2. {p \in Pairs : PickTenant(p[1], p[2]) = t} = (k..(Grid - 1)) \X {t - StartIdx}
    <3>1. ASSUME NEW d \in Draws, NEW i \in Rest
          PROVE  PickTenant(d, i) = t <=> d \in k..(Grid - 1) /\ i = t - StartIdx
      BY <1>1, <1>2, <1>3, <1>5, <1>7, GridAssumption, AllDraws, SMTT(30)
    <3>2. k..(Grid - 1) \subseteq Draws
      BY AllDraws, GridAssumption
    <3> QED
      BY <2>1, <3>1, <3>2 DEF Pairs
  <2>3. IsFiniteSet(k..(Grid - 1)) /\ Cardinality(k..(Grid - 1)) = Grid - k
    BY IntervalCount, GridAssumption
  <2>4. Cardinality((k..(Grid - 1)) \X {t - StartIdx}) = (Grid - k) * 1
    <3>1. IsFiniteSet({t - StartIdx}) /\ Cardinality({t - StartIdx}) = 1
      BY FS_Singleton
    <3>2. Cardinality((k..(Grid - 1)) \X {t - StartIdx}) =
            Cardinality(k..(Grid - 1)) * Cardinality({t - StartIdx})
      BY <2>3, <3>1, FS_Product
    <3> QED
      BY <2>3, <3>1, <3>2
  <2> QED
    <3>1. Grid - k \in Nat /\ (Grid - k) * 1 = Grid - k
      BY GridAssumption
    <3> QED
      BY <2>2, <2>4, <3>1 DEF TenantShare
<1>8. ASSUME n > 1, k > 0 PROVE TenantShare(0) = k * (n - 1)
  <2>1. {p \in Pairs : PickTenant(p[1], p[2]) = 0} = (0..(k - 1)) \X Rest
    <3>1. ASSUME NEW d \in Draws, NEW i \in Rest
          PROVE  PickTenant(d, i) = 0 <=> d \in 0..(k - 1)
      BY <1>1, <1>2, <1>3, <1>5, <1>8, GridAssumption, AllDraws, SMTT(30)
    <3>2. 0..(k - 1) \subseteq Draws
      BY AllDraws, GridAssumption
    <3> QED
      BY <3>1, <3>2 DEF Pairs
  <2>2. IsFiniteSet(0..(k - 1)) /\ Cardinality(0..(k - 1)) = k
    BY IntervalCount, GridAssumption
  <2> QED
    <3>1. Cardinality(Rest) = n - 1 /\ n - 1 \in Nat /\ k \in Nat
      BY <1>2, <1>3, <1>8
    <3>2. Cardinality((0..(k - 1)) \X Rest) = Cardinality(0..(k - 1)) * Cardinality(Rest)
      BY <1>3, <2>2, FS_Product
    <3> QED
      BY <2>1, <2>2, <3>1, <3>2 DEF TenantShare
<1>9. ASSUME n > 1, k = 0 PROVE TenantShare(0) = Grid
  <2>1. 0 \in Rest
    BY <1>1, <1>2, <1>3, <1>9
  <2>2. {p \in Pairs : PickTenant(p[1], p[2]) = 0} = Draws \X {0}
    <3>1. ASSUME NEW d \in Draws, NEW i \in Rest PROVE PickTenant(d, i) = 0 <=> i = 0
      BY <1>1, <1>2, <1>3, <1>5, <1>9
    <3> QED
      BY <2>1, <3>1 DEF Pairs
  <2>3. Cardinality(Draws \X {0}) = Grid * 1
    <3>1. IsFiniteSet({0}) /\ Cardinality({0}) = 1
      BY FS_Singleton
    <3>2. Cardinality(Draws \X {0}) = Cardinality(Draws) * Cardinality({0})
      BY <3>1, AllDraws, FS_Product
    <3> QED
      BY <3>1, <3>2, AllDraws
  <2> QED
    BY <2>2, <2>3, GridAssumption DEF TenantShare
<1> QED
  BY <1>1, <1>4, <1>6, <1>7, <1>8, <1>9

LEMMA SkewHolds == spec \in Specs => SkewIsExact
<1> SUFFICES ASSUME spec \in Specs, spec.tenants > 0
             PROVE  LET all == 0..(spec.tenants - 1) IN
                    /\ SumFunction([t \in all |-> TenantShare(t)]) = Cardinality(Pairs)
                    /\ \A t, u \in all \ {0} : TenantShare(t) = TenantShare(u)
                    /\ spec.tenants > 1 =>
                         IF spec.skew > 0 THEN TenantShare(0) * Grid = spec.skew * Cardinality(Pairs)
                         ELSE TenantShare(0) = TenantShare(1)
  BY DEF SkewIsExact
<1> DEFINE all == 0..(spec.tenants - 1)
           f == [p \in Pairs |-> PickTenant(p[1], p[2])]
<1>1. PICK n \in Nat, k \in 0..Grid : n = spec.tenants /\ k = spec.skew /\ n > 0
  BY SamplerAssumption
<1>2. /\ IsFiniteSet(Pairs) /\ Cardinality(Pairs) = Grid * (n - StartIdx)
      /\ \A p \in Pairs : PickTenant(p[1], p[2]) \in all
      /\ \A t \in all \ {0} : TenantShare(t) = Grid - k
      /\ n > 1 /\ k > 0 => TenantShare(0) = k * (n - 1)
      /\ n > 1 /\ k = 0 => TenantShare(0) = Grid
  BY <1>1, TenantShares
<1>3. SumFunction([t \in all |-> TenantShare(t)]) = Cardinality(Pairs)
  <2>1. IsFiniteSet(all)
    BY <1>1, IntervalCount
  <2>2. f \in [Pairs -> all]
    BY <1>2
  <2>3. \A t : TenantShare(t) = Cardinality({p \in Pairs : f[p] = t})
    <3>1. ASSUME NEW t
          PROVE  {p \in Pairs : PickTenant(p[1], p[2]) = t} = {p \in Pairs : f[p] = t}
      OBVIOUS
    <3> QED
      BY <3>1 DEF TenantShare
  <2> HIDE DEF f, all
  <2>4. SumFunctionOnSet([t \in all |-> Cardinality({p \in Pairs : f[p] = t})], all)
          = Cardinality(Pairs)
    BY <1>2, <2>1, <2>2, SumCounts
  <2>5. [t \in all |-> TenantShare(t)] = [t \in all |-> Cardinality({p \in Pairs : f[p] = t})]
    BY <2>3
  <2> QED
    BY <2>4, <2>5 DEF SumFunction
<1>4. ASSUME n > 1, k > 0 PROVE TenantShare(0) * Grid = k * Cardinality(Pairs)
  <2>1. StartIdx = 1 /\ TenantShare(0) = k * (n - 1) /\ Cardinality(Pairs) = Grid * (n - 1)
    BY <1>1, <1>2, <1>4 DEF StartIdx
  <2>2. \A a, b, c \in Nat : (a * b) * c = a * (c * b)
    OBVIOUS
  <2> QED
    BY <1>4, <2>1, <2>2, GridAssumption
<1>5. ASSUME n > 1, k = 0 PROVE TenantShare(0) = TenantShare(1)
  <2>1. 1 \in all \ {0}
    BY <1>1, <1>5
  <2> QED
    BY <1>2, <1>5, <2>1, GridAssumption
<1> QED
  BY <1>1, <1>2, <1>3, <1>4, <1>5

\* pickTenant gives the noisy tenant exactly the fraction TenantSkew of the draws and the
\* others equal parts of the remainder, for every number of tenants and every skew.
THEOREM SkewStaysExact == Spec => []SkewIsExact
<1>1. IInv => SkewIsExact
  BY SkewHolds DEF IInv, TypeInv
<1> QED
  BY <1>1, SpecInv, PTL

\* The draws of the three classes that fall into A, B and C.
Box(A, B, C) == {d \in [1..3 -> Draws] : d[1] \in A /\ d[2] \in B /\ d[3] \in C}

LEMMA BoxCount ==
  ASSUME NEW A \in SUBSET Draws, NEW B \in SUBSET Draws, NEW C \in SUBSET Draws
  PROVE  Cardinality(Box(A, B, C)) = (Cardinality(A) * Cardinality(B)) * Cardinality(C)
<1> DEFINE P == (A \X B) \X C
           f == [t \in P |-> [i \in 1..3 |-> IF i = 1 THEN t[1][1] ELSE IF i = 2 THEN t[1][2] ELSE t[2]]]
<1>1. IsFiniteSet(A) /\ IsFiniteSet(B) /\ IsFiniteSet(C)
  BY AllDraws, FS_Subset
<1>2. IsFiniteSet(A \X B) /\ Cardinality(A \X B) = Cardinality(A) * Cardinality(B)
  BY <1>1, FS_Product
<1>3. IsFiniteSet(P) /\ Cardinality(P) = Cardinality(A \X B) * Cardinality(C)
  BY <1>1, <1>2, FS_Product
<1>4. ASSUME NEW t \in P PROVE f[t] \in Box(A, B, C) /\ t = <<<<f[t][1], f[t][2]>>, f[t][3]>>
  <2>1. /\ t[1][1] \in A /\ t[1][2] \in B /\ t[2] \in C /\ t = <<<<t[1][1], t[1][2]>>, t[2]>>
    OBVIOUS
  <2>2. /\ f[t] = [i \in 1..3 |-> IF i = 1 THEN t[1][1] ELSE IF i = 2 THEN t[1][2] ELSE t[2]]
        /\ f[t][1] = t[1][1] /\ f[t][2] = t[1][2] /\ f[t][3] = t[2]
    OBVIOUS
  <2>3. f[t] \in [1..3 -> Draws]
    BY <2>1, <2>2
  <2> QED
    BY <2>1, <2>2, <2>3 DEF Box
<1>5. ASSUME NEW d \in Box(A, B, C) PROVE \E t \in P : f[t] = d
  <2> DEFINE t == <<<<d[1], d[2]>>, d[3]>>
  <2>1. t \in P /\ t[1][1] = d[1] /\ t[1][2] = d[2] /\ t[2] = d[3] /\ d \in [1..3 -> Draws]
    BY DEF Box
  <2>2. f[t] = [i \in 1..3 |-> IF i = 1 THEN d[1] ELSE IF i = 2 THEN d[2] ELSE d[3]]
    BY <2>1
  <2>3. f[t] = d
    <3>1. \A i \in 1..3 : i = 1 \/ i = 2 \/ i = 3
      OBVIOUS
    <3> QED
      BY <2>1, <2>2, <3>1
  <2> QED
    BY <2>1, <2>3
<1>6. ExistsBijection(P, Box(A, B, C))
  <2>1. f \in [P -> Box(A, B, C)]
    BY <1>4
  <2>2. \A s, t \in P : f[s] = f[t] => s = t
    BY <1>4
  <2> HIDE DEF f, P
  <2>3. f \in Bijection(P, Box(A, B, C))
    BY <1>5, <2>1, <2>2 DEF Bijection, Injection, IsInjective, Surjection
  <2> QED
    BY <2>3 DEF ExistsBijection
<1>7. Cardinality(Box(A, B, C)) = Cardinality(P)
  BY <1>3, <1>6, FS_Bijection
<1> QED
  BY <1>2, <1>3, <1>7

LEMMA FirstHit ==
  ASSUME spec \in Specs, NEW d \in [1..3 -> Draws]
  PROVE  LET p(i) == spec.errors[ErrorClasses[i]] IN
         /\ FailWithError(d) = "rate_limit" <=> d[1] < p(1)
         /\ FailWithError(d) = "transient" <=> ~(d[1] < p(1)) /\ d[2] < p(2)
         /\ FailWithError(d) = "permanent" <=> ~(d[1] < p(1)) /\ ~(d[2] < p(2)) /\ d[3] < p(3)
<1> DEFINE p(i) == spec.errors[ErrorClasses[i]]
           hits == {i \in 1..3 : d[i] < p(i)}
<1>1. ErrorClasses[1] = "rate_limit" /\ ErrorClasses[2] = "transient" /\ ErrorClasses[3] = "permanent"
  BY DEF ErrorClasses
<1>2. FailWithError(d) = IF hits = {} THEN "" ELSE ErrorClasses[Min(hits)]
  BY DEF FailWithError
<1>3. \A i : i \in hits <=> i \in 1..3 /\ d[i] < p(i)
  OBVIOUS
<1> HIDE DEF hits, p
<1>4. ASSUME NEW i \in hits, \A j \in hits : i <= j PROVE FailWithError(d) = ErrorClasses[i]
  <2>1. \A j \in hits : j \in Int
    BY <1>3
  <2>2. Min(hits) = i
    BY <1>4, <2>1 DEF Min
  <2> QED
    BY <1>2, <2>2
<1>5. CASE d[1] < p(1)
  <2>1. 1 \in hits /\ \A j \in hits : 1 <= j
    BY <1>3, <1>5
  <2>2. FailWithError(d) = "rate_limit"
    BY <1>1, <1>4, <2>1
  <2> QED
    BY <1>5, <2>2 DEF p
<1>6. CASE ~(d[1] < p(1)) /\ d[2] < p(2)
  <2>1. 2 \in hits /\ \A j \in hits : 2 <= j
    BY <1>3, <1>6
  <2>2. FailWithError(d) = "transient"
    BY <1>1, <1>4, <2>1
  <2> QED
    BY <1>6, <2>2 DEF p
<1>7. CASE ~(d[1] < p(1)) /\ ~(d[2] < p(2)) /\ d[3] < p(3)
  <2>1. 3 \in hits /\ \A j \in hits : 3 <= j
    BY <1>3, <1>7
  <2>2. FailWithError(d) = "permanent"
    BY <1>1, <1>4, <2>1
  <2> QED
    BY <1>7, <2>2 DEF p
<1>8. CASE ~(d[1] < p(1)) /\ ~(d[2] < p(2)) /\ ~(d[3] < p(3))
  <2>1. hits = {}
    BY <1>3, <1>8
  <2>2. FailWithError(d) = ""
    BY <1>2, <2>1
  <2> QED
    BY <1>8, <2>2 DEF p
<1> QED
  BY <1>5, <1>6, <1>7, <1>8

LEMMA ErrorsHold == spec \in Specs => ErrorsCompose
<1> SUFFICES ASSUME spec \in Specs
             PROVE  LET p(i) == spec.errors[ErrorClasses[i]]
                    IN /\ ErrorShare("rate_limit") = p(1) * Grid * Grid
                       /\ ErrorShare("transient") = (Grid - p(1)) * p(2) * Grid
                       /\ ErrorShare("permanent") = (Grid - p(1)) * (Grid - p(2)) * p(3)
  BY DEF ErrorsCompose
<1>1. PICK p1, p2, p3 \in 0..Grid : /\ p1 = spec.errors[ErrorClasses[1]]
                                    /\ p2 = spec.errors[ErrorClasses[2]]
                                    /\ p3 = spec.errors[ErrorClasses[3]]
  BY SamplerAssumption DEF ErrorClasses
<1> DEFINE Hit(p) == 0..(p - 1)
           Miss(p) == p..(Grid - 1)
<1>2. ASSUME NEW p \in 0..Grid
      PROVE  /\ Hit(p) \subseteq Draws /\ Miss(p) \subseteq Draws
             /\ Cardinality(Hit(p)) = p /\ Cardinality(Miss(p)) = Grid - p
             /\ \A x \in Draws : (x < p <=> x \in Hit(p)) /\ (~(x < p) <=> x \in Miss(p))
  <2>1. p \in Int /\ 0 <= p /\ p <= Grid /\ Grid \in Int
    BY GridAssumption
  <2>2. Cardinality(Hit(p)) = p
    BY <2>1, IntervalCount
  <2>3. Cardinality(Miss(p)) = Grid - p
    BY <2>1, IntervalCount
  <2>4. Hit(p) \subseteq Draws /\ Miss(p) \subseteq Draws
    BY <2>1, AllDraws
  <2>5. \A x \in Draws : (x < p <=> x \in Hit(p)) /\ (~(x < p) <=> x \in Miss(p))
    BY <2>1, AllDraws
  <2> QED
    BY <2>2, <2>3, <2>4, <2>5
<1> HIDE DEF Hit, Miss
<1>3. \A d \in [1..3 -> Draws] : d[1] \in Draws /\ d[2] \in Draws /\ d[3] \in Draws
  OBVIOUS
<1>4. \A d \in [1..3 -> Draws] :
        /\ FailWithError(d) = "rate_limit" <=> d[1] < p1
        /\ FailWithError(d) = "transient" <=> ~(d[1] < p1) /\ d[2] < p2
        /\ FailWithError(d) = "permanent" <=> ~(d[1] < p1) /\ ~(d[2] < p2) /\ d[3] < p3
  BY <1>1, FirstHit
<1>5. {d \in [1..3 -> Draws] : FailWithError(d) = "rate_limit"} = Box(Hit(p1), Draws, Draws)
  BY <1>2, <1>3, <1>4 DEF Box
<1>6. {d \in [1..3 -> Draws] : FailWithError(d) = "transient"} = Box(Miss(p1), Hit(p2), Draws)
  BY <1>2, <1>3, <1>4 DEF Box
<1>7. {d \in [1..3 -> Draws] : FailWithError(d) = "permanent"} = Box(Miss(p1), Miss(p2), Hit(p3))
  BY <1>2, <1>3, <1>4 DEF Box
<1>8. ErrorShare("rate_limit") = p1 * Grid * Grid
  <2>1. Cardinality(Box(Hit(p1), Draws, Draws)) =
          (Cardinality(Hit(p1)) * Cardinality(Draws)) * Cardinality(Draws)
    BY <1>2, BoxCount
  <2> QED
    BY <1>2, <1>5, <2>1, AllDraws DEF ErrorShare
<1>9. ErrorShare("transient") = (Grid - p1) * p2 * Grid
  <2>1. Cardinality(Box(Miss(p1), Hit(p2), Draws)) =
          (Cardinality(Miss(p1)) * Cardinality(Hit(p2))) * Cardinality(Draws)
    BY <1>2, BoxCount
  <2> QED
    BY <1>2, <1>6, <2>1, AllDraws DEF ErrorShare
<1>10. ErrorShare("permanent") = (Grid - p1) * (Grid - p2) * p3
  <2>1. Cardinality(Box(Miss(p1), Miss(p2), Hit(p3))) =
          (Cardinality(Miss(p1)) * Cardinality(Miss(p2))) * Cardinality(Hit(p3))
    BY <1>2, BoxCount
  <2> QED
    BY <1>2, <1>7, <2>1, AllDraws DEF ErrorShare
<1> QED
  BY <1>1, <1>8, <1>9, <1>10

\* Error injection gives rate_limit, transient and permanent their probability times the
\* chance that the classes before them miss, for every choice of the three.
THEOREM ErrorsAlwaysCompose == Spec => []ErrorsCompose
<1>1. IInv => ErrorsCompose
  BY ErrorsHold DEF IInv, TypeInv
<1> QED
  BY <1>1, SpecInv, PTL

LEMMA Weights ==
  ASSUME spec \in Specs
  PROVE  /\ WeightUpTo(0) = 0
         /\ \A i \in 0..Len(spec.mix) : WeightUpTo(i) \in Nat
         /\ \A i \in 1..Len(spec.mix) : WeightUpTo(i) = WeightUpTo(i - 1) + spec.mix[i].weight
         /\ \A i, j \in 0..Len(spec.mix) : i <= j => WeightUpTo(i) <= WeightUpTo(j)
<1>1. PICK n \in Nat : n = Len(spec.mix) /\ \A i \in 1..n : spec.mix[i].weight \in Nat
  BY MixAssumption
<1> DEFINE g == [j \in 1..n |-> spec.mix[j].weight]
           W(i) == SumFunctionOnSet(g, 1..i)
<1>2. \A i \in 1..n : g[i] \in Nat /\ g[i] = spec.mix[i].weight
  BY <1>1
<1>3. \A i \in 0..n : IsFiniteSet(1..i) /\ 1..i \subseteq 1..n
  BY <1>1, FS_Interval
<1>4. ASSUME NEW i \in 0..n PROVE WeightUpTo(i) = W(i)
  <2> DEFINE h == [j \in 1..i |-> spec.mix[j].weight]
  <2>1. WeightUpTo(i) = SumFunctionOnSet(h, 1..i)
    BY DEF WeightUpTo, SumFunction
  <2>2. \A j \in 1..i : h[j] = g[j]
    BY <1>3
  <2> HIDE DEF h, g
  <2>3. SumFunctionOnSet(h, 1..i) = SumFunctionOnSet(g, 1..i)
    BY <1>3, <2>2, SumAgree
  <2> QED
    BY <2>1, <2>3
<1> HIDE DEF g
<1>5. W(0) = 0
  <2>1. 1..0 = {}
    OBVIOUS
  <2> QED
    BY <2>1, SumEmpty
<1>6. ASSUME NEW i \in 0..n PROVE W(i) \in Nat
  BY <1>2, <1>3, SumNat
<1>7. ASSUME NEW i \in 1..n PROVE W(i) = W(i - 1) + g[i]
  <2>1. PICK k \in 0..n : k = i - 1
    BY <1>1
  <2>2. 1..i = (1..k) \cup {i} /\ i \notin 1..k
    BY <1>1, <2>1
  <2>3. \A y \in (1..k) \cup {i} : g[y] \in Int
    BY <1>1, <1>2, <2>1
  <2>4. SumFunctionOnSet(g, (1..k) \cup {i}) = g[i] + SumFunctionOnSet(g, 1..k)
    BY <1>3, <2>2, <2>3, SumAdd
  <2>5. W(k) \in Nat /\ g[i] \in Nat
    BY <1>2, <1>6
  <2> QED
    <3>1. W(i) = g[i] + W(k)
      BY <2>2, <2>4
    <3> HIDE DEF W
    <3> QED
      BY <2>1, <2>5, <3>1
<1>8. ASSUME NEW i \in 0..n, NEW j \in 0..n, i <= j PROVE W(i) <= W(j)
  <2> DEFINE rest == (1..j) \ (1..i)
  <2>1. 1..j = (1..i) \cup rest /\ (1..i) \cap rest = {} /\ rest \subseteq 1..n
    BY <1>1, <1>8
  <2>2. IsFiniteSet(rest) /\ IsFiniteSet(1..i) /\ \A y \in rest : g[y] \in Nat
    BY <1>2, <1>3, <2>1, FS_Subset
  <2>3. \A y \in (1..i) \cup rest : g[y] \in Int
    BY <1>1, <1>2, <2>1
  <2> HIDE DEF rest
  <2>4. SumFunctionOnSet(g, (1..i) \cup rest) =
          SumFunctionOnSet(g, 1..i) + SumFunctionOnSet(g, rest)
    BY <2>1, <2>2, <2>3, SumUnion
  <2>5. SumFunctionOnSet(g, rest) \in Nat
    BY <2>2, SumNat
  <2>6. W(i) \in Nat
    BY <1>6
  <2> QED
    <3>1. W(j) = W(i) + SumFunctionOnSet(g, rest)
      BY <2>1, <2>4
    <3> HIDE DEF W
    <3> QED
      BY <2>5, <2>6, <3>1
<1>9. ASSUME NEW i \in 1..n PROVE WeightUpTo(i) = WeightUpTo(i - 1) + spec.mix[i].weight
  <2>1. i \in 0..n /\ i - 1 \in 0..n
    BY <1>1
  <2> QED
    BY <1>2, <1>4, <1>7, <2>1
<1>10. 0 \in 0..n
  BY <1>1
<1> HIDE DEF W
<1> QED
  BY <1>1, <1>4, <1>5, <1>6, <1>8, <1>9, <1>10

\* A boundary of the classes: with c * T = G * w a draw is below it exactly if it is below c.
LEMMA Boundary ==
  ASSUME NEW d \in Nat, NEW c \in Nat, NEW T \in Nat, T > 0
  PROVE  d * T < c * T <=> d < c
<1>1. CASE d < c
  <2>1. (d + 1) * T <= c * T /\ (d + 1) * T = d * T + T /\ d * T \in Nat /\ c * T \in Nat
    BY <1>1, Products
  <2> QED
    BY <1>1, <2>1
<1>2. CASE ~(d < c)
  <2>1. c * T <= d * T /\ d * T \in Nat /\ c * T \in Nat
    BY <1>2, Products
  <2> QED
    BY <1>2, <2>1
<1> QED
  BY <1>1, <1>2

LEMMA Distribution ==
  /\ \A a, b, c \in Nat : a * (b + c) = a * b + a * c /\ a * c \in Nat
  /\ \A a, b, c \in Nat : b <= c => a * b <= a * c
<1>1. ASSUME NEW a \in Nat, NEW b \in Nat, NEW c \in Nat
      PROVE  a * (b + c) = a * b + a * c /\ a * c \in Nat
  OBVIOUS
<1>2. ASSUME NEW a \in Nat, NEW b \in Nat, NEW c \in Nat, b <= c PROVE a * b <= a * c
  <2>1. b * a <= c * a /\ a * b = b * a /\ a * c = c * a
    BY <1>2, Products
  <2> QED
    BY <2>1
<1> QED
  BY <1>1, <1>2

LEMMA Multiple ==
  ASSUME NEW a \in Nat, NEW T \in Nat, T > 0, a % T = 0
  PROVE  a \div T \in Nat /\ (a \div T) * T = a
OBVIOUS

\* The draws that fall to class i are those between the boundaries before and after it.
LEMMA ClassDraws ==
  ASSUME spec \in Specs, total = WeightUpTo(Len(spec.mix)), total > 0,
         NEW i \in DOMAIN spec.mix, NEW a \in Nat, NEW b \in Nat,
         a * total = Grid * WeightUpTo(i - 1), b * total = Grid * WeightUpTo(i)
  PROVE  {d \in Draws : PickKind(d) = spec.mix[i]} = {d \in Draws : a <= d /\ d < b}
<1>1. PICK n \in Nat : /\ n = Len(spec.mix) /\ DOMAIN spec.mix = 1..n
                       /\ \A k, j \in 1..n : spec.mix[k] = spec.mix[j] => k = j
  BY MixAssumption
<1>2. PICK T \in Nat : T = total /\ T > 0
  BY <1>1, Weights
<1>3. i \in 1..n /\ i - 1 \in 0..n /\ i \in 0..n /\ spec.mix # <<>>
  BY <1>1
<1>4. Grid \in Nat
  BY GridAssumption
<1>5. ASSUME NEW d \in Draws PROVE PickKind(d) = spec.mix[i] <=> a <= d /\ d < b
  <2> DEFINE hit == {k \in DOMAIN spec.mix : d * total < Grid * WeightUpTo(k)}
  <2>1. d \in Nat /\ d < Grid /\ d * T \in Nat
    BY <1>2, <1>4, AllDraws, Products
  <2>2. \A k : k \in hit <=> k \in 1..n /\ d * T < Grid * WeightUpTo(k)
    BY <1>1, <1>2
  <2>3. ~(T <= 0)
    BY <1>2
  <2>4. PickKind(d) = spec.mix[Min(hit)]
    BY <1>2, <1>3, <2>3 DEF PickKind
  <2> HIDE DEF hit
  <2>5. i \in hit <=> d < b
    <3>1. d * T < b * T <=> d < b
      BY <1>2, <2>1, Boundary, SMTT(30)
    <3> QED
      BY <1>2, <1>3, <2>2, <3>1
  <2>6. d * T < Grid * WeightUpTo(i - 1) <=> d < a
    <3>1. d * T < a * T <=> d < a
      BY <1>2, <2>1, Boundary, SMTT(30)
    <3> QED
      BY <1>2, <3>1
  <2>7. ASSUME NEW m \in hit, \A k \in hit : m <= k PROVE Min(hit) = m
    <3>1. \A k \in hit : k \in Int
      BY <2>2
    <3> QED
      BY <2>7, <3>1 DEF Min
  <2>8. ASSUME a <= d, d < b PROVE PickKind(d) = spec.mix[i]
    <3>1. ASSUME NEW k \in hit PROVE i <= k
      <4>1. k \in 1..n /\ d * T < Grid * WeightUpTo(k)
        BY <2>2
      <4>2. ASSUME k < i PROVE FALSE
        <5>1. k \in 0..n /\ k <= i - 1
          BY <1>3, <4>1, <4>2
        <5>2. WeightUpTo(k) <= WeightUpTo(i - 1) /\ WeightUpTo(k) \in Nat /\ WeightUpTo(i - 1) \in Nat
          BY <1>1, <1>3, <5>1, Weights
        <5>3. PICK u, v \in Nat : u = WeightUpTo(k) /\ v = WeightUpTo(i - 1) /\ u <= v
          BY <5>2
        <5>4. u * Grid <= v * Grid /\ u * Grid = Grid * u /\ v * Grid = Grid * v
              /\ u * Grid \in Nat /\ v * Grid \in Nat
          BY <1>4, <5>3, Products, SMTT(30)
        <5>5. d * T < Grid * v
          BY <2>1, <4>1, <5>3, <5>4
        <5> QED
          BY <2>6, <2>8, <5>3, <5>5, <2>1
      <4> QED
        BY <1>3, <4>1, <4>2
    <3>2. i \in hit
      BY <2>5, <2>8
    <3>3. Min(hit) = i
      BY <2>7, <3>1, <3>2
    <3> QED
      BY <2>4, <3>3
  <2>9. ASSUME PickKind(d) = spec.mix[i] PROVE a <= d /\ d < b
    <3>1. n \in hit
      <4>1. d * T < Grid * T
        BY <1>2, <1>4, <2>1, Boundary
      <4>2. WeightUpTo(n) = T /\ n \in 1..n
        BY <1>1, <1>2, <1>3
      <4> QED
        BY <2>2, <4>1, <4>2
    <3>2. hit \subseteq Nat
      BY <2>2
    <3>3. PICK m \in hit : \A k \in hit : m <= k
      BY <3>1, <3>2, LeastNatural
    <3>4. m \in 1..n /\ spec.mix[m] = spec.mix[i]
      BY <2>2, <2>4, <2>7, <2>9, <3>3
    <3>5. m = i
      BY <1>1, <1>3, <3>4
    <3>6. d < b
      BY <2>5, <3>5
    <3>7. a <= d
      <4>1. CASE i = 1
        <5>1. a * T = Grid * 0 /\ Grid * 0 = 0
          BY <1>2, <1>4, <4>1, Weights
        <5>2. a = 0
          <6>1. \A x, y \in Nat : x * y = 0 /\ y > 0 => x = 0
            OBVIOUS
          <6> QED
            BY <1>2, <5>1, <6>1
        <5> QED
          BY <2>1, <5>2
      <4>2. CASE i > 1
        <5>1. i - 1 \in 1..n /\ ~(i <= i - 1)
          BY <1>3, <4>2
        <5>2. i - 1 \notin hit
          BY <3>3, <3>5, <5>1
        <5>3. ~(d < a)
          BY <2>2, <2>6, <5>1, <5>2
        <5> QED
          BY <2>1, <5>3
      <4> QED
        BY <1>3, <4>1, <4>2
    <3> QED
      BY <3>6, <3>7
  <2> QED
    BY <2>8, <2>9
<1> QED
  BY <1>5

LEMMA MixHolds == spec \in Specs /\ (pc = "ready" => total = WeightUpTo(Len(spec.mix))) => MixIsProportional
<1> SUFFICES ASSUME spec \in Specs, total = WeightUpTo(Len(spec.mix)), NEW i \in DOMAIN spec.mix
             PROVE  IF total = 0 THEN (KindShare(i) > 0) <=> (i = 1)
                    ELSE KindShare(i) * WeightUpTo(Len(spec.mix)) = Grid * spec.mix[i].weight
  BY DEF MixIsProportional
<1>1. PICK n \in Nat : /\ n = Len(spec.mix) /\ DOMAIN spec.mix = 1..n
                       /\ \A k, j \in 1..n : spec.mix[k] = spec.mix[j] => k = j
                       /\ \A k \in 1..n : spec.mix[k].weight \in Nat
  BY MixAssumption
<1>2. i \in 1..n /\ i - 1 \in 0..n /\ i \in 0..n /\ n \in 0..n /\ spec.mix # <<>> /\ 1 \in 1..n
  BY <1>1
<1>3. PICK T \in Nat : T = total
  BY <1>1, <1>2, Weights
<1>4. CASE T = 0
  <2>1. \A d \in Draws : PickKind(d) = spec.mix[1]
    BY <1>2, <1>3, <1>4 DEF PickKind
  <2>2. CASE i = 1
    <3>1. {d \in Draws : PickKind(d) = spec.mix[i]} = Draws
      BY <2>1, <2>2
    <3> QED
      BY <1>3, <1>4, <2>2, <3>1, AllDraws, GridAssumption DEF KindShare
  <2>3. CASE i # 1
    <3>1. {d \in Draws : PickKind(d) = spec.mix[i]} = {}
      BY <1>1, <1>2, <2>1, <2>3
    <3>2. KindShare(i) = 0
      BY <3>1, FS_EmptySet DEF KindShare
    <3> QED
      BY <1>3, <1>4, <2>3, <3>2
  <2> QED
    BY <2>2, <2>3
<1>5. CASE T > 0
  <2>1. PICK u, v, w \in Nat : /\ u = WeightUpTo(i - 1) /\ v = WeightUpTo(i)
                               /\ w = spec.mix[i].weight /\ v = u + w /\ v <= T
    <3>1. /\ WeightUpTo(i - 1) \in Nat /\ WeightUpTo(i) \in Nat
          /\ WeightUpTo(i) = WeightUpTo(i - 1) + spec.mix[i].weight
          /\ WeightUpTo(i) <= WeightUpTo(n) /\ WeightUpTo(n) = T
      BY <1>1, <1>2, <1>3, Weights
    <3> QED
      BY <1>1, <1>2, <3>1
  <2>2. Grid \in Nat /\ Grid * u \in Nat /\ Grid * v \in Nat
    BY GridAssumption, Products
  <2>3. \A k \in 1..n : (Grid * WeightUpTo(k)) % T = 0
    BY <1>1, <1>3, <1>5, MixAssumption DEF WeightUpTo
  <2>4. (Grid * u) % T = 0 /\ (Grid * v) % T = 0
    <3>1. CASE i = 1
      <4>1. u = 0 /\ Grid * 0 = 0 /\ 0 % T = 0
        BY <1>5, <2>1, <2>2, <3>1, Weights
      <4> QED
        BY <1>2, <2>1, <2>3, <4>1
    <3>2. CASE i # 1
      <4>1. i - 1 \in 1..n
        BY <1>2, <3>2
      <4> QED
        BY <1>2, <2>1, <2>3, <4>1
    <3> QED
      BY <3>1, <3>2
  <2>5. PICK a, b \in Nat : a * T = Grid * u /\ b * T = Grid * v
    <3>1. /\ (Grid * u) \div T \in Nat /\ ((Grid * u) \div T) * T = Grid * u
          /\ (Grid * v) \div T \in Nat /\ ((Grid * v) \div T) * T = Grid * v
      BY <1>5, <2>2, <2>4, Multiple
    <3> QED
      BY <3>1
  <2>6. {d \in Draws : PickKind(d) = spec.mix[i]} = {d \in Draws : a <= d /\ d < b}
    <3>1. a * total = Grid * WeightUpTo(i - 1) /\ b * total = Grid * WeightUpTo(i) /\ total > 0
      BY <1>3, <1>5, <2>1, <2>5
    <3> QED
      BY <3>1, ClassDraws
  <2>7. a <= b /\ b <= Grid
    <3>1. Grid * v = Grid * u + Grid * w /\ Grid * w \in Nat
      <4>1. Grid * (u + w) = Grid * u + Grid * w /\ Grid * w \in Nat
        BY <2>2, Distribution
      <4> QED
        BY <2>1, <4>1
    <3>2. ~(b * T < a * T)
      BY <2>2, <2>5, <3>1
    <3>3. Grid * v <= Grid * T /\ Grid * T \in Nat
      BY <2>1, <2>2, Distribution
    <3>4. ~(Grid * T < b * T)
      BY <2>2, <2>5, <3>3
    <3> QED
      BY <1>5, <2>2, <3>2, <3>4, Boundary
  <2>8. {d \in Draws : a <= d /\ d < b} = a..(b - 1)
    BY <2>2, <2>7, AllDraws
  <2>9. KindShare(i) = b - a
    <3>1. KindShare(i) = Cardinality(a..(b - 1))
      BY <2>6, <2>8 DEF KindShare
    <3>2. a \in Int /\ b \in Int
      OBVIOUS
    <3>3. Cardinality(a..(b - 1)) = b - a
      BY <2>7, <3>2, IntervalCount
    <3> QED
      BY <3>1, <3>3
  <2>10. (b - a) * T = Grid * w
    <3>1. PICK e \in Nat : b = a + e
      BY <2>7
    <3>2. (a + e) * T = a * T + e * T /\ a * T \in Nat /\ e * T \in Nat
      BY Products
    <3>3. Grid * v = Grid * u + Grid * w /\ Grid * w \in Nat
      <4>1. Grid * (u + w) = Grid * u + Grid * w /\ Grid * w \in Nat
        BY <2>2, Distribution
      <4> QED
        BY <2>1, <4>1
    <3>4. e * T = Grid * w
      BY <2>2, <2>5, <3>1, <3>2, <3>3
    <3> QED
      BY <3>1, <3>4
  <2> QED
    BY <1>3, <1>5, <2>1, <2>9, <2>10
<1> QED
  BY <1>3, <1>4, <1>5

\* NewGenerator leaves the sum of the weights in totalWeight.
TotalInv == spec \in Specs /\ (pc # "new" => total = WeightUpTo(Len(spec.mix)))

\* pickKind gives every class exactly its weight's share of the draws, for every JobMix
\* whose shares can be counted in draws.
THEOREM MixStaysProportional == Spec => []MixIsProportional
<1>1. Init => TotalInv
  BY DEF Init, TotalInv
<1>2. TotalInv /\ [Next]_vars => TotalInv'
  <2> SUFFICES ASSUME TotalInv, [Next]_vars PROVE TotalInv'
    OBVIOUS
  <2>1. UNCHANGED spec
    BY DEF Next, Generator, NewGenerator, Run, CtxDone, Deadline, Tick, Generate, Send, Drop,
           SendCancelled, HandedOver, Clock, Receive, Cancel, gen, vars
  <2>2. CASE NewGenerator
    BY <2>1, <2>2 DEF NewGenerator, TotalInv, WeightUpTo
  <2>3. CASE ~NewGenerator
    <3>1. UNCHANGED total /\ (pc' # "new" => pc # "new")
      BY <2>3 DEF Next, Generator, Run, CtxDone, Deadline, Tick, Generate, Send, Drop,
                  SendCancelled, HandedOver, Clock, Receive, Cancel, gen, vars
    <3> QED
      BY <2>1, <3>1 DEF TotalInv, WeightUpTo
  <2> QED
    BY <2>2, <2>3
<1>3. TotalInv => MixIsProportional
  BY MixHolds DEF TotalInv
<1> QED
  BY <1>1, <1>2, <1>3, PTL DEF Spec
=============================================================================
