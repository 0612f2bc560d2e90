---------------------------- MODULE Report_proofs ----------------------------
(***************************************************************************)
(* Proofs about the report, for any directory: percentiles are nearest     *)
(* ranks, medians split their runs, and whatever order Go visits its maps  *)
(* in the report is complete and its rows compare extreme tenants.         *)
(***************************************************************************)
EXTENDS Report, SumTheorems

----------------------------------------------------------------------------
(* Finite sets of integers                                                 *)

LEMMA FiniteExtremes ==
  ASSUME NEW S, IsFiniteSet(S), S \subseteq Int, S # {}
  PROVE  /\ \E m \in S : \A x \in S : m <= x
         /\ \E m \in S : \A x \in S : x <= m
<1> DEFINE Ends(T) == T # {} => /\ \E m \in T : \A x \in T : m <= x
                                /\ \E m \in T : \A x \in T : x <= m
           W == {T \in SUBSET S : Ends(T)}
<1>1. {} \in W
  OBVIOUS
<1>2. ASSUME NEW T \in SUBSET S, NEW y \in S \ T, T \in W PROVE T \cup {y} \in W
  <2>1. CASE T = {}
    <3>1. T \cup {y} = {y} /\ y \in Int
      BY <2>1
    <3>2. Ends({y})
      BY <3>1
    <3> QED
      BY <3>1, <3>2
  <2>2. CASE T # {}
    <3>1. PICK m \in T : \A x \in T : m <= x
      BY <1>2, <2>2
    <3>2. PICK n \in T : \A x \in T : x <= n
      BY <1>2, <2>2
    <3>3. m \in Int /\ n \in Int /\ y \in Int /\ T \subseteq Int
      OBVIOUS
    <3>4. \E q \in T \cup {y} : \A x \in T \cup {y} : q <= x
      <4>1. CASE y <= m
        <5>1. \A x \in T \cup {y} : y <= x
          BY <3>1, <3>3, <4>1
        <5> QED
          BY <5>1
      <4>2. CASE ~(y <= m)
        <5>1. \A x \in T \cup {y} : m <= x
          BY <3>1, <3>3, <4>2
        <5> QED
          BY <5>1
      <4> QED
        BY <4>1, <4>2
    <3>5. \E q \in T \cup {y} : \A x \in T \cup {y} : x <= q
      <4>1. CASE n <= y
        <5>1. \A x \in T \cup {y} : x <= y
          BY <3>2, <3>3, <4>1
        <5> QED
          BY <5>1
      <4>2. CASE ~(n <= y)
        <5>1. \A x \in T \cup {y} : x <= n
          BY <3>2, <3>3, <4>2
        <5> QED
          BY <5>1
      <4> QED
        BY <4>1, <4>2
    <3> QED
      BY <3>4, <3>5
  <2> QED
    BY <2>1, <2>2
<1> HIDE DEF W
<1>3. S \in W
  BY <1>1, <1>2, SetInduction
<1> QED
  BY <1>3 DEF W

LEMMA MinAndMax ==
  ASSUME NEW S, IsFiniteSet(S), S \subseteq Int, S # {}
  PROVE  /\ Min(S) \in S /\ \A x \in S : Min(S) <= x
         /\ Max(S) \in S /\ \A x \in S : x <= Max(S)
<1>1. \E m \in S : \A x \in S : m <= x
  BY FiniteExtremes
<1>2. \E m \in S : \A x \in S : m >= x
  BY FiniteExtremes
<1>3. Min(S) \in S /\ \A x \in S : Min(S) <= x
  BY <1>1 DEF Min
<1>4. Max(S) \in S /\ \A x \in S : Max(S) >= x
  BY <1>2 DEF Max
<1> QED
  BY <1>3, <1>4

----------------------------------------------------------------------------
(* Percentiles                                                             *)

\* A bag of numbers.
IsBag(B) == IsFiniteSet(DOMAIN B) /\ DOMAIN B \subseteq Int /\ \A x \in DOMAIN B : B[x] \in Nat

Below(B, x) == SumFunctionOnSet(B, {y \in DOMAIN B : y < x})

LEMMA SumOfPart ==
  ASSUME NEW B, IsBag(B), NEW S \in SUBSET DOMAIN B
  PROVE  IsFiniteSet(S) /\ SumFunctionOnSet(B, S) \in Nat
<1>1. IsFiniteSet(S) /\ \A x \in S : B[x] \in Nat
  BY FS_Subset DEF IsBag
<1> QED
  BY <1>1, SumNat

LEMMA SumsGrow ==
  ASSUME NEW B, IsBag(B), NEW S \in SUBSET DOMAIN B, NEW T \in SUBSET S
  PROVE  SumFunctionOnSet(B, T) <= SumFunctionOnSet(B, S)
<1> DEFINE U == S \ T
<1>1. S = T \cup U /\ T \cap U = {} /\ U \in SUBSET DOMAIN B /\ T \in SUBSET DOMAIN B
  OBVIOUS
<1> HIDE DEF U
<1>2. /\ IsFiniteSet(T) /\ IsFiniteSet(U)
      /\ SumFunctionOnSet(B, T) \in Nat /\ SumFunctionOnSet(B, U) \in Nat
  BY <1>1, SumOfPart
<1>3. \A y \in T \cup U : B[y] \in Int
  BY <1>1 DEF IsBag
<1>4. SumFunctionOnSet(B, T \cup U) = SumFunctionOnSet(B, T) + SumFunctionOnSet(B, U)
  BY <1>1, <1>2, <1>3, SumUnion
<1> QED
  BY <1>1, <1>2, <1>4

LEMMA NthIsNth ==
  ASSUME NEW B, IsBag(B), NEW k \in Nat, k < SumFunction(B)
  PROVE  /\ Nth(B, k) \in DOMAIN B
         /\ Below(B, Nth(B, k)) <= k /\ UpTo(B, Nth(B, k)) > k
<1> DEFINE C == {x \in DOMAIN B : UpTo(B, x) > k}
<1>1. DOMAIN B # {}
  <2>1. SumFunction(B) = SumFunctionOnSet(B, DOMAIN B)
    BY DEF SumFunction
  <2> QED
    BY <2>1, SumEmpty
<1>2. IsFiniteSet(DOMAIN B) /\ DOMAIN B \subseteq Int
  BY DEF IsBag
<1>3. C # {}
  <2>1. PICK m \in DOMAIN B : \A x \in DOMAIN B : x <= m
    BY <1>1, <1>2, FiniteExtremes
  <2>2. {y \in DOMAIN B : y <= m} = DOMAIN B
    BY <2>1
  <2>3. UpTo(B, m) = SumFunction(B)
    BY <2>2 DEF UpTo, SumFunction
  <2> QED
    BY <2>1, <2>3
<1>4. IsFiniteSet(C) /\ C \subseteq Int
  BY <1>2, FS_Subset
<1>5. PICK x \in C : \A y \in C : x <= y
  BY <1>3, <1>4, FiniteExtremes
<1>6. Below(B, x) <= k
  <2> DEFINE D == {y \in DOMAIN B : y < x}
  <2>1. CASE D = {}
    BY <2>1, SumEmpty DEF Below
  <2>2. CASE D # {}
    <3>1. IsFiniteSet(D) /\ D \subseteq Int
      BY <1>2, FS_Subset
    <3>2. PICK z \in D : \A y \in D : y <= z
      BY <2>2, <3>1, FiniteExtremes
    <3>3. D = {y \in DOMAIN B : y <= z}
      BY <1>2, <1>5, <3>2
    <3>4. Below(B, x) = UpTo(B, z)
      BY <3>3 DEF Below, UpTo
    <3>5. z \notin C
      BY <1>2, <1>5, <3>2
    <3>6. UpTo(B, z) \in Nat
      BY SumOfPart DEF UpTo
    <3> QED
      BY <3>2, <3>4, <3>5, <3>6
  <2> QED
    BY <2>1, <2>2
<1>7. \E y \in DOMAIN B : /\ SumFunctionOnSet(B, {z \in DOMAIN B : z < y}) <= k
                          /\ SumFunctionOnSet(B, {z \in DOMAIN B : z <= y}) > k
  BY <1>5, <1>6 DEF Below, UpTo
<1> QED
  BY <1>7 DEF Nth, Below, UpTo

\* Index k of n sorted samples is the one of percentile p.
IsIndex(k, p, n) == /\ k < n /\ Clamp((p * n + 99) \div 100 - 1, n) = k
                    /\ 100 * (k + 1) >= p * n /\ 100 * k < p * n

LEMMA Rounding ==
  ASSUME NEW n \in Nat, n > 0, NEW p \in {50, 95, 99}
  PROVE  \E k \in Nat : IsIndex(k, p, n)
<1> DEFINE c == (p * n + 99) \div 100
<1>1. c \in Int /\ 100 * c <= p * n + 99 /\ p * n + 99 < 100 * c + 100
  OBVIOUS
<1>2. p * n >= 50 * n /\ p * n <= 99 * n /\ p * n \in Nat
  OBVIOUS
<1> HIDE DEF c
<1>3. c >= 1 /\ c <= n
  BY <1>1, <1>2
<1>4. Clamp(c - 1, n) = c - 1
  BY <1>1, <1>3 DEF Clamp
<1>5. c - 1 \in Nat /\ c - 1 < n /\ 100 * ((c - 1) + 1) >= p * n /\ 100 * (c - 1) < p * n
  BY <1>1, <1>2, <1>3
<1>6. IsIndex(c - 1, p, n)
  BY <1>4, <1>5 DEF IsIndex, c
<1> QED
  BY <1>5, <1>6

LEMMA NearestRank ==
  ASSUME NEW B, IsBag(B), SumFunction(B) > 0, NEW p \in {50, 95, 99}
  PROVE  /\ Pct(B, p) \in DOMAIN B /\ 100 * UpTo(B, Pct(B, p)) >= p * SumFunction(B)
         /\ \A y \in DOMAIN B : y < Pct(B, p) => 100 * UpTo(B, y) < p * SumFunction(B)
<1>1. PICK n \in Nat : n = SumFunction(B) /\ n > 0
  BY SumOfPart DEF SumFunction
<1>0. PICK k \in Nat : IsIndex(k, p, n)
  BY <1>1, Rounding
<1>2. /\ k < n /\ Clamp((p * n + 99) \div 100 - 1, n) = k
      /\ 100 * (k + 1) >= p * n /\ 100 * k < p * n
  BY <1>0 DEF IsIndex
<1>3. PICK x : x = Nth(B, k)
  OBVIOUS
<1>4. Pct(B, p) = x
  BY <1>1, <1>2, <1>3 DEF Pct
<1>5. x \in DOMAIN B /\ Below(B, x) <= k /\ UpTo(B, x) > k
  BY <1>1, <1>2, <1>3, NthIsNth
<1>6. \A y : UpTo(B, y) \in Nat
  BY SumOfPart DEF UpTo
<1>7. 100 * UpTo(B, x) >= p * n
  <2>1. \A u, v \in Nat : u > v => 100 * u >= 100 * (v + 1)
    OBVIOUS
  <2>2. 100 * UpTo(B, x) >= 100 * (k + 1)
    BY <1>5, <1>6, <2>1
  <2>3. 100 * UpTo(B, x) \in Nat /\ 100 * (k + 1) \in Nat /\ p * n \in Nat
    BY <1>6
  <2> QED
    BY <1>2, <2>2, <2>3
<1>8. ASSUME NEW y \in DOMAIN B, y < x PROVE 100 * UpTo(B, y) < p * n
  <2> DEFINE S == {z \in DOMAIN B : z < x}
             T == {z \in DOMAIN B : z <= y}
  <2>1. T \subseteq S /\ S \subseteq DOMAIN B
    BY <1>5, <1>8 DEF IsBag
  <2>2. UpTo(B, y) = SumFunctionOnSet(B, T) /\ Below(B, x) = SumFunctionOnSet(B, S)
    BY DEF UpTo, Below
  <2> HIDE DEF S, T
  <2>3. UpTo(B, y) <= Below(B, x) /\ Below(B, x) \in Nat
    BY <2>1, <2>2, SumsGrow, SumOfPart
  <2>4. UpTo(B, y) <= k
    BY <1>5, <1>6, <2>3
  <2>5. \A u, v \in Nat : u <= v => 100 * u <= 100 * v
    OBVIOUS
  <2>6. 100 * UpTo(B, y) <= 100 * k
    BY <1>6, <2>4, <2>5
  <2>7. 100 * UpTo(B, y) \in Nat /\ 100 * k \in Nat /\ p * n \in Nat
    BY <1>6
  <2> QED
    BY <1>2, <2>6, <2>7
<1> QED
  BY <1>1, <1>4, <1>5, <1>7, <1>8

----------------------------------------------------------------------------
(* Medians                                                                 *)

LEMMA RangeIsFinite ==
  ASSUME NEW S, IsFiniteSet(S), NEW s, DOMAIN s = S
  PROVE  IsFiniteSet(Range(s))
<1>1. [i \in S |-> s[i]] \in Surjection(S, Range(s))
  BY DEF Surjection, Range
<1> QED
  BY <1>1, FS_Surjection

LEMMA SequenceBag ==
  ASSUME NEW n \in Nat, NEW s \in [1..n -> Int]
  PROVE  /\ IsBag(BagOf(s)) /\ DOMAIN BagOf(s) = Range(s)
         /\ \A T \in SUBSET Range(s) :
              SumFunctionOnSet(BagOf(s), T) = Cardinality({i \in 1..n : s[i] \in T})
         /\ SumFunction(BagOf(s)) = n
<1>1. IsFiniteSet(1..n) /\ Cardinality(1..n) = n /\ DOMAIN s = 1..n
  BY FS_Interval
<1>2. IsFiniteSet(Range(s)) /\ Range(s) \subseteq Int
  BY <1>1, RangeIsFinite DEF Range
<1>3. /\ DOMAIN BagOf(s) = Range(s)
      /\ \A x \in Range(s) : BagOf(s)[x] = Cardinality({i \in 1..n : s[i] = x})
  BY <1>1 DEF BagOf
<1>4. IsBag(BagOf(s))
  <2>1. \A x : IsFiniteSet({i \in 1..n : s[i] = x})
    BY <1>1, FS_Subset
  <2>2. \A x : Cardinality({i \in 1..n : s[i] = x}) \in Nat
    BY <2>1, FS_CardinalityType
  <2> QED
    BY <1>2, <1>3, <2>2, ZenonT(30) DEF IsBag
<1>5. ASSUME NEW T \in SUBSET Range(s)
      PROVE  SumFunctionOnSet(BagOf(s), T) = Cardinality({i \in 1..n : s[i] \in T})
  <2> DEFINE S == {i \in 1..n : s[i] \in T}
             f == [i \in S |-> s[i]]
             G == [x \in T |-> Cardinality({i \in S : f[i] = x})]
  <2>1. IsFiniteSet(S) /\ IsFiniteSet(T) /\ f \in [S -> T]
    BY <1>1, <1>2, FS_Subset
  <2>2. ASSUME NEW x \in T PROVE BagOf(s)[x] = G[x]
    <3>1. {i \in S : f[i] = x} = {i \in 1..n : s[i] = x}
      OBVIOUS
    <3> QED
      BY <1>3, <3>1
  <2>3. \A x \in T : BagOf(s)[x] = G[x]
    BY <2>2
  <2> HIDE DEF S, f
  <2>4. SumFunctionOnSet([x \in T |-> Cardinality({i \in S : f[i] = x})], T) = Cardinality(S)
    BY <2>1, SumCounts
  <2>5. SumFunctionOnSet(G, T) = Cardinality(S)
    BY <2>4
  <2> HIDE DEF G
  <2>6. SumFunctionOnSet(BagOf(s), T) = SumFunctionOnSet(G, T)
    BY <2>1, <2>3, SumAgree
  <2> QED
    BY <2>5, <2>6 DEF S
<1>6. SumFunction(BagOf(s)) = n
  <2>1. {i \in 1..n : s[i] \in Range(s)} = 1..n
    BY <1>1 DEF Range
  <2> QED
    BY <1>1, <1>3, <1>5, <2>1 DEF SumFunction
<1> QED
  BY <1>3, <1>4, <1>5, <1>6

LEMMA MedianIsMedian ==
  ASSUME NEW n \in Nat, n > 0, NEW s \in [1..n -> Int]
  PROVE  Splits(MedianF(s), s) /\ MedianF(s) \in MinF(s)..MaxF(s)
<1>1. DOMAIN s = 1..n /\ Len(s) = n
  OBVIOUS
<1>2. PICK k \in Nat : k = n \div 2 /\ 2 * k <= n /\ n < 2 * k + 2 /\ k < n
  OBVIOUS
<1>3. PICK B : B = BagOf(s)
  OBVIOUS
<1>4. /\ IsBag(B) /\ DOMAIN B = Range(s) /\ SumFunction(B) = n
      /\ \A T \in SUBSET Range(s) :
           SumFunctionOnSet(B, T) = Cardinality({i \in 1..n : s[i] \in T})
  BY <1>3, SequenceBag
<1>5. PICK x : x = Nth(B, k) /\ x = MedianF(s)
  BY <1>1, <1>2, <1>3 DEF MedianF
<1>6. x \in DOMAIN B /\ Below(B, x) <= k /\ UpTo(B, x) > k
  BY <1>2, <1>4, <1>5, NthIsNth
<1>7. \A i \in 1..n : s[i] \in Range(s) /\ s[i] \in Int
  BY <1>1 DEF Range
<1>8. x \in Range(s) /\ x \in Int
  BY <1>4, <1>6 DEF IsBag
<1>9. IsFiniteSet(1..n) /\ Cardinality(1..n) = n
  BY FS_Interval
<1>10. UpTo(B, x) = Cardinality({i \in 1..n : s[i] <= x})
  <2>1. {i \in 1..n : s[i] \in {y \in DOMAIN B : y <= x}} = {i \in 1..n : s[i] <= x}
    BY <1>4, <1>7
  <2> QED
    BY <1>4, <2>1 DEF UpTo
<1>11. Below(B, x) = Cardinality({i \in 1..n : s[i] < x})
  <2>1. {i \in 1..n : s[i] \in {y \in DOMAIN B : y < x}} = {i \in 1..n : s[i] < x}
    BY <1>4, <1>7
  <2> QED
    BY <1>4, <2>1 DEF Below
<1>12. PICK a, b, c \in Nat : /\ a = Cardinality({i \in 1..n : s[i] < x})
                              /\ b = Cardinality({i \in 1..n : s[i] <= x})
                              /\ c = Cardinality({i \in 1..n : s[i] >= x})
  BY <1>9, FS_Subset, FS_CardinalityType
<1>13. c = n - a
  <2> DEFINE L == {i \in 1..n : s[i] < x}
  <2>1. {i \in 1..n : s[i] >= x} = (1..n) \ L /\ L = (1..n) \cap L
    BY <1>7, <1>8
  <2> HIDE DEF L
  <2>2. Cardinality((1..n) \ L) = Cardinality(1..n) - Cardinality((1..n) \cap L)
    BY <1>9, FS_Difference
  <2> QED
    BY <1>9, <1>12, <2>1, <2>2 DEF L
<1>14. 2 * b >= n /\ 2 * c >= n
  BY <1>2, <1>6, <1>10, <1>11, <1>12, <1>13
<1>15. Splits(x, s)
  BY <1>1, <1>12, <1>14 DEF Splits
<1>16. x \in MinF(s)..MaxF(s)
  <2>1. IsFiniteSet(Range(s)) /\ Range(s) \subseteq Int /\ Range(s) # {}
    BY <1>4, <1>8 DEF IsBag
  <2>2. /\ Min(Range(s)) \in Range(s) /\ Min(Range(s)) <= x
        /\ Max(Range(s)) \in Range(s) /\ x <= Max(Range(s))
    BY <1>8, <2>1, MinAndMax
  <2> QED
    BY <1>8, <2>1, <2>2 DEF MinF, MaxF
<1> QED
  BY <1>5, <1>15, <1>16

----------------------------------------------------------------------------
(* Sorting                                                                 *)

\* R orders the members of S one after another.
StrictOrder(R, S) ==
  /\ \A x \in S : <<x, x>> \notin R
  /\ \A x, y, z \in S : <<x, y>> \in R /\ <<y, z>> \in R => <<x, z>> \in R
  /\ \A x, y \in S : x = y \/ <<x, y>> \in R \/ <<y, x>> \in R

\* f lists the members of S in the order R.
Lists(f, S, R) ==
  /\ IsFiniteSet(S) /\ Cardinality(S) \in Nat /\ f \in [1..Cardinality(S) -> S]
  /\ \A k, l \in 1..Cardinality(S) : f[k] = f[l] => k = l
  /\ \A x \in S : \E k \in 1..Cardinality(S) : f[k] = x
  /\ \A k, l \in 1..Cardinality(S) : k < l => <<f[k], f[l]>> \in R

LEMMA RankedLists ==
  ASSUME NEW S, IsFiniteSet(S), NEW R, StrictOrder(R, S)
  PROVE  Lists(Ranked(S, R), S, R)
<1>1. PICK n \in Nat : n = Cardinality(S)
  BY FS_CardinalityType
<1> DEFINE B(x) == {y \in S : <<y, x>> \in R}
           rank == [x \in S |-> Cardinality(B(x))]
           f == Ranked(S, R)
<1>2. ASSUME NEW x \in S PROVE IsFiniteSet(B(x)) /\ rank[x] \in 0..(n - 1) /\ rank[x] = Cardinality(B(x))
  <2>1. B(x) \subseteq S \ {x}
    BY DEF StrictOrder
  <2>2. IsFiniteSet(S \ {x}) /\ Cardinality(S \ {x}) = n - 1
    BY <1>1, FS_RemoveElement
  <2>3. IsFiniteSet(B(x)) /\ Cardinality(B(x)) <= Cardinality(S \ {x})
    BY <2>1, <2>2, FS_Subset
  <2>4. Cardinality(B(x)) \in Nat
    BY <2>3, FS_CardinalityType
  <2>5. rank[x] = Cardinality(B(x))
    OBVIOUS
  <2> QED
    BY <1>1, <2>2, <2>3, <2>4, <2>5
<1>3. ASSUME NEW x \in S, NEW y \in S, <<x, y>> \in R PROVE rank[x] < rank[y]
  <2>1. B(x) \subseteq B(y) \ {x} /\ x \in B(y)
    BY <1>3 DEF StrictOrder
  <2>2. IsFiniteSet(B(y) \ {x}) /\ Cardinality(B(y) \ {x}) = Cardinality(B(y)) - 1
    BY <1>2, <2>1, FS_RemoveElement
  <2>3. Cardinality(B(x)) <= Cardinality(B(y) \ {x})
    BY <2>1, <2>2, FS_Subset
  <2>4. rank[x] = Cardinality(B(x)) /\ rank[y] = Cardinality(B(y))
    OBVIOUS
  <2>5. Cardinality(B(x)) \in Nat /\ Cardinality(B(y)) \in Nat
    BY <1>2, FS_CardinalityType
  <2> HIDE DEF rank
  <2> QED
    BY <2>2, <2>3, <2>4, <2>5
<1>4. \A x \in S : rank[x] \in 0..(n - 1)
  BY <1>2
<1>5. f = [k \in 1..n |-> CHOOSE x \in S : rank[x] = k - 1]
  <2>1. f = [k \in 1..n |-> CHOOSE x \in S : Cardinality({y \in S : <<y, x>> \in R}) = k - 1]
    BY <1>1 DEF Ranked
  <2>2. \A k : (CHOOSE x \in S : Cardinality({y \in S : <<y, x>> \in R}) = k - 1)
                 = (CHOOSE x \in S : rank[x] = k - 1)
    OBVIOUS
  <2> QED
    BY <2>1, <2>2
<1>6. rank \in [S -> 0..(n - 1)]
  BY <1>4
<1> HIDE DEF rank, f, B
<1>7. ASSUME NEW x \in S, NEW y \in S, rank[x] = rank[y] PROVE x = y
  <2>1. rank[x] \in Int /\ rank[y] \in Int
    BY <1>1, <1>4
  <2>2. ~(rank[x] < rank[y]) /\ ~(rank[y] < rank[x])
    BY <1>7, <2>1
  <2>3. <<x, y>> \notin R /\ <<y, x>> \notin R
    BY <1>3, <2>2
  <2> QED
    BY <2>3 DEF StrictOrder
<1>8. ASSUME NEW k \in 0..(n - 1) PROVE \E x \in S : rank[x] = k
  <2>1. IsFiniteSet(0..(n - 1)) /\ Cardinality(0..(n - 1)) = n
    <3>1. PICK m \in Int : m = n - 1
      OBVIOUS
    <3>2. IsFiniteSet(0..m) /\ Cardinality(0..m) = IF 0 > m THEN 0 ELSE m - 0 + 1
      BY FS_Interval
    <3> QED
      BY <3>1, <3>2
  <2>2. rank \in Injection(S, 0..(n - 1))
    BY <1>6, <1>7 DEF Injection, IsInjective
  <2>3. rank \in Surjection(S, 0..(n - 1))
    BY <1>1, <2>1, <2>2, FS_Injection
  <2> QED
    BY <2>3 DEF Surjection
<1>9. ASSUME NEW k \in 1..n PROVE f[k] \in S /\ rank[f[k]] = k - 1
  <2>1. k - 1 \in 0..(n - 1)
    OBVIOUS
  <2>2. \E x \in S : rank[x] = k - 1
    BY <1>8, <2>1
  <2>3. f[k] = CHOOSE x \in S : rank[x] = k - 1
    BY <1>5
  <2> QED
    BY <2>2, <2>3
<1>10. f \in [1..n -> S]
  BY <1>5, <1>9
<1>11. ASSUME NEW k \in 1..n, NEW l \in 1..n, f[k] = f[l] PROVE k = l
  BY <1>9, <1>11
<1>12. ASSUME NEW x \in S PROVE \E k \in 1..n : f[k] = x
  <2>1. PICK k \in 1..n : k = rank[x] + 1
    BY <1>4
  <2>2. rank[f[k]] = rank[x] /\ f[k] \in S
    BY <1>4, <1>9, <2>1
  <2> QED
    BY <1>7, <2>2
<1>13. ASSUME NEW k \in 1..n, NEW l \in 1..n, k < l PROVE <<f[k], f[l]>> \in R
  <2>1. f[k] \in S /\ f[l] \in S /\ rank[f[k]] = k - 1 /\ rank[f[l]] = l - 1
    BY <1>9
  <2>2. ~(rank[f[l]] < rank[f[k]]) /\ f[k] # f[l]
    BY <1>13, <2>1
  <2> QED
    BY <1>3, <2>1, <2>2 DEF StrictOrder
<1> QED
  BY <1>1, <1>10, <1>11, <1>12, <1>13 DEF Lists, f

\* A relation that sort.SliceStable may be given.
WeakOrder(less, S) ==
  /\ \A x \in S : <<x, x>> \notin less
  /\ \A x, y, z \in S : <<x, y>> \in less /\ <<y, z>> \in less => <<x, z>> \in less
  /\ \A x, y, z \in S : <<x, z>> \in less => <<x, y>> \in less \/ <<y, z>> \in less

\* t is s in another order, given by h, in which no member is less than one before it.
Sorted(t, s, n, h, less) ==
  /\ DOMAIN t = 1..n /\ Len(t) = n /\ h \in [1..n -> 1..n]
  /\ \A k, l \in 1..n : h[k] = h[l] => k = l
  /\ \A i \in 1..n : \E k \in 1..n : h[k] = i
  /\ \A k \in 1..n : t[k] = s[h[k]]
  /\ \A k, l \in 1..n : k < l => <<h[l], h[k]>> \notin less

LEMMA SortSorts ==
  ASSUME NEW n \in Nat, NEW s, DOMAIN s = 1..n, NEW less, WeakOrder(less, 1..n)
  PROVE  \E h : Sorted(StableSort(s, less), s, n, h, less)
<1> DEFINE S == 1..n
           R == {p \in Pairs(s) : p \in less \/ (p[1] < p[2] /\ <<p[2], p[1]>> \notin less)}
           h == Ranked(S, R)
<1>1. IsFiniteSet(S) /\ Cardinality(S) = n
  BY FS_Interval
<1>2. \A i, j \in S : <<i, j>> \in R <=> <<i, j>> \in less \/ (i < j /\ <<j, i>> \notin less)
  BY DEF Pairs
<1>3. \A i \in S : i \in Int
  OBVIOUS
<1>4. StableSort(s, less) = [k \in 1..n |-> s[h[k]]]
  BY DEF StableSort
<1> HIDE DEF R, S
<1>5. StrictOrder(R, S)
  <2>1. ASSUME NEW x \in S PROVE <<x, x>> \notin R
    <3>1. ~(x < x) /\ <<x, x>> \notin less
      BY <1>3 DEF WeakOrder, S
    <3> QED
      BY <1>2, <3>1
  <2>2. ASSUME NEW x \in S, NEW y \in S PROVE x = y \/ <<x, y>> \in R \/ <<y, x>> \in R
    <3>1. x = y \/ x < y \/ y < x
      BY <1>3
    <3>2. <<x, y>> \in R <=> <<x, y>> \in less \/ (x < y /\ <<y, x>> \notin less)
      BY <1>2
    <3>3. <<y, x>> \in R <=> <<y, x>> \in less \/ (y < x /\ <<x, y>> \notin less)
      BY <1>2
    <3> QED
      BY <3>1, <3>2, <3>3
  <2>3. ASSUME NEW x \in S, NEW y \in S, NEW z \in S, <<x, y>> \in R, <<y, z>> \in R
        PROVE  <<x, z>> \in R
    <3>1. CASE <<x, y>> \in less /\ <<y, z>> \in less
      BY <1>2, <3>1 DEF WeakOrder, S
    <3>2. CASE <<x, y>> \in less /\ <<z, y>> \notin less
      BY <1>2, <3>2 DEF WeakOrder, S
    <3>3. CASE <<y, x>> \notin less /\ <<y, z>> \in less
      BY <1>2, <3>3 DEF WeakOrder, S
    <3>4. CASE x < y /\ <<y, x>> \notin less /\ y < z /\ <<z, y>> \notin less
      <4>1. x < z
        BY <1>3, <3>4
      <4>2. <<z, x>> \notin less
        BY <3>4 DEF WeakOrder, S
      <4> QED
        BY <1>2, <4>1, <4>2
    <3> QED
      BY <1>2, <2>3, <3>1, <3>2, <3>3, <3>4
  <2> QED
    BY <2>1, <2>2, <2>3 DEF StrictOrder
<1>6. Lists(h, S, R)
  BY <1>1, <1>5, RankedLists
<1> HIDE DEF h
<1>7. /\ h \in [1..n -> 1..n]
      /\ \A k, l \in 1..n : h[k] = h[l] => k = l
      /\ \A i \in 1..n : \E k \in 1..n : h[k] = i
      /\ \A k, l \in 1..n : k < l => <<h[k], h[l]>> \in R
  BY <1>1, <1>6 DEF Lists, S
<1>8. \A k, l \in 1..n : k < l => <<h[l], h[k]>> \notin less
  <2>1. ASSUME NEW i \in S, NEW j \in S, <<i, j>> \in R PROVE <<j, i>> \notin less
    BY <1>2, <2>1 DEF WeakOrder, S
  <2> QED
    BY <1>7, <2>1 DEF S
<1>9. PICK t : t = StableSort(s, less)
  OBVIOUS
<1>10. DOMAIN t = 1..n /\ \A k \in 1..n : t[k] = s[h[k]]
  BY <1>4, <1>9
<1>11. Len(t) = n
  BY <1>4, <1>9
<1> QED
  BY <1>7, <1>8, <1>9, <1>10, <1>11 DEF Sorted

----------------------------------------------------------------------------
(* The runs and their groups                                               *)

\* The members of sequence rs are the entries of d in S, in some order h, each once.
Matches(rs, d, S, h) ==
  /\ Len(rs) \in Nat /\ DOMAIN rs = 1..Len(rs) /\ h \in [DOMAIN rs -> S]
  /\ \A k, l \in DOMAIN rs : h[k] = h[l] => k = l
  /\ \A i \in S : \E k \in DOMAIN rs : h[k] = i
  /\ \A k \in DOMAIN rs : rs[k] = d[h[k]]

LEMMA MatchedCount ==
  ASSUME NEW rs, NEW d, NEW S, NEW h, Matches(rs, d, S, h), NEW T, NEW U,
         T = {k \in DOMAIN rs : h[k] \in U}, U \subseteq S
  PROVE  IsFiniteSet(T) /\ Cardinality(T) = Cardinality(U)
<1>1. IsFiniteSet(DOMAIN rs)
  BY FS_Interval DEF Matches
<1>2. IsFiniteSet(T)
  BY <1>1, FS_Subset
<1> DEFINE f == [k \in T |-> h[k]]
<1>3. f \in [T -> U] /\ (\A k, l \in T : f[k] = f[l] => k = l) /\ \A i \in U : \E k \in T : f[k] = i
  BY DEF Matches
<1> HIDE DEF f
<1>4. ExistsBijection(T, U)
  BY <1>3 DEF ExistsBijection, Bijection, Injection, IsInjective, Surjection
<1> QED
  BY <1>2, <1>4, FS_Bijection

\* The bag of the entries of d in S.
EntryBag(d, S) == [r \in {d[i] : i \in S} |-> Cardinality({i \in S : d[i] = r})]

LEMMA MatchedBag ==
  ASSUME NEW rs, NEW d, NEW S, NEW h, Matches(rs, d, S, h)
  PROVE  BagOf(rs) = EntryBag(d, S)
<1>1. Range(rs) = {d[i] : i \in S}
  BY DEF Range, Matches
<1>2. ASSUME NEW r PROVE Cardinality({k \in DOMAIN rs : rs[k] = r}) = Cardinality({i \in S : d[i] = r})
  <2> DEFINE U == {i \in S : d[i] = r}
             T == {k \in DOMAIN rs : rs[k] = r}
  <2>1. T = {k \in DOMAIN rs : h[k] \in U} /\ U \subseteq S
    BY DEF Matches
  <2> HIDE DEF T, U
  <2>2. Cardinality(T) = Cardinality(U)
    BY <2>1, MatchedCount
  <2> QED
    BY <2>2 DEF T, U
<1> QED
  BY <1>1, <1>2 DEF BagOf, EntryBag

LEMMA MatchedTotal ==
  ASSUME NEW rs, NEW d, NEW S, NEW h, Matches(rs, d, S, h), \A i \in S : d[i].count \in Int
  PROVE  Total(rs) = SumFunction([i \in S |-> d[i].count])
<1> DEFINE F == [i \in S |-> d[i].count]
           D == DOMAIN rs
           G == [k \in D |-> F[h[k]]]
           H == [k \in D |-> rs[k].count]
<1>1. IsFiniteSet(D)
  BY FS_Interval DEF Matches
<1>2. /\ h \in [D -> S] /\ (\A k, l \in D : h[k] = h[l] => k = l)
      /\ \A i \in S : \E k \in D : h[k] = i
  BY DEF Matches
<1>3. \A i \in S : F[i] \in Int
  OBVIOUS
<1>4. \A k \in D : H[k] = G[k]
  BY <1>2 DEF Matches
<1>5. Total(rs) = SumFunctionOnSet(H, D) /\ SumFunction(F) = SumFunctionOnSet(F, S)
  BY DEF Total, SumFunction
<1> HIDE DEF F, D, H
<1>6. SumFunctionOnSet(G, D) = SumFunctionOnSet(F, S)
  BY <1>1, <1>2, <1>3, SumReindex
<1> HIDE DEF G
<1>7. SumFunctionOnSet(H, D) = SumFunctionOnSet(G, D)
  BY <1>1, <1>4, SumAgree
<1> QED
  BY <1>5, <1>6, <1>7 DEF F

\* The members of a group come from the runs in the order they have there.
Follows(ms, rs, f) ==
  /\ f \in [DOMAIN ms -> DOMAIN rs] /\ \A a \in DOMAIN ms : ms[a] = rs[f[a]]
  /\ \A a, b \in DOMAIN ms : a < b => f[a] < f[b]

LEMMA GroupMembers ==
  ASSUME NEW rs, NEW d, NEW S, NEW h, Matches(rs, d, S, h), NEW k
  PROVE  /\ \E g : Matches(Members(rs, k), d, {i \in S : Key(d[i]) = k}, g)
         /\ \E f : Follows(Members(rs, k), rs, f)
<1> DEFINE mine == {i \in DOMAIN rs : Key(rs[i]) = k}
           R == {p \in mine \X mine : p[1] < p[2]}
           f == Ranked(mine, R)
           files == {i \in S : Key(d[i]) = k}
<1>1. IsFiniteSet(DOMAIN rs) /\ DOMAIN rs \subseteq Int
  BY FS_Interval DEF Matches
<1>2. IsFiniteSet(mine) /\ mine \subseteq Int
  BY <1>1, FS_Subset
<1>3. \A x, y \in mine : <<x, y>> \in R <=> x < y
  OBVIOUS
<1>4. StrictOrder(R, mine)
  <2> HIDE DEF mine, R
  <2>1. ASSUME NEW x \in mine PROVE <<x, x>> \notin R
    <3>1. x \in Int /\ ~(x < x)
      BY <1>2
    <3> QED
      BY <1>3, <3>1
  <2>2. ASSUME NEW x \in mine, NEW y \in mine, NEW z \in mine, <<x, y>> \in R, <<y, z>> \in R
        PROVE  <<x, z>> \in R
    <3>1. x \in Int /\ y \in Int /\ z \in Int /\ x < y /\ y < z
      BY <1>2, <1>3, <2>2
    <3>2. x < z
      BY <3>1
    <3> QED
      BY <1>3, <3>2
  <2>3. ASSUME NEW x \in mine, NEW y \in mine PROVE x = y \/ <<x, y>> \in R \/ <<y, x>> \in R
    <3>1. x = y \/ x < y \/ y < x
      BY <1>2
    <3> QED
      BY <1>3, <3>1
  <2> QED
    BY <2>1, <2>2, <2>3 DEF StrictOrder
<1>5. PICK ms : ms = Members(rs, k) /\ ms = [n \in DOMAIN f |-> rs[f[n]]]
  BY DEF Members
<1> HIDE DEF f, R
<1>6. Lists(f, mine, R)
  BY <1>2, <1>4, RankedLists DEF f
<1>7. PICK c \in Nat : c = Cardinality(mine)
  BY <1>6 DEF Lists
<1>8. /\ f \in [1..c -> mine] /\ DOMAIN f = 1..c
      /\ \A a, b \in 1..c : f[a] = f[b] => a = b
      /\ \A x \in mine : \E a \in 1..c : f[a] = x
      /\ \A a, b \in 1..c : a < b => f[a] < f[b]
  BY <1>3, <1>6, <1>7 DEF Lists
<1>9. DOMAIN ms = 1..c /\ Len(ms) = c /\ \A a \in 1..c : ms[a] = rs[f[a]]
  BY <1>5, <1>8
<1>10. Follows(ms, rs, f)
  BY <1>8, <1>9 DEF Follows
<1> DEFINE g == [a \in 1..c |-> h[f[a]]]
<1>11. \A x \in DOMAIN rs : x \in mine <=> h[x] \in files
  BY DEF Matches
<1>12. mine \subseteq DOMAIN rs /\ files \subseteq S
  OBVIOUS
<1>13. \A a \in 1..c : f[a] \in mine /\ f[a] \in DOMAIN rs /\ g[a] = h[f[a]]
  BY <1>8, <1>12
<1> HIDE DEF mine, files
<1>14. g \in [1..c -> files]
  BY <1>11, <1>13
<1>15. ASSUME NEW a \in 1..c, NEW b \in 1..c, g[a] = g[b] PROVE a = b
  BY <1>8, <1>13, <1>15 DEF Matches
<1>16. ASSUME NEW i \in files PROVE \E a \in 1..c : g[a] = i
  <2>1. PICK x \in DOMAIN rs : h[x] = i
    BY <1>12 DEF Matches
  <2>2. x \in mine
    BY <1>11, <2>1
  <2>3. PICK a \in 1..c : f[a] = x
    BY <1>8, <2>2
  <2> QED
    BY <2>1, <2>3
<1>17. \A a \in 1..c : ms[a] = d[g[a]]
  BY <1>9, <1>13 DEF Matches
<1> HIDE DEF g
<1>18. Matches(ms, d, files, g)
  BY <1>9, <1>14, <1>15, <1>16, <1>17 DEF Matches
<1> QED
  BY <1>5, <1>10, <1>18 DEF files

----------------------------------------------------------------------------
(* AnalyzeDir                                                              *)

\* What DirsAssumption says of a run.
IsRun(r) ==
  /\ r.scenario \in Int /\ r.library \in Int /\ r.start \in Int
  /\ r.rate \in Int /\ r.count \in Nat
  /\ IsFiniteSet(DOMAIN r.pickup) /\ DOMAIN r.pickup \subseteq Int
  /\ \A x \in DOMAIN r.pickup : r.pickup[x] \in Nat \ {0}
  /\ IsFiniteSet(DOMAIN r.tenants)
  /\ \A t \in DOMAIN r.tenants : r.tenants[t] \in Nat

Entries(d) == {d[i] : i \in DOMAIN d}

\* The result files among the first entries of d.
Files(d, n) == {i \in DOMAIN d : d[i].kind = "run" /\ i < n}

InOrder(rs) == \A k, l \in DOMAIN rs : k < l => ~Earlier(rs[l], rs[k])

\* What AnalyzeDir has read: every result file so far once and nothing else, and after
\* the sort they are in order.
RunsInv ==
  /\ dir \in Dirs /\ next \in Nat \ {0}
  /\ pc \in {"read", "group", "tenants", "done", "error"}
  /\ runs \in Seq(Entries(dir))
  /\ pc = "error" => runs = <<>>
  /\ pc # "error" => /\ \A i \in DOMAIN dir : i < next => dir[i].kind # "bad"
                     /\ \E h : Matches(runs, dir, Files(dir, next), h)
  /\ pc \in {"group", "tenants", "done"} => next > Len(dir) /\ InOrder(runs)

LEMMA FilesAreRuns ==
  ASSUME NEW d \in Dirs, NEW n
  PROVE  \A i \in Files(d, n) : IsRun(d[i])
BY DirsAssumption DEF Files, IsRun

LEMMA Appended ==
  ASSUME NEW X, NEW s \in Seq(X), NEW e \in X
  PROVE  /\ Append(s, e) \in Seq(X) /\ Len(s) \in Nat /\ DOMAIN s = 1..Len(s)
         /\ Len(Append(s, e)) = Len(s) + 1 /\ DOMAIN Append(s, e) = 1..(Len(s) + 1)
         /\ \A k \in 1..Len(s) : Append(s, e)[k] = s[k]
         /\ Append(s, e)[Len(s) + 1] = e
OBVIOUS

LEMMA ReadAnother ==
  ASSUME NEW d \in Dirs, NEW n \in Nat, n \in DOMAIN d, d[n].kind = "run",
         NEW rs \in Seq(Entries(d)), NEW h, Matches(rs, d, Files(d, n), h)
  PROVE  \E g : Matches(Append(rs, d[n]), d, Files(d, n + 1), g)
<1>1. PICK m \in Nat : m = Len(rs) /\ DOMAIN rs = 1..m
  OBVIOUS
<1>2. PICK s : s = Append(rs, d[n])
  OBVIOUS
<1>3. /\ Len(s) = m + 1 /\ DOMAIN s = 1..(m + 1)
      /\ (\A k \in 1..m : s[k] = rs[k]) /\ s[m + 1] = d[n]
  BY <1>1, <1>2, Appended DEF Entries
<1> DEFINE g == [k \in 1..(m + 1) |-> IF k = m + 1 THEN n ELSE h[k]]
<1>4. Files(d, n + 1) = Files(d, n) \cup {n} /\ n \notin Files(d, n)
  BY DirsAssumption DEF Files
<1>5. /\ h \in [1..m -> Files(d, n)] /\ (\A k, l \in 1..m : h[k] = h[l] => k = l)
      /\ (\A i \in Files(d, n) : \E k \in 1..m : h[k] = i) /\ \A k \in 1..m : rs[k] = d[h[k]]
  BY <1>1 DEF Matches
<1>6. \A k \in 1..(m + 1) : k = m + 1 \/ k \in 1..m
  OBVIOUS
<1>7. g[m + 1] = n /\ \A k \in 1..m : g[k] = h[k]
  OBVIOUS
<1>8. g \in [1..(m + 1) -> Files(d, n + 1)]
  BY <1>4, <1>5, <1>6
<1> HIDE DEF g
<1>9. \A k, l \in 1..(m + 1) : g[k] = g[l] => k = l
  BY <1>4, <1>5, <1>6, <1>7
<1>10. ASSUME NEW i \in Files(d, n + 1) PROVE \E k \in 1..(m + 1) : g[k] = i
  <2>1. CASE i = n
    <3>1. m + 1 \in 1..(m + 1)
      OBVIOUS
    <3> QED
      BY <1>7, <2>1, <3>1
  <2>2. CASE i \in Files(d, n)
    <3>1. PICK k \in 1..m : h[k] = i
      BY <1>5, <2>2
    <3>2. k \in 1..(m + 1) /\ g[k] = i
      BY <1>7, <3>1
    <3> QED
      BY <3>2
  <2> QED
    BY <1>4, <2>1, <2>2
<1>11. \A k \in 1..(m + 1) : s[k] = d[g[k]]
  BY <1>3, <1>5, <1>6, <1>7
<1>12. Matches(s, d, Files(d, n + 1), g)
  BY <1>3, <1>8, <1>9, <1>10, <1>11, SMTT(30) DEF Matches
<1> QED
  BY <1>2, <1>12

LEMMA EarlierIsOrder ==
  ASSUME NEW a, NEW b, NEW c, IsRun(a), IsRun(b), IsRun(c)
  PROVE  /\ ~Earlier(a, a)
         /\ Earlier(a, b) /\ Earlier(b, c) => Earlier(a, c)
         /\ Earlier(a, c) => Earlier(a, b) \/ Earlier(b, c)
BY DEF Earlier, IsRun

LEMMA SortedRuns ==
  ASSUME NEW d \in Dirs, NEW n, NEW rs \in Seq(Entries(d)), NEW h, Matches(rs, d, Files(d, n), h),
         NEW t, t = StableSort(rs, {p \in Pairs(rs) : Earlier(rs[p[1]], rs[p[2]])})
  PROVE  /\ t \in Seq(Entries(d)) /\ InOrder(t)
         /\ \E g : Matches(t, d, Files(d, n), g)
<1> DEFINE less == {p \in Pairs(rs) : Earlier(rs[p[1]], rs[p[2]])}
<1>1. PICK m \in Nat : m = Len(rs) /\ DOMAIN rs = 1..m
  OBVIOUS
<1>2. \A k \in 1..m : IsRun(rs[k]) /\ rs[k] \in Entries(d)
  BY <1>1, FilesAreRuns DEF Matches, Entries, Files
<1>3. \A i, j \in 1..m : <<i, j>> \in less <=> Earlier(rs[i], rs[j])
  BY <1>1 DEF Pairs
<1> HIDE DEF less
<1>4. WeakOrder(less, 1..m)
  <2>1. ASSUME NEW x \in 1..m, NEW y \in 1..m, NEW z \in 1..m
        PROVE  /\ <<x, x>> \notin less
               /\ <<x, y>> \in less /\ <<y, z>> \in less => <<x, z>> \in less
               /\ <<x, z>> \in less => <<x, y>> \in less \/ <<y, z>> \in less
    <3>1. IsRun(rs[x]) /\ IsRun(rs[y]) /\ IsRun(rs[z])
      BY <1>2
    <3>2. /\ ~Earlier(rs[x], rs[x])
          /\ Earlier(rs[x], rs[y]) /\ Earlier(rs[y], rs[z]) => Earlier(rs[x], rs[z])
          /\ Earlier(rs[x], rs[z]) => Earlier(rs[x], rs[y]) \/ Earlier(rs[y], rs[z])
      BY <3>1, EarlierIsOrder
    <3> QED
      BY <1>3, <3>2
  <2> QED
    BY <2>1 DEF WeakOrder
<1>5. PICK f : Sorted(t, rs, m, f, less)
  BY <1>1, <1>4, SortSorts DEF less
<1>6. /\ DOMAIN t = 1..m /\ Len(t) = m /\ f \in [1..m -> 1..m]
      /\ \A k, l \in 1..m : f[k] = f[l] => k = l
      /\ \A i \in 1..m : \E k \in 1..m : f[k] = i
      /\ \A k \in 1..m : t[k] = rs[f[k]]
      /\ \A k, l \in 1..m : k < l => <<f[l], f[k]>> \notin less
  BY <1>5 DEF Sorted
<1>7. InOrder(t)
  <2>1. ASSUME NEW k \in 1..m, NEW l \in 1..m, k < l PROVE ~Earlier(t[l], t[k])
    <3>1. f[k] \in 1..m /\ f[l] \in 1..m /\ t[k] = rs[f[k]] /\ t[l] = rs[f[l]]
      BY <1>6
    <3>2. <<f[l], f[k]>> \notin less
      BY <1>6, <2>1
    <3> QED
      BY <1>3, <3>1, <3>2
  <2> QED
    BY <1>6, <2>1 DEF InOrder
<1>8. t \in Seq(Entries(d))
  <2>1. t = [k \in 1..m |-> t[k]]
    BY <1>1 DEF StableSort
  <2>2. ASSUME NEW k \in 1..m PROVE t[k] \in Entries(d)
    <3>1. f[k] \in 1..m /\ t[k] = rs[f[k]]
      BY <1>6
    <3> QED
      BY <1>2, <3>1
  <2> QED
    BY <2>1, <2>2
<1> DEFINE g == [k \in 1..m |-> h[f[k]]]
<1>9. /\ h \in [1..m -> Files(d, n)] /\ (\A k, l \in 1..m : h[k] = h[l] => k = l)
      /\ (\A i \in Files(d, n) : \E k \in 1..m : h[k] = i) /\ \A k \in 1..m : rs[k] = d[h[k]]
  BY <1>1 DEF Matches
<1>10. \A k \in 1..m : g[k] = h[f[k]] /\ f[k] \in 1..m
  BY <1>6
<1>11. g \in [1..m -> Files(d, n)]
  BY <1>9, <1>10
<1> HIDE DEF g
<1>12. \A k, l \in 1..m : g[k] = g[l] => k = l
  BY <1>6, <1>9, <1>10
<1>13. ASSUME NEW i \in Files(d, n) PROVE \E k \in 1..m : g[k] = i
  <2>1. PICK j \in 1..m : h[j] = i
    BY <1>9
  <2>2. PICK k \in 1..m : f[k] = j
    BY <1>6
  <2> QED
    BY <1>10, <2>1, <2>2
<1>14. ASSUME NEW k \in 1..m PROVE t[k] = d[g[k]]
  <2>1. f[k] \in 1..m /\ t[k] = rs[f[k]] /\ g[k] = h[f[k]]
    BY <1>6, <1>10
  <2> QED
    BY <1>9, <2>1
<1>15. Matches(t, d, Files(d, n), g)
  <2>1. DOMAIN t = 1..m /\ Len(t) = m
    BY <1>6
  <2>2. (\A i \in Files(d, n) : \E k \in 1..m : g[k] = i) /\ \A k \in 1..m : t[k] = d[g[k]]
    BY <1>13, <1>14
  <2> QED
    BY <1>11, <1>12, <2>1, <2>2 DEF Matches
<1> QED
  BY <1>7, <1>8, <1>15

LEMMA InitRuns == Init => RunsInv
<1> SUFFICES ASSUME Init PROVE RunsInv
  OBVIOUS
<1>1. dir \in Dirs /\ next = 1 /\ pc = "read" /\ runs = <<>> /\ DOMAIN dir \subseteq Nat \ {0}
  BY DirsAssumption DEF Init
<1>2. Files(dir, next) = {}
  BY <1>1 DEF Files
<1>3. Matches(runs, dir, {}, <<>>)
  BY <1>1 DEF Matches
<1>4. \A i \in DOMAIN dir : ~(i < next)
  BY <1>1
<1> QED
  <2>1. \E h : Matches(runs, dir, Files(dir, next), h)
    BY <1>2, <1>3
  <2>2. runs \in Seq(Entries(dir)) /\ next \in Nat \ {0}
    BY <1>1
  <2> QED
    BY <1>1, <1>4, <2>1, <2>2 DEF RunsInv

LEMMA NextRuns == RunsInv /\ [Next]_vars => RunsInv'
<1> SUFFICES ASSUME RunsInv, [Next]_vars PROVE RunsInv'
  OBVIOUS
<1>1. /\ dir \in Dirs /\ next \in Nat \ {0} /\ runs \in Seq(Entries(dir))
      /\ Len(dir) \in Nat /\ DOMAIN dir = 1..Len(dir)
  BY DirsAssumption DEF RunsInv
<1>2. ASSUME next <= Len(dir) PROVE next \in DOMAIN dir /\ dir[next] \in Entries(dir)
  BY <1>1, <1>2 DEF Entries
<1>3. CASE Skip
  <2>1. /\ UNCHANGED <<dir, pc, runs>> /\ next' = next + 1 /\ pc = "read" /\ next \in DOMAIN dir
        /\ dir[next].kind = "other"
    BY <1>2, <1>3 DEF Skip
  <2>2. Files(dir, next + 1) = Files(dir, next)
    BY <1>1, <2>1 DEF Files
  <2>3. \A i \in DOMAIN dir : i < next + 1 => dir[i].kind # "bad"
    BY <1>1, <2>1 DEF RunsInv
  <2> QED
    BY <1>1, <2>1, <2>2, <2>3 DEF RunsInv
<1>4. CASE ReadRun
  <2>1. /\ UNCHANGED <<dir, pc>> /\ next' = next + 1 /\ pc = "read" /\ next \in DOMAIN dir
        /\ dir[next].kind = "run" /\ runs' = Append(runs, dir[next]) /\ dir[next] \in Entries(dir)
    BY <1>2, <1>4 DEF ReadRun
  <2>2. PICK h : Matches(runs, dir, Files(dir, next), h)
    BY <2>1 DEF RunsInv
  <2>3. \E g : Matches(Append(runs, dir[next]), dir, Files(dir, next + 1), g)
    BY <1>1, <2>1, <2>2, ReadAnother
  <2>4. \A i \in DOMAIN dir : i < next + 1 => dir[i].kind # "bad"
    BY <1>1, <2>1 DEF RunsInv
  <2>5. runs' \in Seq(Entries(dir))
    BY <1>1, <2>1, Appended
  <2> QED
    BY <1>1, <2>1, <2>3, <2>4, <2>5 DEF RunsInv
<1>5. CASE ReadBad
  BY <1>1, <1>5 DEF ReadBad, RunsInv
<1>6. CASE SortRuns
  <2>1. /\ UNCHANGED <<dir, next>> /\ pc = "read" /\ pc' = "group" /\ next > Len(dir)
        /\ runs' = StableSort(runs, {p \in Pairs(runs) : Earlier(runs[p[1]], runs[p[2]])})
    BY <1>6 DEF SortRuns
  <2>2. PICK h : Matches(runs, dir, Files(dir, next), h)
    BY <2>1 DEF RunsInv
  <2>3. PICK t : t = StableSort(runs, {p \in Pairs(runs) : Earlier(runs[p[1]], runs[p[2]])})
    OBVIOUS
  <2>4. t \in Seq(Entries(dir)) /\ InOrder(t) /\ \E g : Matches(t, dir, Files(dir, next), g)
    BY <1>1, <2>2, <2>3, SortedRuns
  <2>5. \A i \in DOMAIN dir : i < next => dir[i].kind # "bad"
    BY <2>1 DEF RunsInv
  <2> QED
    BY <1>1, <2>1, <2>3, <2>4, <2>5 DEF RunsInv
<1>7. CASE (\E k \in Keys : CollectGroup(k)) \/ SortGroups \/ PickExtremes \/ TenantRow \/ Finish
  <2>1. /\ UNCHANGED <<dir, next, runs>> /\ pc \in {"group", "tenants"}
        /\ pc' \in {"group", "tenants", "done"}
    BY <1>7 DEF CollectGroup, SortGroups, PickExtremes, TenantRow, Finish
  <2> QED
    BY <2>1 DEF RunsInv
<1>8. CASE UNCHANGED vars
  BY <1>8 DEF vars, RunsInv
<1> QED
  BY <1>3, <1>4, <1>5, <1>6, <1>7, <1>8 DEF Next

LEMMA SpecRuns == Spec => []RunsInv
BY InitRuns, NextRuns, PTL DEF Spec

LEMMA EveryRunIsTyped == RunsInv => \A k \in DOMAIN runs : IsRun(runs[k])
<1> SUFFICES ASSUME RunsInv, NEW k \in DOMAIN runs PROVE IsRun(runs[k])
  OBVIOUS
<1>1. pc # "error"
  BY DEF RunsInv
<1>2. PICK h : Matches(runs, dir, Files(dir, next), h)
  BY <1>1 DEF RunsInv
<1>3. h[k] \in Files(dir, next) /\ runs[k] = dir[h[k]]
  BY <1>2 DEF Matches
<1>4. dir \in Dirs
  BY DEF RunsInv
<1> QED
  BY <1>3, <1>4, FilesAreRuns

LEMMA PickupIsBag ==
  ASSUME NEW r, IsRun(r)
  PROVE  IsBag(r.pickup) /\ (DOMAIN r.pickup # {} => SumFunction(r.pickup) > 0)
<1>1. IsBag(r.pickup)
  BY DEF IsRun, IsBag
<1>2. ASSUME NEW x \in DOMAIN r.pickup PROVE SumFunction(r.pickup) > 0
  <2>1. IsFiniteSet(DOMAIN r.pickup) /\ \A y \in DOMAIN r.pickup : r.pickup[y] \in Nat
    BY <1>1 DEF IsBag
  <2>2. /\ SumFunctionOnSet(r.pickup, DOMAIN r.pickup) \in Nat
        /\ r.pickup[x] <= SumFunctionOnSet(r.pickup, DOMAIN r.pickup)
    BY <2>1, SumNat
  <2>3. r.pickup[x] \in Nat \ {0}
    BY DEF IsRun
  <2> QED
    BY <2>2, <2>3 DEF SumFunction
<1> QED
  BY <1>1, <1>2

\* P50, P95 and P99 of every run are nearest-rank percentiles of its samples, however many
\* samples there are and however they are distributed.
THEOREM PercentilesStayNearestRank == Spec => []PercentilesAreNearestRank
<1>1. RunsInv => PercentilesAreNearestRank
  <2> SUFFICES ASSUME RunsInv, NEW i \in DOMAIN runs, NEW p \in {50, 95, 99},
                      DOMAIN runs[i].pickup # {}
               PROVE  LET B == runs[i].pickup
                          x == Pct(B, p)
                      IN /\ x \in DOMAIN B /\ 100 * UpTo(B, x) >= p * SumFunction(B)
                         /\ \A y \in DOMAIN B : y < x => 100 * UpTo(B, y) < p * SumFunction(B)
    BY DEF PercentilesAreNearestRank
  <2>1. IsRun(runs[i])
    BY EveryRunIsTyped
  <2>2. PICK B : B = runs[i].pickup
    OBVIOUS
  <2>3. IsBag(B) /\ SumFunction(B) > 0
    BY <2>1, <2>2, PickupIsBag
  <2>4. /\ Pct(B, p) \in DOMAIN B /\ 100 * UpTo(B, Pct(B, p)) >= p * SumFunction(B)
        /\ \A y \in DOMAIN B : y < Pct(B, p) => 100 * UpTo(B, y) < p * SumFunction(B)
    BY <2>3, NearestRank
  <2> QED
    BY <2>2, <2>4
<1> QED
  BY <1>1, SpecRuns, PTL

----------------------------------------------------------------------------
(* GroupRuns                                                               *)

KeysOf(rs) == {Key(rs[i]) : i \in DOMAIN rs}
Groups(rs) == {Group(rs, k) : k \in KeysOf(rs)}

\* os holds the group of every key in vs once.
Collected(os, rs, vs) ==
  /\ os \in Seq(Groups(rs)) /\ Len(os) \in Nat /\ DOMAIN os = 1..Len(os)
  /\ \A g \in DOMAIN os : os[g].key \in vs /\ os[g] = Group(rs, os[g].key)
  /\ \A g, h \in DOMAIN os : os[g].key = os[h].key => g = h
  /\ \A k \in vs : \E g \in DOMAIN os : os[g].key = k

Ascending(os) == \A g, h \in DOMAIN os : g < h => KeyLess(os[g].key, os[h].key)

\* The groups collected so far are those of the keys visited, and in the end those of all
\* keys in ascending order.
OutInv ==
  /\ visited \subseteq Keys /\ Collected(out, runs, visited)
  /\ pc \in {"read", "error"} => out = <<>> /\ visited = {}
  /\ pc \in {"tenants", "done"} => visited = Keys /\ Ascending(out)

LEMMA GroupKey == \A rs, k : Group(rs, k).key = k /\ Group(rs, k).runs = Members(rs, k)
                             /\ Group(rs, k).stats = Stats(Members(rs, k))
BY DEF Group

LEMMA CollectedNone == \A rs : Collected(<<>>, rs, {})
BY DEF Collected

LEMMA CollectedMore ==
  ASSUME NEW os, NEW rs, NEW vs, Collected(os, rs, vs), NEW k \in KeysOf(rs) \ vs
  PROVE  Collected(Append(os, Group(rs, k)), rs, vs \cup {k})
<1>1. PICK m \in Nat : m = Len(os) /\ DOMAIN os = 1..m
  BY DEF Collected
<1>2. PICK s : s = Append(os, Group(rs, k))
  OBVIOUS
<1>3. /\ s \in Seq(Groups(rs)) /\ Len(s) = m + 1 /\ DOMAIN s = 1..(m + 1)
      /\ (\A g \in 1..m : s[g] = os[g]) /\ s[m + 1] = Group(rs, k)
  <2>1. Group(rs, k) \in Groups(rs) /\ os \in Seq(Groups(rs))
    BY DEF Groups, Collected
  <2> QED
    BY <1>1, <1>2, <2>1, Appended
<1>4. s[m + 1].key = k
  BY <1>3, GroupKey
<1>5. \A g \in 1..(m + 1) : g = m + 1 \/ g \in 1..m
  OBVIOUS
<1>6. \A g \in 1..m : s[g].key \in vs /\ s[g] = Group(rs, s[g].key)
  BY <1>1, <1>3 DEF Collected
<1>7. ASSUME NEW g \in 1..(m + 1) PROVE s[g].key \in vs \cup {k} /\ s[g] = Group(rs, s[g].key)
  BY <1>3, <1>4, <1>5, <1>6
<1>8. ASSUME NEW g \in 1..(m + 1), NEW h \in 1..(m + 1), s[g].key = s[h].key PROVE g = h
  <2>0. \A x, y \in 1..m : os[x].key = os[y].key => x = y
    BY <1>1 DEF Collected
  <2>1. CASE g \in 1..m /\ h \in 1..m
    <3>1. os[g].key = os[h].key
      BY <1>3, <1>8, <2>1
    <3> QED
      BY <2>0, <2>1, <3>1
  <2>2. CASE ~(g \in 1..m /\ h \in 1..m)
    BY <1>4, <1>5, <1>6, <1>8, <2>2
  <2> QED
    BY <2>1, <2>2
<1>9. ASSUME NEW j \in vs \cup {k} PROVE \E g \in 1..(m + 1) : s[g].key = j
  <2>1. CASE j = k
    BY <1>4, <2>1
  <2>2. CASE j \in vs
    <3>1. PICK g \in 1..m : os[g].key = j
      BY <1>1, <2>2 DEF Collected
    <3>2. g \in 1..(m + 1) /\ s[g].key = j
      BY <1>3, <3>1
    <3> QED
      BY <3>2
  <2> QED
    BY <2>1, <2>2
<1>10. Collected(s, rs, vs \cup {k})
  BY <1>3, <1>7, <1>8, <1>9, SMTT(30) DEF Collected
<1> QED
  BY <1>2, <1>10

LEMMA KeyLessIsOrder ==
  ASSUME NEW a, NEW b, NEW c,
         \A k \in {a, b, c} : k[1] \in Int /\ k[2] \in Int
  PROVE  /\ ~KeyLess(a, a)
         /\ KeyLess(a, b) /\ KeyLess(b, c) => KeyLess(a, c)
         /\ KeyLess(a, c) => KeyLess(a, b) \/ KeyLess(b, c)
         /\ KeyLess(a, b) \/ KeyLess(b, a) \/ (a[1] = b[1] /\ a[2] = b[2])
<1>1. a[1] \in Int /\ a[2] \in Int /\ b[1] \in Int /\ b[2] \in Int /\ c[1] \in Int /\ c[2] \in Int
  OBVIOUS
<1> QED
  BY <1>1 DEF KeyLess

LEMMA CollectedSorted ==
  ASSUME NEW os, NEW rs, NEW vs, Collected(os, rs, vs), \A k \in vs : k \in Int \X Int,
         NEW t, t = StableSort(os, {p \in Pairs(os) : KeyLess(os[p[1]].key, os[p[2]].key)})
  PROVE  Collected(t, rs, vs) /\ Ascending(t)
<1> DEFINE less == {p \in Pairs(os) : KeyLess(os[p[1]].key, os[p[2]].key)}
<1>1. PICK m \in Nat : m = Len(os) /\ DOMAIN os = 1..m
  BY DEF Collected
<1>2. \A g \in 1..m : /\ os[g].key \in vs /\ os[g] = Group(rs, os[g].key)
                      /\ os[g].key[1] \in Int /\ os[g].key[2] \in Int
                      /\ os[g].key = <<os[g].key[1], os[g].key[2]>>
  BY <1>1 DEF Collected
<1>3. \A i, j \in 1..m : <<i, j>> \in less <=> KeyLess(os[i].key, os[j].key)
  BY <1>1 DEF Pairs
<1> HIDE DEF less
<1>4. WeakOrder(less, 1..m)
  <2>1. ASSUME NEW x \in 1..m, NEW y \in 1..m, NEW z \in 1..m
        PROVE  /\ <<x, x>> \notin less
               /\ <<x, y>> \in less /\ <<y, z>> \in less => <<x, z>> \in less
               /\ <<x, z>> \in less => <<x, y>> \in less \/ <<y, z>> \in less
    <3>1. \A k \in {os[x].key, os[y].key, os[z].key} : k[1] \in Int /\ k[2] \in Int
      BY <1>2
    <3>2. /\ ~KeyLess(os[x].key, os[x].key)
          /\ KeyLess(os[x].key, os[y].key) /\ KeyLess(os[y].key, os[z].key) =>
               KeyLess(os[x].key, os[z].key)
          /\ KeyLess(os[x].key, os[z].key) =>
               KeyLess(os[x].key, os[y].key) \/ KeyLess(os[y].key, os[z].key)
      BY <3>1, KeyLessIsOrder
    <3> QED
      BY <1>3, <3>2
  <2> QED
    BY <2>1 DEF WeakOrder
<1>5. PICK f : Sorted(t, os, m, f, less)
  BY <1>1, <1>4, SortSorts DEF less
<1>6. /\ DOMAIN t = 1..m /\ Len(t) = m /\ f \in [1..m -> 1..m]
      /\ \A k, l \in 1..m : f[k] = f[l] => k = l
      /\ \A i \in 1..m : \E k \in 1..m : f[k] = i
      /\ \A k \in 1..m : t[k] = os[f[k]]
      /\ \A k, l \in 1..m : k < l => <<f[l], f[k]>> \notin less
  BY <1>5 DEF Sorted
<1>7. \A g \in 1..m : f[g] \in 1..m /\ t[g] = os[f[g]]
  BY <1>6
<1>8. t \in Seq(Groups(rs))
  <2>1. t = [k \in 1..m |-> t[k]]
    BY <1>1 DEF StableSort
  <2>2. \A g \in 1..m : os[g] \in Groups(rs)
    BY <1>1 DEF Collected
  <2>3. \A k \in 1..m : t[k] \in Groups(rs)
    BY <1>7, <2>2
  <2> QED
    BY <2>1, <2>3
<1>9. ASSUME NEW g \in 1..m PROVE t[g].key \in vs /\ t[g] = Group(rs, t[g].key)
  BY <1>2, <1>7
<1>10. ASSUME NEW g \in 1..m, NEW h \in 1..m, t[g].key = t[h].key PROVE g = h
  <2>1. \A i, j \in 1..m : os[i].key = os[j].key => i = j
    BY <1>1 DEF Collected
  <2>2. f[g] \in 1..m /\ f[h] \in 1..m /\ os[f[g]].key = os[f[h]].key
    BY <1>7, <1>10
  <2>3. f[g] = f[h]
    BY <2>1, <2>2
  <2> QED
    BY <1>6, <2>3
<1>11. ASSUME NEW k \in vs PROVE \E g \in 1..m : t[g].key = k
  <2>1. PICK i \in 1..m : os[i].key = k
    BY <1>1 DEF Collected
  <2>2. PICK g \in 1..m : f[g] = i
    BY <1>6
  <2> QED
    BY <1>7, <2>1, <2>2
<1>12. ASSUME NEW g \in 1..m, NEW h \in 1..m, g < h PROVE KeyLess(t[g].key, t[h].key)
  <2>1. f[g] \in 1..m /\ f[h] \in 1..m /\ t[g] = os[f[g]] /\ t[h] = os[f[h]]
    BY <1>7
  <2>2. ~KeyLess(t[h].key, t[g].key)
    BY <1>3, <1>6, <1>12, <2>1
  <2>3. t[g].key # t[h].key
    BY <1>10, <1>12
  <2>4. PICK a, b : a = t[g].key /\ b = t[h].key
    OBVIOUS
  <2>5. /\ a[1] \in Int /\ a[2] \in Int /\ b[1] \in Int /\ b[2] \in Int
        /\ a = <<a[1], a[2]>> /\ b = <<b[1], b[2]>>
    BY <1>2, <2>1, <2>4
  <2>6. KeyLess(a, b) \/ KeyLess(b, a) \/ (a[1] = b[1] /\ a[2] = b[2])
    BY <2>5, KeyLessIsOrder
  <2>7. ~(a[1] = b[1] /\ a[2] = b[2])
    BY <2>3, <2>4, <2>5
  <2> QED
    BY <2>2, <2>4, <2>6, <2>7
<1>13. Collected(t, rs, vs)
  <2>1. DOMAIN t = 1..m /\ Len(t) = m
    BY <1>6
  <2>2. \A g \in DOMAIN t : t[g].key \in vs /\ t[g] = Group(rs, t[g].key)
    BY <1>9, <2>1
  <2>3. \A g, h \in DOMAIN t : t[g].key = t[h].key => g = h
    BY <1>10, <2>1
  <2>4. \A k \in vs : \E g \in DOMAIN t : t[g].key = k
    BY <1>11, <2>1
  <2> HIDE DEF less
  <2> QED
    BY <1>8, <2>1, <2>2, <2>3, <2>4 DEF Collected
<1>14. Ascending(t)
  BY <1>6, <1>12 DEF Ascending
<1> QED
  BY <1>13, <1>14

LEMMA InitOut == Init => OutInv
<1> SUFFICES ASSUME Init PROVE OutInv
  OBVIOUS
<1>1. out = <<>> /\ visited = {} /\ pc = "read"
  BY DEF Init
<1>2. Collected(out, runs, visited)
  BY <1>1, CollectedNone
<1> QED
  BY <1>1, <1>2 DEF OutInv

LEMMA NextOut == RunsInv /\ OutInv /\ [Next]_vars => OutInv'
<1> SUFFICES ASSUME RunsInv, OutInv, [Next]_vars PROVE OutInv'
  OBVIOUS
<1>1. CASE Skip \/ ReadRun \/ ReadBad \/ SortRuns
  <2>1. out = <<>> /\ visited = {} /\ UNCHANGED <<out, visited>> /\ pc' \in {"read", "error", "group"}
    BY <1>1 DEF Skip, ReadRun, ReadBad, SortRuns, OutInv
  <2>2. \A rs : Collected(<<>>, rs, {})
    BY CollectedNone
  <2>3. Collected(out, runs, visited)' /\ visited' \subseteq Keys'
    BY <2>1, <2>2
  <2> QED
    BY <2>1, <2>3 DEF OutInv
<1>2. ASSUME NEW k \in Keys, CollectGroup(k) PROVE OutInv'
  <2>1. /\ out' = Append(out, Group(runs, k)) /\ visited' = visited \cup {k} /\ k \notin visited
        /\ UNCHANGED <<runs, pc>> /\ pc = "group"
    BY <1>2 DEF CollectGroup
  <2>2. Keys = KeysOf(runs) /\ Keys' = Keys
    BY <2>1 DEF Keys, KeysOf
  <2>3. Collected(Append(out, Group(runs, k)), runs, visited \cup {k})
    BY <2>1, <2>2, CollectedMore DEF OutInv
  <2> QED
    BY <2>1, <2>2, <2>3 DEF OutInv
<1>3. CASE SortGroups
  <2>1. /\ UNCHANGED <<runs, visited>> /\ pc' = "tenants" /\ visited = Keys
        /\ out' = StableSort(out, {p \in Pairs(out) : KeyLess(out[p[1]].key, out[p[2]].key)})
    BY <1>3 DEF SortGroups
  <2>2. \A k \in visited : k \in Int \X Int
    BY <2>1, EveryRunIsTyped DEF Keys, Key, IsRun
  <2>3. PICK t : t = StableSort(out, {p \in Pairs(out) : KeyLess(out[p[1]].key, out[p[2]].key)})
    OBVIOUS
  <2>4. Collected(t, runs, visited) /\ Ascending(t)
    BY <2>2, <2>3, CollectedSorted DEF OutInv
  <2>5. Keys' = Keys
    BY <2>1 DEF Keys
  <2> QED
    BY <2>1, <2>3, <2>4, <2>5 DEF OutInv
<1>4. CASE PickExtremes \/ TenantRow \/ Finish
  <2>1. UNCHANGED <<out, runs, visited>> /\ pc = "tenants" /\ pc' \in {"tenants", "done"}
    BY <1>4 DEF PickExtremes, TenantRow, Finish
  <2>2. Keys' = Keys
    BY <2>1 DEF Keys
  <2> QED
    BY <2>1, <2>2 DEF OutInv
<1>5. CASE UNCHANGED vars
  BY <1>5 DEF vars, OutInv, Keys
<1> QED
  BY <1>1, <1>2, <1>3, <1>4, <1>5 DEF Next

LEMMA SpecOut == Spec => [](RunsInv /\ OutInv)
<1>1. Init => OutInv
  BY InitOut
<1>2. RunsInv /\ OutInv /\ [Next]_vars => OutInv'
  BY NextOut
<1> QED
  BY <1>1, <1>2, SpecRuns, PTL DEF Spec

\* A group that has been collected: the result files with its key, each once.
Holds(o) ==
  /\ \E e : Matches(o.runs, dir, {i \in Files(dir, next) : Key(dir[i]) = o.key}, e)
  /\ \E f : Follows(o.runs, runs, f)
  /\ o.stats = Stats(o.runs)
  /\ Len(o.runs) \in Nat \ {0} /\ DOMAIN o.runs = 1..Len(o.runs)
  /\ \A a \in DOMAIN o.runs : IsRun(o.runs[a]) /\ Key(o.runs[a]) = o.key

LEMMA GroupsHold == RunsInv /\ OutInv => \A g \in DOMAIN out : Holds(out[g])
<1> SUFFICES ASSUME RunsInv, OutInv, NEW g \in DOMAIN out PROVE Holds(out[g])
  OBVIOUS
<1>1. pc # "error" /\ out[g].key \in Keys /\ out[g] = Group(runs, out[g].key) /\ dir \in Dirs
  BY DEF OutInv, RunsInv, Collected
<1>2. PICK o, k : o = out[g] /\ k = o.key /\ o.runs = Members(runs, k) /\ o.stats = Stats(o.runs)
  BY <1>1, GroupKey
<1>3. PICK h : Matches(runs, dir, Files(dir, next), h)
  BY <1>1 DEF RunsInv
<1> DEFINE F == {i \in Files(dir, next) : Key(dir[i]) = k}
<1>4. (\E e : Matches(o.runs, dir, F, e)) /\ \E f : Follows(o.runs, runs, f)
  BY <1>2, <1>3, GroupMembers
<1>5. PICK e : Matches(o.runs, dir, F, e)
  BY <1>4
<1>6. PICK x \in F : TRUE
  <2>1. PICK j \in DOMAIN runs : Key(runs[j]) = k
    BY <1>1, <1>2 DEF Keys
  <2>2. h[j] \in Files(dir, next) /\ runs[j] = dir[h[j]]
    BY <1>3 DEF Matches
  <2>3. h[j] \in F
    BY <2>1, <2>2
  <2> QED
    BY <2>3
<1>7. \A i \in F : IsRun(dir[i]) /\ Key(dir[i]) = k
  BY <1>1, FilesAreRuns
<1> HIDE DEF F
<1>8. /\ Len(o.runs) \in Nat /\ DOMAIN o.runs = 1..Len(o.runs) /\ (\E a \in DOMAIN o.runs : e[a] = x)
      /\ \A a \in DOMAIN o.runs : e[a] \in F /\ o.runs[a] = dir[e[a]]
  BY <1>5, <1>6 DEF Matches
<1>9. Len(o.runs) \in Nat \ {0} /\ \A a \in DOMAIN o.runs : IsRun(o.runs[a]) /\ Key(o.runs[a]) = k
  BY <1>7, <1>8
<1>10. Holds(o)
  BY <1>2, <1>4, <1>8, <1>9 DEF Holds, F
<1> QED
  BY <1>2, <1>10

\* What MediansSplitTheRuns says of the members ms and the statistics st of a group.
SplitsRuns(st, ms) ==
  /\ Splits(st.medRate, [i \in DOMAIN ms |-> ms[i].rate])
  /\ st.medRate \in st.minRate..st.maxRate
  /\ Splits(st.medP95, [i \in DOMAIN ms |-> Pct(ms[i].pickup, 95)])
  /\ st.medP95 \in st.minP95..st.maxP95

LEMMA StatsFields ==
  ASSUME NEW ms, NEW n \in Nat \ {0}, Len(ms) = n, DOMAIN ms = 1..n,
         \A a \in 1..n : ms[a].rate \in Int /\ Pct(ms[a].pickup, 95) \in Int
  PROVE  SplitsRuns(Stats(ms), ms)
<1> DEFINE rates == [a \in DOMAIN ms |-> ms[a].rate]
           p95s == [a \in DOMAIN ms |-> Pct(ms[a].pickup, 95)]
<1>1. rates \in [1..n -> Int] /\ p95s \in [1..n -> Int]
  OBVIOUS
<1>0. Stats(ms) = [medRate |-> MedianF(rates), minRate |-> MinF(rates), maxRate |-> MaxF(rates),
                   medP95 |-> MedianF(p95s), minP95 |-> MinF(p95s), maxP95 |-> MaxF(p95s),
                   total |-> Total(ms)]
  BY DEF Stats
<1> HIDE DEF rates, p95s
<1>2. PICK st : /\ st = Stats(ms) /\ st.medRate = MedianF(rates)
                /\ st.minRate = MinF(rates) /\ st.maxRate = MaxF(rates)
                /\ st.medP95 = MedianF(p95s) /\ st.minP95 = MinF(p95s) /\ st.maxP95 = MaxF(p95s)
  BY <1>0
<1>3. Splits(MedianF(rates), rates) /\ MedianF(rates) \in MinF(rates)..MaxF(rates)
  BY <1>1, MedianIsMedian
<1>4. Splits(MedianF(p95s), p95s) /\ MedianF(p95s) \in MinF(p95s)..MaxF(p95s)
  BY <1>1, MedianIsMedian
<1>5. /\ Splits(st.medRate, rates) /\ st.medRate \in st.minRate..st.maxRate
      /\ Splits(st.medP95, p95s) /\ st.medP95 \in st.minP95..st.maxP95
  BY <1>2, <1>3, <1>4
<1>6. SplitsRuns(st, ms)
  BY <1>5 DEF SplitsRuns, rates, p95s
<1> QED
  BY <1>2, <1>6

LEMMA PctIsInt ==
  ASSUME NEW r, IsRun(r)
  PROVE  Pct(r.pickup, 95) \in Int
<1>1. PICK B : B = r.pickup
  OBVIOUS
<1>2. CASE DOMAIN B = {}
  <2>1. SumFunction(B) = 0
    BY <1>2, SumEmpty DEF SumFunction
  <2>2. Pct(B, 95) = 0
    BY <2>1 DEF Pct
  <2> QED
    BY <1>1, <2>2
<1>3. CASE DOMAIN B # {}
  <2>1. IsBag(B) /\ SumFunction(B) > 0
    BY <1>1, <1>3, PickupIsBag
  <2>2. Pct(B, 95) \in DOMAIN B
    BY <2>1, NearestRank
  <2> QED
    BY <1>1, <2>2 DEF IsRun
<1> QED
  BY <1>2, <1>3

\* The medians printed for a group split its runs in halves and lie between the printed
\* minimum and maximum, for any number of runs and any values in them.
THEOREM MediansAlwaysSplit == Spec => []MediansSplitTheRuns
<1>1. RunsInv /\ OutInv => MediansSplitTheRuns
  <2> SUFFICES ASSUME RunsInv, OutInv, NEW g \in DOMAIN out
               PROVE  SplitsRuns(out[g].stats, out[g].runs)
    BY DEF MediansSplitTheRuns, SplitsRuns
  <2>1. Holds(out[g])
    BY GroupsHold
  <2>2. PICK ms, n : /\ ms = out[g].runs /\ n = Len(ms) /\ n \in Nat \ {0} /\ DOMAIN ms = 1..n
                     /\ out[g].stats = Stats(ms) /\ \A a \in 1..n : IsRun(ms[a])
    BY <2>1 DEF Holds
  <2>3. \A a \in 1..n : ms[a].rate \in Int /\ Pct(ms[a].pickup, 95) \in Int
    BY <2>2, PctIsInt DEF IsRun
  <2>4. SplitsRuns(Stats(ms), ms)
    BY <2>2, <2>3, StatsFields
  <2> QED
    BY <2>2, <2>4
<1> QED
  BY <1>1, SpecOut, PTL

\* What ReportIsComplete says of one group.
GroupIsComplete(o) ==
  LET mine == {i \in RunFiles : Key(dir[i]) = o.key} IN
  /\ BagOf(o.runs) = [r \in {dir[i] : i \in mine} |-> Cardinality({i \in mine : dir[i] = r})]
  /\ \A a, b \in DOMAIN o.runs : a < b => o.runs[a].start <= o.runs[b].start
  /\ o.stats.total = SumFunction([i \in mine |-> dir[i].count])

LEMMA StatsTotal == \A ms : Stats(ms).total = Total(ms)
BY DEF Stats

LEMMA NotEarlier ==
  ASSUME NEW r, NEW s, IsRun(r), IsRun(s), Key(r) = Key(s), ~Earlier(s, r)
  PROVE  r.start <= s.start
<1>1. r.scenario = s.scenario /\ r.library = s.library /\ r.start \in Int /\ s.start \in Int
  BY DEF Key, IsRun
<1> QED
  BY <1>1 DEF Earlier

\* A printed report has the groups of all result files, each with all its runs in the order
\* of their start and their counts added up, for every directory.
THEOREM ReportsStayComplete == Spec => []ReportIsComplete
<1>1. RunsInv /\ OutInv => ReportIsComplete
  <2> SUFFICES ASSUME RunsInv, OutInv, pc \in {"tenants", "done"}
               PROVE  /\ \A i \in DOMAIN dir : dir[i].kind # "bad"
                      /\ {out[g].key : g \in DOMAIN out} = {Key(dir[i]) : i \in RunFiles}
                      /\ \A g, h \in DOMAIN out : g < h => KeyLess(out[g].key, out[h].key)
                      /\ \A g \in DOMAIN out : GroupIsComplete(out[g])
    BY DEF ReportIsComplete, GroupIsComplete
  <2>1. /\ dir \in Dirs /\ next \in Nat /\ Len(dir) \in Nat /\ DOMAIN dir = 1..Len(dir)
        /\ next > Len(dir) /\ InOrder(runs) /\ pc # "error"
    BY DirsAssumption DEF RunsInv
  <2>2. \A i \in DOMAIN dir : i < next
    BY <2>1
  <2>3. Files(dir, next) = RunFiles
    BY <2>2 DEF Files, RunFiles
  <2>4. \A i \in DOMAIN dir : dir[i].kind # "bad"
    BY <2>1, <2>2 DEF RunsInv
  <2>5. PICK h : Matches(runs, dir, RunFiles, h)
    BY <2>1, <2>3 DEF RunsInv
  <2>6. Keys = {Key(dir[i]) : i \in RunFiles}
    BY <2>5 DEF Keys, Matches
  <2>7. {out[g].key : g \in DOMAIN out} = Keys
    BY DEF OutInv, Collected
  <2>8. ASSUME NEW g \in DOMAIN out PROVE GroupIsComplete(out[g])
    <3>1. PICK o : o = out[g] /\ Holds(o)
      BY GroupsHold
    <3> DEFINE mine == {i \in RunFiles : Key(dir[i]) = o.key}
    <3>2. PICK e : Matches(o.runs, dir, mine, e)
      BY <2>3, <3>1 DEF Holds
    <3>3. \A i \in mine : IsRun(dir[i])
      BY <2>1, <2>3, FilesAreRuns
    <3> HIDE DEF mine
    <3>4. BagOf(o.runs) = EntryBag(dir, mine)
      BY <3>2, MatchedBag
    <3>5. \A i \in mine : dir[i].count \in Int
      BY <3>3 DEF IsRun
    <3>6. o.stats.total = SumFunction([i \in mine |-> dir[i].count])
      <4>1. Total(o.runs) = SumFunction([i \in mine |-> dir[i].count])
        BY <3>2, <3>5, MatchedTotal
      <4> QED
        BY <3>1, <4>1, StatsTotal DEF Holds
    <3>7. ASSUME NEW a \in DOMAIN o.runs, NEW b \in DOMAIN o.runs, a < b
          PROVE  o.runs[a].start <= o.runs[b].start
      <4>1. PICK f : Follows(o.runs, runs, f)
        BY <3>1 DEF Holds
      <4>2. /\ f[a] \in DOMAIN runs /\ f[b] \in DOMAIN runs /\ f[a] < f[b]
            /\ o.runs[a] = runs[f[a]] /\ o.runs[b] = runs[f[b]]
        BY <3>7, <4>1 DEF Follows
      <4>3. ~Earlier(o.runs[b], o.runs[a])
        BY <2>1, <4>2 DEF InOrder
      <4>4. IsRun(o.runs[a]) /\ IsRun(o.runs[b]) /\ Key(o.runs[a]) = Key(o.runs[b])
        BY <3>1 DEF Holds
      <4> QED
        BY <4>3, <4>4, NotEarlier
    <3>8. GroupIsComplete(o)
      BY <3>4, <3>6, <3>7 DEF GroupIsComplete, EntryBag, mine
    <3> QED
      BY <3>1, <3>8
  <2> QED
    BY <2>4, <2>6, <2>7, <2>8 DEF OutInv, Ascending
<1> QED
  BY <1>1, SpecOut, PTL

----------------------------------------------------------------------------
(* renderPerTenantSection                                                  *)

\* Places, RunAt and HasSkew for a sequence of groups.
PlacesIn(os) == UNION {{g} \X DOMAIN os[g].runs : g \in DOMAIN os}
RunIn(os, p) == os[p[1]].runs[p[2]]
SkewIn(os, scenario) == \E p \in PlacesIn(os) : RunIn(os, p).scenario = scenario /\ Skewed(RunIn(os, p))

\* Every group has runs, and they are typed.
Shaped(os) ==
  /\ Len(os) \in Nat /\ DOMAIN os = 1..Len(os)
  /\ \A g \in 1..Len(os) :
       /\ Len(os[g].runs) \in Nat \ {0} /\ DOMAIN os[g].runs = 1..Len(os[g].runs)
       /\ \A i \in 1..Len(os[g].runs) : IsRun(os[g].runs[i])

\* acc holds a busiest and a quietest tenant of those in acc.seen.
Best(per, acc) ==
  /\ acc.seen \subseteq DOMAIN per
  /\ acc.seen = {} => acc.noisy = {} /\ acc.quiet = {}
  /\ acc.seen # {} =>
       \E n, q \in DOMAIN per : /\ acc.noisy = {n} /\ acc.quiet = {q}
                                /\ \A t \in acc.seen : per[n] >= per[t] /\ per[q] <= per[t]

\* The rows fs are those of the places before pl, and complete where the table is printed.
Rows(os, fs, pl) ==
  /\ DOMAIN fs = {p \in PlacesIn(os) : KeyLess(p, pl)}
  /\ \A p \in DOMAIN fs : SkewIn(os, RunIn(os, p).scenario) =>
       Best(RunIn(os, p).tenants, fs[p]) /\ fs[p].seen = DOMAIN RunIn(os, p).tenants

\* pl is a place, or follows the last one.
Upcoming(os, pl) == pl \in PlacesIn(os) \/ \E g \in Nat : g > Len(os) /\ pl = <<g, 1>>

\* How far the tables are.
TableInv ==
  /\ pc \in {"read", "group", "error"} => place = <<1, 1>> /\ row = NoRow /\ DOMAIN fairness = {}
  /\ pc \in {"tenants", "done"} =>
       /\ Rows(out, fairness, place) /\ Upcoming(out, place)
       /\ place \in PlacesIn(out) => Best(RunIn(out, place).tenants, row)
  /\ pc = "done" => place \notin PlacesIn(out)

LEMMA PlacesOfGroups ==
  ASSUME NEW os, Shaped(os)
  PROVE  /\ \A g, i : <<g, i>> \in PlacesIn(os) <=> g \in 1..Len(os) /\ i \in 1..Len(os[g].runs)
         /\ \A p \in PlacesIn(os) : p = <<p[1], p[2]>> /\ p[1] \in Nat /\ p[2] \in Nat
<1>1. DOMAIN os = 1..Len(os) /\ \A g \in 1..Len(os) : DOMAIN os[g].runs = 1..Len(os[g].runs)
  BY DEF Shaped
<1>2. \A p : p \in PlacesIn(os) <=> \E g \in 1..Len(os) : p \in {g} \X (1..Len(os[g].runs))
  BY <1>1 DEF PlacesIn
<1>3. Len(os) \in Nat /\ \A g \in 1..Len(os) : Len(os[g].runs) \in Nat
  BY DEF Shaped
<1>4. ASSUME NEW p \in PlacesIn(os) PROVE p = <<p[1], p[2]>> /\ p[1] \in Nat /\ p[2] \in Nat
  BY <1>2, <1>3
<1>5. ASSUME NEW g, NEW i
      PROVE  <<g, i>> \in PlacesIn(os) <=> g \in 1..Len(os) /\ i \in 1..Len(os[g].runs)
  BY <1>2
<1> QED
  BY <1>4, <1>5

LEMMA FirstPlace ==
  ASSUME NEW os, Shaped(os)
  PROVE  Upcoming(os, <<1, 1>>) /\ {p \in PlacesIn(os) : KeyLess(p, <<1, 1>>)} = {}
<1>1. /\ \A g, i : <<g, i>> \in PlacesIn(os) <=> g \in 1..Len(os) /\ i \in 1..Len(os[g].runs)
      /\ \A p \in PlacesIn(os) : p = <<p[1], p[2]>> /\ p[1] \in Nat /\ p[2] \in Nat
  BY PlacesOfGroups
<1>2. Len(os) \in Nat /\ \A g \in 1..Len(os) : Len(os[g].runs) \in Nat \ {0}
  BY DEF Shaped
<1>3. ASSUME NEW p \in PlacesIn(os) PROVE ~KeyLess(p, <<1, 1>>)
  <2>1. PICK g, i : p = <<g, i>> /\ g \in 1..Len(os) /\ i \in 1..Len(os[g].runs)
    BY <1>1
  <2>2. g \in Nat /\ i \in Nat /\ g >= 1 /\ i >= 1
    BY <1>2, <2>1
  <2> QED
    BY <2>1, <2>2 DEF KeyLess
<1>4. CASE Len(os) = 0
  <2>1. 1 > Len(os)
    BY <1>4
  <2> QED
    BY <1>3, <2>1 DEF Upcoming
<1>5. CASE Len(os) # 0
  <2>1. 1 \in 1..Len(os)
    BY <1>2, <1>5
  <2>2. 1 \in 1..Len(os[1].runs)
    BY <1>2, <2>1
  <2>3. <<1, 1>> \in PlacesIn(os)
    BY <1>1, <2>1, <2>2
  <2> QED
    BY <1>3, <2>3 DEF Upcoming
<1> QED
  BY <1>4, <1>5

LEMMA NextPlace ==
  ASSUME NEW os, Shaped(os), NEW p \in PlacesIn(os), NEW q,
         q = IF <<p[1], p[2] + 1>> \in PlacesIn(os) THEN <<p[1], p[2] + 1>> ELSE <<p[1] + 1, 1>>
  PROVE  /\ Upcoming(os, q)
         /\ {x \in PlacesIn(os) : KeyLess(x, q)} = {x \in PlacesIn(os) : KeyLess(x, p)} \cup {p}
<1>1. /\ \A g, i : <<g, i>> \in PlacesIn(os) <=> g \in 1..Len(os) /\ i \in 1..Len(os[g].runs)
      /\ \A x \in PlacesIn(os) : x = <<x[1], x[2]>> /\ x[1] \in Nat /\ x[2] \in Nat
  BY PlacesOfGroups
<1>2. Len(os) \in Nat /\ \A g \in 1..Len(os) : Len(os[g].runs) \in Nat \ {0}
  BY DEF Shaped
<1>3. PICK g, i : p = <<g, i>> /\ g \in 1..Len(os) /\ i \in 1..Len(os[g].runs) /\ g \in Nat /\ i \in Nat
  BY <1>1, <1>2
<1>4. PICK c \in Nat : c = Len(os[g].runs) /\ i <= c
  BY <1>2, <1>3
<1>5. CASE i < c
  <2>1. <<g, i + 1>> \in PlacesIn(os)
    BY <1>1, <1>3, <1>4, <1>5
  <2>2. q = <<g, i + 1>>
    BY <1>3, <2>1
  <2>3. ASSUME NEW x \in PlacesIn(os) PROVE KeyLess(x, q) <=> KeyLess(x, p) \/ x = p
    <3>1. PICK a \in Nat, b \in Nat : x = <<a, b>>
      BY <1>1
    <3> QED
      BY <1>3, <2>2, <3>1 DEF KeyLess
  <2> QED
    BY <2>1, <2>2, <2>3 DEF Upcoming
<1>6. CASE i = c
  <2>1. <<g, i + 1>> \notin PlacesIn(os)
    BY <1>1, <1>3, <1>4, <1>6
  <2>2. q = <<g + 1, 1>>
    BY <1>3, <2>1
  <2>3. ASSUME NEW x \in PlacesIn(os) PROVE KeyLess(x, q) <=> KeyLess(x, p) \/ x = p
    <3>1. PICK a \in Nat, b \in Nat : x = <<a, b>> /\ a \in 1..Len(os) /\ b \in 1..Len(os[a].runs)
      BY <1>1
    <3>2. b >= 1 /\ (a = g => b <= i)
      BY <1>2, <1>4, <1>6, <3>1
    <3> QED
      BY <1>3, <2>2, <3>1, <3>2 DEF KeyLess
  <2>4. Upcoming(os, q)
    <3>1. CASE g + 1 <= Len(os)
      <4>1. g + 1 \in 1..Len(os)
        BY <1>2, <1>3, <3>1
      <4>2. 1 \in 1..Len(os[g + 1].runs)
        BY <1>2, <4>1
      <4>3. q \in PlacesIn(os)
        BY <1>1, <2>2, <4>1, <4>2
      <4> QED
        BY <4>3 DEF Upcoming
    <3>2. CASE g + 1 > Len(os)
      BY <1>3, <2>2, <3>2 DEF Upcoming
    <3> QED
      BY <1>2, <1>3, <3>1, <3>2
  <2> QED
    BY <2>3, <2>4
<1>7. i < c \/ i = c
  BY <1>3, <1>4
<1> QED
  BY <1>5, <1>6, <1>7

LEMMA LastPlace ==
  ASSUME NEW os, Shaped(os), NEW q, Upcoming(os, q), q \notin PlacesIn(os)
  PROVE  {x \in PlacesIn(os) : KeyLess(x, q)} = PlacesIn(os)
<1>1. /\ \A g, i : <<g, i>> \in PlacesIn(os) <=> g \in 1..Len(os) /\ i \in 1..Len(os[g].runs)
      /\ \A x \in PlacesIn(os) : x = <<x[1], x[2]>> /\ x[1] \in Nat /\ x[2] \in Nat
  BY PlacesOfGroups
<1>2. PICK g \in Nat : g > Len(os) /\ q = <<g, 1>> /\ Len(os) \in Nat
  BY DEF Upcoming, Shaped
<1>3. ASSUME NEW x \in PlacesIn(os) PROVE KeyLess(x, q)
  <2>1. PICK a \in Nat, b \in Nat : x = <<a, b>> /\ a \in 1..Len(os)
    BY <1>1
  <2> QED
    BY <1>2, <2>1 DEF KeyLess
<1> QED
  BY <1>3

LEMMA NothingSeen == \A per : Best(per, NoRow)
BY DEF Best, NoRow

LEMMA VisitKeepsBest ==
  ASSUME NEW per, \A x \in DOMAIN per : per[x] \in Nat, NEW acc, Best(per, acc),
         NEW t \in DOMAIN per \ acc.seen
  PROVE  Best(per, Visit(per, acc, t))
<1>1. PICK v : v = Visit(per, acc, t)
  OBVIOUS
<1>2. v.seen = acc.seen \cup {t}
  BY <1>1 DEF Visit
<1>3. CASE acc.seen = {}
  <2>1. acc.noisy = {} /\ acc.quiet = {}
    BY <1>3 DEF Best
  <2>2. v.noisy = {t} /\ v.quiet = {t} /\ v.seen = {t}
    BY <1>1, <1>2, <1>3, <2>1 DEF Visit
  <2>3. per[t] \in Nat /\ per[t] >= per[t] /\ per[t] <= per[t]
    OBVIOUS
  <2>4. Best(per, v)
    BY <2>2, <2>3 DEF Best
  <2> QED
    BY <1>1, <2>4
<1>4. CASE acc.seen # {}
  <2>1. PICK n \in DOMAIN per, q \in DOMAIN per :
          /\ acc.noisy = {n} /\ acc.quiet = {q}
          /\ \A x \in acc.seen : per[n] >= per[x] /\ per[q] <= per[x]
    BY <1>4 DEF Best
  <2>2. /\ v.noisy = IF per[t] > per[n] THEN {t} ELSE {n}
        /\ v.quiet = IF per[t] < per[q] THEN {t} ELSE {q}
    BY <1>1, <2>1 DEF Visit
  <2>3. PICK m \in DOMAIN per : v.noisy = {m} /\ per[m] >= per[n] /\ per[m] >= per[t]
    <3>1. per[t] \in Nat /\ per[n] \in Nat
      OBVIOUS
    <3>2. CASE per[t] > per[n]
      BY <2>2, <3>1, <3>2
    <3>3. CASE ~(per[t] > per[n])
      BY <2>2, <3>1, <3>3
    <3> QED
      BY <3>2, <3>3
  <2>4. PICK r \in DOMAIN per : v.quiet = {r} /\ per[r] <= per[q] /\ per[r] <= per[t]
    <3>1. per[t] \in Nat /\ per[q] \in Nat
      OBVIOUS
    <3>2. CASE per[t] < per[q]
      BY <2>2, <3>1, <3>2
    <3>3. CASE ~(per[t] < per[q])
      BY <2>2, <3>1, <3>3
    <3> QED
      BY <3>2, <3>3
  <2>5. acc.seen \subseteq DOMAIN per
    BY DEF Best
  <2>6. ASSUME NEW x \in v.seen PROVE per[m] >= per[x] /\ per[r] <= per[x]
    <3>1. x \in DOMAIN per /\ (x = t \/ x \in acc.seen)
      BY <1>2, <2>5
    <3>2. per[x] \in Nat /\ per[m] \in Nat /\ per[r] \in Nat /\ per[n] \in Nat /\ per[q] \in Nat
      BY <3>1
    <3>3. CASE x = t
      BY <2>3, <2>4, <3>3
    <3>4. CASE x \in acc.seen
      BY <2>1, <2>3, <2>4, <3>2, <3>4
    <3> QED
      BY <3>1, <3>3, <3>4
  <2>7. v.seen # {} /\ v.seen \subseteq DOMAIN per
    BY <1>2, <2>5
  <2>8. Best(per, v)
    BY <2>3, <2>4, <2>6, <2>7 DEF Best
  <2> QED
    BY <1>1, <2>8
<1> QED
  BY <1>3, <1>4

LEMMA RowAdded ==
  ASSUME NEW os, Shaped(os), NEW fs, NEW p \in PlacesIn(os), Rows(os, fs, p),
         NEW r, Best(RunIn(os, p).tenants, r),
         SkewIn(os, RunIn(os, p).scenario) => r.seen = DOMAIN RunIn(os, p).tenants,
         NEW q, q = IF <<p[1], p[2] + 1>> \in PlacesIn(os) THEN <<p[1], p[2] + 1>> ELSE <<p[1] + 1, 1>>
  PROVE  Rows(os, [x \in DOMAIN fs \cup {p} |-> IF x = p THEN r ELSE fs[x]], q) /\ Upcoming(os, q)
<1>1. /\ Upcoming(os, q)
      /\ {x \in PlacesIn(os) : KeyLess(x, q)} = {x \in PlacesIn(os) : KeyLess(x, p)} \cup {p}
  BY NextPlace
<1>2. PICK gs : gs = [x \in DOMAIN fs \cup {p} |-> IF x = p THEN r ELSE fs[x]]
  OBVIOUS
<1>3. DOMAIN gs = {x \in PlacesIn(os) : KeyLess(x, q)}
  BY <1>1, <1>2 DEF Rows
<1>4. ASSUME NEW x \in DOMAIN gs, SkewIn(os, RunIn(os, x).scenario)
      PROVE  Best(RunIn(os, x).tenants, gs[x]) /\ gs[x].seen = DOMAIN RunIn(os, x).tenants
  <2>1. CASE x = p
    BY <1>2, <1>4, <2>1
  <2>2. CASE x # p
    <3>1. x \in DOMAIN fs /\ gs[x] = fs[x]
      BY <1>2, <2>2
    <3> QED
      BY <1>4, <3>1 DEF Rows
  <2> QED
    BY <2>1, <2>2
<1>5. Rows(os, gs, q)
  BY <1>3, <1>4 DEF Rows
<1> QED
  BY <1>1, <1>2, <1>5

LEMMA GroupsAreShaped == RunsInv /\ OutInv => Shaped(out)
<1> SUFFICES ASSUME RunsInv, OutInv PROVE Shaped(out)
  OBVIOUS
<1>1. Len(out) \in Nat /\ DOMAIN out = 1..Len(out)
  BY DEF OutInv, Collected
<1>2. ASSUME NEW g \in 1..Len(out)
      PROVE  /\ Len(out[g].runs) \in Nat \ {0} /\ DOMAIN out[g].runs = 1..Len(out[g].runs)
             /\ \A i \in 1..Len(out[g].runs) : IsRun(out[g].runs[i])
  <2>1. Holds(out[g])
    BY <1>1, GroupsHold
  <2> QED
    BY <2>1 DEF Holds
<1> QED
  BY <1>1, <1>2 DEF Shaped

LEMMA RunInIsTyped ==
  ASSUME NEW os, Shaped(os), NEW p \in PlacesIn(os)
  PROVE  IsRun(RunIn(os, p))
<1>1. PICK g, i : p = <<g, i>> /\ g \in 1..Len(os) /\ i \in 1..Len(os[g].runs)
  BY PlacesOfGroups
<1> QED
  BY <1>1 DEF RunIn, Shaped

LEMMA SameTables ==
  /\ Places = PlacesIn(out) /\ (\A p : RunAt(p) = RunIn(out, p))
  /\ \A sc : HasSkew(sc) <=> SkewIn(out, sc)
<1>1. Places = PlacesIn(out) /\ \A p : RunAt(p) = RunIn(out, p)
  BY DEF Places, PlacesIn, RunAt, RunIn
<1> QED
  BY <1>1 DEF HasSkew, SkewIn

LEMMA NextTable ==
  RunsInv /\ Shaped(out) /\ Shaped(out)' /\ TableInv /\ [Next]_vars => TableInv'
<1> SUFFICES ASSUME RunsInv, Shaped(out), Shaped(out'), TableInv, [Next]_vars PROVE TableInv'
  OBVIOUS
<1>1. CASE Skip \/ ReadRun \/ ReadBad \/ SortRuns \/ \E k \in Keys : CollectGroup(k)
  <2>1. UNCHANGED <<place, row, fairness>> /\ pc \in {"read", "group"} /\ pc' \in {"read", "error", "group"}
    BY <1>1 DEF Skip, ReadRun, ReadBad, SortRuns, CollectGroup, table
  <2> QED
    BY <2>1 DEF TableInv
<1>2. CASE SortGroups
  <2>1. UNCHANGED <<place, row, fairness>> /\ pc = "group" /\ pc' = "tenants"
    BY <1>2 DEF SortGroups, table
  <2>2. place = <<1, 1>> /\ row = NoRow /\ DOMAIN fairness = {}
    BY <2>1 DEF TableInv
  <2>3. PICK os : os = out' /\ Shaped(os)
    OBVIOUS
  <2>4. Upcoming(os, <<1, 1>>) /\ {p \in PlacesIn(os) : KeyLess(p, <<1, 1>>)} = {}
    BY <2>3, FirstPlace
  <2>5. Rows(os, fairness, <<1, 1>>)
    BY <2>2, <2>4 DEF Rows
  <2>6. Best(RunIn(os, place).tenants, row)
    BY <2>2, NothingSeen
  <2> QED
    BY <2>1, <2>2, <2>3, <2>4, <2>5, <2>6 DEF TableInv
<1>3. CASE PickExtremes
  <2>1. /\ UNCHANGED <<pc, out, place, fairness>> /\ pc = "tenants" /\ place \in Places
        /\ \E t \in DOMAIN RunAt(place).tenants \ row.seen : row' = Visit(RunAt(place).tenants, row, t)
    BY <1>3 DEF PickExtremes
  <2>2. place \in PlacesIn(out) /\ RunAt(place) = RunIn(out, place)
    BY <2>1, SameTables
  <2>3. PICK per : per = RunIn(out, place).tenants
    OBVIOUS
  <2>4. \A x \in DOMAIN per : per[x] \in Nat
    BY <2>2, <2>3, RunInIsTyped DEF IsRun
  <2>5. PICK t \in DOMAIN per \ row.seen : row' = Visit(per, row, t)
    BY <2>1, <2>2, <2>3
  <2>6. Best(per, row)
    BY <2>1, <2>2, <2>3 DEF TableInv
  <2>7. Best(per, Visit(per, row, t))
    BY <2>4, <2>6, VisitKeepsBest
  <2> QED
    BY <2>1, <2>3, <2>5, <2>7 DEF TableInv
<1>4. CASE TenantRow
  <2>1. /\ UNCHANGED <<pc, out>> /\ pc = "tenants" /\ place \in Places /\ row' = NoRow
        /\ HasSkew(RunAt(place).scenario) => row.seen = DOMAIN RunAt(place).tenants
        /\ fairness' = [p \in DOMAIN fairness \cup {place} |-> IF p = place THEN row ELSE fairness[p]]
        /\ place' = IF <<place[1], place[2] + 1>> \in Places THEN <<place[1], place[2] + 1>>
                    ELSE <<place[1] + 1, 1>>
    BY <1>4 DEF TenantRow
  <2>2. /\ place \in PlacesIn(out)
        /\ SkewIn(out, RunIn(out, place).scenario) => row.seen = DOMAIN RunIn(out, place).tenants
    BY <2>1, SameTables
  <2>3. Rows(out, fairness, place) /\ Best(RunIn(out, place).tenants, row)
    BY <2>1, <2>2 DEF TableInv
  <2>4. PICK q : /\ q = place'
                 /\ q = IF <<place[1], place[2] + 1>> \in PlacesIn(out)
                        THEN <<place[1], place[2] + 1>> ELSE <<place[1] + 1, 1>>
    BY <2>1, SameTables
  <2>5. /\ Rows(out, [p \in DOMAIN fairness \cup {place} |-> IF p = place THEN row ELSE fairness[p]], q)
        /\ Upcoming(out, q)
    BY <2>2, <2>3, <2>4, RowAdded
  <2>6. Best(RunIn(out, q).tenants, NoRow)
    BY NothingSeen
  <2> QED
    BY <2>1, <2>4, <2>5, <2>6 DEF TableInv
<1>5. CASE Finish
  <2>1. UNCHANGED <<out, place, row, fairness>> /\ pc = "tenants" /\ pc' = "done" /\ place \notin PlacesIn(out)
    BY <1>5, SameTables DEF Finish, table
  <2> QED
    BY <2>1 DEF TableInv
<1>6. CASE UNCHANGED vars
  BY <1>6 DEF vars, TableInv
<1> QED
  BY <1>1, <1>2, <1>3, <1>4, <1>5, <1>6 DEF Next

LEMMA SpecTable == Spec => [](Shaped(out) /\ TableInv)
<1>1. Init => TableInv
  BY DEF Init, TableInv
<1>2. RunsInv /\ OutInv => Shaped(out)
  BY GroupsAreShaped
<1>3. RunsInv /\ Shaped(out) /\ Shaped(out)' /\ TableInv /\ [Next]_vars => TableInv'
  BY NextTable
<1> QED
  BY <1>1, <1>2, <1>3, SpecOut, PTL DEF Spec

LEMMA SkewSeparates ==
  ASSUME NEW r, IsRun(r), Skewed(r), NEW n \in DOMAIN r.tenants, NEW q \in DOMAIN r.tenants,
         \A t \in DOMAIN r.tenants : r.tenants[n] >= r.tenants[t] /\ r.tenants[q] <= r.tenants[t]
  PROVE  n # q
<1> DEFINE counts == {r.tenants[t] : t \in DOMAIN r.tenants}
<1>1. IsFiniteSet(DOMAIN r.tenants) /\ \A t \in DOMAIN r.tenants : r.tenants[t] \in Nat
  BY DEF IsRun
<1>2. IsFiniteSet(counts) /\ counts \subseteq Int /\ counts # {}
  <2>1. IsFiniteSet(Range(r.tenants))
    BY <1>1, RangeIsFinite
  <2>2. Range(r.tenants) = counts
    BY DEF Range
  <2>3. counts \subseteq Int /\ r.tenants[n] \in counts
    BY <1>1
  <2> HIDE DEF counts
  <2> QED
    BY <2>1, <2>2, <2>3
<1>3. Min(counts) > 0 /\ Max(counts) > 2 * Min(counts)
  BY DEF Skewed
<1> HIDE DEF counts
<1>4. /\ Min(counts) \in counts /\ Max(counts) \in counts
  BY <1>2, MinAndMax
<1>5. PICK a \in DOMAIN r.tenants, b \in DOMAIN r.tenants :
        r.tenants[a] = Min(counts) /\ r.tenants[b] = Max(counts)
  BY <1>4 DEF counts
<1>6. /\ r.tenants[a] \in Nat /\ r.tenants[b] \in Nat /\ r.tenants[b] > 2 * r.tenants[a] /\ r.tenants[a] > 0
      /\ r.tenants[n] >= r.tenants[b] /\ r.tenants[q] <= r.tenants[a]
      /\ r.tenants[n] \in Nat /\ r.tenants[q] \in Nat
  BY <1>1, <1>3, <1>5
<1>7. r.tenants[n] # r.tenants[q]
  BY <1>6
<1> QED
  BY <1>7

\* Every run gets its row, and the rows of a fairness table name a busiest and a quietest
\* tenant, two different ones where there is skew, for any tenants and any order of visits.
THEOREM ExtremesStayExtreme == Spec => []ExtremesAreExtreme
<1>1. Shaped(out) /\ TableInv /\ RunsInv => ExtremesAreExtreme
  <2> SUFFICES ASSUME Shaped(out), TableInv, RunsInv PROVE ExtremesAreExtreme
    OBVIOUS
  <2>1. ASSUME pc = "done" PROVE DOMAIN fairness = Places
    <3>1. Rows(out, fairness, place) /\ Upcoming(out, place) /\ place \notin PlacesIn(out)
      BY <2>1 DEF TableInv
    <3>2. {x \in PlacesIn(out) : KeyLess(x, place)} = PlacesIn(out)
      BY <3>1, LastPlace
    <3> QED
      BY <3>1, <3>2, SameTables DEF Rows
  <2>2. ASSUME NEW p \in DOMAIN fairness, HasSkew(RunAt(p).scenario), NEW per, per = RunAt(p).tenants
        PROVE  /\ \A t \in DOMAIN per : /\ \E n \in fairness[p].noisy : per[n] >= per[t]
                                        /\ \E q \in fairness[p].quiet : per[q] <= per[t]
               /\ Skewed(RunAt(p)) => fairness[p].noisy # fairness[p].quiet
    <3>1. Rows(out, fairness, place)
      BY <2>2 DEF TableInv, RunsInv
    <3>2. PICK r : r = RunAt(p) /\ r = RunIn(out, p) /\ per = r.tenants /\ SkewIn(out, r.scenario)
      BY <2>2, SameTables
    <3>3. Best(per, fairness[p]) /\ fairness[p].seen = DOMAIN per /\ p \in PlacesIn(out)
      BY <3>1, <3>2 DEF Rows
    <3>4. IsRun(r)
      BY <3>2, <3>3, RunInIsTyped
    <3>5. ASSUME DOMAIN per # {}
          PROVE  \E n, q \in DOMAIN per :
                   /\ fairness[p].noisy = {n} /\ fairness[p].quiet = {q}
                   /\ \A t \in DOMAIN per : per[n] >= per[t] /\ per[q] <= per[t]
      BY <3>3, <3>5 DEF Best
    <3>6. ASSUME NEW t \in DOMAIN per
          PROVE  /\ \E n \in fairness[p].noisy : per[n] >= per[t]
                 /\ \E q \in fairness[p].quiet : per[q] <= per[t]
      BY <3>5
    <3>7. ASSUME Skewed(r) PROVE fairness[p].noisy # fairness[p].quiet
      <4>1. DOMAIN per # {}
        BY <3>2, <3>7, FS_EmptySet DEF Skewed
      <4>2. PICK n \in DOMAIN per, q \in DOMAIN per :
              /\ fairness[p].noisy = {n} /\ fairness[p].quiet = {q}
              /\ \A t \in DOMAIN per : per[n] >= per[t] /\ per[q] <= per[t]
        BY <3>5, <4>1
      <4>3. n # q
        BY <3>2, <3>4, <3>7, <4>2, SkewSeparates
      <4> QED
        BY <4>2, <4>3
    <3> QED
      BY <3>2, <3>6, <3>7
  <2> QED
    BY <2>1, <2>2 DEF ExtremesAreExtreme
<1> QED
  BY <1>1, SpecTable, SpecRuns, PTL
=============================================================================
