---------------------------- MODULE SumTheorems ----------------------------
(***************************************************************************)
(* What the proofs need about sums over finite sets (SumFunctionOnSet of   *)
(* the community modules) and about counting, and the two principles of    *)
(* induction they rest on.  Both are stated with a set W of the cases that *)
(* are shown, so that they can be cited; the library states them with a    *)
(* predicate as a parameter.  They follow from the least element of a      *)
(* well-founded order.                                                     *)
(***************************************************************************)
EXTENDS FiniteSetsExt, FiniteSetTheorems, WellFoundedInduction, TLAPS

\* Among some subsets of a finite set there is one that holds no other of them.
LEMMA LeastSubset ==
  ASSUME NEW S, IsFiniteSet(S), NEW C, C \subseteq SUBSET S, C # {}
  PROVE  \E T \in C : IsFiniteSet(T) /\ \A U \in C : U \subseteq T => U = T
<1>1. C \subseteq FiniteSubsetsOf(S)
  BY FS_Subset DEF FiniteSubsetsOf
<1>2. PICK T \in C : \A U \in C : ~(<<U, T>> \in StrictSubsetOrdering(S))
  BY <1>1, WFMin, FS_StrictSubsetOrderingWellFounded
<1>3. \A U \in C : U \subseteq T => U = T
  BY <1>2 DEF StrictSubsetOrdering
<1>4. IsFiniteSet(T)
  BY FS_Subset
<1> QED
  BY <1>3, <1>4

\* Some natural numbers have a least one.
LEMMA LeastNatural ==
  ASSUME NEW C, C \subseteq Nat, C # {}
  PROVE  \E n \in C : \A m \in C : n <= m
<1>1. PICK n \in C : \A m \in C : ~(<<m, n>> \in OpToRel(<, Nat))
  BY WFMin, NatLessThanWellFounded
<1>2. \A m \in C : ~(m < n)
  BY <1>1 DEF OpToRel
<1> QED
  BY <1>2

\* Induction over a finite set: member by member.
LEMMA SetInduction ==
  ASSUME NEW S, IsFiniteSet(S), NEW W, {} \in W,
         \A T \in SUBSET S : \A x \in S \ T : T \in W => T \cup {x} \in W
  PROVE  S \in W
<1> DEFINE Bad == {T \in SUBSET S : T \notin W}
<1> SUFFICES ASSUME Bad # {} PROVE FALSE
  OBVIOUS
<1>1. PICK T \in Bad : \A U \in Bad : U \subseteq T => U = T
  <2>1. Bad \subseteq SUBSET S
    OBVIOUS
  <2> HIDE DEF Bad
  <2> QED
    BY <2>1, LeastSubset
<1>2. T \in SUBSET S /\ T \notin W
  BY <1>1
<1>3. PICK x \in T : TRUE
  BY <1>2
<1>4. T \ {x} \in W /\ T \ {x} \in SUBSET S /\ x \in S \ (T \ {x})
  BY <1>1, <1>2, <1>3
<1>5. T = (T \ {x}) \cup {x}
  BY <1>3
<1> QED
  BY <1>2, <1>4, <1>5

\* Induction over the natural numbers.
LEMMA NatSetInduction ==
  ASSUME NEW W, 0 \in W, \A n \in Nat : n \in W => n + 1 \in W
  PROVE  \A n \in Nat : n \in W
<1> DEFINE Bad == {n \in Nat : n \notin W}
<1> SUFFICES ASSUME Bad # {} PROVE FALSE
  OBVIOUS
<1>1. PICK n \in Bad : \A m \in Bad : n <= m
  <2>1. Bad \subseteq Nat
    OBVIOUS
  <2> HIDE DEF Bad
  <2> QED
    BY <2>1, LeastNatural
<1>2. n # 0 /\ n - 1 \in Nat /\ (n - 1) + 1 = n /\ ~(n <= n - 1)
  OBVIOUS
<1> QED
  BY <1>1, <1>2

----------------------------------------------------------------------------
(* The recursion behind SumFunctionOnSet: the member taken next, one step  *)
(* of the recursion, and the function that holds the sums of all subsets.  *)

Chosen(s) == CHOOSE x \in s : TRUE
Summand(F, g, s) == IF s = {} THEN 0 ELSE F[Chosen(s)] + g[s \ {Chosen(s)}]
Partial(F, S) == CHOOSE g : g = [s \in SUBSET S |-> Summand(F, g, s)]

\* SumFunctionOnSet unfolds to this recursion.
LEMMA SumIsPartial ==
  ASSUME NEW F, NEW S
  PROVE  SumFunctionOnSet(F, S) = Partial(F, S)[S]
BY DEF SumFunctionOnSet, FoldFunctionOnSet, MapThenFoldSet, Partial, Summand, Chosen

\* A set that is not empty has a member to take.
LEMMA ChosenIsMember == \A s : s # {} => Chosen(s) \in s
BY DEF Chosen

\* The recursion has a solution: it is built one cardinality after the other.
LEMMA PartialRecursion ==
  ASSUME NEW F, NEW S, IsFiniteSet(S)
  PROVE  \A s \in SUBSET S : Partial(F, S)[s] = Summand(F, Partial(F, S), s)
<1> DEFINE Upto(n, g) == \A s \in SUBSET S : Cardinality(s) <= n => g[s] = Summand(F, g, s)
           W == {n \in Nat : \E g : Upto(n, g)}
<1>0. \A s \in SUBSET S : Cardinality(s) \in Nat /\ Cardinality(s) <= Cardinality(S)
  BY FS_Subset, FS_CardinalityType
<1>1. \A s \in SUBSET S : s # {} => s \ {Chosen(s)} \in SUBSET S
                           /\ Cardinality(s \ {Chosen(s)}) = Cardinality(s) - 1
  BY FS_Subset, FS_RemoveElement, ChosenIsMember
<1>2. 0 \in W
  <2> DEFINE g == [s \in SUBSET S |-> 0]
  <2>1. \A s \in SUBSET S : Cardinality(s) <= 0 => s = {}
    BY <1>0, FS_Subset, FS_EmptySet
  <2>2. Upto(0, g)
    BY <2>1 DEF Summand
  <2> QED
    BY <2>2
<1>3. ASSUME NEW n \in Nat, n \in W PROVE n + 1 \in W
  <2>1. PICK g : Upto(n, g)
    BY <1>3
  <2> DEFINE h == [s \in SUBSET S |-> IF Cardinality(s) <= n THEN g[s] ELSE Summand(F, g, s)]
  <2>2. ASSUME NEW s \in SUBSET S, Cardinality(s) <= n + 1 PROVE h[s] = Summand(F, h, s)
    <3>1. h[s] = Summand(F, g, s)
      BY <2>1
    <3>2. s # {} => h[s \ {Chosen(s)}] = g[s \ {Chosen(s)}]
      BY <1>0, <1>1, <2>2
    <3> QED
      BY <3>1, <3>2 DEF Summand
  <2>3. Upto(n + 1, h)
    BY <2>2
  <2> HIDE DEF h
  <2>4. \E k : Upto(n + 1, k)
    BY <2>3
  <2> QED
    BY <2>4
<1>4. Cardinality(S) \in W
  <2> HIDE DEF W
  <2> QED
    BY <1>2, <1>3, NatSetInduction, FS_CardinalityType
<1>5. PICK g : Upto(Cardinality(S), g)
  BY <1>4
<1> DEFINE h == [s \in SUBSET S |-> Summand(F, g, s)]
<1>6. ASSUME NEW s \in SUBSET S PROVE h[s] = Summand(F, h, s)
  <2>1. s # {} => h[s \ {Chosen(s)}] = g[s \ {Chosen(s)}]
    BY <1>0, <1>1, <1>5
  <2> QED
    BY <2>1 DEF Summand
<1>7. h = [s \in SUBSET S |-> Summand(F, h, s)]
  BY <1>6
<1> HIDE DEF h
<1>8. \E k : k = [s \in SUBSET S |-> Summand(F, k, s)]
  BY <1>7
<1>9. Partial(F, S) = [s \in SUBSET S |-> Summand(F, Partial(F, S), s)]
  BY <1>8, Zenon DEF Partial
<1> HIDE DEF Partial
<1> DEFINE k == Partial(F, S)
<1>10. k = [s \in SUBSET S |-> Summand(F, k, s)]
  BY <1>9
<1> HIDE DEF k
<1>11. \A s \in SUBSET S : k[s] = Summand(F, k, s)
  BY <1>10
<1> QED
  BY <1>11 DEF k

\* The sum of a subset does not depend on the set it is taken from.
LEMMA PartialAgrees ==
  ASSUME NEW F, NEW S, IsFiniteSet(S), NEW T \in SUBSET S
  PROVE  Partial(F, S)[T] = Partial(F, T)[T]
<1> DEFINE g == Partial(F, S) h == Partial(F, T)
<1>1. IsFiniteSet(T)
  BY FS_Subset
<1>2. /\ \A s \in SUBSET S : g[s] = Summand(F, g, s)
      /\ \A s \in SUBSET T : h[s] = Summand(F, h, s)
  BY <1>1, PartialRecursion
<1> HIDE DEF g, h
<1> DEFINE Bad == {s \in SUBSET T : g[s] # h[s]}
<1>0. SUFFICES Bad = {}
  <2>1. T \in SUBSET T
    OBVIOUS
  <2>2. g[T] = h[T]
    BY <1>0, <2>1
  <2> QED
    BY <2>2 DEF g, h
<1> SUFFICES ASSUME Bad # {} PROVE FALSE
  OBVIOUS
<1>3. Bad \subseteq SUBSET S
  OBVIOUS
<1>4. PICK s \in Bad : \A u \in Bad : u \subseteq s => u = s
  <2> HIDE DEF Bad
  <2> QED
    BY <1>3, LeastSubset
<1>5. s \in SUBSET T /\ s \in SUBSET S
  BY <1>4
<1>6. g[s] = Summand(F, g, s) /\ h[s] = Summand(F, h, s)
  BY <1>2, <1>5
<1>7. s # {} => g[s \ {Chosen(s)}] = h[s \ {Chosen(s)}]
  <2>1. s # {} => s \ {Chosen(s)} # s
    BY ChosenIsMember
  <2> QED
    BY <1>4, <1>5, <2>1
<1> QED
  BY <1>4, <1>6, <1>7 DEF Summand

\* One step of the recursion, in terms of the sum itself.
LEMMA SumRecursion ==
  ASSUME NEW F, NEW S, IsFiniteSet(S)
  PROVE  SumFunctionOnSet(F, S) =
           IF S = {} THEN 0 ELSE F[Chosen(S)] + SumFunctionOnSet(F, S \ {Chosen(S)})
<1>1. Partial(F, S)[S] = Summand(F, Partial(F, S), S)
  BY PartialRecursion
<1>2. S # {} => Partial(F, S)[S \ {Chosen(S)}] = SumFunctionOnSet(F, S \ {Chosen(S)})
  BY PartialAgrees, SumIsPartial
<1> QED
  BY <1>1, <1>2, SumIsPartial DEF Summand

----------------------------------------------------------------------------
(* Laws of the sum                                                         *)

\* A sum of integers is one, and any member may be taken out first.
LEMMA SumSplit ==
  ASSUME NEW F, NEW S, IsFiniteSet(S), \A x \in S : F[x] \in Int
  PROVE  /\ SumFunctionOnSet(F, S) \in Int
         /\ \A x \in S : SumFunctionOnSet(F, S) = F[x] + SumFunctionOnSet(F, S \ {x})
<1> DEFINE Sum(T) == SumFunctionOnSet(F, T)
           Good(T) == Sum(T) \in Int /\ \A x \in T : Sum(T) = F[x] + Sum(T \ {x})
           Bad == {T \in SUBSET S : ~Good(T)}
<1> SUFFICES ASSUME Bad # {} PROVE FALSE
  OBVIOUS
<1>3. Bad \subseteq SUBSET S
  OBVIOUS
<1>4. PICK T \in Bad : \A U \in Bad : U \subseteq T => U = T
  <2> HIDE DEF Bad
  <2> QED
    BY <1>3, LeastSubset
<1>5. IsFiniteSet(T) /\ T \in SUBSET S
  BY <1>4, FS_Subset
<1>6. \A x \in T : Good(T \ {x})
  <2>1. \A x \in T : T \ {x} # T /\ T \ {x} \in SUBSET S /\ T \ {x} \in SUBSET T
    BY <1>5
  <2> HIDE DEF Good
  <2> QED
    BY <1>4, <2>1
<1>7. Sum(T) = IF T = {} THEN 0 ELSE F[Chosen(T)] + Sum(T \ {Chosen(T)})
  BY <1>5, SumRecursion
<1> HIDE DEF Sum
<1>8. Sum(T) \in Int
  BY <1>5, <1>6, <1>7, ChosenIsMember
<1>9. ASSUME NEW x \in T PROVE Sum(T) = F[x] + Sum(T \ {x})
  <2> DEFINE c == Chosen(T)
  <2>1. c \in T
    BY ChosenIsMember
  <2>2. CASE x = c
    BY <1>7, <2>2
  <2>3. CASE x # c
    <3>1. Sum(T \ {c}) = F[x] + Sum((T \ {c}) \ {x})
      BY <1>6, <2>1, <2>3
    <3>2. Sum(T \ {x}) = F[c] + Sum((T \ {x}) \ {c})
      BY <1>6, <2>1, <2>3
    <3>3. (T \ {c}) \ {x} = (T \ {x}) \ {c}
      OBVIOUS
    <3>4. Sum((T \ {c}) \ {x}) \in Int
      <4>1. Good((T \ {c}) \ {x})
        <5>1. /\ (T \ {c}) \ {x} # T /\ (T \ {c}) \ {x} \in SUBSET T
              /\ (T \ {c}) \ {x} \in SUBSET S
          BY <1>5, <2>1
        <5> HIDE DEF Good
        <5> QED
          BY <1>4, <5>1
      <4> QED
        BY <4>1
    <3>5. F[x] \in Int /\ F[c] \in Int
      BY <1>5, <2>1
    <3>6. Sum(T) = F[c] + Sum(T \ {c})
      BY <1>7
    <3>7. Sum(T) = F[c] + (F[x] + Sum((T \ {c}) \ {x}))
      BY <3>1, <3>6
    <3>8. F[x] + Sum(T \ {x}) = F[x] + (F[c] + Sum((T \ {c}) \ {x}))
      BY <3>2, <3>3
    <3>9. \A p, q, r \in Int : p + (q + r) = q + (p + r)
      OBVIOUS
    <3> QED
      BY <3>4, <3>5, <3>7, <3>8, <3>9
  <2> QED
    BY <2>2, <2>3
<1> QED
  BY <1>4, <1>8, <1>9

\* The empty sum.
LEMMA SumEmpty == \A F : SumFunctionOnSet(F, {}) = 0
BY FS_EmptySet, SumRecursion

\* The sum depends on the values at the members of the set only.
LEMMA SumAgree ==
  ASSUME NEW F, NEW G, NEW S, IsFiniteSet(S), \A x \in S : F[x] = G[x]
  PROVE  SumFunctionOnSet(F, S) = SumFunctionOnSet(G, S)
<1> DEFINE W == {T \in SUBSET S : SumFunctionOnSet(F, T) = SumFunctionOnSet(G, T)}
           Bad == (SUBSET S) \ W
<1> SUFFICES ASSUME Bad # {} PROVE FALSE
  OBVIOUS
<1>1. Bad \subseteq SUBSET S
  OBVIOUS
<1>2. PICK T \in Bad : \A U \in Bad : U \subseteq T => U = T
  <2> HIDE DEF Bad
  <2> QED
    BY <1>1, LeastSubset
<1>3. T \in SUBSET S /\ IsFiniteSet(T)
  BY <1>2, FS_Subset
<1>4. T # {} => T \ {Chosen(T)} \in W
  <2>1. T # {} => /\ T \ {Chosen(T)} # T /\ T \ {Chosen(T)} \in SUBSET T
                  /\ T \ {Chosen(T)} \in SUBSET S
    BY <1>3, ChosenIsMember
  <2> HIDE DEF W
  <2> QED
    BY <1>2, <2>1
<1>5. /\ SumFunctionOnSet(F, T) =
           IF T = {} THEN 0 ELSE F[Chosen(T)] + SumFunctionOnSet(F, T \ {Chosen(T)})
      /\ SumFunctionOnSet(G, T) =
           IF T = {} THEN 0 ELSE G[Chosen(T)] + SumFunctionOnSet(G, T \ {Chosen(T)})
  BY <1>3, SumRecursion
<1>6. SumFunctionOnSet(F, T) = SumFunctionOnSet(G, T)
  BY <1>3, <1>4, <1>5, ChosenIsMember
<1> QED
  BY <1>2, <1>3, <1>6

\* Adding a member.
LEMMA SumAdd ==
  ASSUME NEW F, NEW S, IsFiniteSet(S), NEW x, x \notin S, \A y \in S \cup {x} : F[y] \in Int
  PROVE  SumFunctionOnSet(F, S \cup {x}) = F[x] + SumFunctionOnSet(F, S)
<1>1. IsFiniteSet(S \cup {x}) /\ (S \cup {x}) \ {x} = S
  BY FS_AddElement
<1> QED
  BY <1>1, SumSplit

\* Two functions that differ at one member.
LEMMA SumChange ==
  ASSUME NEW F, NEW G, NEW S, IsFiniteSet(S), NEW x \in S,
         \A y \in S : F[y] \in Int /\ G[y] \in Int,
         \A y \in S \ {x} : F[y] = G[y]
  PROVE  SumFunctionOnSet(G, S) = SumFunctionOnSet(F, S) + (G[x] - F[x])
<1> DEFINE f == SumFunctionOnSet(F, S) g == SumFunctionOnSet(G, S)
           f1 == SumFunctionOnSet(F, S \ {x}) g1 == SumFunctionOnSet(G, S \ {x})
<1>1. IsFiniteSet(S \ {x})
  BY FS_RemoveElement
<1>2. f = F[x] + f1 /\ g = G[x] + g1
  BY SumSplit
<1>3. f1 = g1
  BY <1>1, SumAgree
<1>4. f1 \in Int
  BY <1>1, SumSplit
<1> HIDE DEF f, g, f1, g1
<1>5. \A a, b, c \in Int : b + c = (a + c) + (b - a)
  OBVIOUS
<1> QED
  BY <1>2, <1>3, <1>4, <1>5 DEF f, g

\* A sum of smaller numbers is smaller.
LEMMA SumMonotone ==
  ASSUME NEW F, NEW G, NEW S, IsFiniteSet(S),
         \A y \in S : F[y] \in Int /\ G[y] \in Int /\ F[y] <= G[y]
  PROVE  SumFunctionOnSet(F, S) <= SumFunctionOnSet(G, S)
<1> DEFINE W == {T \in SUBSET S : SumFunctionOnSet(F, T) <= SumFunctionOnSet(G, T)}
<1>1. {} \in W
  BY SumEmpty
<1>2. ASSUME NEW T \in SUBSET S, NEW x \in S \ T, T \in W PROVE T \cup {x} \in W
  <2>1. IsFiniteSet(T)
    BY FS_Subset
  <2>2. /\ SumFunctionOnSet(F, T \cup {x}) = F[x] + SumFunctionOnSet(F, T)
        /\ SumFunctionOnSet(G, T \cup {x}) = G[x] + SumFunctionOnSet(G, T)
    BY <2>1, SumAdd
  <2>3. SumFunctionOnSet(F, T) \in Int /\ SumFunctionOnSet(G, T) \in Int
    BY <2>1, SumSplit
  <2>4. \A a, b, c, d \in Int : a <= b /\ c <= d => a + c <= b + d
    OBVIOUS
  <2>5. F[x] + SumFunctionOnSet(F, T) <= G[x] + SumFunctionOnSet(G, T)
    BY <1>2, <2>3, <2>4
  <2> QED
    BY <2>2, <2>5
<1> HIDE DEF W
<1>3. S \in W
  BY <1>1, <1>2, SetInduction
<1> QED
  BY <1>3 DEF W

\* A sum of natural numbers is one, and none of them exceeds it.
LEMMA SumNat ==
  ASSUME NEW F, NEW S, IsFiniteSet(S), \A y \in S : F[y] \in Nat
  PROVE  /\ SumFunctionOnSet(F, S) \in Nat
         /\ \A x \in S : F[x] <= SumFunctionOnSet(F, S)
<1> DEFINE W == {T \in SUBSET S : SumFunctionOnSet(F, T) \in Nat}
<1>1. {} \in W
  BY SumEmpty
<1>2. ASSUME NEW T \in SUBSET S, NEW x \in S \ T, T \in W PROVE T \cup {x} \in W
  <2>1. IsFiniteSet(T)
    BY FS_Subset
  <2>2. SumFunctionOnSet(F, T \cup {x}) = F[x] + SumFunctionOnSet(F, T)
    BY <2>1, SumAdd
  <2> QED
    BY <1>2, <2>2
<1> HIDE DEF W
<1>3. \A T \in SUBSET S : T \in W
  <2>1. ASSUME NEW T \in SUBSET S PROVE T \in W
    <3>1. IsFiniteSet(T)
      BY FS_Subset
    <3> QED
      BY <1>1, <1>2, <3>1, SetInduction
  <2> QED
    BY <2>1
<1>4. ASSUME NEW x \in S PROVE F[x] <= SumFunctionOnSet(F, S)
  <2>1. SumFunctionOnSet(F, S) = F[x] + SumFunctionOnSet(F, S \ {x})
    BY SumSplit
  <2>2. SumFunctionOnSet(F, S \ {x}) \in Nat
    BY <1>3 DEF W
  <2> QED
    BY <2>1, <2>2
<1> QED
  BY <1>3, <1>4 DEF W

\* The sum over two disjoint sets.
LEMMA SumUnion ==
  ASSUME NEW F, NEW S, NEW T, IsFiniteSet(S), IsFiniteSet(T), S \cap T = {},
         \A y \in S \cup T : F[y] \in Int
  PROVE  SumFunctionOnSet(F, S \cup T) = SumFunctionOnSet(F, S) + SumFunctionOnSet(F, T)
<1> DEFINE W == {U \in SUBSET T : SumFunctionOnSet(F, S \cup U) =
                                  SumFunctionOnSet(F, S) + SumFunctionOnSet(F, U)}
<1>0. SumFunctionOnSet(F, S) \in Int
  BY SumSplit
<1>1. {} \in W
  <2>1. S \cup {} = S
    OBVIOUS
  <2> QED
    BY <1>0, <2>1, SumEmpty
<1>2. ASSUME NEW U \in SUBSET T, NEW x \in T \ U, U \in W PROVE U \cup {x} \in W
  <2>1. IsFiniteSet(U) /\ IsFiniteSet(S \cup U)
    BY FS_Subset, FS_Union
  <2>2. SumFunctionOnSet(F, U \cup {x}) = F[x] + SumFunctionOnSet(F, U)
    BY <2>1, SumAdd
  <2>3. SumFunctionOnSet(F, (S \cup U) \cup {x}) = F[x] + SumFunctionOnSet(F, S \cup U)
    BY <2>1, SumAdd
  <2>4. S \cup (U \cup {x}) = (S \cup U) \cup {x}
    OBVIOUS
  <2>5. SumFunctionOnSet(F, U) \in Int /\ F[x] \in Int
    BY <2>1, SumSplit
  <2>6. \A a, b, c \in Int : a + (b + c) = b + (a + c)
    OBVIOUS
  <2>7. SumFunctionOnSet(F, S \cup U) = SumFunctionOnSet(F, S) + SumFunctionOnSet(F, U)
    BY <1>2
  <2>8. SumFunctionOnSet(F, S \cup (U \cup {x})) =
          F[x] + (SumFunctionOnSet(F, S) + SumFunctionOnSet(F, U))
    BY <2>3, <2>4, <2>7
  <2>9. SumFunctionOnSet(F, S \cup (U \cup {x})) =
          SumFunctionOnSet(F, S) + (F[x] + SumFunctionOnSet(F, U))
    BY <1>0, <2>5, <2>6, <2>8
  <2> QED
    BY <2>2, <2>9
<1> HIDE DEF W
<1>3. T \in W
  BY <1>1, <1>2, SetInduction
<1> QED
  BY <1>3 DEF W

\* A set that is shared out among K has as many members as the parts together.
LEMMA SumCounts ==
  ASSUME NEW S, IsFiniteSet(S), NEW K, IsFiniteSet(K), NEW f \in [S -> K]
  PROVE  SumFunctionOnSet([k \in K |-> Cardinality({x \in S : f[x] = k})], K) = Cardinality(S)
<1> DEFINE Part(T, k) == {x \in T : f[x] = k}
           F(T) == [k \in K |-> Cardinality(Part(T, k))]
           W == {T \in SUBSET S : SumFunctionOnSet(F(T), K) = Cardinality(T)}
<1>1. ASSUME NEW T \in SUBSET S, NEW k \in K
      PROVE  IsFiniteSet(Part(T, k)) /\ Cardinality(Part(T, k)) \in Nat
  BY FS_Subset, FS_CardinalityType
<1>2. {} \in W
  <2>1. \A k \in K : Part({}, k) = {}
    OBVIOUS
  <2>2. \A k \in K : F({})[k] = 0
    BY <2>1, FS_EmptySet
  <2> DEFINE V == {L \in SUBSET K : SumFunctionOnSet(F({}), L) = 0}
  <2>3. {} \in V
    BY SumEmpty
  <2>4. ASSUME NEW L \in SUBSET K, NEW k \in K \ L, L \in V PROVE L \cup {k} \in V
    <3> HIDE DEF F
    <3>1. IsFiniteSet(L) /\ \A y \in L \cup {k} : F({})[y] \in Int
      BY <2>2, FS_Subset
    <3>2. SumFunctionOnSet(F({}), L \cup {k}) = F({})[k] + SumFunctionOnSet(F({}), L)
      BY <3>1, SumAdd
    <3> QED
      BY <2>2, <2>4, <3>2
  <2>5. K \in V
    <3> HIDE DEF V
    <3> QED
      BY <2>3, <2>4, SetInduction
  <2> QED
    BY <2>5, FS_EmptySet
<1>3. ASSUME NEW T \in SUBSET S, NEW x \in S \ T, T \in W PROVE T \cup {x} \in W
  <2> DEFINE U == T \cup {x}
  <2>1. f[x] \in K /\ IsFiniteSet(T)
    BY FS_Subset
  <2>2. Part(U, f[x]) = Part(T, f[x]) \cup {x}
    OBVIOUS
  <2>3. \A k \in K \ {f[x]} : Part(U, k) = Part(T, k)
    OBVIOUS
  <2>4. Cardinality(Part(U, f[x])) = Cardinality(Part(T, f[x])) + 1
    <3>1. IsFiniteSet(Part(T, f[x])) /\ x \notin Part(T, f[x])
      BY <1>1, <2>1
    <3> HIDE DEF Part
    <3> QED
      BY <2>2, <3>1, FS_AddElement
  <2>5. U \in SUBSET S
    OBVIOUS
  <2> DEFINE g == F(T) h == F(U) k0 == f[x]
  <2>6. \A k \in K : g[k] = Cardinality(Part(T, k)) /\ h[k] = Cardinality(Part(U, k))
    OBVIOUS
  <2> HIDE DEF Part, g, h, U
  <2>7. /\ \A k \in K : g[k] \in Int /\ h[k] \in Int
        /\ \A k \in K \ {k0} : g[k] = h[k]
        /\ h[k0] - g[k0] = 1 /\ k0 \in K
    BY <1>1, <2>1, <2>3, <2>4, <2>5, <2>6
  <2> HIDE DEF k0
  <2>9. SumFunctionOnSet(h, K) = SumFunctionOnSet(g, K) + (h[k0] - g[k0])
    BY <2>7, SumChange
  <2>10. SumFunctionOnSet(h, K) = Cardinality(T) + 1
    BY <1>3, <2>7, <2>9 DEF g
  <2>8. Cardinality(U) = Cardinality(T) + 1
    BY <2>1, FS_AddElement DEF U
  <2> QED
    BY <2>5, <2>8, <2>10 DEF h, U
<1> HIDE DEF W
<1>4. S \in W
  BY <1>2, <1>3, SetInduction
<1> QED
  BY <1>4 DEF W

\* A sum of zeros.
LEMMA SumZero ==
  ASSUME NEW F, NEW S, IsFiniteSet(S), \A y \in S : F[y] = 0
  PROVE  SumFunctionOnSet(F, S) = 0
<1> DEFINE W == {T \in SUBSET S : SumFunctionOnSet(F, T) = 0}
<1>1. {} \in W
  BY SumEmpty
<1>2. ASSUME NEW T \in SUBSET S, NEW x \in S \ T, T \in W PROVE T \cup {x} \in W
  <2>1. IsFiniteSet(T)
    BY FS_Subset
  <2>2. SumFunctionOnSet(F, T \cup {x}) = F[x] + SumFunctionOnSet(F, T)
    BY <2>1, SumAdd
  <2> QED
    BY <1>2, <2>2
<1> HIDE DEF W
<1>3. S \in W
  BY <1>1, <1>2, SetInduction
<1> QED
  BY <1>3 DEF W

\* One more at one place.
LEMMA SumIncrement ==
  ASSUME NEW F, NEW G, NEW S, IsFiniteSet(S), NEW x \in S, \A y \in S : F[y] \in Nat,
         \A y \in S : G[y] = IF y = x THEN F[y] + 1 ELSE F[y]
  PROVE  SumFunctionOnSet(G, S) = SumFunctionOnSet(F, S) + 1
<1>1. \A y \in S : F[y] \in Int /\ G[y] \in Int
  OBVIOUS
<1>2. \A y \in S \ {x} : F[y] = G[y]
  OBVIOUS
<1>3. G[x] - F[x] = 1
  OBVIOUS
<1>4. SumFunctionOnSet(G, S) = SumFunctionOnSet(F, S) + (G[x] - F[x])
  BY <1>1, <1>2, SumChange
<1> QED
  BY <1>3, <1>4

\* A sum over S is the sum over what a one-to-one h makes of S.
LEMMA SumReindex ==
  ASSUME NEW S, IsFiniteSet(S), NEW T, NEW h \in [S -> T], NEW F,
         \A x, y \in S : h[x] = h[y] => x = y, \A y \in T : \E x \in S : h[x] = y,
         \A y \in T : F[y] \in Int
  PROVE  SumFunctionOnSet([x \in S |-> F[h[x]]], S) = SumFunctionOnSet(F, T)
<1> DEFINE G == [x \in S |-> F[h[x]]]
           Im(U) == {h[x] : x \in U}
           W == {U \in SUBSET S : IsFiniteSet(Im(U)) /\ SumFunctionOnSet(G, U) = SumFunctionOnSet(F, Im(U))}
<1>1. \A x \in S : G[x] = F[h[x]] /\ G[x] \in Int
  OBVIOUS
<1>2. {} \in W
  <2>1. Im({}) = {}
    OBVIOUS
  <2>2. SumFunctionOnSet(G, {}) = 0 /\ SumFunctionOnSet(F, {}) = 0
    BY SumEmpty
  <2>3. IsFiniteSet({})
    BY FS_EmptySet
  <2> HIDE DEF G, Im
  <2> QED
    BY <2>1, <2>2, <2>3
<1>3. ASSUME NEW U \in SUBSET S, NEW x \in S \ U, U \in W PROVE U \cup {x} \in W
  <2>1. Im(U \cup {x}) = Im(U) \cup {h[x]} /\ h[x] \notin Im(U) /\ Im(U) \cup {h[x]} \subseteq T
    OBVIOUS
  <2> HIDE DEF G, Im
  <2>2. IsFiniteSet(U) /\ IsFiniteSet(Im(U)) /\ SumFunctionOnSet(G, U) = SumFunctionOnSet(F, Im(U))
    BY <1>3, FS_Subset
  <2>3. \A y \in U \cup {x} : G[y] \in Int
    BY <1>1
  <2>4. SumFunctionOnSet(G, U \cup {x}) = G[x] + SumFunctionOnSet(G, U)
    BY <2>2, <2>3, SumAdd
  <2>5. \A y \in Im(U) \cup {h[x]} : F[y] \in Int
    BY <2>1
  <2>6. SumFunctionOnSet(F, Im(U) \cup {h[x]}) = F[h[x]] + SumFunctionOnSet(F, Im(U))
    BY <2>1, <2>2, <2>5, SumAdd
  <2>7. IsFiniteSet(Im(U) \cup {h[x]})
    BY <2>2, FS_AddElement
  <2>8. G[x] = F[h[x]]
    BY <1>1
  <2>9. SumFunctionOnSet(G, U \cup {x}) = SumFunctionOnSet(F, Im(U \cup {x}))
    BY <2>1, <2>2, <2>4, <2>6, <2>8
  <2> QED
    BY <2>1, <2>7, <2>9
<1>4. Im(S) = T
  OBVIOUS
<1> HIDE DEF W
<1>5. S \in W
  BY <1>2, <1>3, SetInduction
<1> QED
  BY <1>4, <1>5 DEF W
=============================================================================
