------------------------- MODULE CalculationsProofs -------------------------
(***************************************************************************)
(* What the calculations promise for every input.  The operators they are   *)
(* made of are recursive functions and folds: that these are defined, and   *)
(* what they come to, is shown for the least or smallest counterexample     *)
(* there would be.                                                          *)
(***************************************************************************)
EXTENDS Calculations, FiniteSetTheorems, WellFoundedInduction, NaturalsInduction, TLAPS

-----------------------------------------------------------------------------
(* Sums over finite sets. *)

(* A set of numbers has a least one.                                        *)
LEMMA LeastNumber ==
    ASSUME NEW T \in SUBSET Nat, T # {}
    PROVE  \E n \in T : \A m \in T : n <= m
<1>1. PICK n \in T : \A m \in T : <<m, n>> \notin OpToRel(<, Nat)
  BY WFMin, NatLessThanWellFounded
<1>2. \A m \in T : ~(m < n)
  BY <1>1 DEF OpToRel
<1>3. \A m \in T : n <= m
  BY <1>2
<1> QED
  BY <1>3

(* If some subsets are bad, one of them is good once any member is removed. *)
LEMMA SmallestSet ==
    ASSUME NEW S, IsFiniteSet(S), NEW Bad \in SUBSET SUBSET S, Bad # {}
    PROVE  \E T \in Bad : IsFiniteSet(T) /\ \A x \in T : T \ {x} \notin Bad
<1> DEFINE Sizes == {Cardinality(T) : T \in Bad}
<1>1. \A T \in Bad : IsFiniteSet(T) /\ Cardinality(T) \in Nat
  BY FS_Subset, FS_CardinalityType
<1>2. Sizes \in SUBSET Nat /\ Sizes # {}
  BY <1>1
<1>3. PICK n \in Sizes : \A m \in Sizes : n <= m
  BY <1>2, LeastNumber
<1>4. PICK T \in Bad : n = Cardinality(T)
  BY <1>3
<1>5. ASSUME NEW x \in T, T \ {x} \in Bad PROVE FALSE
  <2>1. Cardinality(T \ {x}) = Cardinality(T) - 1
    BY <1>1, FS_RemoveElement
  <2>2. Cardinality(T) <= Cardinality(T \ {x})
    BY <1>3, <1>4, <1>5
  <2> QED
    BY <2>1, <2>2, <1>1
<1> QED
  BY <1>1, <1>4, <1>5

SumOver(f, S) == MapThenSumSet(LAMBDA x : f[x], S)

Member(T) == CHOOSE x \in T : TRUE
Partial(f, S, g) ==
    g = [T \in SUBSET S |-> IF T = {} THEN 0 ELSE f[Member(T)] + g[T \ {Member(T)}]]

(* What CHOOSE takes of a set is in it.                                     *)
LEMMA MemberIn == ASSUME NEW T, T # {} PROVE Member(T) \in T
  BY DEF Member

(* The sums of all parts of a set can be worked out, the smaller parts      *)
(* first.                                                                   *)
LEMMA PartialExists ==
    ASSUME NEW f, NEW S, IsFiniteSet(S)
    PROVE  \E g : Partial(f, S, g)
<1> DEFINE Upto(n) == {T \in SUBSET S : Cardinality(T) <= n}
           Holds(n, g) == /\ DOMAIN g = Upto(n)
                          /\ g = [T \in Upto(n) |->
                                     IF T = {} THEN 0 ELSE f[Member(T)] + g[T \ {Member(T)}]]
           Bad == {n \in Nat : ~\E g : Holds(n, g)}
<1>1. \A T \in SUBSET S : IsFiniteSet(T) /\ Cardinality(T) \in Nat /\ Cardinality(T) <= Cardinality(S)
  BY FS_Subset, FS_CardinalityType
<1>2. \A T \in SUBSET S : T # {} =>
          T \ {Member(T)} \in SUBSET S /\ Cardinality(T \ {Member(T)}) = Cardinality(T) - 1
  BY <1>1, MemberIn, FS_RemoveElement
<1>3. \A T \in SUBSET S : T # {} => Cardinality(T) >= 1
  BY <1>1, FS_EmptySet
<1>4. Bad = {}
  <2> SUFFICES ASSUME Bad # {} PROVE FALSE
    OBVIOUS
  <2>1. PICK n \in Bad : \A m \in Bad : n <= m
    BY LeastNumber
  <2>2. CASE n = 0
    <3> DEFINE g == [T \in Upto(0) |-> 0]
    <3>1. \A T \in Upto(0) : T = {}
      BY <1>1, <1>3
    <3>2. Holds(0, g)
      BY <3>1
    <3> QED
      BY <2>1, <2>2, <3>2
  <2>3. CASE n # 0
    <3>a. n \in Nat
      OBVIOUS
    <3>1. n - 1 \in Nat /\ n - 1 \notin Bad
      <4> HIDE DEF Holds
      <4>1. n - 1 \in Nat /\ ~(n <= n - 1)
        BY <2>3, <3>a
      <4> HIDE DEF Bad
      <4> QED
        BY <4>1, <2>1
    <3>2. PICK g : Holds(n - 1, g)
      BY <3>1
    <3> DEFINE h == [T \in Upto(n) |-> IF T = {} THEN 0 ELSE f[Member(T)] + g[T \ {Member(T)}]]
    <3>3. \A T \in Upto(n) : T # {} => T \ {Member(T)} \in Upto(n - 1)
      <4>1. ASSUME NEW T \in SUBSET S, Cardinality(T) <= n, T # {}
            PROVE  Cardinality(T \ {Member(T)}) <= n - 1 /\ T \ {Member(T)} \in SUBSET S
        BY <1>1, <1>2, <3>a, <4>1
      <4> QED
        BY <4>1
    <3>4. \A T \in Upto(n - 1) : T \in Upto(n) /\ h[T] = g[T]
      <4>1. \A T \in Upto(n - 1) : T \in Upto(n)
        BY <1>1
      <4>2. \A T \in Upto(n - 1) : g[T] = IF T = {} THEN 0 ELSE f[Member(T)] + g[T \ {Member(T)}]
        BY <3>2
      <4> QED
        BY <4>1, <4>2
    <3>5. Holds(n, h)
      <4>1. \A T \in Upto(n) : h[T] = IF T = {} THEN 0 ELSE f[Member(T)] + h[T \ {Member(T)}]
        BY <3>3, <3>4
      <4> HIDE DEF h, Upto
      <4>2. h = [T \in Upto(n) |-> h[T]]
        BY DEF h
      <4> QED
        BY <4>1, <4>2
    <3> QED
      BY <2>1, <3>5
  <2> QED
    BY <2>2, <2>3
<1>5. Cardinality(S) \in Nat /\ Upto(Cardinality(S)) = SUBSET S
  BY <1>1
<1>6. PICK g : Holds(Cardinality(S), g)
  BY <1>4, <1>5
<1> QED
  BY <1>5, <1>6 DEF Partial

PartialSums(f, S) == CHOOSE g : Partial(f, S, g)

(* MapThenSumSet is the last of the sums of parts.                          *)
LEMMA SumIsPartial ==
    ASSUME NEW f, NEW S
    PROVE  SumOver(f, S) = PartialSums(f, S)[S]
  BY DEF SumOver, MapThenSumSet, MapThenFoldSet, PartialSums, Partial, Member

(* A part's sum is a member's value and the sum of the others.              *)
LEMMA PartialSumsAre ==
    ASSUME NEW f, NEW S, IsFiniteSet(S), NEW T \in SUBSET S
    PROVE  PartialSums(f, S)[T] =
               IF T = {} THEN 0 ELSE f[Member(T)] + PartialSums(f, S)[T \ {Member(T)}]
<1>1. Partial(f, S, PartialSums(f, S))
  BY PartialExists DEF PartialSums
<1> HIDE DEF PartialSums
<1> DEFINE g == PartialSums(f, S)
<1>2. g = [U \in SUBSET S |-> IF U = {} THEN 0 ELSE f[Member(U)] + g[U \ {Member(U)}]]
  BY <1>1 DEF Partial
<1> QED
  BY <1>2

(* A part's sum is the same within any set.                                 *)
LEMMA PartialSumsAgree ==
    ASSUME NEW f, NEW S, IsFiniteSet(S), NEW T \in SUBSET S
    PROVE  PartialSums(f, S)[T] = SumOver(f, T)
<1> DEFINE Bad == {U \in SUBSET T : PartialSums(f, S)[U] # PartialSums(f, T)[U]}
<1>1. IsFiniteSet(T)
  BY FS_Subset
<1>2. Bad = {}
  <2> SUFFICES ASSUME Bad # {} PROVE FALSE
    OBVIOUS
  <2>1. PICK U \in Bad : \A x \in U : U \ {x} \notin Bad
    BY <1>1, SmallestSet
  <2>2. U # {}
    BY <1>1, PartialSumsAre
  <2>3. Member(U) \in U
    BY <2>2, MemberIn
  <2>4. PartialSums(f, S)[U \ {Member(U)}] = PartialSums(f, T)[U \ {Member(U)}]
    BY <2>1, <2>3
  <2>5. /\ PartialSums(f, S)[U] = f[Member(U)] + PartialSums(f, S)[U \ {Member(U)}]
        /\ PartialSums(f, T)[U] = f[Member(U)] + PartialSums(f, T)[U \ {Member(U)}]
    BY <2>2, <1>1, PartialSumsAre
  <2> QED
    BY <2>4, <2>5
<1> QED
  BY <1>2, SumIsPartial

(* Nothing adds up to nothing.                                              *)
LEMMA SumEmpty == ASSUME NEW f PROVE SumOver(f, {}) = 0
  BY SumIsPartial, PartialSumsAre, FS_EmptySet

(* The member MapThenSumSet takes first can be taken out of the sum,        *)
LEMMA SumNext ==
    ASSUME NEW f, NEW S, IsFiniteSet(S), S # {}
    PROVE  SumOver(f, S) = f[Member(S)] + SumOver(f, S \ {Member(S)})
<1>1. PartialSums(f, S)[S] = f[Member(S)] + PartialSums(f, S)[S \ {Member(S)}]
  BY PartialSumsAre
<1>2. PartialSums(f, S)[S \ {Member(S)}] = SumOver(f, S \ {Member(S)})
  BY PartialSumsAgree
<1> QED
  BY <1>1, <1>2, SumIsPartial

(* sums of integers are integers,                                           *)
LEMMA SumInt ==
    ASSUME NEW f, NEW S, IsFiniteSet(S), \A x \in S : f[x] \in Int
    PROVE  SumOver(f, S) \in Int
<1> DEFINE Bad == {T \in SUBSET S : SumOver(f, T) \notin Int}
<1> SUFFICES ASSUME Bad # {} PROVE FALSE
  OBVIOUS
<1>1. PICK T \in Bad : IsFiniteSet(T) /\ \A x \in T : T \ {x} \notin Bad
  BY SmallestSet
<1>2. T # {}
  BY <1>1, SumEmpty
<1>3. Member(T) \in T
  BY <1>2, MemberIn
<1>4. SumOver(f, T) = f[Member(T)] + SumOver(f, T \ {Member(T)})
  BY <1>1, <1>2, SumNext
<1>5. SumOver(f, T \ {Member(T)}) \in Int
  BY <1>1, <1>3
<1> QED
  BY <1>1, <1>3, <1>4, <1>5

(* and so can any member be taken out                                       *)
LEMMA SumRemove ==
    ASSUME NEW f, NEW S, IsFiniteSet(S), \A x \in S : f[x] \in Int, NEW x \in S
    PROVE  SumOver(f, S) = f[x] + SumOver(f, S \ {x})
<1> DEFINE Bad == {T \in SUBSET S : \E y \in T : SumOver(f, T) # f[y] + SumOver(f, T \ {y})}
<1> SUFFICES ASSUME Bad # {} PROVE FALSE
  OBVIOUS
<1>1. PICK T \in Bad : IsFiniteSet(T) /\ \A y \in T : T \ {y} \notin Bad
  BY SmallestSet
<1>2. PICK y \in T : SumOver(f, T) # f[y] + SumOver(f, T \ {y})
  BY <1>1
<1> DEFINE p == Member(T)
<1>3. p \in T
  BY <1>2, MemberIn
<1>4. SumOver(f, T) = f[p] + SumOver(f, T \ {p})
  BY <1>1, <1>2, SumNext
<1> HIDE DEF p
<1>5. y # p
  BY <1>2, <1>4
<1>6. SumOver(f, T \ {p}) = f[y] + SumOver(f, (T \ {p}) \ {y})
  BY <1>1, <1>2, <1>3, <1>5
<1>7. SumOver(f, T \ {y}) = f[p] + SumOver(f, (T \ {p}) \ {y})
  <2>1. SumOver(f, T \ {y}) = f[p] + SumOver(f, (T \ {y}) \ {p})
    BY <1>1, <1>2, <1>3, <1>5
  <2>2. (T \ {p}) \ {y} = (T \ {y}) \ {p}
    OBVIOUS
  <2> QED
    BY <2>1, <2>2
<1>8. f[p] \in Int /\ f[y] \in Int /\ SumOver(f, (T \ {p}) \ {y}) \in Int
  <2>1. IsFiniteSet((T \ {p}) \ {y})
    BY <1>1, FS_RemoveElement
  <2> QED
    BY <2>1, <1>2, <1>3, SumInt
<1>9. SumOver(f, T) = f[y] + SumOver(f, T \ {y})
  BY <1>4, <1>6, <1>7, <1>8
<1> QED
  BY <1>2, <1>9

(* or added.                                                                *)
LEMMA SumAdd ==
    ASSUME NEW f, NEW S, IsFiniteSet(S), NEW x, x \notin S, \A y \in S \cup {x} : f[y] \in Int
    PROVE  SumOver(f, S \cup {x}) = f[x] + SumOver(f, S)
<1>1. IsFiniteSet(S \cup {x})
  BY FS_AddElement
<1>2. (S \cup {x}) \ {x} = S
  OBVIOUS
<1> QED
  BY <1>1, <1>2, SumRemove

(* Sums of parts add up.                                                    *)
LEMMA SumUnion ==
    ASSUME NEW f, NEW A, NEW B, IsFiniteSet(A), IsFiniteSet(B), A \cap B = {},
           \A x \in A \cup B : f[x] \in Int
    PROVE  SumOver(f, A \cup B) = SumOver(f, A) + SumOver(f, B)
<1> DEFINE Bad == {T \in SUBSET B : SumOver(f, A \cup T) # SumOver(f, A) + SumOver(f, T)}
<1> SUFFICES ASSUME Bad # {} PROVE FALSE
  OBVIOUS
<1>1. PICK T \in Bad : IsFiniteSet(T) /\ \A x \in T : T \ {x} \notin Bad
  BY SmallestSet
<1>2. SumOver(f, A) \in Int
  BY SumInt
<1>3. PICK x \in T : TRUE
  <2>1. T # {}
    <3>1. A \cup {} = A
      OBVIOUS
    <3> QED
      BY <1>1, <1>2, <3>1, SumEmpty
  <2> QED
    BY <2>1
<1>4. SumOver(f, T) = f[x] + SumOver(f, T \ {x})
  BY <1>1, SumRemove
<1>5. SumOver(f, A \cup T) = f[x] + SumOver(f, A \cup (T \ {x}))
  <2>1. IsFiniteSet(A \cup T)
    BY <1>1, FS_Union
  <2>2. SumOver(f, A \cup T) = f[x] + SumOver(f, (A \cup T) \ {x})
    BY <2>1, SumRemove
  <2>3. (A \cup T) \ {x} = A \cup (T \ {x})
    OBVIOUS
  <2> QED
    BY <2>2, <2>3
<1>6. SumOver(f, A \cup (T \ {x})) = SumOver(f, A) + SumOver(f, T \ {x})
  BY <1>1
<1>7. SumOver(f, T \ {x}) \in Int /\ f[x] \in Int
  BY <1>1, FS_RemoveElement, SumInt
<1>8. SumOver(f, A \cup T) = SumOver(f, A) + SumOver(f, T)
  BY <1>2, <1>4, <1>5, <1>6, <1>7
<1> QED
  BY <1>1, <1>8

(* Sums are linear.                                                         *)
LEMMA SumLinear ==
    ASSUME NEW f, NEW g, NEW h, NEW c \in Int, NEW S, IsFiniteSet(S),
           \A x \in S : f[x] \in Int /\ g[x] \in Int /\ h[x] = c * f[x] + g[x]
    PROVE  SumOver(h, S) = c * SumOver(f, S) + SumOver(g, S)
<1> DEFINE Bad == {T \in SUBSET S : SumOver(h, T) # c * SumOver(f, T) + SumOver(g, T)}
<1> SUFFICES ASSUME Bad # {} PROVE FALSE
  OBVIOUS
<1>1. PICK T \in Bad : IsFiniteSet(T) /\ \A x \in T : T \ {x} \notin Bad
  BY SmallestSet
<1>2. PICK x \in T : TRUE
  <2>1. SumOver(f, {}) = 0 /\ SumOver(g, {}) = 0 /\ SumOver(h, {}) = 0
    BY SumEmpty
  <2>2. c * 0 = 0
    OBVIOUS
  <2>3. T # {}
    BY <1>1, <2>1, <2>2
  <2> QED
    BY <2>3
<1>3. \A y \in S : h[y] \in Int
  OBVIOUS
<1>4. /\ SumOver(f, T) = f[x] + SumOver(f, T \ {x})
      /\ SumOver(g, T) = g[x] + SumOver(g, T \ {x})
      /\ SumOver(h, T) = h[x] + SumOver(h, T \ {x})
  BY <1>1, <1>3, SumRemove
<1>5. SumOver(h, T \ {x}) = c * SumOver(f, T \ {x}) + SumOver(g, T \ {x})
  BY <1>1
<1>6. SumOver(f, T \ {x}) \in Int /\ SumOver(g, T \ {x}) \in Int
  BY <1>1, FS_RemoveElement, SumInt
<1>7. f[x] \in Int /\ g[x] \in Int /\ h[x] = c * f[x] + g[x]
  OBVIOUS
<1>8. \A i, j \in Int : c * (i + j) = c * i + c * j
  OBVIOUS
<1>9. SumOver(h, T) = c * SumOver(f, T) + SumOver(g, T)
  BY <1>4, <1>5, <1>6, <1>7, <1>8
<1> QED
  BY <1>1, <1>9

(* Zeroes add up to zero,                                                   *)
LEMMA SumZeros ==
    ASSUME NEW f, NEW S, IsFiniteSet(S), \A x \in S : f[x] = 0
    PROVE  SumOver(f, S) = 0
<1> DEFINE Bad == {T \in SUBSET S : SumOver(f, T) # 0}
<1> SUFFICES ASSUME Bad # {} PROVE FALSE
  OBVIOUS
<1>1. PICK T \in Bad : IsFiniteSet(T) /\ \A x \in T : T \ {x} \notin Bad
  BY SmallestSet
<1>2. T # {}
  BY <1>1, SumEmpty
<1>3. Member(T) \in T
  BY <1>2, MemberIn
<1>4. SumOver(f, T) = f[Member(T)] + SumOver(f, T \ {Member(T)})
  BY <1>1, <1>2, SumNext
<1> QED
  BY <1>1, <1>3, <1>4

(* natural numbers to one of them,                                          *)
LEMMA SumNat ==
    ASSUME NEW f, NEW S, IsFiniteSet(S), \A x \in S : f[x] \in Nat
    PROVE  SumOver(f, S) \in Nat
<1> DEFINE Bad == {T \in SUBSET S : SumOver(f, T) \notin Nat}
<1> SUFFICES ASSUME Bad # {} PROVE FALSE
  OBVIOUS
<1>1. PICK T \in Bad : IsFiniteSet(T) /\ \A x \in T : T \ {x} \notin Bad
  BY SmallestSet
<1>2. T # {}
  BY <1>1, SumEmpty
<1>3. Member(T) \in T
  BY <1>2, MemberIn
<1>4. SumOver(f, T) = f[Member(T)] + SumOver(f, T \ {Member(T)})
  BY <1>1, <1>2, SumNext
<1>5. SumOver(f, T \ {Member(T)}) \in Nat
  BY <1>1, <1>3
<1> QED
  BY <1>1, <1>3, <1>4, <1>5

(* and so many equal values to their product.                               *)
LEMMA SumConstant ==
    ASSUME NEW f, NEW S, IsFiniteSet(S), NEW c \in Int, \A x \in S : f[x] = c
    PROVE  SumOver(f, S) = c * Cardinality(S)
<1> DEFINE Bad == {T \in SUBSET S : SumOver(f, T) # c * Cardinality(T)}
<1> SUFFICES ASSUME Bad # {} PROVE FALSE
  OBVIOUS
<1>1. PICK T \in Bad : IsFiniteSet(T) /\ \A x \in T : T \ {x} \notin Bad
  BY SmallestSet
<1>2. PICK x \in T : TRUE
  <2>1. c * 0 = 0
    OBVIOUS
  <2>2. SumOver(f, {}) = 0 /\ Cardinality({}) = 0
    BY SumEmpty, FS_EmptySet
  <2>3. T # {}
    BY <1>1, <2>1, <2>2
  <2> QED
    BY <2>3
<1>3. SumOver(f, T) = c + SumOver(f, T \ {x})
  BY <1>1, SumRemove
<1>4. SumOver(f, T \ {x}) = c * Cardinality(T \ {x})
  BY <1>1
<1>5. Cardinality(T) \in Nat /\ Cardinality(T \ {x}) = Cardinality(T) - 1
  BY <1>1, FS_CardinalityType, FS_RemoveElement
<1>6. \A i \in Int : c + c * (i - 1) = c * i
  OBVIOUS
<1>7. SumOver(f, T) = c * Cardinality(T)
  BY <1>3, <1>4, <1>5, <1>6
<1> QED
  BY <1>1, <1>7

(* The kWh of some hours are such a sum.                                    *)
LEMMA HourSums ==
    ASSUME NEW hours, NEW S \in SUBSET DOMAIN hours
    PROVE  MapThenSumSet(LAMBDA h : hours[h].kwh, S) = SumOver([h \in DOMAIN hours |-> hours[h].kwh], S)
<1> DEFINE f == [h \in DOMAIN hours |-> hours[h].kwh]
           Same(g) == g = [T \in SUBSET S |-> IF T = {} THEN 0 ELSE hours[Member(T)].kwh + g[T \ {Member(T)}]]
<1>1. MapThenSumSet(LAMBDA h : hours[h].kwh, S) = (CHOOSE g : Same(g))[S]
  BY DEF MapThenSumSet, MapThenFoldSet, Member
<1>2. \A T \in SUBSET S : T # {} => f[Member(T)] = hours[Member(T)].kwh
  BY MemberIn
<1>3. \A g : Same(g) <=> Partial(f, S, g)
  BY <1>2 DEF Partial
<1> HIDE DEF Same
<1>4. (CHOOSE g : Same(g)) = (CHOOSE g : Partial(f, S, g))
  BY <1>3, Zenon
<1> QED
  BY <1>1, <1>4, SumIsPartial DEF PartialSums

-----------------------------------------------------------------------------
(* Values worked out one from the other. *)

Steps(n, V) == [(1..n) \X V -> V]
Follows(n, V, v, step, l) ==
    l \in [0..n -> V] /\ l[0] = v /\ \A i \in 1..n : l[i] = step[<<i, l[i - 1]>>]

(* Values worked out one from the other exist.                              *)
LEMMA Recursion ==
    ASSUME NEW n \in Nat, NEW V, NEW v \in V, NEW step \in Steps(n, V)
    PROVE  \E l : Follows(n, V, v, step, l)
<1> USE DEF Steps
<1> DEFINE Holds(m, l) == /\ l \in [0..m -> V] /\ l[0] = v
                          /\ \A i \in 1..m : l[i] = step[<<i, l[i - 1]>>]
           Bad == {m \in Nat : m <= n /\ ~\E l : Holds(m, l)}
<1>1. Bad = {}
  <2> SUFFICES ASSUME Bad # {} PROVE FALSE
    OBVIOUS
  <2>1. PICK m \in Bad : \A k \in Bad : m <= k
    BY LeastNumber
  <2>2. m # 0
    <3>1. Holds(0, [i \in 0..0 |-> v])
      OBVIOUS
    <3> HIDE DEF Holds
    <3> QED
      BY <3>1
  <2>3. m \in 1..n /\ m - 1 \in Nat /\ m - 1 <= n /\ ~(m <= m - 1)
    <3> HIDE DEF Holds
    <3> QED
      BY <2>2
  <2>4. PICK l : Holds(m - 1, l)
    <3> HIDE DEF Holds
    <3> QED
      BY <2>1, <2>3
  <2> DEFINE k == [i \in 0..m |-> IF i < m THEN l[i] ELSE step[<<m, l[m - 1]>>]]
  <2>5. l[m - 1] \in V
    BY <2>3, <2>4
  <2>6. Holds(m, k)
    <3>1. k \in [0..m -> V]
      BY <2>3, <2>4, <2>5
    <3>2. k[0] = v
      BY <2>3, <2>4
    <3>3. ASSUME NEW i \in 1..m PROVE k[i] = step[<<i, k[i - 1]>>]
      <4>1. CASE i < m
        <5>1. i \in 1..m - 1 /\ k[i] = l[i] /\ k[i - 1] = l[i - 1]
          BY <2>3, <4>1
        <5> QED
          BY <2>4, <5>1
      <4>2. CASE i = m
        <5>1. k[m] = step[<<m, l[m - 1]>>] /\ k[m - 1] = l[m - 1]
          BY <2>3
        <5> QED
          BY <4>2, <5>1
      <4> QED
        BY <2>3, <4>1, <4>2
    <3> QED
      BY <3>1, <3>2, <3>3
  <2> HIDE DEF Holds
  <2> QED
    BY <2>1, <2>6
<1>2. \E l : Holds(n, l)
  <2> HIDE DEF Holds
  <2>1. n \in Nat /\ n <= n
    OBVIOUS
  <2> QED
    BY <1>1, <2>1
<1> QED
  BY <1>2 DEF Follows

(* Each value is the one before and a length more.                          *)
IsRunning(f, n, v, lengths) ==
    f = [m \in 1..n + 1 |-> IF m = 1 THEN v ELSE f[m - 1] + lengths[m - 1]]
RunningSum(n, v, lengths) == CHOOSE f : IsRunning(f, n, v, lengths)

LEMMA Running ==
    ASSUME NEW n \in Nat, NEW v \in Nat, NEW lengths, \A m \in 1..n : lengths[m] \in Nat
    PROVE  LET f == RunningSum(n, v, lengths)
           IN  /\ f[1] = v /\ DOMAIN f = 1..n + 1 /\ \A m \in 1..n + 1 : f[m] \in Nat
               /\ \A m \in 1..n : f[m + 1] = f[m] + lengths[m]
<1> DEFINE f == RunningSum(n, v, lengths)
           step == [p \in (1..n) \X Nat |-> p[2] + lengths[p[1]]]
<1>1. step \in Steps(n, Nat) /\ \A i \in 1..n, w \in Nat : step[<<i, w>>] = w + lengths[i]
  <2>1. \A p \in (1..n) \X Nat : p[1] \in 1..n /\ p[2] \in Nat /\ p[2] + lengths[p[1]] \in Nat
    OBVIOUS
  <2>2. step \in Steps(n, Nat)
    BY <2>1 DEF Steps
  <2>3. \A i \in 1..n, w \in Nat : <<i, w>> \in (1..n) \X Nat
    OBVIOUS
  <2> QED
    BY <2>2, <2>3
<1> HIDE DEF step
<1>2. PICK l : Follows(n, Nat, v, step, l)
  BY <1>1, Recursion
<1> DEFINE g == [m \in 1..n + 1 |-> l[m - 1]]
<1>3. l \in [0..n -> Nat] /\ l[0] = v /\ \A i \in 1..n : l[i] = l[i - 1] + lengths[i]
  <2>1. l \in [0..n -> Nat] /\ l[0] = v /\ \A i \in 1..n : l[i] = step[<<i, l[i - 1]>>]
    BY <1>2 DEF Follows
  <2>2. \A i \in 1..n : l[i - 1] \in Nat
    BY <2>1
  <2> QED
    BY <2>1, <2>2, <1>1
<1>4. \A m \in 1..n + 1 : g[m] = IF m = 1 THEN v ELSE g[m - 1] + lengths[m - 1]
  <2> SUFFICES ASSUME NEW m \in 1..n + 1, m # 1 PROVE l[m - 1] = l[m - 2] + lengths[m - 1]
    BY <1>3
  <2>1. m - 1 \in 1..n /\ (m - 1) - 1 = m - 2
    OBVIOUS
  <2> QED
    BY <2>1, <1>3
<1>5. IsRunning(g, n, v, lengths)
  <2>1. g = [m \in 1..n + 1 |-> g[m]]
    OBVIOUS
  <2> HIDE DEF g
  <2> QED
    BY <1>4, <2>1 DEF IsRunning
<1> HIDE DEF g
<1>6. IsRunning(f, n, v, lengths)
  BY <1>5 DEF RunningSum
<1> HIDE DEF f
<1>7. /\ DOMAIN f = 1..n + 1
      /\ \A m \in 1..n + 1 : f[m] = IF m = 1 THEN v ELSE f[m - 1] + lengths[m - 1]
  BY <1>6 DEF IsRunning
<1>8. f[1] = v
  BY <1>7
<1>9. ASSUME NEW m \in 1..n PROVE f[m + 1] = f[m] + lengths[m]
  <2>1. m + 1 \in 1..n + 1 /\ m + 1 # 1 /\ (m + 1) - 1 = m
    OBVIOUS
  <2> QED
    BY <2>1, <1>7
<1>10. \A m \in 1..n + 1 : f[m] \in Nat
  <2> DEFINE Bad == {m \in Nat : m \in 1..n + 1 /\ f[m] \notin Nat}
  <2> SUFFICES ASSUME NEW w \in 1..n + 1, w \in Bad PROVE FALSE
    OBVIOUS
  <2>1. PICK m \in Bad : \A k \in Bad : m <= k
    BY LeastNumber
  <2>2. m # 1
    BY <1>8
  <2>3. m - 1 \in Nat /\ m - 1 \in 1..n + 1 /\ m - 1 \in 1..n /\ ~(m <= m - 1) /\ m \in 1..n + 1
    BY <2>2
  <2>4. f[m - 1] \in Nat
    BY <2>1, <2>3
  <2>5. f[m] = f[m - 1] + lengths[m - 1]
    BY <1>7, <2>2, <2>3
  <2> QED
    BY <2>1, <2>3, <2>4, <2>5
<1> QED
  BY <1>7, <1>8, <1>9, <1>10 DEF f

-----------------------------------------------------------------------------
(* Net metering. *)

SurplusOf(consumed, credit) ==
    Total(credit) - (10 * Total(consumed) - Total(OwnBilled(consumed, credit)))

IsLeft(own, surplus, order, left) ==
    left = [i \in 0..Len(order) |->
               IF i = 0 THEN surplus ELSE left[i - 1] - Least(own[order[i]], left[i - 1])]
Left(own, surplus, order) == CHOOSE left : IsLeft(own, surplus, order, left)

Falls(left, own, surplus, order) ==
    /\ left \in [0..Len(order) -> Nat] /\ left[0] = surplus
    /\ \A i \in 1..Len(order) : left[i] = left[i - 1] - Least(own[order[i]], left[i - 1])

(* What is left of the surplus after each zone, and that it is never        *)
(* negative.                                                                *)
LEMMA LeftIs ==
    ASSUME NEW own \in [Zones -> Nat], NEW surplus \in Nat, NEW order \in Seq(Zones)
    PROVE  Falls(Left(own, surplus, order), own, surplus, order)
<1> DEFINE n == Len(order)
           step == [p \in (1..n) \X Nat |-> p[2] - Least(own[order[p[1]]], p[2])]
<1>1. n \in Nat /\ \A i \in 1..n : order[i] \in Zones /\ own[order[i]] \in Nat
  OBVIOUS
<1>2. \A i \in 1..n, v \in Nat : step[<<i, v>>] = v - Least(own[order[i]], v) /\ step[<<i, v>>] \in Nat
  BY <1>1 DEF Least
<1>3. step \in Steps(n, Nat)
  BY <1>1 DEF Least, Steps
<1> HIDE DEF step, n
<1>3a. PICK l : Follows(n, Nat, surplus, step, l)
  BY <1>1, <1>3, Recursion
<1>4. l \in [0..n -> Nat] /\ l[0] = surplus /\ \A i \in 1..n : l[i] = step[<<i, l[i - 1]>>]
  BY <1>3a DEF Follows
<1>5. \A i \in 0..n : l[i] = IF i = 0 THEN surplus ELSE l[i - 1] - Least(own[order[i]], l[i - 1])
  <2>1. ASSUME NEW i \in 1..n PROVE l[i] = l[i - 1] - Least(own[order[i]], l[i - 1])
    <3>1. i - 1 \in 0..n
      BY <1>1
    <3> QED
      BY <3>1, <1>2, <1>4
  <2> QED
    BY <1>4, <2>1
<1>6. IsLeft(own, surplus, order, l)
  BY <1>4, <1>5 DEF IsLeft, n
<1> DEFINE left == Left(own, surplus, order)
<1>7. IsLeft(own, surplus, order, left)
  BY <1>6 DEF Left
<1> HIDE DEF left
<1>8. /\ DOMAIN left = 0..n /\ left[0] = surplus
      /\ \A i \in 1..n : left[i] = left[i - 1] - Least(own[order[i]], left[i - 1])
  <2>1. DOMAIN left = 0..n
    BY <1>7 DEF IsLeft, n
  <2>2. \A i \in 0..n : left[i] = IF i = 0 THEN surplus ELSE left[i - 1] - Least(own[order[i]], left[i - 1])
    BY <1>7 DEF IsLeft, n
  <2> QED
    BY <2>1, <2>2, <1>1
<1>9. \A i \in 0..n : left[i] \in Nat
  <2> DEFINE Bad == {i \in Nat : i <= n /\ left[i] \notin Nat}
  <2> SUFFICES ASSUME Bad # {} PROVE FALSE
    OBVIOUS
  <2>1. PICK i \in Bad : \A j \in Bad : i <= j
    BY LeastNumber
  <2>2. i \in 1..n /\ i - 1 \in Nat /\ i - 1 <= n /\ ~(i <= i - 1)
    BY <1>1, <1>8
  <2>3. left[i - 1] \in Nat
    BY <2>1, <2>2
  <2>4. left[i] = left[i - 1] - Least(own[order[i]], left[i - 1]) /\ own[order[i]] \in Nat
    BY <1>1, <1>8, <2>2
  <2>5. left[i] \in Nat
    BY <2>3, <2>4 DEF Least
  <2> QED
    BY <2>1, <2>5
<1>10. left \in [0..n -> Nat]
  <2>1. left = [i \in 0..n |-> left[i]]
    BY <1>7 DEF IsLeft, n
  <2> QED
    BY <1>9, <2>1
<1> QED
  BY <1>8, <1>10 DEF left, n, Falls

(* The settlement in the terms of what follows.                             *)
LEMMA SettledIs ==
    ASSUME NEW consumed, NEW returned, NEW ratio, NEW order
    PROVE  LET credit == Credit(returned, ratio)
               own == OwnBilled(consumed, credit)
               left == Left(own, SurplusOf(consumed, credit), order)
               place == [z \in Zones |-> CHOOSE i \in DOMAIN order : order[i] = z]
           IN  SettleNetMetering(consumed, returned, ratio, order)
                   = [billed |-> [z \in Zones |-> own[z] - (left[place[z] - 1] - left[place[z]])],
                      left |-> left[Len(order)]]
<1> DEFINE own == OwnBilled(consumed, Credit(returned, ratio))
           left == Left(own, SurplusOf(consumed, Credit(returned, ratio)), order)
           at(z) == CHOOSE i \in DOMAIN order : order[i] = z
           place == [z \in Zones |-> at(z)]
<1>1. SettleNetMetering(consumed, returned, ratio, order)
          = [billed |-> [z \in Zones |-> own[z] - (left[at(z) - 1] - left[at(z)])],
             left |-> left[Len(order)]]
  BY DEF SettleNetMetering, Left, IsLeft, SurplusOf
<1> HIDE DEF own, left, at
<1>2. \A z \in Zones : place[z] = at(z)
  OBVIOUS
<1> HIDE DEF place
<1>3. [z \in Zones |-> own[z] - (left[at(z) - 1] - left[at(z)])]
          = [z \in Zones |-> own[z] - (left[place[z] - 1] - left[place[z]])]
  BY <1>2
<1> QED
  BY <1>1, <1>3 DEF own, left, at, place

(* A set of zones has one with the lowest rate.                             *)
LEMMA LowestOf ==
    ASSUME NEW S, IsFiniteSet(S), S # {}, NEW rate, \A z \in S : rate[z] \in Int
    PROVE  \E z \in S : \A y \in S : rate[z] <= rate[y]
<1> DEFINE Bad == {T \in SUBSET S : T # {} /\ ~\E z \in T : \A y \in T : rate[z] <= rate[y]}
<1> SUFFICES ASSUME Bad # {} PROVE FALSE
  OBVIOUS
<1>1. PICK T \in Bad : \A x \in T : T \ {x} \notin Bad
  BY SmallestSet
<1>2. PICK x \in T : TRUE
  OBVIOUS
<1>3. CASE T = {x}
  BY <1>3
<1>4. CASE T # {x}
  <2>1. PICK z \in T \ {x} : \A y \in T \ {x} : rate[z] <= rate[y]
    BY <1>1, <1>4
  <2>2. CASE rate[z] <= rate[x]
    BY <2>1, <2>2
  <2>3. CASE rate[x] <= rate[z]
    <3>1. \A y \in T : rate[x] <= rate[y]
      BY <2>1, <2>3
    <3> QED
      BY <3>1
  <2> QED
    BY <2>1, <2>2, <2>3
<1> QED
  BY <1>3, <1>4

Descending(order, rate) ==
    \A i, j \in DOMAIN order : i < j => rate[order[i]] >= rate[order[j]]

(* Zones can be put in order of their rates,                                *)
LEMMA OrderExists ==
    ASSUME NEW S, IsFiniteSet(S), NEW rate, \A z \in S : rate[z] \in Int
    PROVE  \E order \in SetToSeqs(S) : Descending(order, rate)
<1> DEFINE Good(T) == \E order \in SetToSeqs(T) : Descending(order, rate)
           Bad == {T \in SUBSET S : ~Good(T)}
<1> SUFFICES ASSUME Bad # {} PROVE FALSE
  OBVIOUS
<1>1. PICK T \in Bad : IsFiniteSet(T) /\ \A x \in T : T \ {x} \notin Bad
  <2> HIDE DEF Good
  <2> QED
    BY SmallestSet
<1>2. T # {}
  <2>1. Cardinality({}) = 0
    BY FS_EmptySet
  <2>2. [i \in 1..0 |-> 0] \in SetToSeqs({})
    BY <2>1 DEF SetToSeqs
  <2>3. Good({})
    BY <2>2 DEF Descending
  <2> QED
    BY <2>3
<1>3. PICK z \in T : \A y \in T : rate[z] <= rate[y]
  BY <1>1, <1>2, LowestOf
<1>4. PICK o \in SetToSeqs(T \ {z}) : Descending(o, rate)
  BY <1>1
<1> DEFINE n == Cardinality(T)
           order == [i \in 1..n |-> IF i < n THEN o[i] ELSE z]
<1>5. n \in Nat /\ n >= 1 /\ Cardinality(T \ {z}) = n - 1
  BY <1>1, <1>2, FS_CardinalityType, FS_RemoveElement, FS_EmptySet
<1>6. o \in [1..n - 1 -> T \ {z}] /\ \A i, j \in 1..n - 1 : i # j => o[i] # o[j]
  BY <1>5 DEF SetToSeqs
<1> HIDE DEF n
<1>7. \A i \in 1..n : i \in 1..n - 1 \/ i = n
  BY <1>5
<1>8. order \in [1..n -> T] /\ \A i, j \in 1..n : i # j => order[i] # order[j]
  BY <1>5, <1>6, <1>7
<1>9. order \in SetToSeqs(T)
  BY <1>8 DEF SetToSeqs, n
<1>10. Descending(order, rate)
  <2> SUFFICES ASSUME NEW i \in 1..n, NEW j \in 1..n, i < j PROVE rate[order[i]] >= rate[order[j]]
    BY DEF Descending
  <2>1. i \in 1..n - 1 /\ order[i] = o[i] /\ rate[o[i]] \in Int /\ o[i] \in T
    BY <1>5, <1>6
  <2>2. CASE j = n
    <3>1. order[j] = z
      BY <2>2, <1>5
    <3> QED
      BY <3>1, <2>1, <1>3
  <2>3. CASE j \in 1..n - 1
    <3>1. order[j] = o[j] /\ DOMAIN o = 1..n - 1
      BY <2>3, <1>5, <1>6
    <3>2. rate[o[i]] >= rate[o[j]]
      BY <3>1, <2>1, <2>3, <1>4 DEF Descending
    <3> QED
      BY <3>1, <3>2, <2>1
  <2> QED
    BY <2>2, <2>3, <1>7
<1> QED
  BY <1>1, <1>9, <1>10

(* and ByRate does it, each zone once.                                      *)
LEMMA ByRateIs ==
    ASSUME NEW rate \in [Zones -> Int]
    PROVE  LET order == ByRate(rate)
           IN  /\ order \in Seq(Zones)
               /\ \A z \in Zones : \E i \in 1..Len(order) : order[i] = z
               /\ \A i, j \in 1..Len(order) : i # j => order[i] # order[j]
               /\ \A i, j \in 1..Len(order) : i < j => rate[order[i]] >= rate[order[j]]
<1> DEFINE order == ByRate(rate)
           n == Cardinality(Zones)
<1>1. order \in SetToSeqs(Zones) /\ Descending(order, rate)
  <2>1. \E o \in SetToSeqs(Zones) : Descending(o, rate)
    BY OrderExists, ZonesAssumption
  <2>2. order = CHOOSE o \in SetToSeqs(Zones) : Descending(o, rate)
    BY DEF ByRate, Descending
  <2> HIDE DEF order
  <2> QED
    BY <2>1, <2>2
<1> HIDE DEF order
<1>2. n \in Nat /\ Cardinality(1..n) = n /\ IsFiniteSet(1..n)
  BY ZonesAssumption, FS_CardinalityType, FS_Interval
<1>3. order \in [1..n -> Zones] /\ \A i, j \in 1..n : i # j => order[i] # order[j]
  BY <1>1 DEF SetToSeqs
<1>4. Len(order) = n /\ order \in Seq(Zones)
  BY <1>2, <1>3
<1>5. order \in Injection(1..n, Zones)
  BY <1>3 DEF Injection, IsInjective
<1>6. order \in Surjection(1..n, Zones)
  BY <1>2, <1>5, FS_Injection, ZonesAssumption
<1>7. \A z \in Zones : \E i \in 1..n : order[i] = z
  BY <1>6 DEF Surjection
<1> QED
  BY <1>1, <1>3, <1>4, <1>7 DEF order, Descending

KwhOf(hours) == [h \in DOMAIN hours |-> hours[h].kwh]
InZones(hours, Z) == {h \in DOMAIN hours : hours[h].zone \in Z}

(* A zone's kWh as a sum.                                                   *)
LEMMA KwhInIs ==
    ASSUME NEW hours, AreHours(hours), NEW z
    PROVE  KwhIn(hours, z) = SumOver(KwhOf(hours), InZones(hours, {z})) /\ KwhIn(hours, z) \in Nat
<1> DEFINE S == {h \in DOMAIN hours : hours[h].zone = z}
<1>1. S \in SUBSET DOMAIN hours /\ S = InZones(hours, {z}) /\ IsFiniteSet(S)
  BY FS_Subset DEF InZones, AreHours
<1>2. \A h \in S : KwhOf(hours)[h] \in Nat
  BY DEF AreHours, KwhOf
<1> HIDE DEF S
<1>3. MapThenSumSet(LAMBDA h : hours[h].kwh, S) = SumOver(KwhOf(hours), S)
  BY <1>1, HourSums DEF KwhOf
<1>4. SumOver(KwhOf(hours), S) \in Nat
  BY <1>1, <1>2, SumNat
<1>5. KwhIn(hours, z) = MapThenSumSet(LAMBDA h : hours[h].kwh, S)
  BY DEF KwhIn, S
<1> QED
  BY <1>1, <1>3, <1>4, <1>5

(* The total as a sum.                                                      *)
LEMMA TotalIs == ASSUME NEW byZone PROVE Total(byZone) = SumOver(byZone, Zones)
  BY DEF Total, SumOver

(* Every kWh is in one zone or in none (_add_hours, billing.py:250-283).    *)
LEMMA KwhAddUp ==
    ASSUME NEW hours, AreHours(hours)
    PROVE  /\ KwhByZone(hours) \in [Zones -> Nat] /\ UnpricedKwh(hours) \in Nat
           /\ Total(KwhByZone(hours)) + UnpricedKwh(hours)
                  = MapThenSumSet(LAMBDA h : hours[h].kwh, DOMAIN hours)
<1> DEFINE by == KwhByZone(hours)
           kwh == KwhOf(hours)
           Bad == {Z \in SUBSET Zones : SumOver(by, Z) # SumOver(kwh, InZones(hours, Z))}
<1>1. by \in [Zones -> Nat] /\ UnpricedKwh(hours) \in Nat /\ \A z \in Zones : by[z] = KwhIn(hours, z)
  BY KwhInIs DEF KwhByZone, UnpricedKwh
<1>2. \A Z : IsFiniteSet(InZones(hours, Z)) /\ \A h \in InZones(hours, Z) : kwh[h] \in Int
  BY FS_Subset DEF InZones, AreHours, KwhOf
<1>3. \A Y, Z : Y \cap Z = {} =>
          SumOver(kwh, InZones(hours, Y \cup Z)) = SumOver(kwh, InZones(hours, Y)) + SumOver(kwh, InZones(hours, Z))
  <2> SUFFICES ASSUME NEW Y, NEW Z, Y \cap Z = {}
               PROVE  SumOver(kwh, InZones(hours, Y \cup Z))
                          = SumOver(kwh, InZones(hours, Y)) + SumOver(kwh, InZones(hours, Z))
    OBVIOUS
  <2>1. /\ InZones(hours, Y \cup Z) = InZones(hours, Y) \cup InZones(hours, Z)
        /\ InZones(hours, Y) \cap InZones(hours, Z) = {}
    BY DEF InZones
  <2>2. /\ IsFiniteSet(InZones(hours, Y)) /\ IsFiniteSet(InZones(hours, Z))
        /\ \A h \in InZones(hours, Y) \cup InZones(hours, Z) : kwh[h] \in Int
    BY <1>2
  <2> HIDE DEF kwh
  <2>3. SumOver(kwh, InZones(hours, Y) \cup InZones(hours, Z))
            = SumOver(kwh, InZones(hours, Y)) + SumOver(kwh, InZones(hours, Z))
    BY <2>1, <2>2, SumUnion
  <2> QED
    BY <2>1, <2>3
<1>4. Bad = {}
  <2> SUFFICES ASSUME Bad # {} PROVE FALSE
    OBVIOUS
  <2>1. PICK Z \in Bad : IsFiniteSet(Z) /\ \A x \in Z : Z \ {x} \notin Bad
    BY SmallestSet, ZonesAssumption
  <2>2. PICK z \in Z : TRUE
    <3>1. InZones(hours, {}) = {}
      BY DEF InZones
    <3>2. Z # {}
      BY <2>1, <3>1, SumEmpty
    <3> QED
      BY <3>2
  <2>3. SumOver(by, Z) = by[z] + SumOver(by, Z \ {z})
    <3>1. \A y \in Z : by[y] \in Int
      BY <1>1
    <3> HIDE DEF by
    <3> QED
      BY <3>1, <2>1, SumRemove
  <2>4. by[z] = SumOver(kwh, InZones(hours, {z}))
    BY <1>1, KwhInIs
  <2>5. SumOver(by, Z \ {z}) = SumOver(kwh, InZones(hours, Z \ {z}))
    BY <2>1
  <2>6. {z} \cup (Z \ {z}) = Z /\ {z} \cap (Z \ {z}) = {}
    OBVIOUS
  <2>7. SumOver(kwh, InZones(hours, Z)) = SumOver(kwh, InZones(hours, {z})) + SumOver(kwh, InZones(hours, Z \ {z}))
    BY <1>3, <2>6
  <2> QED
    BY <2>1, <2>3, <2>4, <2>5, <2>7
<1>5. SumOver(by, Zones) = SumOver(kwh, InZones(hours, Zones))
  BY <1>4
<1>6. UnpricedKwh(hours) = SumOver(kwh, InZones(hours, {None}))
  BY KwhInIs DEF UnpricedKwh
<1>7. InZones(hours, Zones \cup {None}) = DOMAIN hours /\ Zones \cap {None} = {}
  BY ZonesAssumption DEF InZones, AreHours
<1>8. SumOver(kwh, DOMAIN hours) = SumOver(by, Zones) + UnpricedKwh(hours)
  BY <1>3, <1>5, <1>6, <1>7
<1>9. MapThenSumSet(LAMBDA h : hours[h].kwh, DOMAIN hours) = SumOver(kwh, DOMAIN hours)
  BY HourSums DEF KwhOf
<1>10. Total(by) = SumOver(by, Zones)
  BY TotalIs
<1> QED
  BY <1>1, <1>8, <1>9, <1>10

(* What is set against the credit leaves no less than nothing of either.    *)
LEMMA OwnIs ==
    ASSUME NEW consumed \in [Zones -> Nat], NEW credit \in [Zones -> Nat]
    PROVE  /\ OwnBilled(consumed, credit) \in [Zones -> Nat]
           /\ SurplusOf(consumed, credit) \in Nat
           /\ Total(consumed) \in Nat /\ Total(credit) \in Nat /\ Total(OwnBilled(consumed, credit)) \in Nat
<1> DEFINE own == OwnBilled(consumed, credit)
           rest == [z \in Zones |-> credit[z] - (10 * consumed[z] - own[z])]
           half == [z \in Zones |-> own[z] + credit[z]]
<1>1. own \in [Zones -> Nat] /\ \A z \in Zones : rest[z] \in Nat
  <2>1. ASSUME NEW z \in Zones PROVE own[z] \in Nat /\ rest[z] \in Nat
    <3>1. consumed[z] \in Nat /\ credit[z] \in Nat
      OBVIOUS
    <3>2. own[z] = 10 * consumed[z] - Least(10 * consumed[z], credit[z])
      BY DEF OwnBilled
    <3> QED
      BY <3>1, <3>2 DEF Least
  <2>2. own = [z \in Zones |-> own[z]]
    BY DEF OwnBilled
  <2> HIDE DEF own, rest
  <2> QED
    BY <2>1, <2>2
<1> HIDE DEF own
<1>2. /\ SumOver(consumed, Zones) \in Nat /\ SumOver(credit, Zones) \in Nat
      /\ SumOver(own, Zones) \in Nat /\ SumOver(rest, Zones) \in Nat
  <2> HIDE DEF rest
  <2> QED
    BY <1>1, SumNat, ZonesAssumption
<1>3. SumOver(half, Zones) = SumOver(own, Zones) + SumOver(credit, Zones)
  <2>1. \A z \in Zones : own[z] \in Int /\ credit[z] \in Int /\ half[z] = 1 * own[z] + credit[z]
    BY <1>1
  <2> HIDE DEF half
  <2>2. SumOver(half, Zones) = 1 * SumOver(own, Zones) + SumOver(credit, Zones)
    BY <2>1, SumLinear, ZonesAssumption
  <2> QED
    BY <2>2, <1>2
<1>4. SumOver(rest, Zones) = SumOver(half, Zones) - 10 * SumOver(consumed, Zones)
  <2>1. \A z \in Zones : consumed[z] \in Int /\ half[z] \in Int /\ rest[z] = (-10) * consumed[z] + half[z]
    BY <1>1
  <2> HIDE DEF rest, half
  <2>2. SumOver(rest, Zones) = (-10) * SumOver(consumed, Zones) + SumOver(half, Zones)
    <3>1. -10 \in Int
      OBVIOUS
    <3> QED
      BY <2>1, <3>1, SumLinear, ZonesAssumption
  <2> QED
    BY <2>2, <1>2, <1>3
<1>5. SurplusOf(consumed, credit) = SumOver(rest, Zones)
  <2> HIDE DEF rest, half
  <2> QED
    BY <1>2, <1>3, <1>4, TotalIs DEF SurplusOf, own
<1> QED
  BY <1>1, <1>2, <1>5, TotalIs DEF own

(* What is left never grows, so what a zone was given was there for all     *)
(* before it.                                                               *)
LEMMA LeftFalls ==
    ASSUME NEW own \in [Zones -> Nat], NEW surplus \in Nat, NEW order \in Seq(Zones),
           NEW i \in 0..Len(order), NEW j \in 0..Len(order), i <= j
    PROVE  Left(own, surplus, order)[j] <= Left(own, surplus, order)[i]
<1> DEFINE n == Len(order)
           left == Left(own, surplus, order)
           Bad == {k \in Nat : k <= n /\ i <= k /\ ~(left[k] <= left[i])}
<1>1. /\ left \in [0..n -> Nat]
      /\ \A k \in 1..n : left[k] = left[k - 1] - Least(own[order[k]], left[k - 1])
  BY LeftIs DEF Falls
<1>2. n \in Nat /\ \A k \in 1..n : own[order[k]] \in Nat
  OBVIOUS
<1> HIDE DEF n, left
<1>3. Bad = {}
  <2> SUFFICES ASSUME Bad # {} PROVE FALSE
    OBVIOUS
  <2>1. PICK k \in Bad : \A m \in Bad : k <= m
    BY LeastNumber
  <2>2. k # i
    BY <1>1, <1>2
  <2>3. k \in 1..n /\ k - 1 \in Nat /\ k - 1 <= n /\ i <= k - 1 /\ ~(k <= k - 1)
    BY <1>2, <2>2 DEF n
  <2>4. left[k - 1] <= left[i]
    BY <2>1, <2>3
  <2>5. left[k] <= left[k - 1]
    <3>1. left[k - 1] \in Nat /\ own[order[k]] \in Nat
      BY <1>1, <1>2, <2>3
    <3>2. left[k] = left[k - 1] - Least(own[order[k]], left[k - 1])
      BY <1>1, <2>3
    <3> QED
      BY <3>1, <3>2 DEF Least
  <2>6. left[k] \in Nat /\ left[k - 1] \in Nat /\ left[i] \in Nat
    <3>1. k \in 0..n /\ k - 1 \in 0..n
      BY <1>2, <2>3
    <3>2. i \in 0..n
      BY DEF n
    <3> QED
      BY <1>1, <3>1, <3>2
  <2>7. left[k] <= left[i]
    BY <2>4, <2>5, <2>6
  <2> QED
    BY <2>1, <2>7
<1> QED
  BY <1>3, <1>2 DEF n, left

(* The zones in order, each at its place, given from what is left.          *)
Settling(n, order, place, own, left, billed) ==
    /\ n \in Nat /\ order \in [1..n -> Zones] /\ place \in [Zones -> 1..n]
    /\ \A z \in Zones : order[place[z]] = z
    /\ \A i, j \in 1..n : i # j => order[i] # order[j]
    /\ own \in [Zones -> Nat] /\ left \in [0..n -> Nat]
    /\ \A k \in 1..n : left[k] = left[k - 1] - Least(own[order[k]], left[k - 1])
    /\ billed = [z \in Zones |-> own[z] - (left[place[z] - 1] - left[place[z]])]

(* A zone is billed what it has to pay for itself, less what is left when   *)
(* its turn comes.                                                          *)
LEMMA ZoneIsGiven ==
    ASSUME NEW n, NEW order, NEW place, NEW own, NEW left, NEW billed,
           Settling(n, order, place, own, left, billed), NEW z \in Zones
    PROVE  /\ own[z] \in Nat /\ left[place[z] - 1] - left[place[z]] \in 0..own[z]
           /\ billed[z] = own[z] - (left[place[z] - 1] - left[place[z]])
           /\ billed[z] \in 0..own[z] /\ billed[z] = own[z] - Least(own[z], left[place[z] - 1])
<1>1. n \in Nat /\ place[z] \in 1..n /\ order[place[z]] = z
  BY DEF Settling
<1>2. place[z] - 1 \in 0..n
  BY <1>1
<1>3. left[place[z] - 1] \in Nat /\ own[z] \in Nat
  BY <1>2 DEF Settling
<1>4. left[place[z]] = left[place[z] - 1] - Least(own[z], left[place[z] - 1])
  BY <1>1 DEF Settling
<1>5. billed[z] = own[z] - (left[place[z] - 1] - left[place[z]])
  BY DEF Settling
<1>6. Least(own[z], left[place[z] - 1]) \in 0..own[z]
  BY <1>3 DEF Least
<1>7. left[place[z] - 1] - left[place[z]] = Least(own[z], left[place[z] - 1])
  BY <1>3, <1>4, <1>6
<1> QED
  BY <1>3, <1>5, <1>6, <1>7

(* What the zones are given is what the surplus loses.                      *)
LEMMA GivenAddsUp ==
    ASSUME NEW n, NEW order, NEW place, NEW own, NEW left, NEW billed,
           Settling(n, order, place, own, left, billed)
    PROVE  SumOver(billed, Zones) = SumOver(own, Zones) - (left[0] - left[n])
<1> DEFINE given == [z \in Zones |-> left[place[z] - 1] - left[place[z]]]
           First(k) == {order[i] : i \in 1..k}
           Bad == {k \in Nat : k <= n /\ SumOver(given, First(k)) # left[0] - left[k]}
<1>1. n \in Nat
  BY DEF Settling
<1>2. \A z \in Zones : given[z] = left[place[z] - 1] - left[place[z]] /\ given[z] \in Nat
  BY ZoneIsGiven
<1>3. \A k \in 1..n : order[k] \in Zones /\ place[order[k]] = k
  BY DEF Settling
<1>4. \A k \in 0..n : left[k] \in Nat
  BY DEF Settling
<1> HIDE DEF given
<1>5. Bad = {}
  <2> SUFFICES ASSUME Bad # {} PROVE FALSE
    OBVIOUS
  <2>1. PICK k \in Bad : \A m \in Bad : k <= m
    BY LeastNumber
  <2>2. k # 0
    <3>1. First(0) = {}
      OBVIOUS
    <3>2. left[0] - left[0] = 0
      BY <1>1, <1>4
    <3>3. SumOver(given, {}) = 0
      BY SumEmpty
    <3> HIDE DEF First
    <3> QED
      BY <3>1, <3>2, <3>3
  <2>3. k \in 1..n /\ k - 1 \in 0..n /\ ~(k <= k - 1)
    BY <1>1, <2>2
  <2>4. SumOver(given, First(k - 1)) = left[0] - left[k - 1]
    BY <2>1, <2>3, <1>1
  <2>5. SumOver(given, First(k)) = given[order[k]] + SumOver(given, First(k - 1))
    <3>1. First(k) = First(k - 1) \cup {order[k]}
      <4>1. \A i \in 1..k : i \in 1..k - 1 \/ i = k
        BY <2>3
      <4>2. \A i \in 1..k - 1 : i \in 1..k
        BY <2>3
      <4>3. k \in 1..k
        BY <2>3
      <4> QED
        BY <4>1, <4>2, <4>3
    <3>2. \A i \in 1..k - 1 : i \in 1..n /\ i # k
      BY <1>1, <2>3
    <3>3. order[k] \notin First(k - 1)
      BY <3>2, <2>3 DEF Settling
    <3>4. First(k - 1) \subseteq Zones /\ order[k] \in Zones
      BY <1>3, <2>3, <3>2
    <3> HIDE DEF First
    <3>5. \A z \in First(k - 1) \cup {order[k]} : given[z] \in Int
      BY <3>4, <1>2
    <3>6. IsFiniteSet(First(k - 1))
      BY <3>4, FS_Subset, ZonesAssumption
    <3>7. SumOver(given, First(k - 1) \cup {order[k]}) = given[order[k]] + SumOver(given, First(k - 1))
      BY <3>3, <3>5, <3>6, SumAdd
    <3> QED
      BY <3>1, <3>7
  <2>6. given[order[k]] = left[k - 1] - left[k]
    BY <1>2, <1>3, <2>3
  <2>7. left[k] \in Nat /\ left[k - 1] \in Nat /\ left[0] \in Nat
    BY <1>1, <1>4, <2>3
  <2> HIDE DEF First
  <2>8. SumOver(given, First(k)) = left[0] - left[k]
    BY <2>4, <2>5, <2>6, <2>7
  <2> QED
    BY <2>1, <2>8
<1>6. First(n) = Zones
  <2>1. First(n) \subseteq Zones
    BY <1>3
  <2>2. \A z \in Zones : place[z] \in 1..n /\ order[place[z]] = z
    BY DEF Settling
  <2> QED
    BY <2>1, <2>2
<1> HIDE DEF First
<1>7. SumOver(given, Zones) = left[0] - left[n]
  BY <1>1, <1>5, <1>6
<1>8. \A z \in Zones : given[z] \in Int /\ own[z] \in Int /\ billed[z] = (-1) * given[z] + own[z]
  BY <1>2, ZoneIsGiven
<1>9. SumOver(billed, Zones) = (-1) * SumOver(given, Zones) + SumOver(own, Zones)
  <2>1. -1 \in Int
    OBVIOUS
  <2> QED
    BY <1>8, <2>1, SumLinear, ZonesAssumption
<1>10. SumOver(given, Zones) \in Int /\ SumOver(own, Zones) \in Int
  BY <1>8, SumInt, ZonesAssumption
<1> QED
  BY <1>7, <1>9, <1>10

(* Net metering conserves energy and credit whatever the zones, the hours,  *)
(* the ratio and the rates (billing.py:203-228, 250-283, 345-371).          *)
THEOREM SettlementConserves ==
    ASSUME NEW consumedHours, NEW returnedHours, AreHours(consumedHours), AreHours(returnedHours),
           NEW ratio \in Nat, NEW rate \in [Zones -> Int]
    PROVE  Conserves(consumedHours, returnedHours, ratio, rate)
<1> DEFINE consumed == KwhByZone(consumedHours)
           returned == KwhByZone(returnedHours)
           credit == Credit(returned, ratio)
           own == OwnBilled(consumed, credit)
           surplus == SurplusOf(consumed, credit)
           order == ByRate(rate)
           n == Len(order)
           left == Left(own, surplus, order)
           place == [z \in Zones |-> CHOOSE i \in DOMAIN order : order[i] = z]
           billed == [z \in Zones |-> own[z] - (left[place[z] - 1] - left[place[z]])]
           settled == SettleNetMetering(consumed, returned, ratio, order)
<1>1. /\ consumed \in [Zones -> Nat] /\ returned \in [Zones -> Nat]
      /\ Total(consumed) + UnpricedKwh(consumedHours)
             = MapThenSumSet(LAMBDA h : consumedHours[h].kwh, DOMAIN consumedHours)
  BY KwhAddUp
<1> HIDE DEF consumed, returned
<1>2. credit \in [Zones -> Nat]
  <2>1. \A i \in Nat : i * ratio \in Nat
    OBVIOUS
  <2> QED
    BY <1>1, <2>1 DEF Credit
<1> HIDE DEF credit
<1>3. /\ own \in [Zones -> Nat] /\ surplus \in Nat
      /\ Total(consumed) \in Nat /\ Total(credit) \in Nat /\ Total(own) \in Nat
      /\ surplus = Total(credit) - (10 * Total(consumed) - Total(own))
  BY <1>1, <1>2, OwnIs DEF SurplusOf
<1>4. settled = [billed |-> billed, left |-> left[n]]
  <2> HIDE DEF order
  <2> QED
    BY SettledIs DEF credit
<1> HIDE DEF own, surplus, settled, order
<1>5. /\ order \in Seq(Zones)
      /\ \A z \in Zones : \E i \in 1..n : order[i] = z
      /\ \A i, j \in 1..n : i # j => order[i] # order[j]
      /\ \A i, j \in 1..n : i < j => rate[order[i]] >= rate[order[j]]
  BY ByRateIs DEF order
<1>6. n \in Nat /\ order \in [1..n -> Zones]
  BY <1>5
<1>7. place \in [Zones -> 1..n] /\ \A z \in Zones : order[place[z]] = z
  BY <1>5, <1>6
<1>8. /\ left \in [0..n -> Nat] /\ left[0] = surplus
      /\ \A k \in 1..n : left[k] = left[k - 1] - Least(own[order[k]], left[k - 1])
  <2> HIDE DEF left
  <2>1. Falls(left, own, surplus, order)
    BY <1>3, <1>5, LeftIs DEF left
  <2> QED
    BY <2>1 DEF Falls
<1>9. \A i, j \in 0..n : i <= j => left[j] <= left[i]
  BY <1>3, <1>5, LeftFalls
<1> HIDE DEF n, left, place
<1>10. Settling(n, order, place, own, left, billed)
  BY <1>3, <1>5, <1>6, <1>7, <1>8 DEF Settling
<1> HIDE DEF billed
<1>11. \A z \in Zones : /\ own[z] \in Nat /\ billed[z] \in 0..own[z]
                        /\ billed[z] = own[z] - Least(own[z], left[place[z] - 1])
  BY <1>10, ZoneIsGiven
<1>12. left[n] \in Nat
  BY <1>6, <1>8
<1>13. Total(billed) - left[n] = 10 * Total(consumed) - Total(credit)
  <2>1. SumOver(billed, Zones) = SumOver(own, Zones) - (surplus - left[n])
    <3>1. SumOver(billed, Zones) = SumOver(own, Zones) - (left[0] - left[n])
      BY <1>10, GivenAddsUp
    <3> QED
      BY <3>1, <1>8
  <2>2. Total(billed) = Total(own) - (surplus - left[n])
    BY <2>1, TotalIs
  <2> QED
    BY <2>2, <1>3, <1>12
<1>14. ASSUME NEW z \in Zones, NEW k \in 1..n, place[z] <= k, left[k] > 0 PROVE billed[z] = 0
  <2>1. place[z] \in 1..n /\ place[z] - 1 \in 0..n /\ place[z] \in 0..n /\ k \in 0..n
    BY <1>6, <1>7
  <2>2. left[place[z]] >= left[k] /\ left[place[z]] \in Nat /\ left[place[z] - 1] \in Nat /\ left[k] \in Nat
    BY <2>1, <1>8, <1>9, <1>14
  <2>3. left[place[z]] = left[place[z] - 1] - Least(own[z], left[place[z] - 1])
    BY <2>1, <1>7, <1>8
  <2>4. own[z] \in Nat /\ billed[z] = own[z] - Least(own[z], left[place[z] - 1])
    BY <1>11
  <2> QED
    BY <2>2, <2>3, <2>4, <1>14 DEF Least
<1>15. left[n] > 0 => Total(billed) = 0
  <2> SUFFICES ASSUME left[n] > 0 PROVE SumOver(billed, Zones) = 0
    BY TotalIs
  <2>1. \A z \in Zones : n \in 1..n /\ place[z] <= n
    BY <1>6, <1>7
  <2>2. \A z \in Zones : billed[z] = 0
    BY <2>1, <1>14
  <2> QED
    BY <2>2, SumZeros, ZonesAssumption
<1>16. ASSUME NEW y \in Zones, NEW z \in Zones, rate[y] < rate[z], billed[y] < own[y]
       PROVE  billed[z] = 0
  <2>1. place[y] \in 1..n /\ place[z] \in 1..n /\ order[place[y]] = y /\ order[place[z]] = z
    BY <1>7
  <2>2. rate[y] \in Int /\ rate[z] \in Int
    OBVIOUS
  <2>3. place[z] < place[y]
    <3>1. ~(place[y] < place[z])
      BY <2>1, <2>2, <1>5, <1>16
    <3>2. place[y] # place[z]
      BY <2>1, <2>2, <1>16
    <3> QED
      BY <3>1, <3>2, <2>1, <1>6
  <2>4. place[y] - 1 \in 1..n /\ place[z] <= place[y] - 1 /\ place[y] - 1 \in 0..n
    BY <2>1, <2>3, <1>6
  <2>5. left[place[y] - 1] > 0
    <3>1. left[place[y] - 1] \in Nat /\ own[y] \in Nat /\ billed[y] = own[y] - Least(own[y], left[place[y] - 1])
      BY <2>4, <1>8, <1>11
    <3> QED
      BY <3>1, <1>16 DEF Least
  <2> QED
    BY <2>4, <2>5, <1>14
<1>17. settled.billed = billed /\ settled.left = left[n]
  BY <1>4
<1> HIDE DEF settled
<1>18. /\ Total(settled.billed) - settled.left = 10 * Total(consumed) - Total(credit)
       /\ settled.left >= 0 /\ (settled.left > 0 => Total(settled.billed) = 0)
       /\ \A z \in Zones : settled.billed[z] \in 0..own[z]
       /\ \A y, z \in Zones : rate[y] < rate[z] /\ settled.billed[y] < own[y] => settled.billed[z] = 0
  BY <1>11, <1>12, <1>13, <1>15, <1>16, <1>17
<1> QED
  BY <1>1, <1>18 DEF Conserves, consumed, returned, credit, own, settled, order

-----------------------------------------------------------------------------
(* Months. *)

(* A number of months is an integer.                                        *)
LEMMA MonthsAreInt == ASSUME NEW days \in Int PROVE WholeMonths(days) \in Int
  BY DEF WholeMonths, AVERAGE_MONTH_DAYS

(* Two bills in a row charge the months one bill over both windows would:   *)
(* three tolerances are less than a month (billing.py:399-409).             *)
THEOREM WholeWindowsAddUp ==
    ASSUME NEW a \in Int, NEW b \in Int, IsWhole(a), IsWhole(b), IsWhole(a + b)
    PROVE  WholeMonths(a + b) = WholeMonths(a) + WholeMonths(b)
<1> DEFINE p == WholeMonths(a)
           q == WholeMonths(b)
           r == WholeMonths(a + b)
<1>1. p \in Int /\ q \in Int /\ r \in Int
  BY MonthsAreInt
<1>2. /\ 100 * a - p * 3044 \in -700..700
      /\ 100 * b - q * 3044 \in -700..700
      /\ 100 * (a + b) - r * 3044 \in -700..700
  BY DEF IsWhole, AVERAGE_MONTH_DAYS, BILLING_PERIOD_TOLERANCE_DAYS
<1> HIDE DEF p, q, r
<1>3. 3044 * (r - p - q) \in -2100..2100
  BY <1>1, <1>2
<1>4. r = p + q
  BY <1>1, <1>3
<1> QED
  BY <1>4 DEF p, q, r

(* A period installation.py detects between two readings is charged by      *)
(* billing.py as that many whole months, never by the day                   *)
(* (installation.py:97-110, billing.py:399-409).                            *)
THEOREM DetectedPeriodIsCharged ==
    ASSUME NEW days \in Int, PeriodMonths(days) # None
    PROVE  IsWhole(days) /\ WholeMonths(days) = PeriodMonths(days)
<1>1. /\ WholeMonths(days) \in BILLING_PERIOD_MONTHS
      /\ 100 * days - WholeMonths(days) * AVERAGE_MONTH_DAYS
             \in -100 * BILLING_PERIOD_TOLERANCE_DAYS..100 * BILLING_PERIOD_TOLERANCE_DAYS
      /\ PeriodMonths(days) = WholeMonths(days)
  BY DEF PeriodMonths
<1>2. WholeMonths(days) > 0
  BY <1>1 DEF BILLING_PERIOD_MONTHS
<1> QED
  BY <1>1, <1>2 DEF IsWhole

(* The calendar can be worked out month by month.                           *)
LEMMA FirstDayIs ==
    /\ FirstDay[1] = 1 /\ DOMAIN FirstDay = 1..Len(MonthLengths) + 1
    /\ \A m \in CalendarMonths : FirstDay[m + 1] = FirstDay[m] + MonthLengths[m]
    /\ \A m \in 1..Len(MonthLengths) + 1 : FirstDay[m] \in Nat
<1>1. Len(MonthLengths) \in Nat /\ \A m \in 1..Len(MonthLengths) : MonthLengths[m] \in Nat
  <2>1. MonthLengths \in Seq(28..31)
    BY CalendarAssumption
  <2>2. Len(MonthLengths) \in Nat /\ \A m \in 1..Len(MonthLengths) : MonthLengths[m] \in 28..31
    BY <2>1
  <2> QED
    BY <2>2
<1>2. FirstDay = RunningSum(Len(MonthLengths), 1, MonthLengths)
  BY DEF FirstDay, RunningSum, IsRunning
<1> QED
  BY <1>1, <1>2, Running DEF CalendarMonths

(* Months follow one another.                                               *)
LEMMA MonthsRise ==
    ASSUME NEW i \in 1..Len(MonthLengths) + 1, NEW j \in 1..Len(MonthLengths) + 1, i < j
    PROVE  FirstDay[i] < FirstDay[j]
<1> DEFINE n == Len(MonthLengths)
           Bad == {k \in Nat : k \in 1..n + 1 /\ i < k /\ ~(FirstDay[i] < FirstDay[k])}
<1>1. n \in Nat /\ \A m \in 1..n : MonthLengths[m] \in Nat /\ MonthLengths[m] > 0
  BY CalendarAssumption
<1>2. /\ \A m \in 1..n : FirstDay[m + 1] = FirstDay[m] + MonthLengths[m]
      /\ \A m \in 1..n + 1 : FirstDay[m] \in Nat
  BY FirstDayIs DEF CalendarMonths
<1> HIDE DEF n
<1>3. Bad = {}
  <2> SUFFICES ASSUME Bad # {} PROVE FALSE
    OBVIOUS
  <2>1. PICK k \in Bad : \A m \in Bad : k <= m
    BY LeastNumber
  <2>2. i \in 1..n + 1
    BY DEF n
  <2>3. k - 1 \in 1..n /\ k - 1 \in 1..n + 1 /\ k - 1 \in Nat /\ ~(k <= k - 1) /\ (k - 1) + 1 = k /\ k \in 1..n + 1
    BY <1>1, <2>2
  <2>4. FirstDay[k] = FirstDay[k - 1] + MonthLengths[k - 1] /\ FirstDay[k - 1] \in Nat /\ MonthLengths[k - 1] > 0
    BY <1>1, <1>2, <2>3
  <2>5. i = k - 1 \/ i < k - 1
    BY <2>2, <2>3
  <2>6. FirstDay[i] <= FirstDay[k - 1]
    <3>1. CASE i = k - 1
      BY <3>1, <2>4
    <3>2. CASE i < k - 1
      <4>1. k - 1 \notin Bad
        BY <2>1, <2>3
      <4>2. FirstDay[i] < FirstDay[k - 1]
        BY <4>1, <3>2, <2>3
      <4> QED
        BY <4>2, <1>2, <2>2, <2>4
    <3> QED
      BY <2>5, <3>1, <3>2
  <2>7. FirstDay[i] \in Nat /\ MonthLengths[k - 1] \in Nat
    BY <1>1, <1>2, <2>2, <2>3
  <2>8. FirstDay[i] < FirstDay[k]
    BY <2>4, <2>6, <2>7
  <2> QED
    BY <2>1, <2>8
<1> QED
  BY <1>3, <1>1 DEF n

IsMonth(d, m) == m \in CalendarMonths /\ FirstDay[m] <= d /\ d < FirstDay[m + 1]

(* A later day is in no earlier month,                                      *)
LEMMA OneMonth ==
    ASSUME NEW d \in CalendarDays, NEW e \in CalendarDays, d <= e,
           NEW k, IsMonth(d, k), NEW m, IsMonth(e, m)
    PROVE  k <= m
<1>1. /\ k \in 1..Len(MonthLengths) + 1 /\ m + 1 \in 1..Len(MonthLengths) + 1
      /\ FirstDay[k] \in Nat /\ FirstDay[m + 1] \in Nat /\ m \in Nat /\ k \in Nat
  BY FirstDayIs, CalendarAssumption DEF IsMonth, CalendarMonths
<1>2. FirstDay[k] <= d /\ d <= e /\ e < FirstDay[m + 1] /\ d \in Int /\ e \in Int
  BY DEF IsMonth, CalendarDays
<1>3. SUFFICES ASSUME m < k PROVE FALSE
  BY <1>1
<1>4. FirstDay[m + 1] <= FirstDay[k]
  <2>1. m + 1 = k \/ m + 1 < k
    BY <1>1, <1>3
  <2>2. CASE m + 1 = k
    BY <2>2, <1>1
  <2>3. CASE m + 1 < k
    BY <2>3, <1>1, MonthsRise
  <2> QED
    BY <2>1, <2>2, <2>3
<1> QED
  BY <1>1, <1>2, <1>4

(* so every day is in one month.                                            *)
LEMMA MonthOfIs ==
    ASSUME NEW d \in CalendarDays
    PROVE  /\ IsMonth(d, MonthOf[d]) /\ MonthOf[d] \in Nat
           /\ \A m : IsMonth(d, m) => m = MonthOf[d]
<1> DEFINE n == Len(MonthLengths)
           Ends == {m \in Nat : m \in 1..n /\ d < FirstDay[m + 1]}
<1>1. n \in Nat
  BY CalendarAssumption
<1>2. d \in Int /\ 1 <= d /\ d < FirstDay[n + 1]
  BY <1>1, FirstDayIs DEF CalendarDays
<1>3. n # 0
  BY <1>1, <1>2, FirstDayIs
<1> HIDE DEF n
<1>4. Ends # {}
  BY <1>1, <1>2, <1>3
<1>5. PICK m \in Ends : \A k \in Ends : m <= k
  BY <1>4, LeastNumber
<1>6. FirstDay[m] <= d
  <2>1. CASE m = 1
    BY <2>1, <1>2, FirstDayIs
  <2>2. CASE m # 1
    <3>1. m - 1 \in 1..n /\ ~(m <= m - 1) /\ (m - 1) + 1 = m /\ m - 1 \in Nat /\ m \in 1..n + 1
      BY <2>2, <1>1
    <3>2. ~(d < FirstDay[m])
      BY <3>1, <1>5
    <3>3. FirstDay[m] \in Nat
      BY <3>1, FirstDayIs DEF n
    <3> QED
      BY <3>2, <3>3, <1>2
  <2> QED
    BY <2>1, <2>2
<1>7. IsMonth(d, m)
  BY <1>6 DEF IsMonth, CalendarMonths, n
<1>8. MonthOf[d] = CHOOSE k \in CalendarMonths : IsMonth(d, k)
  BY DEF MonthOf, IsMonth
<1>9. IsMonth(d, MonthOf[d])
  <2>1. \E k \in CalendarMonths : IsMonth(d, k)
    BY <1>7 DEF IsMonth
  <2> QED
    BY <2>1, <1>8
<1>10. ASSUME NEW k, IsMonth(d, k) PROVE k = MonthOf[d]
  <2>1. d <= d
    BY <1>2
  <2>2. k <= MonthOf[d] /\ MonthOf[d] <= k
    BY <2>1, <1>9, <1>10, OneMonth
  <2> QED
    BY <2>2, <1>9, <1>10 DEF IsMonth, CalendarMonths
<1> QED
  BY <1>9, <1>10 DEF IsMonth, CalendarMonths

(* Months of days are in the order of the days.                             *)
LEMMA MonthsInOrder ==
    ASSUME NEW d \in CalendarDays, NEW e \in CalendarDays, d <= e
    PROVE  MonthOf[d] <= MonthOf[e]
  BY MonthOfIs, OneMonth

(* The months a bill charges are those after its start's, once it reaches   *)
(* another.                                                                 *)
LEMMA ChargedAre ==
    ASSUME NEW start \in CalendarDays, NEW end \in CalendarDays, start < end,
           MonthOf[start] < MonthOf[end],
           NEW first \in Int, NEW priced, priced = {d \in CalendarDays : d >= first}
    PROVE  ChargedMonths(start, end, priced) = {m \in FromStart(start, end, priced) : m > MonthOf[start]}
<1> DEFINE months == FromStart(start, end, priced)
           later == {m \in months : m > MonthOf[start]}
<1>1. start \in Int /\ end \in Int
  BY DEF CalendarDays
<1>2. ASSUME NEW m \in months PROVE MonthOf[end] \in later
  <2>1. PICK d \in (start + 1)..end : d \in priced
    BY <1>2 DEF FromStart
  <2>2. end \in priced /\ end \in (start + 1)..end
    BY <1>1, <2>1 DEF CalendarDays
  <2>3. MonthOf[end] \in months
    BY <2>2 DEF FromStart
  <2> QED
    BY <2>3
<1> HIDE DEF months
<1>3. later # {} \/ months = {}
  BY <1>2
<1> QED
  BY <1>3 DEF ChargedMonths, months

(* Two bills in a row charge each month once.                               *)
LEMMA MonthsChargedOnce ==
    ASSUME NEW start \in CalendarDays, NEW reading \in CalendarDays, NEW end \in CalendarDays,
           start < reading, reading < end,
           NEW first \in Int, NEW priced, priced = {d \in CalendarDays : d >= first}
    PROVE  MonthsOnce(start, reading, end, priced)
<1> SUFFICES ASSUME MonthOf[start] < MonthOf[reading], MonthOf[reading] < MonthOf[end],
                    MonthOf[reading] \in FromStart(reading, end, priced)
                        => MonthOf[reading] \in FromStart(start, reading, priced)
             PROVE  LET one == ChargedMonths(start, reading, priced)
                        two == ChargedMonths(reading, end, priced)
                    IN  one \cap two = {} /\ one \cup two = ChargedMonths(start, end, priced)
  BY DEF MonthsOnce
<1> DEFINE before == FromStart(start, reading, priced)
           after == FromStart(reading, end, priced)
<1>1. start \in Int /\ reading \in Int /\ end \in Int /\ start < end
  BY DEF CalendarDays
<1>2. MonthOf[start] \in Nat /\ MonthOf[reading] \in Nat /\ MonthOf[end] \in Nat
  BY MonthOfIs
<1>3. /\ ChargedMonths(start, reading, priced) = {m \in before : m > MonthOf[start]}
      /\ ChargedMonths(reading, end, priced) = {m \in after : m > MonthOf[reading]}
      /\ ChargedMonths(start, end, priced) = {m \in FromStart(start, end, priced) : m > MonthOf[start]}
  <2>1. MonthOf[start] < MonthOf[end]
    BY <1>2
  <2> QED
    BY <1>1, <2>1, ChargedAre
<1>4. FromStart(start, end, priced) = before \cup after
  <2>1. (start + 1)..end = ((start + 1)..reading) \cup ((reading + 1)..end)
    BY <1>1
  <2> QED
    BY <2>1 DEF FromStart
<1>5. \A m \in before : m \in Nat /\ m <= MonthOf[reading]
  <2> SUFFICES ASSUME NEW d \in (start + 1)..reading, d \in priced
               PROVE  MonthOf[d] \in Nat /\ MonthOf[d] <= MonthOf[reading]
    BY DEF FromStart
  <2>1. d \in CalendarDays /\ d <= reading
    BY <1>1
  <2> QED
    BY <2>1, MonthOfIs, MonthsInOrder
<1>6. \A m \in after : m \in Nat /\ m >= MonthOf[reading]
  <2> SUFFICES ASSUME NEW d \in (reading + 1)..end, d \in priced
               PROVE  MonthOf[d] \in Nat /\ MonthOf[d] >= MonthOf[reading]
    BY DEF FromStart
  <2>1. d \in CalendarDays /\ reading <= d
    BY <1>1
  <2>2. MonthOf[reading] <= MonthOf[d] /\ MonthOf[d] \in Nat
    BY <2>1, MonthOfIs, MonthsInOrder
  <2> QED
    BY <2>2, <1>2
<1>7. \A m \in after : m = MonthOf[reading] => m \in before
  OBVIOUS
<1> HIDE DEF before, after
<1> QED
  BY <1>2, <1>3, <1>4, <1>5, <1>6, <1>7

(* The month after one that ends starts the day after.                      *)
LEMMA EndsBefore ==
    ASSUME NEW d \in CalendarDays, d + 1 \in CalendarDays, EndsMonth(d)
    PROVE  MonthOf[d] + 1 \in CalendarMonths /\ FirstDay[MonthOf[d] + 1] = d + 1
<1> DEFINE m == MonthOf[d]
<1>1. IsMonth(d, m) /\ IsMonth(d + 1, MonthOf[d + 1]) /\ m \in Nat /\ MonthOf[d + 1] \in Nat /\ d \in Int
  BY MonthOfIs DEF CalendarDays
<1>2. MonthOf[d + 1] > m
  BY DEF EndsMonth
<1>3. m + 1 \in 1..Len(MonthLengths) + 1 /\ FirstDay[m] \in Nat /\ FirstDay[m + 1] \in Nat
  BY <1>1, FirstDayIs, CalendarAssumption DEF IsMonth, CalendarMonths
<1>4. ~IsMonth(d + 1, m)
  BY <1>1, <1>2, MonthOfIs
<1>5. d + 1 = FirstDay[m + 1]
  BY <1>1, <1>3, <1>4 DEF IsMonth
<1>6. m + 1 \in CalendarMonths
  BY <1>1, <1>2, CalendarAssumption DEF IsMonth, CalendarMonths
<1> QED
  BY <1>5, <1>6

(* Months in a row are all their days, each in its month.                   *)
LEMMA MonthDays ==
    ASSUME NEW k, NEW l, k \in CalendarMonths, l \in CalendarMonths, k <= l
    PROVE  LET days == FirstDay[k]..FirstDay[l + 1] - 1
           IN  /\ days \subseteq CalendarDays
               /\ {MonthOf[d] : d \in days} = k..l
               /\ \A m \in k..l : /\ {d \in days : MonthOf[d] = m} = FirstDay[m]..FirstDay[m + 1] - 1
                                  /\ Cardinality({d \in days : MonthOf[d] = m}) = MonthLengths[m]
<1> DEFINE n == Len(MonthLengths)
           days == FirstDay[k]..FirstDay[l + 1] - 1
<1>1. n \in Nat /\ k \in Nat /\ l \in Nat /\ k >= 1 /\ l <= n /\ \A m \in 1..n : MonthLengths[m] \in Nat /\ MonthLengths[m] > 0
  BY CalendarAssumption DEF CalendarMonths
<1>2. /\ \A m \in 1..n : FirstDay[m + 1] = FirstDay[m] + MonthLengths[m]
      /\ \A m \in 1..n + 1 : FirstDay[m] \in Nat
      /\ FirstDay[1] = 1
  BY FirstDayIs DEF CalendarMonths
<1>3. \A i, j \in 1..n + 1 : i <= j => FirstDay[i] <= FirstDay[j]
  <2> SUFFICES ASSUME NEW i \in 1..n + 1, NEW j \in 1..n + 1, i <= j PROVE FirstDay[i] <= FirstDay[j]
    OBVIOUS
  <2>1. CASE i = j
    BY <2>1, <1>2
  <2>2. CASE i < j
    BY <2>2, <1>2, MonthsRise
  <2> QED
    BY <2>1, <2>2, <1>1
<1>4. CalendarMonths = 1..n /\ CalendarDays = 1..FirstDay[n + 1] - 1
  BY DEF CalendarMonths, CalendarDays
<1> HIDE DEF n
<1>5. k \in 1..n + 1 /\ l + 1 \in 1..n + 1 /\ 1 \in 1..n + 1 /\ n + 1 \in 1..n + 1
  BY <1>1
<1>6. days \subseteq CalendarDays
  <2>1. FirstDay[k] >= 1 /\ FirstDay[l + 1] <= FirstDay[n + 1]
    BY <1>1, <1>2, <1>3, <1>5
  <2>2. FirstDay[k] \in Nat /\ FirstDay[l + 1] \in Nat /\ FirstDay[n + 1] \in Nat
    BY <1>2, <1>5
  <2> QED
    BY <2>1, <2>2, <1>4
<1>7. \A d \in days : MonthOf[d] \in k..l
  <2> SUFFICES ASSUME NEW d \in days PROVE MonthOf[d] \in k..l
    OBVIOUS
  <2>1. d \in CalendarDays /\ d \in Int /\ FirstDay[k] <= d /\ d < FirstDay[l + 1]
    BY <1>2, <1>5, <1>6
  <2>2. MonthOf[d] \in 1..n /\ FirstDay[MonthOf[d]] <= d /\ d < FirstDay[MonthOf[d] + 1]
    BY <2>1, MonthOfIs, <1>4 DEF IsMonth
  <2>3. MonthOf[d] \in 1..n + 1 /\ MonthOf[d] + 1 \in 1..n + 1
    BY <1>1, <2>2
  <2>4. k <= MonthOf[d]
    <3>1. ~(MonthOf[d] + 1 <= k)
      <4> SUFFICES ASSUME MonthOf[d] + 1 <= k PROVE FALSE
        OBVIOUS
      <4>1. FirstDay[MonthOf[d] + 1] <= FirstDay[k]
        BY <1>3, <1>5, <2>3
      <4> QED
        BY <4>1, <2>1, <2>2, <2>3, <1>2, <1>5
    <3> QED
      BY <3>1, <2>2, <1>1
  <2>5. MonthOf[d] <= l
    <3>1. ~(l + 1 <= MonthOf[d])
      <4> SUFFICES ASSUME l + 1 <= MonthOf[d] PROVE FALSE
        OBVIOUS
      <4>1. FirstDay[l + 1] <= FirstDay[MonthOf[d]]
        BY <1>3, <1>5, <2>3
      <4> QED
        BY <4>1, <2>1, <2>2, <2>3, <1>2, <1>5
    <3> QED
      BY <3>1, <2>2, <1>1
  <2> QED
    BY <2>2, <2>4, <2>5, <1>1
<1>8. ASSUME NEW m \in k..l
      PROVE  /\ {d \in days : MonthOf[d] = m} = FirstDay[m]..FirstDay[m + 1] - 1
             /\ FirstDay[m] \in FirstDay[m]..FirstDay[m + 1] - 1
             /\ Cardinality(FirstDay[m]..FirstDay[m + 1] - 1) = MonthLengths[m]
  <2>1. m \in 1..n /\ m \in 1..n + 1 /\ m + 1 \in 1..n + 1 /\ k <= m /\ m + 1 <= l + 1
    BY <1>1
  <2>2. /\ FirstDay[k] <= FirstDay[m] /\ FirstDay[m + 1] <= FirstDay[l + 1]
        /\ FirstDay[m + 1] = FirstDay[m] + MonthLengths[m]
        /\ FirstDay[k] \in Nat /\ FirstDay[m] \in Nat /\ FirstDay[m + 1] \in Nat /\ FirstDay[l + 1] \in Nat
        /\ MonthLengths[m] \in Nat /\ MonthLengths[m] > 0
    BY <2>1, <1>1, <1>2, <1>3, <1>5
  <2>3. \A d \in FirstDay[m]..FirstDay[m + 1] - 1 : d \in days /\ MonthOf[d] = m
    <3> SUFFICES ASSUME NEW d \in FirstDay[m]..FirstDay[m + 1] - 1 PROVE d \in days /\ MonthOf[d] = m
      OBVIOUS
    <3>1. d \in days
      BY <2>2
    <3>2. IsMonth(d, m)
      BY <2>1, <2>2, <1>4 DEF IsMonth
    <3> QED
      BY <3>1, <3>2, <1>6, MonthOfIs
  <2>4. \A d \in days : MonthOf[d] = m => d \in FirstDay[m]..FirstDay[m + 1] - 1
    <3> SUFFICES ASSUME NEW d \in days, MonthOf[d] = m PROVE d \in FirstDay[m]..FirstDay[m + 1] - 1
      OBVIOUS
    <3>1. d \in CalendarDays /\ d \in Int
      BY <1>6 DEF CalendarDays
    <3>2. FirstDay[m] <= d /\ d < FirstDay[m + 1]
      BY <3>1, MonthOfIs DEF IsMonth
    <3> QED
      BY <3>1, <3>2, <2>2
  <2>5. Cardinality(FirstDay[m]..FirstDay[m + 1] - 1) = MonthLengths[m]
    <3>1. FirstDay[m] \in Int /\ FirstDay[m + 1] - 1 \in Int /\ ~(FirstDay[m] > FirstDay[m + 1] - 1)
      BY <2>2
    <3>2. Cardinality(FirstDay[m]..FirstDay[m + 1] - 1) = (FirstDay[m + 1] - 1) - FirstDay[m] + 1
      BY <3>1, FS_Interval
    <3> QED
      BY <3>2, <2>2
  <2> HIDE DEF days
  <2>6. {d \in days : MonthOf[d] = m} = FirstDay[m]..FirstDay[m + 1] - 1
    BY <2>3, <2>4
  <2> QED
    BY <2>2, <2>5, <2>6
<1>9. {MonthOf[d] : d \in days} = k..l
  <2>1. \A m \in k..l : \E d \in days : MonthOf[d] = m
    BY <1>8
  <2> HIDE DEF days
  <2> QED
    BY <1>7, <2>1
<1> HIDE DEF days
<1>10. \A m \in k..l : /\ {d \in days : MonthOf[d] = m} = FirstDay[m]..FirstDay[m + 1] - 1
                       /\ Cardinality({d \in days : MonthOf[d] = m}) = MonthLengths[m]
  BY <1>8
<1> QED
  BY <1>6, <1>9, <1>10 DEF days

(* The parts of each month, by its share of days.                           *)
PartsOf(days, m) == Cardinality({d \in days : MonthOf[d] = m}) * (Parts \div MonthLengths[m])

Shares(days, S) ==
    MapThenSumSet(LAMBDA m : Cardinality({d \in days : MonthOf[d] = m}) * (Parts \div MonthLengths[m]), S)

(* The shares of months are a sum.                                          *)
LEMMA PartSums ==
    ASSUME NEW days, NEW S
    PROVE  Shares(days, S)
               = SumOver([m \in S |-> PartsOf(days, m)], S)
<1> DEFINE f == [m \in S |-> PartsOf(days, m)]
           Same(g) == g = [T \in SUBSET S |-> IF T = {} THEN 0 ELSE PartsOf(days, Member(T)) + g[T \ {Member(T)}]]
<1>1. Shares(days, S)
          = (CHOOSE g : Same(g))[S]
  BY DEF Shares, MapThenSumSet, MapThenFoldSet, Member, PartsOf
<1>2. \A T \in SUBSET S : T # {} => f[Member(T)] = PartsOf(days, Member(T))
  BY MemberIn
<1>3. \A g : Same(g) <=> Partial(f, S, g)
  BY <1>2 DEF Partial
<1> HIDE DEF Same, f
<1>4. (CHOOSE g : Same(g)) = (CHOOSE g : Partial(f, S, g))
  BY <1>3, Zenon
<1> QED
  BY <1>1, <1>4, SumIsPartial DEF PartialSums, f

(* So many days are so many average months, give or take the tolerance.     *)
NearAverage(days, months) ==
    100 * days - months * AVERAGE_MONTH_DAYS
        \in -100 * BILLING_PERIOD_TOLERANCE_DAYS..100 * BILLING_PERIOD_TOLERANCE_DAYS

(* Whole windows are charged the only number of months they are near.       *)
LEMMA WholeIsNear ==
    ASSUME NEW days \in Int, NEW months \in Int, IsWhole(days), NearAverage(days, months)
    PROVE  WholeMonths(days) = months
<1> DEFINE w == WholeMonths(days)
<1>1. w \in Int
  BY MonthsAreInt
<1>2. 100 * days - w * 3044 \in -700..700
  BY DEF IsWhole, AVERAGE_MONTH_DAYS, BILLING_PERIOD_TOLERANCE_DAYS
<1>3. 100 * days - months * 3044 \in -700..700
  BY DEF NearAverage, AVERAGE_MONTH_DAYS, BILLING_PERIOD_TOLERANCE_DAYS
<1> HIDE DEF w
<1>4. 3044 * (w - months) \in -1400..1400
  BY <1>1, <1>2, <1>3
<1>5. w = months
  BY <1>1, <1>4
<1> QED
  BY <1>5 DEF w

(* Whole months, first to last, are charged as so many by the day           *)
LEMMA SharesAddUp ==
    ASSUME NEW k, NEW l, k \in CalendarMonths, l \in CalendarMonths, k <= l,
           NEW days, days = FirstDay[k]..FirstDay[l + 1] - 1
    PROVE  Shares(days, {MonthOf[d] : d \in days})
               = Parts * (l - k + 1)
<1> DEFINE f == [m \in k..l |-> PartsOf(days, m)]
<1>1. /\ k \in Nat /\ l \in Nat
      /\ \A m \in k..l : MonthLengths[m] \in 28..31
  BY CalendarAssumption DEF CalendarMonths
<1>2. /\ {MonthOf[d] : d \in days} = k..l
      /\ \A m \in k..l : Cardinality({d \in days : MonthOf[d] = m}) = MonthLengths[m]
  BY MonthDays
<1>3. \A n \in 28..31 : n * (Parts \div n) = Parts
  BY DEF Parts
<1>4. \A m \in k..l : f[m] = Parts
  BY <1>1, <1>2, <1>3 DEF PartsOf
<1>5. IsFiniteSet(k..l) /\ Cardinality(k..l) = l - k + 1
  BY <1>1, FS_Interval
<1>6. Parts \in Int
  BY DEF Parts
<1> HIDE DEF f
<1>7. SumOver(f, k..l) = Parts * Cardinality(k..l)
  BY <1>4, <1>5, <1>6, SumConstant
<1>8. Shares(days, k..l)
          = SumOver([m \in k..l |-> PartsOf(days, m)], k..l)
  BY PartSums
<1>9. Shares(days, k..l)
          = Parts * (l - k + 1)
  BY <1>5, <1>7, <1>8 DEF f
<1> QED
  BY <1>2, <1>9

(* and by the month.                                                        *)
LEMMA CalendarMonthsCharged ==
    ASSUME NEW start \in CalendarDays, NEW end \in CalendarDays, end + 1 \in CalendarDays, start < end,
           EndsMonth(start) /\ EndsMonth(end) => NearAverage(end - start, MonthOf[end] - MonthOf[start])
    PROVE  CalendarCharged(start, end)
<1> SUFFICES ASSUME EndsMonth(start), EndsMonth(end)
             PROVE  LET all == DistributionMonths(start, end, CalendarDays)
                    IN  all.of = all.parts * (MonthOf[end] - MonthOf[start])
  BY DEF CalendarCharged
<1> DEFINE k == MonthOf[start] + 1
           l == MonthOf[end]
           days == (start + 1)..end \cap CalendarDays
<1>1. start \in Int /\ end \in Int /\ start + 1 \in CalendarDays
  BY FirstDayIs DEF CalendarDays
<1>2. k \in CalendarMonths /\ FirstDay[k] = start + 1
  BY <1>1, EndsBefore
<1>3. FirstDay[l + 1] = end + 1 /\ l \in CalendarMonths /\ l \in Nat /\ MonthOf[start] \in Nat
  BY EndsBefore, MonthOfIs DEF IsMonth
<1>4. k <= l
  <2>1. MonthOf[start] <= l
    BY <1>1, MonthsInOrder
  <2>2. MonthOf[start] # l
    BY <1>1, <1>2, <1>3
  <2> QED
    BY <1>3, <2>1, <2>2
<1>5. l - k + 1 = MonthOf[end] - MonthOf[start] /\ MonthOf[end] - MonthOf[start] \in Int
  BY <1>3
<1> HIDE DEF k, l
<1>6. days = FirstDay[k]..FirstDay[l + 1] - 1 /\ days = (start + 1)..end
  <2>1. FirstDay[l + 1] - 1 = end
    BY <1>1, <1>3
  <2>2. (start + 1)..end \subseteq CalendarDays
    BY <1>2, <1>3, <1>4, <2>1, MonthDays
  <2> QED
    BY <1>2, <2>1, <2>2
<1> DEFINE all == DistributionMonths(start, end, CalendarDays)
<1>7. CASE IsWhole(end - start)
  <2>1. Cardinality(days) = end - start
    <3>1. Cardinality((start + 1)..end) = IF start + 1 > end THEN 0 ELSE end - (start + 1) + 1
      BY <1>1, FS_Interval
    <3> HIDE DEF days
    <3> QED
      BY <3>1, <1>1, <1>6
  <2>2. WholeMonths(end - start) = MonthOf[end] - MonthOf[start]
    BY <1>1, <1>5, <1>7, WholeIsNear
  <2>3. all = [of |-> WholeMonths(end - start) * Cardinality(days), parts |-> end - start]
    BY <1>7 DEF DistributionMonths
  <2>4. \A i, j \in Int : i * j = j * i
    OBVIOUS
  <2>5. end - start \in Int
    BY <1>1
  <2> HIDE DEF days, all
  <2>6. all.of = (MonthOf[end] - MonthOf[start]) * (end - start) /\ all.parts = end - start
    BY <2>1, <2>2, <2>3
  <2> QED
    BY <1>5, <2>4, <2>5, <2>6 DEF all
<1>8. CASE ~IsWhole(end - start)
  <2>1. all = [of |-> Shares(days, {MonthOf[d] : d \in days}),
               parts |-> Parts]
    BY <1>8 DEF DistributionMonths, Shares
  <2> HIDE DEF days, all
  <2>2. Shares(days, {MonthOf[d] : d \in days}) = Parts * (l - k + 1)
    BY <1>2, <1>3, <1>4, <1>6, SharesAddUp
  <2>3. all.of = Parts * (l - k + 1) /\ all.parts = Parts
    BY <2>1, <2>2
  <2> QED
    BY <1>5, <2>3 DEF all
<1> QED
  BY <1>7, <1>8

(* Whole months of the calendar are about average.                          *)
LEMMA CalendarIsNear ==
    ASSUME NEW start \in CalendarDays, NEW end \in CalendarDays, end + 1 \in CalendarDays, start < end,
           EndsMonth(start), EndsMonth(end)
    PROVE  NearAverage(end - start, MonthOf[end] - MonthOf[start])
<1> DEFINE k == MonthOf[start] + 1
           l == MonthOf[end] + 1
<1>1. start \in Int /\ end \in Int /\ start + 1 \in CalendarDays
  BY FirstDayIs DEF CalendarDays
<1>2. k \in CalendarMonths /\ FirstDay[k] = start + 1 /\ l \in CalendarMonths /\ FirstDay[l] = end + 1
  BY <1>1, EndsBefore
<1>3. MonthOf[start] \in Nat /\ MonthOf[end] \in Nat
  BY MonthOfIs
<1>4. k \in 1..Len(MonthLengths) + 1 /\ l \in 1..Len(MonthLengths) + 1
  BY <1>2, CalendarAssumption DEF CalendarMonths
<1>5. FirstDay[l] - FirstDay[k] = end - start /\ l - k = MonthOf[end] - MonthOf[start]
  BY <1>1, <1>2, <1>3
<1> HIDE DEF k, l
<1> QED
  BY <1>4, <1>5, MonthsAssumption DEF NearAverage

(* Bills in a row add up whatever the days of reading and the first with    *)
(* prices, in any calendar MonthsAssumption holds for (billing.py:389-437). *)
THEOREM BillsInARowAddUp ==
    ASSUME NEW start \in CalendarDays, NEW reading \in CalendarDays, NEW end \in CalendarDays,
           end + 1 \in CalendarDays, start < reading, reading < end, NEW first \in Int
    PROVE  AddUp(start, reading, end, {d \in CalendarDays : d >= first})
<1>1. start \in Int /\ reading \in Int /\ end \in Int
  BY DEF CalendarDays
<1>2. MonthsOnce(start, reading, end, {d \in CalendarDays : d >= first})
  BY MonthsChargedOnce
<1>3. WindowsAdd(start, reading, end)
  <2>1. reading - start \in Int /\ end - reading \in Int /\ (reading - start) + (end - reading) = end - start
    BY <1>1
  <2> QED
    BY <2>1, WholeWindowsAddUp DEF WindowsAdd
<1>4. CalendarCharged(start, end)
  <2>1. start < end
    BY <1>1
  <2> QED
    BY <2>1, CalendarIsNear, CalendarMonthsCharged
<1> QED
  BY <1>2, <1>3, <1>4 DEF AddUp

-----------------------------------------------------------------------------
(* The scan of a history. *)

From(data, from, end) ==
    IF Chunk(data, end) = {} THEN <<>>
    ELSE IF RunsOut(data, end) THEN <<Chunk(data, end)>>
    ELSE <<Chunk(data, end)>> \o from[ChunkStart(end) - 1]

IsScan(data, from) == from = [end \in Int |-> From(data, from, end)]
Scan(data) == CHOOSE from : IsScan(data, from)

(* The chunks by a name of their own.                                       *)
LEMMA ChunksAreScan == ASSUME NEW data, NEW newest PROVE Chunks(data, newest) = Scan(data)[newest]
  BY DEF Chunks, Scan, IsScan, From

(* Chunks are days, and the next chunk is earlier.                          *)
LEMMA ScanTypes ==
    /\ RANGE_FETCH_CHUNK_DAYS \in Nat /\ BACKFILL_MAX_CONSECUTIVE_EMPTY \in Nat
    /\ 1 <= BACKFILL_MAX_CONSECUTIVE_EMPTY /\ BACKFILL_MAX_CONSECUTIVE_EMPTY <= RANGE_FETCH_CHUNK_DAYS
    /\ \A end \in Int : /\ ChunkStart(end) = end - RANGE_FETCH_CHUNK_DAYS + 1 /\ ChunkStart(end) \in Int
                        /\ ChunkStart(end) - 1 \in Int /\ ChunkStart(end) - 1 < end /\ ChunkStart(end) <= end
  BY ScanAssumption DEF ChunkStart

(* Before the first day the portal has anything for, nothing is found.      *)
LEMMA NothingBefore ==
    ASSUME NEW data \in SUBSET Nat, NEW from, NEW end \in Int, end < 0
    PROVE  From(data, from, end) = <<>>
<1>1. Chunk(data, end) = {}
  BY ScanTypes DEF Chunk
<1> QED
  BY <1>1 DEF From

Below(m) == {end \in Int : end < m}
UpTo(data, m, from) == from = [end \in Below(m) |-> From(data, from, end)]

(* Scans worked out up to one day and up to a later one agree,              *)
LEMMA UpToAgree ==
    ASSUME NEW data \in SUBSET Nat, NEW m \in Nat, NEW n \in Nat, m <= n,
           NEW f, UpTo(data, m, f), NEW g, UpTo(data, n, g), NEW e \in Int, e < m
    PROVE  f[e] = g[e]
<1> DEFINE Bad == {d \in Nat : d < m /\ f[d] # g[d]}
<1>1. \A d \in Below(m) : f[d] = From(data, f, d) /\ g[d] = From(data, g, d)
  <2>1. \A d \in Below(m) : d \in Below(n)
    BY DEF Below
  <2> QED
    BY <2>1 DEF UpTo
<1>2. \A d \in Int : d < 0 => f[d] = g[d]
  <2> SUFFICES ASSUME NEW d \in Int, d < 0 PROVE f[d] = g[d]
    OBVIOUS
  <2>1. d \in Below(m)
    BY DEF Below
  <2> QED
    BY <2>1, <1>1, NothingBefore
<1>3. Bad = {}
  <2> SUFFICES ASSUME Bad # {} PROVE FALSE
    OBVIOUS
  <2>1. PICK d \in Bad : \A b \in Bad : d <= b
    BY LeastNumber
  <2>2. d \in Below(m) /\ d \in Int
    BY DEF Below
  <2> DEFINE b == ChunkStart(d) - 1
  <2>3. b \in Int /\ b < d
    BY <2>2, ScanTypes
  <2> HIDE DEF b
  <2>4. f[b] = g[b]
    <3>1. CASE b < 0
      BY <3>1, <2>3, <1>2
    <3>2. CASE b >= 0
      <4>1. b \in Nat /\ b < m /\ ~(d <= b)
        BY <3>2, <2>2, <2>3 DEF Below
      <4> QED
        BY <4>1, <2>1
    <3> QED
      BY <2>3, <3>1, <3>2
  <2>5. From(data, f, d) = From(data, g, d)
    BY <2>4 DEF From, b
  <2> QED
    BY <2>1, <2>2, <2>5, <1>1
<1> QED
  BY <1>2, <1>3

(* there is one up to any day,                                              *)
LEMMA UpToExists ==
    ASSUME NEW data \in SUBSET Nat, NEW n \in Nat
    PROVE  \E f : UpTo(data, n, f)
<1> DEFINE Bad == {m \in Nat : ~\E f : UpTo(data, m, f)}
<1> SUFFICES ASSUME Bad # {} PROVE FALSE
  OBVIOUS
<1>1. PICK m \in Bad : \A k \in Bad : m <= k
  BY LeastNumber
<1>2. m # 0
  <2> DEFINE f == [end \in Below(0) |-> <<>>]
  <2>1. \A end \in Below(0) : f[end] = From(data, f, end)
    BY NothingBefore DEF Below
  <2>2. f = [end \in Below(0) |-> f[end]]
    OBVIOUS
  <2> HIDE DEF f
  <2>3. UpTo(data, 0, f)
    BY <2>1, <2>2 DEF UpTo
  <2> QED
    BY <2>3
<1>3. m \in Nat /\ m - 1 \in Nat /\ m - 1 \notin Bad
  <2>1. m \in Nat /\ m - 1 \in Nat /\ ~(m <= m - 1)
    BY <1>2
  <2> HIDE DEF Bad
  <2> QED
    BY <2>1, <1>1
<1>4. PICK f : UpTo(data, m - 1, f)
  BY <1>3
<1> DEFINE g == [end \in Below(m) |-> From(data, f, end)]
<1>5. \A end \in Below(m) : g[end] = From(data, g, end)
  <2> SUFFICES ASSUME NEW end \in Below(m) PROVE From(data, f, end) = From(data, g, end)
    OBVIOUS
  <2> DEFINE b == ChunkStart(end) - 1
  <2>1. b \in Below(m - 1) /\ b \in Below(m)
    <3>1. end \in Int /\ end < m
      BY DEF Below
    <3>2. b \in Int /\ b < end
      BY <3>1, ScanTypes
    <3> HIDE DEF b
    <3> QED
      BY <3>1, <3>2, <1>3 DEF Below
  <2> HIDE DEF b
  <2>2. f[b] = From(data, f, b)
    BY <2>1, <1>4 DEF UpTo
  <2>3. g[b] = f[b]
    BY <2>1, <2>2
  <2> HIDE DEF g
  <2> QED
    BY <2>3 DEF From, b
<1>6. g = [end \in Below(m) |-> g[end]]
  OBVIOUS
<1> HIDE DEF g
<1>7. UpTo(data, m, g)
  BY <1>5, <1>6 DEF UpTo
<1> QED
  BY <1>1, <1>7

(* and so one from every day.                                               *)
LEMMA ScanIs ==
    ASSUME NEW data \in SUBSET Nat, NEW end \in Int
    PROVE  Scan(data)[end] = From(data, Scan(data), end)
<1> DEFINE upto(m) == CHOOSE f : UpTo(data, m, f)
           scan == [e \in Int |-> IF e < 0 THEN <<>> ELSE upto(e + 1)[e]]
<1>1. \A m \in Nat : UpTo(data, m, upto(m))
  BY UpToExists
<1> HIDE DEF upto
<1>2. \A e \in Int : scan[e] = From(data, scan, e)
  <2> SUFFICES ASSUME NEW e \in Int PROVE scan[e] = From(data, scan, e)
    OBVIOUS
  <2>1. CASE e < 0
    BY <2>1, NothingBefore
  <2>2. CASE e >= 0
    <3> DEFINE b == ChunkStart(e) - 1
               f == upto(e + 1)
    <3>1. e + 1 \in Nat /\ e \in Below(e + 1)
      BY <2>2 DEF Below
    <3>2. UpTo(data, e + 1, f)
      BY <3>1, <1>1
    <3>3. f[e] = From(data, f, e)
      BY <3>1, <3>2 DEF UpTo
    <3>4. b \in Int /\ b < e
      BY ScanTypes
    <3> HIDE DEF b, f
    <3>5. f[b] = scan[b]
      <4>1. CASE b < 0
        <5>1. b \in Below(e + 1)
          BY <3>4 DEF Below
        <5>2. f[b] = From(data, f, b)
          BY <5>1, <3>2 DEF UpTo
        <5> QED
          BY <5>2, <4>1, <3>4, NothingBefore
      <4>2. CASE b >= 0
        <5>1. b + 1 \in Nat /\ b + 1 <= e + 1 /\ b < b + 1
          BY <4>2, <3>4
        <5>2. upto(b + 1)[b] = f[b]
          BY <5>1, <3>1, <3>2, <3>4, <1>1, UpToAgree
        <5> QED
          BY <5>2, <4>2, <3>4
      <4> QED
        BY <3>4, <4>1, <4>2
    <3>6. scan[e] = f[e]
      BY <2>2 DEF f
    <3> HIDE DEF scan
    <3>7. From(data, f, e) = From(data, scan, e)
      BY <3>5 DEF From, b
    <3> QED
      BY <3>3, <3>6, <3>7
  <2> QED
    BY <2>1, <2>2
<1>3. scan = [e \in Int |-> scan[e]]
  OBVIOUS
<1> HIDE DEF scan
<1>4. IsScan(data, scan)
  BY <1>2, <1>3 DEF IsScan
<1>5. IsScan(data, Scan(data))
  BY <1>4 DEF Scan
<1> QED
  BY <1>5 DEF IsScan

FoundBy(chunks) == UNION {chunks[i] : i \in DOMAIN chunks}

DaysBack(data, end, chunks) ==
    /\ chunks \in Seq(SUBSET data)
    /\ \A d \in FoundBy(chunks) : d <= end

NewestFirst(chunks) ==
    \A i, j \in DOMAIN chunks : i < j => \A d \in chunks[i], e \in chunks[j] : e < d

Behind(data, end, chunks) ==
    \A d \in data : d <= end /\ d \notin FoundBy(chunks) =>
        \E first \in d + 1..end : EmptyRun(data, first) /\ \A e \in FoundBy(chunks) : first < e

GoodScan(data, end, chunks) == DaysBack(data, end, chunks) /\ NewestFirst(chunks) /\ Behind(data, end, chunks)

(* The days of a chunk, and those it leaves behind.                         *)
LEMMA ChunkDays ==
    ASSUME NEW data \in SUBSET Nat, NEW end \in Int
    PROVE  /\ \A d \in Chunk(data, end) : d \in data /\ d \in Nat /\ ChunkStart(end) <= d /\ d <= end
           /\ \A d \in data : d \in Nat /\ (d <= end /\ d \notin Chunk(data, end) => d < ChunkStart(end))
           /\ Chunk(data, end) \in SUBSET data
<1>1. /\ \A d \in data : d \in Nat
      /\ \A d : d \in Chunk(data, end) <=> d \in data /\ d \in ChunkStart(end)..end
  BY DEF Chunk
<1>2. \A d \in data : d \in ChunkStart(end)..end <=> ChunkStart(end) <= d /\ d <= end
  BY <1>1, ScanTypes
<1>3. \A d \in data : ~(ChunkStart(end) <= d) => d < ChunkStart(end)
  BY <1>1, ScanTypes
<1> QED
  BY <1>1, <1>2, <1>3

(* A scan is good if its chunk is empty,                                    *)
LEMMA NothingFound ==
    ASSUME NEW data \in SUBSET Nat, NEW end \in Int, Chunk(data, end) = {}
    PROVE  GoodScan(data, end, <<>>)
<1>1. FoundBy(<<>>) = {}
  BY DEF FoundBy
<1>2. Behind(data, end, <<>>)
  <2> SUFFICES ASSUME NEW d \in data, d <= end
               PROVE  \E first \in d + 1..end : EmptyRun(data, first)
    BY <1>1 DEF Behind
  <2>1. d < ChunkStart(end) /\ d \in Nat
    BY ChunkDays
  <2>2. EmptyRun(data, ChunkStart(end))
    BY ScanTypes DEF EmptyRun, Chunk
  <2> QED
    BY <2>1, <2>2, ScanTypes
<1> QED
  BY <1>1, <1>2 DEF GoodScan, DaysBack, NewestFirst

(* if the oldest days of its chunk are,                                     *)
LEMMA RanOut ==
    ASSUME NEW data \in SUBSET Nat, NEW end \in Int, RunsOut(data, end)
    PROVE  GoodScan(data, end, <<Chunk(data, end)>>)
<1> DEFINE chunks == <<Chunk(data, end)>>
<1>1. FoundBy(chunks) = Chunk(data, end)
  BY DEF FoundBy
<1>2. DaysBack(data, end, chunks)
  <2>1. chunks \in Seq(SUBSET data)
    BY ChunkDays
  <2> QED
    BY <1>1, <2>1, ChunkDays DEF DaysBack
<1>3. Behind(data, end, chunks)
  <2> SUFFICES ASSUME NEW d \in data, d <= end, d \notin Chunk(data, end)
               PROVE  \E first \in d + 1..end : EmptyRun(data, first) /\ \A e \in Chunk(data, end) : first < e
    BY <1>1 DEF Behind
  <2>1. d < ChunkStart(end) /\ d \in Nat
    BY ChunkDays
  <2>2. EmptyRun(data, ChunkStart(end))
    BY DEF EmptyRun, RunsOut
  <2>3. ChunkStart(end) \notin data
    BY <2>2, ScanTypes DEF EmptyRun
  <2>4. \A e \in Chunk(data, end) : ChunkStart(end) < e
    <3> SUFFICES ASSUME NEW e \in Chunk(data, end) PROVE ChunkStart(end) < e
      OBVIOUS
    <3>1. e \in data /\ e \in Nat /\ ChunkStart(end) <= e
      BY ChunkDays
    <3>2. ChunkStart(end) # e /\ ChunkStart(end) \in Int
      BY <2>3, <3>1, ScanTypes
    <3> QED
      BY <3>1, <3>2
  <2> QED
    BY <2>1, <2>2, <2>4, ScanTypes
<1>4. NewestFirst(chunks)
  BY DEF NewestFirst
<1> QED
  BY <1>2, <1>3, <1>4 DEF GoodScan

(* and if the scan of what is older is.                                     *)
LEMMA ScansOn ==
    ASSUME NEW data \in SUBSET Nat, NEW end \in Int,
           NEW rest, GoodScan(data, ChunkStart(end) - 1, rest)
    PROVE  GoodScan(data, end, <<Chunk(data, end)>> \o rest)
<1> DEFINE chunk == Chunk(data, end)
           chunks == <<chunk>> \o rest
<1>1. rest \in Seq(SUBSET data) /\ chunk \in SUBSET data
  BY ChunkDays DEF GoodScan, DaysBack
<1> HIDE DEF chunk
<1>2. /\ chunks \in Seq(SUBSET data)
      /\ Len(chunks) = Len(rest) + 1
      /\ chunks[1] = chunk
      /\ \A i \in 1..Len(rest) : chunks[i + 1] = rest[i]
  BY <1>1
<1>3. /\ DOMAIN chunks = 1..Len(rest) + 1 /\ DOMAIN rest = 1..Len(rest) /\ Len(rest) \in Nat
      /\ \A i \in DOMAIN chunks : i # 1 => i - 1 \in DOMAIN rest /\ chunks[i] = rest[i - 1]
  BY <1>1, <1>2
<1> HIDE DEF chunks
<1>4. FoundBy(chunks) = chunk \cup FoundBy(rest)
  <2>1. ASSUME NEW d \in FoundBy(chunks) PROVE d \in chunk \cup FoundBy(rest)
    BY <2>1, <1>2, <1>3 DEF FoundBy
  <2>2. ASSUME NEW d \in FoundBy(rest) PROVE d \in FoundBy(chunks)
    <3>1. PICK i \in DOMAIN rest : d \in rest[i]
      BY <2>2 DEF FoundBy
    <3>2. i + 1 \in DOMAIN chunks /\ d \in chunks[i + 1]
      BY <3>1, <1>2, <1>3
    <3> QED
      BY <3>2 DEF FoundBy
  <2>3. ASSUME NEW d \in chunk PROVE d \in FoundBy(chunks)
    BY <2>3, <1>2, <1>3 DEF FoundBy
  <2> QED
    BY <2>1, <2>2, <2>3
<1>5. /\ \A d \in chunk : d \in Nat /\ ChunkStart(end) <= d /\ d <= end
      /\ \A d \in FoundBy(rest) : d \in Nat /\ d <= ChunkStart(end) - 1
  <2>1. \A d \in FoundBy(rest) : d \in Nat
    <3> SUFFICES ASSUME NEW i \in DOMAIN rest, NEW d \in rest[i] PROVE d \in Nat
      BY DEF FoundBy
    <3>1. rest[i] \in SUBSET data
      BY <1>1
    <3> QED
      BY <3>1
  <2> QED
    BY <2>1, ChunkDays DEF GoodScan, DaysBack, chunk
<1>6. DaysBack(data, end, chunks)
  <2>1. \A d \in chunk \cup FoundBy(rest) : d <= end
    BY <1>5, ScanTypes
  <2> QED
    BY <1>2, <1>4, <2>1 DEF DaysBack
<1>7. NewestFirst(chunks)
  <2> SUFFICES ASSUME NEW i \in DOMAIN chunks, NEW j \in DOMAIN chunks, i < j,
                      NEW d \in chunks[i], NEW e \in chunks[j]
               PROVE  e < d
    BY DEF NewestFirst
  <2>1. j - 1 \in DOMAIN rest /\ e \in rest[j - 1]
    BY <1>3
  <2>2. CASE i = 1
    <3>1. d \in chunk /\ e \in FoundBy(rest)
      BY <2>1, <2>2, <1>2 DEF FoundBy
    <3> QED
      BY <3>1, <1>5, ScanTypes
  <2>3. CASE i # 1
    BY <2>1, <2>3, <1>3 DEF GoodScan, NewestFirst
  <2> QED
    BY <2>2, <2>3
<1>8. Behind(data, end, chunks)
  <2> SUFFICES ASSUME NEW d \in data, d <= end, d \notin FoundBy(chunks)
               PROVE  \E first \in d + 1..end : EmptyRun(data, first) /\ \A e \in FoundBy(chunks) : first < e
    BY DEF Behind
  <2>1. d \in Nat /\ d <= ChunkStart(end) - 1 /\ d \notin FoundBy(rest)
    BY <1>4, ChunkDays, ScanTypes DEF chunk
  <2>2. PICK first \in d + 1..ChunkStart(end) - 1 :
            EmptyRun(data, first) /\ \A e \in FoundBy(rest) : first < e
    BY <2>1 DEF GoodScan, Behind
  <2>3. first \in d + 1..end /\ first < ChunkStart(end) /\ first \in Int
    BY <2>1, <2>2, ScanTypes
  <2>4. \A e \in chunk : first < e
    BY <2>3, <1>5, ScanTypes
  <2> QED
    BY <2>2, <2>3, <2>4, <1>4
<1> QED
  BY <1>6, <1>7, <1>8 DEF GoodScan, chunks, chunk

(* So every scan is good, the older ones first.                             *)
LEMMA EveryScanIsGood ==
    ASSUME NEW data \in SUBSET Nat, NEW end \in Int
    PROVE  GoodScan(data, end, Scan(data)[end])
<1> DEFINE good(e) == GoodScan(data, e, Scan(data)[e])
           Bad == {e \in Nat : ~good(e)}
<1>1. \A e \in Int : e < 0 => good(e)
  <2> SUFFICES ASSUME NEW e \in Int, e < 0 PROVE good(e)
    OBVIOUS
  <2>1. Chunk(data, e) = {}
    <3> SUFFICES ASSUME NEW d \in Chunk(data, e) PROVE FALSE
      OBVIOUS
    <3>1. d \in Nat /\ d <= e
      BY ChunkDays
    <3> QED
      BY <3>1
  <2> QED
    BY <2>1, NothingFound, NothingBefore, ScanIs
<1>2. Bad = {}
  <2> SUFFICES ASSUME Bad # {} PROVE FALSE
    OBVIOUS
  <2>1. PICK e \in Bad : \A b \in Bad : e <= b
    BY LeastNumber
  <2>2. e \in Int /\ ~good(e)
    OBVIOUS
  <2> DEFINE b == ChunkStart(e) - 1
  <2>3. b \in Int /\ b < e
    BY <2>2, ScanTypes
  <2>4. good(b)
    <3> HIDE DEF b, good
    <3>1. CASE b < 0
      BY <3>1, <2>3, <1>1
    <3>2. CASE b >= 0
      BY <3>2, <2>1, <2>2, <2>3
    <3> QED
      BY <2>3, <3>1, <3>2
  <2>5. CASE Chunk(data, e) = {}
    BY <2>2, <2>5, NothingFound, ScanIs DEF From
  <2>6. CASE Chunk(data, e) # {} /\ RunsOut(data, e)
    BY <2>2, <2>6, RanOut, ScanIs DEF From
  <2>7. CASE Chunk(data, e) # {} /\ ~RunsOut(data, e)
    BY <2>2, <2>4, <2>7, ScansOn, ScanIs DEF From
  <2> QED
    BY <2>5, <2>6, <2>7
<1> QED
  BY <1>1, <1>2

(* The scan of a history finds all but what a long gap hides, whatever days *)
(* have data and however long chunks and gaps are                           *)
(* (coordinator.py:985-1029).                                               *)
THEOREM ScanFindsAll ==
    ASSUME NEW data \in SUBSET Nat, NEW newest \in Int
    PROVE  FindsHistory(data, newest)
<1> DEFINE chunks == Scan(data)[newest]
<1>1. Chunks(data, newest) = chunks
  BY ChunksAreScan
<1>2. Found(data, newest) = FoundBy(chunks)
  BY <1>1 DEF Found, FoundBy
<1>3. GoodScan(data, newest, chunks)
  BY EveryScanIsGood
<1> HIDE DEF chunks
<1>4. FoundBy(chunks) \subseteq data
  BY <1>3 DEF GoodScan, DaysBack, FoundBy
<1> QED
  BY <1>1, <1>2, <1>3, <1>4 DEF FindsHistory, GoodScan, NewestFirst, Behind

-----------------------------------------------------------------------------
(* The facts about an installation. *)

(* The calendar is of finitely many days.                                   *)
LEMMA DaysAre == CalendarDays = 1..FirstDay[Len(MonthLengths) + 1] - 1 /\ FirstDay[Len(MonthLengths) + 1] - 1 \in Nat
<1>1. Len(MonthLengths) + 1 \in 1..Len(MonthLengths) + 1
  BY CalendarAssumption
<1>2. FirstDay[Len(MonthLengths) + 1] \in Nat
  BY <1>1, FirstDayIs
<1>3. FirstDay[Len(MonthLengths) + 1] # 0
  BY <1>1, <1>2, FirstDayIs, MonthsRise, CalendarAssumption
<1> QED
  BY <1>2, <1>3 DEF CalendarDays

(* A step of months leads to a later day of the calendar, or past its end   *)
(* (installation.py:135-139).                                               *)
LEMMA SameDayIs ==
    ASSUME NEW d \in CalendarDays, NEW m \in CalendarMonths
    PROVE  IsMonth(SameDay(d, m), m) /\ SameDay(d, m) \in CalendarDays
<1> DEFINE n == Len(MonthLengths)
           e == SameDay(d, m)
<1>1. /\ n \in Nat /\ m \in 1..n /\ FirstDay[m] \in Nat /\ FirstDay[m + 1] = FirstDay[m] + MonthLengths[m]
      /\ MonthLengths[m] \in 28..31 /\ FirstDay[m + 1] \in Nat /\ FirstDay[n + 1] \in Nat
  <2>1. n \in Nat /\ m \in 1..n /\ MonthLengths[m] \in 28..31
    BY CalendarAssumption DEF CalendarMonths
  <2> QED
    BY <2>1, FirstDayIs DEF CalendarMonths
<1>2. IsMonth(d, MonthOf[d]) /\ d \in Int
  BY MonthOfIs DEF CalendarDays
<1>3. /\ FirstDay[MonthOf[d]] \in Nat /\ FirstDay[MonthOf[d]] <= d
  <2>1. MonthOf[d] \in 1..n + 1 /\ FirstDay[MonthOf[d]] <= d
    BY <1>1, <1>2 DEF IsMonth, CalendarMonths
  <2> QED
    BY <2>1, FirstDayIs
<1>4. e \in Int /\ FirstDay[m] <= e /\ e < FirstDay[m + 1]
  <2> DEFINE off == Least(d - FirstDay[MonthOf[d]], MonthLengths[m] - 1)
  <2>1. d - FirstDay[MonthOf[d]] \in Nat
    BY <1>2, <1>3
  <2>2. MonthLengths[m] - 1 \in Nat
    BY <1>1
  <2>3. off \in Nat /\ off <= MonthLengths[m] - 1
    <3> HIDE <1>1, <1>2, <1>3
    <3> QED
      BY <2>1, <2>2 DEF Least
  <2>4. e = FirstDay[m] + off
    BY DEF SameDay
  <2> DEFINE one == FirstDay[m]
             next == FirstDay[m + 1]
             length == MonthLengths[m]
  <2>5. one \in Nat /\ length \in Nat /\ next = one + length /\ off <= length - 1 /\ e = one + off
    BY <1>1, <2>3, <2>4
  <2>6. off \in Nat
    BY <2>3
  <2> HIDE DEF off, e, one, next, length
  <2>7. e \in Int /\ one <= e /\ e < next
    BY <2>5, <2>6
  <2> QED
    BY <2>7 DEF one, next
<1>5. FirstDay[m + 1] <= FirstDay[n + 1]
  <2>1. CASE m = n
    BY <2>1, <1>1
  <2>2. CASE m # n
    <3>1. m + 1 \in 1..n + 1 /\ n + 1 \in 1..n + 1 /\ m + 1 < n + 1
      BY <2>2, <1>1
    <3> QED
      BY <3>1, <1>1, MonthsRise
  <2> QED
    BY <2>1, <2>2
<1>6. 1 <= FirstDay[m]
  <2>1. CASE m = 1
    BY <2>1, FirstDayIs
  <2>2. CASE m # 1
    <3>1. 1 \in 1..n + 1 /\ m \in 1..n + 1 /\ 1 < m
      BY <2>2, <1>1
    <3> QED
      BY <3>1, <1>1, MonthsRise, FirstDayIs
  <2> QED
    BY <2>1, <2>2
<1> HIDE DEF e
<1>7. e \in CalendarDays
  BY <1>1, <1>4, <1>5, <1>6 DEF CalendarDays
<1>8. IsMonth(e, m)
  BY <1>4 DEF IsMonth
<1> QED
  BY <1>7, <1>8 DEF e

(* Days of an earlier month are earlier.                                    *)
LEMMA EarlierMonth ==
    ASSUME NEW d \in CalendarDays, NEW e \in CalendarDays, NEW k, IsMonth(d, k), NEW m, IsMonth(e, m), k < m
    PROVE  d < e
<1>1. k \in Int /\ m \in Int
  BY DEF IsMonth, CalendarMonths
<1>2. d \in Int /\ e \in Int
  BY DEF CalendarDays
<1> SUFFICES ASSUME e <= d PROVE FALSE
  BY <1>2
<1>3. m <= k
  BY OneMonth
<1> QED
  BY <1>1, <1>3

LEMMA MonthsLater ==
    ASSUME NEW d \in CalendarDays, NEW months \in Nat \ {0}, AddMonths(d, months) # None
    PROVE  AddMonths(d, months) \in CalendarDays /\ d < AddMonths(d, months)
<1>1. MonthOf[d] + months \in CalendarMonths /\ AddMonths(d, months) = SameDay(d, MonthOf[d] + months)
  BY DEF AddMonths
<1>2. IsMonth(d, MonthOf[d]) /\ MonthOf[d] \in Nat /\ MonthOf[d] < MonthOf[d] + months
  BY MonthOfIs
<1> QED
  BY <1>1, <1>2, SameDayIs, EarlierMonth

(* The year before a day of reading begins before it.                       *)
LEMMA YearBeforeIs ==
    ASSUME NEW d \in CalendarDays, MonthOf[d] > 12
    PROVE  YearBefore(d) \in Int /\ YearBefore(d) < d
<1>1. IsMonth(d, MonthOf[d]) /\ MonthOf[d] \in Nat
  BY MonthOfIs
<1>2. MonthOf[d] - 12 \in CalendarMonths /\ MonthOf[d] - 12 < MonthOf[d]
  BY <1>1, CalendarAssumption DEF IsMonth, CalendarMonths
<1>3. YearBefore(d) \in CalendarDays /\ YearBefore(d) < d
  BY <1>1, <1>2, SameDayIs, EarlierMonth DEF YearBefore
<1> QED
  BY <1>3 DEF CalendarDays

(* Going on from a day to a later one until none follows ends somewhere,    *)
(* from every day of the calendar, the last days first.                     *)
Goes(last, following) ==
    following \in [1..last -> 1..last] /\ \A d \in 1..last : d <= following[d]

EndsAt(first, last, following, end) ==
    end = [d \in first..last |-> IF following[d] = d THEN d ELSE end[following[d]]]

LEMMA EndsExist ==
    ASSUME NEW last \in Nat, NEW following, Goes(last, following)
    PROVE  \E end : EndsAt(1, last, following, end)
<1> DEFINE Bad == {n \in Nat : n <= last /\ ~\E end : EndsAt(last - n + 1, last, following, end)}
<1>1. /\ DOMAIN following = 1..last
      /\ \A d \in 1..last : following[d] \in Int /\ d <= following[d] /\ following[d] <= last
  BY DEF Goes
<1>2. Bad = {}
  <2> SUFFICES ASSUME Bad # {} PROVE FALSE
    OBVIOUS
  <2>1. PICK n \in Bad : \A m \in Bad : n <= m
    BY LeastNumber
  <2> DEFINE day == last - n + 1
  <2>2. n \in Nat /\ n <= last /\ ~\E end : EndsAt(day, last, following, end)
    OBVIOUS
  <2>3. n # 0
    <3> SUFFICES ASSUME n = 0 PROVE FALSE
      OBVIOUS
    <3> DEFINE end == [d \in day..last |-> d]
    <3>1. day..last = {}
      BY <2>2
    <3>2. EndsAt(day, last, following, end)
      BY <3>1 DEF EndsAt
    <3> QED
      BY <2>2, <3>2
  <2>4. n - 1 \in Nat /\ n - 1 <= last /\ ~(n <= n - 1) /\ last - (n - 1) + 1 = day + 1
    BY <2>2, <2>3
  <2>5. PICK later : EndsAt(day + 1, last, following, later)
    <3>1. n - 1 \notin Bad
      BY <2>1, <2>4
    <3> QED
      BY <3>1, <2>4
  <2> DEFINE end == [d \in day..last |-> IF following[d] = d THEN d ELSE later[following[d]]]
  <2>6. \A d \in day + 1..last : later[d] = IF following[d] = d THEN d ELSE later[following[d]]
    BY <2>5 DEF EndsAt
  <2>7. day \in Int /\ 1 <= day /\ day <= last
    BY <2>2, <2>3
  <2> HIDE DEF day
  <2>8. ASSUME NEW d \in day..last
        PROVE  end[d] = IF following[d] = d THEN d ELSE end[following[d]]
    <3>1. CASE following[d] = d
      BY <3>1
    <3>2. CASE following[d] # d
      <4>1. following[d] \in day + 1..last /\ following[d] \in day..last
        BY <3>2, <1>1, <2>7
      <4>2. end[d] = later[following[d]]
        BY <3>2
      <4>3. end[following[d]] = later[following[d]]
        BY <4>1, <2>6
      <4> QED
        BY <3>2, <4>2, <4>3
    <3> QED
      BY <3>1, <3>2
  <2>9. EndsAt(day, last, following, end)
    <3>1. end = [d \in day..last |-> end[d]]
      OBVIOUS
    <3> HIDE DEF end
    <3> QED
      BY <3>1, <2>8 DEF EndsAt
  <2> QED
    BY <2>2, <2>9 DEF day
<1>3. last \in Nat /\ last <= last /\ last - last + 1 = 1
  OBVIOUS
<1> QED
  BY <1>2, <1>3

LEMMA EndsLater ==
    ASSUME NEW last \in Nat, NEW following, Goes(last, following), NEW end, EndsAt(1, last, following, end)
    PROVE  \A d \in 1..last : end[d] \in d..last
<1> DEFINE Bad == {n \in Nat : n < last /\ end[last - n] \notin last - n..last}
<1>1. \A d \in 1..last : following[d] \in Int /\ d <= following[d] /\ following[d] <= last
  BY DEF Goes
<1>2. \A d \in 1..last : end[d] = IF following[d] = d THEN d ELSE end[following[d]]
  BY DEF EndsAt
<1>3. Bad = {}
  <2> SUFFICES ASSUME Bad # {} PROVE FALSE
    OBVIOUS
  <2>1. PICK n \in Bad : \A m \in Bad : n <= m
    BY LeastNumber
  <2> DEFINE d == last - n
  <2>2. d \in 1..last /\ n \in Nat /\ end[d] \notin d..last
    OBVIOUS
  <2>3. following[d] # d /\ following[d] \in Int /\ d < following[d] /\ following[d] <= last
    BY <2>2, <1>1, <1>2
  <2> DEFINE m == last - following[d]
  <2>4. m \in Nat /\ m < last /\ ~(n <= m) /\ last - m = following[d]
    BY <2>2, <2>3
  <2>5. end[following[d]] \in following[d]..last
    BY <2>1, <2>4
  <2>6. end[d] = end[following[d]]
    BY <2>2, <2>3, <1>2
  <2> QED
    BY <2>2, <2>3, <2>5, <2>6
<1> SUFFICES ASSUME NEW d \in 1..last PROVE end[d] \in d..last
  OBVIOUS
<1>4. last - d \in Nat /\ last - d < last /\ last - (last - d) = d
  OBVIOUS
<1> QED
  BY <1>3, <1>4

(* So the start counted on to is a day of the calendar, not before the one  *)
(* it is counted from (installation.py:142-184).                            *)
LEMMA LastStartIs ==
    ASSUME NEW from \in CalendarDays, NEW months \in Nat \ {0}, NEW until \in Int
    PROVE  LastStart(from, months, until) \in CalendarDays /\ from <= LastStart(from, months, until)
<1> DEFINE last == FirstDay[Len(MonthLengths) + 1] - 1
           following == [d \in CalendarDays |->
                             IF AddMonths(d, months) = None THEN d
                             ELSE IF AddMonths(d, months) - 1 <= until THEN AddMonths(d, months) ELSE d]
           IsStart(start) == start = [d \in CalendarDays |->
                                 IF AddMonths(d, months) = None THEN d
                                 ELSE IF AddMonths(d, months) - 1 <= until THEN start[AddMonths(d, months)] ELSE d]
<1>1. CalendarDays = 1..last /\ last \in Nat
  BY DaysAre DEF CalendarDays
<1>2. \A d \in CalendarDays : /\ following[d] \in CalendarDays /\ d <= following[d]
                              /\ following[d] # d <=> /\ AddMonths(d, months) # None
                                                      /\ AddMonths(d, months) - 1 <= until
                              /\ following[d] # d => following[d] = AddMonths(d, months)
  <2> SUFFICES ASSUME NEW d \in CalendarDays
               PROVE  /\ following[d] \in CalendarDays /\ d <= following[d]
                      /\ following[d] # d <=> /\ AddMonths(d, months) # None
                                              /\ AddMonths(d, months) - 1 <= until
                      /\ following[d] # d => following[d] = AddMonths(d, months)
    OBVIOUS
  <2>1. d \in Int
    BY DEF CalendarDays
  <2>2. AddMonths(d, months) # None =>
            AddMonths(d, months) \in CalendarDays /\ AddMonths(d, months) \in Int /\ d < AddMonths(d, months)
    BY MonthsLater DEF CalendarDays
  <2> QED
    BY <2>1, <2>2
<1>3. following = [d \in CalendarDays |-> following[d]]
  OBVIOUS
<1> HIDE DEF following, last
<1>4. Goes(last, following)
  BY <1>1, <1>2, <1>3 DEF Goes
<1>5. \A start : IsStart(start) <=> EndsAt(1, last, following, start)
  <2> SUFFICES ASSUME NEW start
               PROVE  [d \in CalendarDays |->
                          IF AddMonths(d, months) = None THEN d
                          ELSE IF AddMonths(d, months) - 1 <= until THEN start[AddMonths(d, months)] ELSE d]
                      = [d \in CalendarDays |-> IF following[d] = d THEN d ELSE start[following[d]]]
    BY <1>1 DEF EndsAt
  <2> QED
    BY <1>2
<1>6. \E start : IsStart(start)
  BY <1>1, <1>4, <1>5, EndsExist
<1> DEFINE start == CHOOSE start : IsStart(start)
<1>7. LastStart(from, months, until) = start[from]
  BY DEF LastStart
<1>8. IsStart(start)
  <2> HIDE DEF IsStart
  <2> QED
    BY <1>6
<1>9. start[from] \in from..last
  <2> HIDE DEF IsStart, start
  <2> QED
    BY <1>1, <1>4, <1>5, <1>8, EndsLater
<1> HIDE DEF start
<1>10. from \in Int /\ 1 <= from
  BY <1>1
<1> QED
  BY <1>1, <1>7, <1>9, <1>10
(* A finite set of numbers has a greatest and a least.                      *)
LEMMA MaxIs ==
    ASSUME NEW S \in SUBSET Int, IsFiniteSet(S), S # {}
    PROVE  Max(S) \in S /\ \A d \in S : d <= Max(S)
<1> DEFINE rate == [d \in S |-> -d]
<1>1. \A d \in S : rate[d] \in Int
  OBVIOUS
<1>2. PICK m \in S : \A d \in S : rate[m] <= rate[d]
  <2> HIDE DEF rate
  <2> QED
    BY <1>1, LowestOf
<1>3. \A d \in S : m >= d
  BY <1>2
<1> QED
  BY <1>3 DEF Max

LEMMA MinIs ==
    ASSUME NEW S \in SUBSET Int, IsFiniteSet(S), S # {}
    PROVE  Min(S) \in S /\ \A d \in S : Min(S) <= d
<1> DEFINE rate == [d \in S |-> d]
<1>1. \A d \in S : rate[d] \in Int
  OBVIOUS
<1>2. PICK m \in S : \A d \in S : rate[m] <= rate[d]
  <2> HIDE DEF rate
  <2> QED
    BY <1>1, LowestOf
<1>3. \A d \in S : m <= d
  BY <1>2
<1> QED
  BY <1>3 DEF Min

(* What has no value makes no difference to a sum, and more days no less.   *)
LEMMA SumSame ==
    ASSUME NEW f, NEW A, NEW B, IsFiniteSet(A), IsFiniteSet(B), \A x \in A \cup B : f[x] \in Int,
           \A x \in (A \ B) \cup (B \ A) : f[x] = 0
    PROVE  SumOver(f, A) = SumOver(f, B)
<1>1. ASSUME NEW C, NEW D, IsFiniteSet(C), \A x \in C : f[x] \in Int, \A x \in C \ D : f[x] = 0
      PROVE  SumOver(f, C) = SumOver(f, C \cap D)
  <2>1. C = (C \cap D) \cup (C \ D) /\ (C \cap D) \cap (C \ D) = {}
    OBVIOUS
  <2>2. IsFiniteSet(C \cap D) /\ IsFiniteSet(C \ D)
    BY <1>1, FS_Subset
  <2>3. SumOver(f, C) = SumOver(f, C \cap D) + SumOver(f, C \ D)
    BY <1>1, <2>1, <2>2, SumUnion
  <2>4. SumOver(f, C \ D) = 0
    BY <1>1, <2>2, SumZeros
  <2>5. SumOver(f, C \cap D) \in Int
    BY <1>1, <2>2, SumInt
  <2> QED
    BY <2>3, <2>4, <2>5
<1>2. SumOver(f, A) = SumOver(f, A \cap B)
  BY <1>1
<1>3. SumOver(f, B) = SumOver(f, B \cap A)
  BY <1>1
<1>4. A \cap B = B \cap A
  OBVIOUS
<1>5. SumOver(f, A \cap B) = SumOver(f, B \cap A)
  BY <1>4, Zenon
<1> QED
  BY <1>2, <1>3, <1>5, Zenon

LEMMA SumMore ==
    ASSUME NEW f, NEW A, NEW B, IsFiniteSet(B), A \subseteq B, \A x \in B : f[x] \in Nat
    PROVE  /\ SumOver(f, A) \in Nat /\ SumOver(f, B) \in Nat /\ SumOver(f, B \ A) \in Nat
           /\ SumOver(f, B) = SumOver(f, A) + SumOver(f, B \ A)
<1>1. B = A \cup (B \ A) /\ A \cap (B \ A) = {}
  OBVIOUS
<1>2. IsFiniteSet(A) /\ IsFiniteSet(B \ A)
  BY FS_Subset
<1>3. SumOver(f, A \cup (B \ A)) = SumOver(f, A) + SumOver(f, B \ A)
  BY <1>1, <1>2, SumUnion
<1>4. SumOver(f, A) \in Nat /\ SumOver(f, B \ A) \in Nat /\ SumOver(f, B) \in Nat
  BY <1>2, SumNat
<1>5. SumOver(f, B) = SumOver(f, A \cup (B \ A))
  BY <1>1, Zenon
<1> QED
  BY <1>3, <1>4, <1>5, Zenon

LEMMA SumsAgree ==
    ASSUME NEW f, NEW g, NEW S, IsFiniteSet(S), \A x \in S : f[x] \in Int /\ g[x] = f[x]
    PROVE  SumOver(g, S) = SumOver(f, S)
<1> DEFINE zero == [x \in S |-> 0]
<1>1. \A x \in S : f[x] \in Int /\ zero[x] \in Int /\ g[x] = 1 * f[x] + zero[x] /\ zero[x] = 0
  OBVIOUS
<1> HIDE DEF zero
<1>2. SumOver(g, S) = 1 * SumOver(f, S) + SumOver(zero, S)
  BY <1>1, SumLinear
<1>3. SumOver(zero, S) = 0 /\ SumOver(f, S) \in Int
  BY <1>1, SumZeros, SumInt
<1> QED
  BY <1>2, <1>3

(* The day of reading is a day a year before which is in the calendar.      *)
LEMMA ReadingIs ==
    ASSUME NEW starts \in Seq(CalendarDays), starts # <<>> => HasYearBefore(starts[Len(starts)] - 1),
           NEW last \in CalendarDays \cup {None}, NEW until \in CalendarDays \cup {None},
           \A day \in {last, until} \ {None} : HasYearBefore(day),
           NEW months \in (Nat \ {0}) \cup {None}
    PROVE  LET reading == LatestReadingDay(starts, last, until, months)
           IN  reading # None => HasYearBefore(reading)
<1> DEFINE newest == starts[Len(starts)]
           read == IF starts = <<>> THEN {}
                   ELSE {newest - 1} \cup (IF months = None \/ until = None THEN {}
                                           ELSE {LastStart(newest, months, until) - 1})
           candidates == read \cup ({last} \ {None})
           reading == LatestReadingDay(starts, last, until, months)
<1>1. \A day \in CalendarDays : day \in Int
  BY DEF CalendarDays
<1>2. ASSUME starts # <<>> PROVE newest \in CalendarDays /\ newest - 1 \in CalendarDays /\ MonthOf[newest - 1] > 12
  <2>1. Len(starts) \in 1..Len(starts)
    BY <1>2
  <2> QED
    BY <1>2, <2>1 DEF HasYearBefore
<1>3. ASSUME starts # <<>>, months # None, until # None
      PROVE  HasYearBefore(LastStart(newest, months, until) - 1)
  <2> DEFINE start == LastStart(newest, months, until)
  <2>1. start \in CalendarDays /\ newest <= start
    BY <1>1, <1>2, <1>3, LastStartIs
  <2> HIDE DEF start, newest
  <2>2. start - 1 \in CalendarDays /\ newest - 1 <= start - 1
    BY <1>2, <1>3, <2>1, DaysAre
  <2>3. MonthOf[newest - 1] <= MonthOf[start - 1] /\ MonthOf[newest - 1] \in Nat /\ MonthOf[start - 1] \in Nat
    BY <1>2, <1>3, <2>2, MonthsInOrder, MonthOfIs
  <2> QED
    BY <1>2, <1>3, <2>2, <2>3 DEF HasYearBefore, start
<1>4. \A day \in candidates : HasYearBefore(day)
  BY <1>2, <1>3 DEF HasYearBefore
<1>5. IsFiniteSet(candidates)
  <2>1. candidates \subseteq {newest - 1} \cup {LastStart(newest, months, until) - 1} \cup {last}
    OBVIOUS
  <2>2. IsFiniteSet({newest - 1} \cup {LastStart(newest, months, until) - 1} \cup {last})
    BY FS_Singleton, FS_Union
  <2> QED
    BY <2>1, <2>2, FS_Subset
<1>6. reading = IF candidates = {} THEN until ELSE Max(candidates)
  BY DEF LatestReadingDay
<1> HIDE DEF candidates, reading
<1>7. CASE candidates = {}
  BY <1>6, <1>7 DEF reading
<1>8. CASE candidates # {}
  <2>1. candidates \in SUBSET Int
    BY <1>1, <1>4 DEF HasYearBefore
  <2> QED
    BY <1>4, <1>5, <1>6, <1>8, <2>1, MaxIs DEF reading
<1> QED
  BY <1>7, <1>8

(* The consumption stored up to a day.                                      *)
StoredUpTo(used, from, day) == {e \in DOMAIN used : from <= e /\ e <= day}

IsMetered(used, from, zeroes) ==
    /\ IsFiniteSet(DOMAIN used) /\ \A d \in DOMAIN used : d \in Int /\ used[d] \in Nat
    /\ from \in Int /\ IsFiniteSet(zeroes) /\ \A d \in zeroes : d \in Int /\ d < from

LEMMA SumsAre ==
    ASSUME NEW used, NEW from, NEW zeroes, IsMetered(used, from, zeroes)
    PROVE  LET sums == SumsOf(used, from, zeroes)
           IN  /\ IsFiniteSet(DOMAIN sums) /\ DOMAIN sums \in SUBSET Int
               /\ from \in DOMAIN sums /\ \A e \in DOMAIN used : from <= e => e \in DOMAIN sums
               /\ \A d \in DOMAIN sums : sums[d] = SumOver(used, StoredUpTo(used, from, d))
<1> DEFINE stored == {e \in DOMAIN used : from <= e}
           days == {from} \cup zeroes \cup stored
           sums == SumsOf(used, from, zeroes)
<1>1. sums = [d \in days |-> SumOver(used, StoredUpTo(used, from, d))]
  BY DEF SumsOf, SumOver, StoredUpTo
<1>2. IsFiniteSet(days)
  <2>1. IsFiniteSet(stored)
    BY FS_Subset DEF IsMetered
  <2> QED
    BY <2>1, FS_Singleton, FS_Union DEF IsMetered
<1>3. days \in SUBSET Int
  BY DEF IsMetered
<1> HIDE DEF sums
<1> QED
  BY <1>1, <1>2, <1>3 DEF sums

(* The sum on a day is of all stored up to it, also when none is stored on  *)
(* the day itself (installation.py:222-255).                                *)
LEMMA SumOnIs ==
    ASSUME NEW used, NEW from, NEW zeroes, IsMetered(used, from, zeroes), NEW day \in Int
    PROVE  SumOn(SumsOf(used, from, zeroes), day) = SumOver(used, StoredUpTo(used, from, day))
<1> DEFINE sums == SumsOf(used, from, zeroes)
           days == {d \in DOMAIN sums : d <= day}
<1>1. /\ IsFiniteSet(DOMAIN sums) /\ DOMAIN sums \in SUBSET Int
      /\ from \in DOMAIN sums /\ \A e \in DOMAIN used : from <= e => e \in DOMAIN sums
      /\ \A d \in DOMAIN sums : sums[d] = SumOver(used, StoredUpTo(used, from, d))
  BY SumsAre
<1>2. SumOn(sums, day) = IF days = {} THEN 0 ELSE sums[Max(days)]
  BY DEF SumOn
<1> HIDE DEF sums
<1>3. from \in Int /\ \A e \in DOMAIN used : e \in Int
  BY DEF IsMetered
<1>4. CASE days = {}
  <2>1. StoredUpTo(used, from, day) = {}
    BY <1>1, <1>3, <1>4 DEF StoredUpTo
  <2> QED
    BY <1>2, <1>4, <2>1, SumEmpty DEF sums
<1>5. CASE days # {}
  <2>1. IsFiniteSet(days) /\ days \in SUBSET Int
    BY <1>1, FS_Subset
  <2>2. Max(days) \in days /\ \A d \in days : d <= Max(days)
    BY <1>5, <2>1, MaxIs
  <2> DEFINE m == Max(days)
  <2>3. m \in DOMAIN sums /\ m \in Int /\ m <= day /\ \A d \in days : d <= m
    BY <2>1, <2>2
  <2>4. \A e \in DOMAIN used : from <= e /\ e <= day => e <= m
    BY <1>1, <2>3
  <2> HIDE DEF m
  <2>5. StoredUpTo(used, from, m) = StoredUpTo(used, from, day)
    BY <1>3, <2>3, <2>4 DEF StoredUpTo
  <2>6. sums[m] = SumOver(used, StoredUpTo(used, from, m))
    BY <1>1, <2>3
  <2> QED
    BY <1>2, <1>5, <2>5, <2>6 DEF m, sums
<1> QED
  BY <1>4, <1>5

(* From the first day of the statistics on there is a sum, before it there  *)
(* is none.                                                                 *)
LEMMA FirstDayOfIs ==
    ASSUME NEW used, NEW from, NEW zeroes, IsMetered(used, from, zeroes), NEW until \in Int,
           FirstDayOf(SumsOf(used, from, zeroes), until) # None
    PROVE  LET sums == SumsOf(used, from, zeroes)
               first == FirstDayOf(sums, until)
           IN  /\ first \in Int /\ from <= first /\ first <= until
               /\ \A d \in Int : IF d < first THEN SumOn(sums, d) = 0 ELSE SumOn(sums, d) > 0
<1> DEFINE sums == SumsOf(used, from, zeroes)
           days == {d \in DOMAIN sums : d <= until /\ sums[d] # 0}
           first == FirstDayOf(sums, until)
<1>1. /\ IsFiniteSet(DOMAIN sums) /\ DOMAIN sums \in SUBSET Int
      /\ \A d \in DOMAIN sums : sums[d] = SumOver(used, StoredUpTo(used, from, d))
  BY SumsAre
<1>2. first = IF days = {} THEN None ELSE Min(days)
  BY DEF FirstDayOf
<1>3. \A d \in Int : SumOn(sums, d) = SumOver(used, StoredUpTo(used, from, d))
  BY SumOnIs
<1>4. first # None
  OBVIOUS
<1>5. \A d : SumOn(sums, d) = IF {e \in DOMAIN sums : e <= d} = {} THEN 0
                              ELSE sums[Max({e \in DOMAIN sums : e <= d})]
  BY DEF SumOn
<1> HIDE DEF sums, first
<1>6. /\ IsFiniteSet(DOMAIN used) /\ \A d \in DOMAIN used : d \in Int /\ used[d] \in Nat
      /\ from \in Int
  BY DEF IsMetered
<1>7. IsFiniteSet(days) /\ days \in SUBSET Int /\ days # {}
  BY <1>1, <1>2, <1>4, FS_Subset
<1>8. first \in days /\ \A d \in days : first <= d
  BY <1>2, <1>7, MinIs
<1>9. first \in Int /\ first \in DOMAIN sums /\ first <= until /\ sums[first] # 0
  BY <1>7, <1>8
<1>10. from <= first
  <2> SUFFICES ASSUME ~(from <= first) PROVE FALSE
    OBVIOUS
  <2>1. StoredUpTo(used, from, first) = {}
    BY <1>6, <1>9 DEF StoredUpTo
  <2> QED
    BY <1>1, <1>9, <2>1, SumEmpty
<1>11. ASSUME NEW d \in Int, d < first PROVE SumOn(sums, d) = 0
  <2> DEFINE before == {e \in DOMAIN sums : e <= d}
             m == Max(before)
  <2> SUFFICES ASSUME before # {} PROVE sums[m] = 0
    BY <1>5
  <2>1. IsFiniteSet(before) /\ before \in SUBSET Int
    BY <1>1, FS_Subset
  <2>2. m \in before
    BY <2>1, MaxIs
  <2>3. m \in DOMAIN sums /\ m \in Int /\ m <= d
    BY <2>1, <2>2
  <2> HIDE DEF m
  <2>4. m \notin days
    BY <1>8, <1>9, <1>11, <2>3
  <2>5. m <= until
    BY <1>9, <1>11, <2>3
  <2> QED
    BY <2>3, <2>4, <2>5
<1>12. ASSUME NEW d \in Int, ~(d < first) PROVE SumOn(sums, d) > 0
  <2>1. StoredUpTo(used, from, first) \subseteq StoredUpTo(used, from, d)
    BY <1>6, <1>9, <1>12 DEF StoredUpTo
  <2>2. IsFiniteSet(StoredUpTo(used, from, d)) /\ \A e \in StoredUpTo(used, from, d) : used[e] \in Nat
    BY <1>6, FS_Subset DEF StoredUpTo
  <2> DEFINE less == SumOver(used, StoredUpTo(used, from, first))
             sum == SumOver(used, StoredUpTo(used, from, d))
             more == SumOver(used, StoredUpTo(used, from, d) \ StoredUpTo(used, from, first))
  <2>3. less \in Nat /\ sum \in Nat /\ more \in Nat /\ sum = less + more
    BY <2>1, <2>2, SumMore
  <2>4. less # 0
    BY <1>1, <1>9
  <2>5. SumOn(sums, d) = sum
    BY <1>3, <1>12
  <2> HIDE DEF less, sum, more
  <2> QED
    BY <2>3, <2>4, <2>5
<1> QED
  BY <1>9, <1>10, <1>11, <1>12 DEF first, sums

(* What is stored of the days after one and up to another is the            *)
(* difference of their sums.                                                *)
UsedIn(used, since, until) == {d \in DOMAIN used : since < d /\ d <= until}
Missed(used, from, since, until) == {d \in UsedIn(used, since, until) : d < from}
Unsummed(used, sums, days) == DOMAIN used \cap {d \in days : SumOn(sums, d) = 0}

LEMMA ConsumptionIs ==
    ASSUME NEW used, NEW from, NEW zeroes, IsMetered(used, from, zeroes),
           NEW since \in Int, NEW until \in Int, since < until
    PROVE  /\ Consumption(SumsOf(used, from, zeroes), since, until) \in Nat
           /\ SumOver(used, Missed(used, from, since, until)) \in Nat
           /\ SumOver(used, UsedIn(used, since, until))
                  = Consumption(SumsOf(used, from, zeroes), since, until)
                        + SumOver(used, Missed(used, from, since, until))
<1> DEFINE all == UsedIn(used, since, until)
           missed == Missed(used, from, since, until)
           later == StoredUpTo(used, from, until)
           sooner == StoredUpTo(used, from, since)
           kwh == Consumption(SumsOf(used, from, zeroes), since, until)
<1>1. /\ IsFiniteSet(DOMAIN used) /\ \A d \in DOMAIN used : d \in Int /\ used[d] \in Nat
      /\ from \in Int
  BY DEF IsMetered
<1>2. kwh = SumOver(used, later) - SumOver(used, sooner)
  BY SumOnIs DEF Consumption
<1>3. /\ IsFiniteSet(later) /\ \A d \in later : used[d] \in Nat
      /\ IsFiniteSet(all) /\ \A d \in all : used[d] \in Nat
  BY <1>1, FS_Subset DEF StoredUpTo, UsedIn, Missed
<1>4. sooner \subseteq later /\ missed \subseteq all /\ later \ sooner = all \ missed
  BY <1>1 DEF StoredUpTo, UsedIn, Missed
<1> HIDE DEF all, missed, later, sooner
<1>5. /\ SumOver(used, later) \in Nat /\ SumOver(used, sooner) \in Nat /\ SumOver(used, later \ sooner) \in Nat
      /\ SumOver(used, later) = SumOver(used, sooner) + SumOver(used, later \ sooner)
  BY <1>3, <1>4, SumMore
<1>6. /\ SumOver(used, all) \in Nat /\ SumOver(used, missed) \in Nat /\ SumOver(used, all \ missed) \in Nat
      /\ SumOver(used, all) = SumOver(used, missed) + SumOver(used, all \ missed)
  BY <1>3, <1>4, SumMore
<1>7. SumOver(used, later \ sooner) = SumOver(used, all \ missed)
  BY <1>4, Zenon
<1> HIDE DEF kwh
<1>8. kwh = SumOver(used, all \ missed)
  <2> DEFINE a == SumOver(used, later)
             b == SumOver(used, sooner)
             c == SumOver(used, later \ sooner)
  <2>1. a \in Nat /\ b \in Nat /\ c \in Nat /\ a = b + c /\ kwh = a - b
    BY <1>2, <1>5
  <2>2. c = SumOver(used, all \ missed)
    BY <1>7
  <2> HIDE DEF a, b, c
  <2> QED
    BY <2>1, <2>2
<1>9. kwh \in Nat /\ SumOver(used, missed) \in Nat /\ SumOver(used, all) = kwh + SumOver(used, missed)
  <2> DEFINE a == SumOver(used, all)
             b == SumOver(used, missed)
  <2>1. kwh \in Nat /\ a \in Nat /\ b \in Nat /\ a = b + kwh
    BY <1>6, <1>8
  <2> HIDE DEF a, b
  <2>2. a = kwh + b
    BY <2>1
  <2> QED
    BY <2>1, <2>2 DEF a, b
<1> QED
  BY <1>9 DEF all, missed, kwh

Slack(assembled) == assembled..assembled + NEW_CONNECTION_STATISTICS_SLACK - 1

LEMMA SlackIs ==
    ASSUME NEW assembled \in Int, NEW d \in Int
    PROVE  d \in Slack(assembled) <=> assembled <= d /\ d <= assembled + 6
  BY DEF Slack, NEW_CONNECTION_STATISTICS_SLACK

(* What is assumed of the consumption of a household.                      *)
IsHousehold(x) ==
    /\ IsMetered(x.used, x.from, x.zeroes)
    /\ x.dashboard.assembled \in Int \cup {None}
    /\ x.dashboard.assembled # None /\ ~x.dashboard.earlier
           => \A d \in DOMAIN x.used : d < x.dashboard.assembled => x.used[d] = 0

(* Of a connection that is new, only days of slack with no sum yet are      *)
(* missed (installation.py:187-219).                                        *)
LEMMA NewConnectionMisses ==
    ASSUME NEW x, IsHousehold(x), NEW since \in Int, NEW until \in Int,
           FirstDayOf(SumsOf(x.used, x.from, x.zeroes), until) # None,
           NewConnection(x.dashboard, since, FirstDayOf(SumsOf(x.used, x.from, x.zeroes), until))
    PROVE  SumOver(x.used, Missed(x.used, x.from, since, until))
               = SumOver(x.used, Unsummed(x.used, SumsOf(x.used, x.from, x.zeroes), Slack(x.dashboard.assembled)))
<1> DEFINE used == x.used
           from == x.from
           dashboard == x.dashboard
           sums == SumsOf(used, from, x.zeroes)
           first == FirstDayOf(sums, until)
           assembled == dashboard.assembled
           slack == Slack(assembled)
           missed == Missed(used, from, since, until)
           unsummed == Unsummed(used, sums, slack)
<1>1. /\ IsMetered(used, from, x.zeroes)
      /\ IsFiniteSet(DOMAIN used) /\ \A d \in DOMAIN used : d \in Int /\ used[d] \in Nat
      /\ from \in Int
      /\ assembled \in Int \cup {None}
      /\ assembled # None /\ ~dashboard.earlier => \A d \in DOMAIN used : d < assembled => used[d] = 0
  BY DEF IsMetered, IsHousehold
<1>2. /\ first \in Int /\ from <= first /\ first <= until
      /\ \A d \in Int : (d < first => SumOn(sums, d) = 0) /\ (SumOn(sums, d) = 0 => d < first)
  <2>1. /\ first \in Int /\ from <= first /\ first <= until
        /\ \A d \in Int : IF d < first THEN SumOn(sums, d) = 0 ELSE SumOn(sums, d) > 0
    BY <1>1, FirstDayOfIs
  <2> HIDE DEF sums, first
  <2> QED
    BY <2>1
<1>3. /\ assembled \in Int /\ since < assembled /\ first <= assembled + 7
      /\ \A d \in DOMAIN used : d < assembled => used[d] = 0
      /\ \A d \in Int : d \in slack <=> assembled <= d /\ d <= assembled + 6
  <2>1. /\ assembled \in Int /\ assembled # None /\ ~dashboard.earlier
        /\ since < assembled /\ first <= assembled + 7
    BY <1>1 DEF NewConnection, NEW_CONNECTION_STATISTICS_SLACK
  <2>2. assembled \in Int
    BY <2>1
  <2>3. \A d \in Int : d \in slack <=> assembled <= d /\ d <= assembled + 6
    BY <2>2, SlackIs
  <2>4. \A d \in DOMAIN used : d < assembled => used[d] = 0
    BY <1>1, <2>1
  <2> QED
    BY <2>1, <2>3, <2>4
<1>4. \A d \in Int : SumOn(sums, d) = SumOver(used, StoredUpTo(used, from, d))
  BY <1>1, SumOnIs
<1> HIDE DEF used, from, dashboard, sums, first, slack, assembled
<1>5. IsFiniteSet(missed) /\ IsFiniteSet(unsummed) /\ \A d \in missed \cup unsummed : d \in Int /\ used[d] \in Int
  BY <1>1, FS_Subset DEF UsedIn, Missed, Unsummed
<1>6. ASSUME NEW d \in missed, d \notin unsummed PROVE used[d] = 0
  <2>1. d \in DOMAIN used /\ d \in Int /\ since < d /\ d <= until /\ d < from
    BY <1>1 DEF UsedIn, Missed
  <2>2. SumOn(sums, d) = 0 /\ d <= assembled + 6
    BY <1>1, <1>2, <1>3, <2>1
  <2>3. d \notin slack
    BY <1>6, <2>1, <2>2 DEF Unsummed
  <2>4. d < assembled
    BY <1>3, <2>1, <2>2, <2>3
  <2> QED
    BY <1>3, <2>1, <2>4
<1>7. ASSUME NEW d \in unsummed, d \notin missed PROVE used[d] = 0
  <2>1. d \in DOMAIN used /\ d \in Int /\ used[d] \in Nat /\ d \in slack /\ SumOn(sums, d) = 0
    BY <1>1 DEF Unsummed
  <2>2. since < d /\ d < first
    <3>1. assembled <= d
      BY <1>3, <2>1
    <3> QED
      BY <1>2, <1>3, <2>1, <3>1
  <2>3. d \in UsedIn(used, since, until)
    BY <1>2, <2>1, <2>2 DEF UsedIn
  <2>4. from <= d
    BY <1>1, <1>7, <2>1, <2>3 DEF Missed
  <2> DEFINE stored == StoredUpTo(used, from, d)
  <2>5. d \in stored /\ IsFiniteSet(stored) /\ \A e \in stored : used[e] \in Nat
    BY <1>1, <2>1, <2>4, FS_Subset DEF StoredUpTo
  <2>6. SumOver(used, stored) = 0
    BY <1>4, <2>1
  <2> HIDE DEF stored
  <2>7. SumOver(used, stored) = used[d] + SumOver(used, stored \ {d})
    BY <2>5, SumRemove
  <2>8. SumOver(used, stored \ {d}) \in Nat
    BY <2>5, FS_RemoveElement, SumNat
  <2> QED
    BY <2>1, <2>6, <2>7, <2>8
<1> HIDE DEF missed, unsummed
<1>8. SumOver(used, missed) = SumOver(used, unsummed)
  BY <1>5, <1>6, <1>7, SumSame
<1> QED
  BY <1>8 DEF missed, unsummed, slack, assembled, sums, used, from, dashboard

(* The bracket of what is detected is that of all that was used, but for    *)
(* what is missed of a new connection.                                      *)
LEMMA BracketIsInt ==
    ASSUME NEW kwh \in Nat, NEW more \in Nat
    PROVE  CapacityBracket(kwh) = Len(CAPACITY_BRACKET_LIMITS_KWH)
               => CapacityBracket(kwh + more) = CapacityBracket(kwh)
<1>1. Len(CAPACITY_BRACKET_LIMITS_KWH) = 3 /\ CAPACITY_BRACKET_LIMITS_KWH[1] = 500
      /\ CAPACITY_BRACKET_LIMITS_KWH[2] = 1200 /\ CAPACITY_BRACKET_LIMITS_KWH[3] = 2800
  BY DEF CAPACITY_BRACKET_LIMITS_KWH
<1>2. \A n \in Nat : CapacityBracket(n) = IF n < 500 THEN 0 ELSE IF n <= 1200 THEN 1 ELSE IF n <= 2800 THEN 2 ELSE 3
  <2> SUFFICES ASSUME NEW n \in Nat
               PROVE  CapacityBracket(n) = IF n < 500 THEN 0 ELSE IF n <= 1200 THEN 1 ELSE IF n <= 2800 THEN 2 ELSE 3
    OBVIOUS
  <2>1. CapacityBracket(n) = CASE n < 500 -> 0 [] n \in 500..1200 -> 1 [] n \in 1201..2800 -> 2 [] OTHER -> 3
    <3>1. 1200 + 1 = 1201
      OBVIOUS
    <3> QED
      BY <1>1, <3>1 DEF CapacityBracket
  <2>2. n \in 500..1200 <=> 500 <= n /\ n <= 1200
    OBVIOUS
  <2>3. n \in 1201..2800 <=> 1200 < n /\ n <= 2800
    OBVIOUS
  <2> QED
    BY <2>1, <2>2, <2>3
<1>3. kwh + more \in Nat /\ kwh <= kwh + more
  OBVIOUS
<1> HIDE DEF CAPACITY_BRACKET_LIMITS_KWH
<1> QED
  BY <1>1, <1>2, <1>3

(* A detected period has as many months as one of the spans it is detected  *)
(* from (installation.py:97-132).                                           *)
SpansOf(starts, previous, last) ==
    (IF Len(starts) < 2 THEN {} ELSE {starts[Len(starts)] - starts[Len(starts) - 1]})
        \cup (IF previous = None THEN {} ELSE {last - previous})

LEMMA MonthsAre ==
    ASSUME NEW starts \in Seq(CalendarDays), NEW previous \in CalendarDays \cup {None},
           NEW last \in CalendarDays \cup {None}
    PROVE  /\ DetectBillingMonths(starts, previous, last) \in (Nat \ {0}) \cup {None}
           /\ DetectBillingMonths(starts, previous, last) # None
                  => \E days \in SpansOf(starts, previous, last) :
                         IsWhole(days) /\ WholeMonths(days) = DetectBillingMonths(starts, previous, last)
<1> DEFINE n == Len(starts)
           spans == SpansOf(starts, previous, last)
           months == DetectBillingMonths(starts, previous, last)
<1>1. \A days : PeriodMonths(days) \in (Nat \ {0}) \cup {None}
  BY DEF PeriodMonths, BILLING_PERIOD_MONTHS
<1>2. \A day \in CalendarDays : day \in Int
  BY DEF CalendarDays
<1> HIDE DEF months
<1> DEFINE portal == IF n < 2 THEN None ELSE PeriodMonths(starts[n] - starts[n - 1])
           typed == IF previous = None \/ last = None THEN None
                    ELSE IF previous < last THEN PeriodMonths(last - previous) ELSE None
<1>3. months = IF portal # None THEN portal ELSE typed
  BY DEF DetectBillingMonths, months
<1>4. CASE portal # None
  <2>1. n \in Nat /\ ~(n < 2) /\ starts[n] \in CalendarDays /\ starts[n - 1] \in CalendarDays
    BY <1>4
  <2> DEFINE days == starts[n] - starts[n - 1]
  <2>2. days \in Int /\ days \in spans /\ months = PeriodMonths(days) /\ PeriodMonths(days) # None
    BY <1>2, <1>3, <1>4, <2>1 DEF SpansOf
  <2> HIDE DEF days
  <2> QED
    BY <1>1, <2>2, DetectedPeriodIsCharged DEF months
<1>5. CASE portal = None /\ typed # None
  <2>1. previous # None /\ last # None /\ previous \in CalendarDays /\ last \in CalendarDays
    BY <1>5
  <2> DEFINE days == last - previous
  <2>2. days \in Int /\ days \in spans /\ months = PeriodMonths(days) /\ PeriodMonths(days) # None
    BY <1>2, <1>3, <1>5, <2>1 DEF SpansOf
  <2> HIDE DEF days
  <2> QED
    BY <1>1, <2>2, DetectedPeriodIsCharged DEF months
<1>6. CASE portal = None /\ typed = None
  BY <1>3, <1>6 DEF months
<1> QED
  BY <1>4, <1>5, <1>6 DEF months

(* The year that is detected is that of all that was used, or in its        *)
(* bracket, or of a new connection and misses only days of slack.           *)
AnnualRight(x, since, reading, sums, first, kwh, actual) ==
    /\ YearComplete(x.dashboard, since, first)
           => \/ CapacityBracket(kwh) = CapacityBracket(actual)
              \/ /\ ~x.dashboard.earlier /\ x.dashboard.assembled # None /\ x.dashboard.assembled > since
                 /\ actual - kwh = SumOver(x.used, Unsummed(x.used, sums, Slack(x.dashboard.assembled)))
    /\ first # None /\ CapacityBracket(kwh) = Len(CAPACITY_BRACKET_LIMITS_KWH)
           => CapacityBracket(kwh) = CapacityBracket(actual)

LEMMA AnnualIs ==
    ASSUME NEW x, IsHousehold(x), NEW since \in Int, NEW reading \in Int, since < reading
    PROVE  AnnualRight(x, since, reading, SumsOf(x.used, x.from, x.zeroes),
                       FirstDayOf(SumsOf(x.used, x.from, x.zeroes), reading),
                       Consumption(SumsOf(x.used, x.from, x.zeroes), since, reading),
                       SumOver(x.used, DOMAIN x.used \cap since + 1..reading))
<1> DEFINE used == x.used
           from == x.from
           dashboard == x.dashboard
           sums == SumsOf(x.used, x.from, x.zeroes)
           first == FirstDayOf(sums, reading)
           kwh == Consumption(sums, since, reading)
           actual == SumOver(used, DOMAIN used \cap since + 1..reading)
           all == UsedIn(used, since, reading)
           missed == Missed(used, from, since, reading)
           more == SumOver(used, missed)
<1>1. IsMetered(used, from, x.zeroes) /\ \A d \in DOMAIN used : d \in Int
  BY DEF IsMetered, IsHousehold
<1>2. DOMAIN used \cap since + 1..reading = all
  BY <1>1 DEF UsedIn
<1>3. kwh \in Nat /\ more \in Nat /\ actual = kwh + more
  <2>1. /\ kwh \in Nat /\ more \in Nat
        /\ SumOver(used, all) = kwh + more
    BY <1>1, ConsumptionIs
  <2>2. actual = SumOver(used, all)
    BY <1>2, Zenon
  <2> HIDE DEF kwh, more, actual
  <2> QED
    BY <2>1, <2>2
<1> HIDE DEF more, actual, kwh, first
<1>4. first # None /\ CapacityBracket(kwh) = Len(CAPACITY_BRACKET_LIMITS_KWH)
          => CapacityBracket(kwh) = CapacityBracket(actual)
  BY <1>3, BracketIsInt
<1>5. ASSUME first # None, first <= since PROVE CapacityBracket(kwh) = CapacityBracket(actual)
  <2>1. first \in Int /\ from <= first /\ from \in Int
    BY <1>1, <1>5, FirstDayOfIs DEF IsMetered, first
  <2>2. missed = {}
    BY <1>1, <1>5, <2>1 DEF UsedIn, Missed
  <2>3. more = 0
    BY <2>2, SumEmpty DEF more
  <2>4. kwh \in Nat /\ actual = kwh + more
    BY <1>3
  <2>5. actual = kwh
    BY <2>3, <2>4
  <2> QED
    BY <2>5, Zenon
<1>6. ASSUME first # None, NewConnection(dashboard, since, first)
      PROVE  /\ ~dashboard.earlier /\ dashboard.assembled # None /\ dashboard.assembled > since
             /\ actual - kwh = SumOver(used, Unsummed(used, sums, Slack(dashboard.assembled)))
  <2>1. /\ ~dashboard.earlier /\ dashboard.assembled # None /\ dashboard.assembled > since
    BY <1>6 DEF NewConnection
  <2>2. more = SumOver(used, Unsummed(used, sums, Slack(dashboard.assembled)))
    BY <1>6, NewConnectionMisses DEF more, first
  <2>3. kwh \in Nat /\ more \in Nat /\ actual = kwh + more
    BY <1>3
  <2>4. actual - kwh = more
    BY <2>3
  <2> QED
    BY <2>1, <2>2, <2>4
<1>7. AnnualRight(x, since, reading, sums, first, kwh, actual)
  BY <1>4, <1>5, <1>6 DEF YearComplete, AnnualRight
<1> QED
  BY <1>7 DEF first, kwh, actual

(* A year of which only some days are stored: no more than all of it.       *)
YearOf(used, since, until) == SumOver(used, DOMAIN used \cap since + 1..until)

StoredPart(x) == [used |-> Stored(x), from |-> x.from, zeroes |-> x.zeroes, dashboard |-> x.dashboard]

LEMMA StoredIsMetered ==
    ASSUME NEW x, IsHousehold(x)
    PROVE  IsHousehold(StoredPart(x))
<1> DEFINE days == DOMAIN x.used \ x.gaps
<1>1. Stored(x) = [d \in days |-> x.used[d]]
  BY DEF Stored, Restrict
<1>2. days \subseteq DOMAIN x.used /\ IsFiniteSet(days)
  BY FS_Subset DEF IsHousehold, IsMetered
<1> QED
  BY <1>1, <1>2 DEF IsHousehold, IsMetered, StoredPart

LEMMA StoredIsLess ==
    ASSUME NEW x, IsHousehold(x), NEW since \in Int, NEW until \in Int
    PROVE  /\ YearOf(Stored(x), since, until) \in Nat
           /\ \E more \in Nat : YearOf(x.used, since, until) = YearOf(Stored(x), since, until) + more
<1> DEFINE stored == Stored(x)
           some == DOMAIN stored \cap since + 1..until
           all == DOMAIN x.used \cap since + 1..until
<1>1. stored = [d \in DOMAIN x.used \ x.gaps |-> x.used[d]]
  BY DEF Stored, Restrict
<1>2. some \subseteq all /\ IsFiniteSet(all) /\ \A d \in all : x.used[d] \in Nat
  BY <1>1, FS_Subset DEF IsHousehold, IsMetered
<1>3. \A d \in some : stored[d] = x.used[d]
  BY <1>1
<1> HIDE DEF some, all, stored
<1>4. IsFiniteSet(some)
  BY <1>2, FS_Subset
<1>5. SumOver(stored, some) = SumOver(x.used, some)
  BY <1>2, <1>3, <1>4, SumsAgree
<1>6. /\ SumOver(x.used, some) \in Nat /\ SumOver(x.used, all \ some) \in Nat
      /\ SumOver(x.used, all) = SumOver(x.used, some) + SumOver(x.used, all \ some)
  BY <1>2, SumMore
<1> QED
  BY <1>5, <1>6 DEF YearOf, some, all, stored

-----------------------------------------------------------------------------
(* The hours of days. *)

(* The days follow each other, each as long as it is.                       *)
LEMMA DayStartIs ==
    /\ DayStart[1] = 0 /\ \A d \in 1..Len(DayLengths) + 1 : DayStart[d] \in Nat
    /\ \A d \in Days : DayStart[d + 1] = DayStart[d] + DayLengths[d]
<1>1. Len(DayLengths) \in Nat /\ \A d \in 1..Len(DayLengths) : DayLengths[d] \in Nat
  <2>1. Len(DayLengths) \in Nat /\ \A d \in 1..Len(DayLengths) : DayLengths[d] \in {ShortDay, HoursPerDay, LongDay}
    BY HoursAssumption
  <2>2. ShortDay \in Nat /\ HoursPerDay \in Nat /\ LongDay \in Nat
    BY HoursAssumption DEF ShortDay, LongDay
  <2> QED
    BY <2>1, <2>2
<1>2. DayStart = RunningSum(Len(DayLengths), 0, DayLengths)
  BY DEF DayStart, RunningSum, IsRunning
<1> QED
  BY <1>1, <1>2, Running DEF Days

LEMMA LengthsAre ==
    /\ Len(DayLengths) \in Nat /\ HoursPerDay \in Nat /\ HoursPerDay > 2
    /\ \A d \in Days : /\ d \in 1..Len(DayLengths) + 1 /\ d + 1 \in 1..Len(DayLengths) + 1
                       /\ DayLengths[d] \in Nat /\ DayLengths[d] >= HoursPerDay - 1 /\ DayLengths[d] >= 2
                       /\ DayLengths[d] <= HoursPerDay + 1
<1>1. /\ Len(DayLengths) \in Nat /\ HoursPerDay \in Nat /\ HoursPerDay > 2
      /\ \A d \in Days : DayLengths[d] \in {ShortDay, HoursPerDay, LongDay}
  BY HoursAssumption DEF Days
<1> QED
  BY <1>1 DEF ShortDay, LongDay, Days

(* The hours of a day are those of no other.                                *)
LEMMA DaysRise ==
    ASSUME NEW c \in Days, NEW d \in Days, c < d
    PROVE  DayStart[c + 1] <= DayStart[d]
<1> DEFINE Bad == {k \in Nat : k \in Days /\ c < k /\ ~(DayStart[c + 1] <= DayStart[k])}
<1>1. \A k \in Days : /\ k \in Nat /\ DayStart[k] \in Nat /\ DayStart[k + 1] \in Nat
                      /\ DayStart[k] <= DayStart[k + 1]
  <2> SUFFICES ASSUME NEW k \in Days
               PROVE  /\ k \in Nat /\ DayStart[k] \in Nat /\ DayStart[k + 1] \in Nat
                      /\ DayStart[k] <= DayStart[k + 1]
    OBVIOUS
  <2>1. k \in Nat /\ DayStart[k] \in Nat /\ DayStart[k + 1] \in Nat /\ DayLengths[k] \in Nat
    BY DayStartIs, LengthsAre DEF Days
  <2>2. DayStart[k + 1] = DayStart[k] + DayLengths[k]
    BY DayStartIs
  <2> QED
    BY <2>1, <2>2
<1> SUFFICES ASSUME Bad # {} PROVE FALSE
  BY <1>1
<1>2. PICK k \in Bad : \A m \in Bad : k <= m
  BY LeastNumber
<1>3. k \in Days /\ c < k /\ c \in Nat /\ k \in Nat
  BY <1>1
<1>4. CASE k = c + 1
  BY <1>1, <1>3, <1>4
<1>5. CASE k # c + 1
  <2>1. k - 1 \in Days /\ c < k - 1 /\ k - 1 \in Nat /\ ~(k <= k - 1) /\ (k - 1) + 1 = k
    BY <1>3, <1>5 DEF Days
  <2>2. DayStart[c + 1] <= DayStart[k - 1]
    BY <1>2, <2>1
  <2>3. DayStart[k - 1] <= DayStart[k] /\ DayStart[k - 1] \in Nat /\ DayStart[k] \in Nat /\ DayStart[c + 1] \in Nat
    BY <1>1, <1>3, <2>1
  <2> QED
    BY <2>2, <2>3
<1> QED
  BY <1>4, <1>5

LEMMA HoursApart ==
    ASSUME NEW c \in Days, NEW d \in Days, NEW h, h \in HoursOf(c), h \in HoursOf(d)
    PROVE  c = d
<1>1. /\ c \in Nat /\ d \in Nat /\ h \in Int
      /\ DayStart[c] \in Nat /\ DayStart[d] \in Nat /\ DayStart[c + 1] \in Nat /\ DayStart[d + 1] \in Nat
      /\ DayStart[c] <= h /\ h < DayStart[c + 1] /\ DayStart[d] <= h /\ h < DayStart[d + 1]
  BY DayStartIs, LengthsAre DEF Days, HoursOf
<1>2. ~(c < d)
  BY <1>1, DaysRise
<1>3. ~(d < c)
  BY <1>1, DaysRise
<1> QED
  BY <1>1, <1>2, <1>3

(* Sequences with one more at the end.                                      *)
LEMMA Appended ==
    ASSUME NEW V, NEW s \in Seq(V), NEW e \in V
    PROVE  /\ Append(s, e) \in Seq(V) /\ Len(s) \in Nat /\ Len(Append(s, e)) = Len(s) + 1
           /\ Append(s, e)[Len(s) + 1] = e
           /\ \A j \in 1..Len(s) : Append(s, e)[j] = s[j]
  OBVIOUS

LEMMA IsSequence ==
    ASSUME NEW V, NEW n \in Nat, NEW s, s = [j \in 1..n |-> s[j]], \A j \in 1..n : s[j] \in V
    PROVE  s \in Seq(V) /\ Len(s) = n
<1>1. s \in [1..n -> V]
  OBVIOUS
<1> QED
  BY <1>1

LEMMA SameSequence ==
    ASSUME NEW V, NEW s \in Seq(V), NEW t \in Seq(V), Len(s) = Len(t), \A j \in 1..Len(s) : s[j] = t[j]
    PROVE  s = t
  OBVIOUS

LEMMA Joined ==
    ASSUME NEW V, NEW s \in Seq(V), NEW t \in Seq(V)
    PROVE  /\ s \o t \in Seq(V) /\ Len(s) \in Nat /\ Len(t) \in Nat /\ Len(s \o t) = Len(s) + Len(t)
           /\ \A j \in 1..Len(s) : (s \o t)[j] = s[j]
           /\ \A j \in 1..Len(t) : (s \o t)[Len(s) + j] = t[j]
           /\ <<>> \in Seq(V) /\ s \o <<>> = s /\ <<>> \o s = s
<1>1. s \o t \in Seq(V) /\ Len(s) \in Nat /\ Len(t) \in Nat /\ Len(s \o t) = Len(s) + Len(t)
  OBVIOUS
<1>2. \A j \in 1..Len(s) : (s \o t)[j] = s[j]
  OBVIOUS
<1>3. \A j \in 1..Len(t) : (s \o t)[Len(s) + j] = t[j]
  OBVIOUS
<1>4. <<>> \in Seq(V)
  OBVIOUS
<1>5. s \o <<>> = s
  OBVIOUS
<1>6. <<>> \o s = s
  OBVIOUS
<1> QED
  BY <1>1, <1>2, <1>3, <1>4, <1>5, <1>6

IsJoined(V, s, t) ==
    /\ s \o t \in Seq(V) /\ Len(s \o t) = Len(s) + Len(t)
    /\ \A j \in 1..Len(s) : (s \o t)[j] = s[j]
    /\ \A j \in 1..Len(t) : (s \o t)[Len(s) + j] = t[j]

LEMMA JoinedAre ==
    ASSUME NEW V, NEW s \in Seq(V), NEW t \in Seq(V)
    PROVE  IsJoined(V, s, t)
  BY Joined DEF IsJoined

AppendsToJoined(s, t, e) == Append(s \o t, e) = s \o Append(t, e)

LEMMA JoinAppended ==
    ASSUME NEW V, NEW s \in Seq(V), NEW t \in Seq(V), NEW e \in V
    PROVE  AppendsToJoined(s, t, e)
<1> DEFINE a == Append(s \o t, e)
           b == s \o Append(t, e)
<1>1. a \in Seq(V) /\ b \in Seq(V)
  OBVIOUS
<1>2. Len(a) = Len(s) + Len(t) + 1 /\ Len(b) = Len(s) + Len(t) + 1 /\ Len(s) \in Nat /\ Len(t) \in Nat
  OBVIOUS
<1>3. ASSUME NEW j \in 1..Len(a) PROVE a[j] = b[j]
  <2>1. CASE j <= Len(s)
    <3>1. j \in 1..Len(s) /\ j \in 1..Len(s \o t)
      BY <1>2, <2>1
    <3> QED
      BY <3>1
  <2>2. CASE Len(s) < j /\ j <= Len(s) + Len(t)
    <3>1. j - Len(s) \in 1..Len(t) /\ j \in 1..Len(s) + Len(t) /\ j = Len(s) + (j - Len(s))
      BY <1>2, <2>2
    <3> DEFINE k == j - Len(s)
    <3>2. (s \o t)[Len(s) + k] = t[k] /\ k \in 1..Len(t)
      BY <3>1, Joined
    <3>3. Append(t, e)[k] = t[k] /\ k \in 1..Len(Append(t, e)) /\ Append(t, e) \in Seq(V)
      BY <3>1, Appended
    <3>4. b[Len(s) + k] = Append(t, e)[k]
      BY <3>3, Joined
    <3>5. s \o t \in Seq(V) /\ Len(s \o t) = Len(s) + Len(t)
      BY Joined
    <3>6. a[j] = (s \o t)[j]
      BY <3>1, <3>5, Appended
    <3> QED
      BY <3>1, <3>2, <3>3, <3>4, <3>6
  <2>3. CASE j = Len(s) + Len(t) + 1
    <3>1. s \o t \in Seq(V) /\ Len(s \o t) = Len(s) + Len(t)
      BY Joined
    <3>2. a[j] = e
      BY <2>3, <3>1, Appended
    <3>3. Append(t, e)[Len(t) + 1] = e /\ Append(t, e) \in Seq(V) /\ Len(t) + 1 \in 1..Len(Append(t, e))
      BY <1>2, Appended
    <3>4. b[Len(s) + (Len(t) + 1)] = Append(t, e)[Len(t) + 1]
      BY <3>3, Joined
    <3> QED
      BY <1>2, <2>3, <3>2, <3>3, <3>4
  <2> QED
    BY <1>2, <2>1, <2>2, <2>3
<1> HIDE DEF a, b
<1>4. a = b
  BY <1>1, <1>2, <1>3, SameSequence
<1> QED
  BY <1>4 DEF a, b, AppendsToJoined

(* The slots kept are worked out one slot after the other.                  *)
Begins(slot, hours) == slot.end # NoTime /\ SlotStart(slot) \in hours

Keeps(f, slots, hours) ==
    /\ f[0] = <<>>
    /\ \A i \in 1..Len(slots) :
           f[i] = IF Begins(slots[i], hours) THEN Append(f[i - 1], slots[i]) ELSE f[i - 1]

LEMMA KeptIs ==
    ASSUME NEW V, NEW slots \in Seq(V), NEW hours
    PROVE  \E f \in [0..Len(slots) -> Seq(V)] : Keeps(f, slots, hours) /\ Kept(slots, hours) = f[Len(slots)]
<1> DEFINE n == Len(slots)
           step == [p \in (1..n) \X Seq(V) |-> IF Begins(slots[p[1]], hours) THEN Append(p[2], slots[p[1]]) ELSE p[2]]
           IsKept(f) == f = [i \in 0..n |-> IF i = 0 THEN <<>>
                                            ELSE IF Begins(slots[i], hours) THEN Append(f[i - 1], slots[i])
                                            ELSE f[i - 1]]
           f == CHOOSE f : IsKept(f)
<1>1. n \in Nat /\ \A i \in 1..n : slots[i] \in V
  OBVIOUS
<1>2. /\ step \in Steps(n, Seq(V))
      /\ \A i \in 1..n, v \in Seq(V) :
             step[<<i, v>>] = IF Begins(slots[i], hours) THEN Append(v, slots[i]) ELSE v
  <2> HIDE DEF n
  <2>1. \A p \in (1..n) \X Seq(V) : p[1] \in 1..n /\ p[2] \in Seq(V) /\ Append(p[2], slots[p[1]]) \in Seq(V)
    BY <1>1
  <2>2. step \in Steps(n, Seq(V))
    BY <2>1 DEF Steps
  <2>3. \A i \in 1..n, v \in Seq(V) : <<i, v>> \in (1..n) \X Seq(V)
    OBVIOUS
  <2> QED
    BY <2>2, <2>3
<1> HIDE DEF step
<1>3. PICK l : Follows(n, Seq(V), <<>>, step, l)
  <2>1. <<>> \in Seq(V)
    OBVIOUS
  <2> QED
    BY <1>1, <1>2, <2>1, Recursion
<1>4. /\ l \in [0..n -> Seq(V)] /\ l[0] = <<>>
      /\ \A i \in 1..n : l[i] = IF Begins(slots[i], hours) THEN Append(l[i - 1], slots[i]) ELSE l[i - 1]
  <2>1. l \in [0..n -> Seq(V)] /\ l[0] = <<>> /\ \A i \in 1..n : l[i] = step[<<i, l[i - 1]>>]
    BY <1>3 DEF Follows
  <2>2. \A i \in 1..n : l[i - 1] \in Seq(V)
    BY <1>1, <2>1
  <2> QED
    BY <2>1, <2>2, <1>2
<1> HIDE DEF n
<1>5. IsKept(l)
  <2>1. \A i \in 0..n : l[i] = IF i = 0 THEN <<>>
                               ELSE IF Begins(slots[i], hours) THEN Append(l[i - 1], slots[i])
                               ELSE l[i - 1]
    <3> SUFFICES ASSUME NEW i \in 0..n
                 PROVE  l[i] = IF i = 0 THEN <<>>
                               ELSE IF Begins(slots[i], hours) THEN Append(l[i - 1], slots[i])
                               ELSE l[i - 1]
      OBVIOUS
    <3>1. CASE i = 0
      BY <1>4, <3>1
    <3>2. CASE i # 0
      <4>1. i \in 1..n
        BY <1>1, <3>2
      <4>2. l[i] = IF Begins(slots[i], hours) THEN Append(l[i - 1], slots[i]) ELSE l[i - 1]
        BY <1>4, <4>1
      <4> QED
        BY <3>2, <4>2
    <3> QED
      BY <3>1, <3>2
  <2>2. l = [i \in 0..n |-> l[i]]
    BY <1>4
  <2> QED
    BY <2>1, <2>2
<1>6. IsKept(f)
  <2> HIDE DEF IsKept
  <2> QED
    BY <1>5
<1> HIDE DEF f
<1>7. Keeps(f, slots, hours)
  <2>1. \A i \in 0..n : f[i] = IF i = 0 THEN <<>>
                               ELSE IF Begins(slots[i], hours) THEN Append(f[i - 1], slots[i])
                               ELSE f[i - 1]
    BY <1>6
  <2> QED
    BY <1>1, <2>1 DEF Keeps, n
<1>8. f \in [0..n -> Seq(V)]
  <2> DEFINE Bad == {i \in Nat : i <= n /\ f[i] \notin Seq(V)}
  <2> SUFFICES ASSUME NEW w \in 0..n, w \in Bad PROVE FALSE
    BY <1>1, <1>6
  <2>1. PICK i \in Bad : \A j \in Bad : i <= j
    BY LeastNumber
  <2>2. i # 0
    <3>1. f[0] = <<>> /\ <<>> \in Seq(V)
      BY <1>7 DEF Keeps
    <3>2. f[i] \notin Seq(V)
      OBVIOUS
    <3> QED
      BY <3>1, <3>2
  <2>3. i \in 1..n /\ i - 1 \in Nat /\ i - 1 <= n /\ ~(i <= i - 1)
    BY <1>1, <2>2
  <2>4. f[i - 1] \in Seq(V)
    BY <2>1, <2>3
  <2>5. f[i] = IF Begins(slots[i], hours) THEN Append(f[i - 1], slots[i]) ELSE f[i - 1]
    BY <1>7, <2>3 DEF Keeps, n
  <2>6. f[i] \in Seq(V)
    BY <1>1, <2>3, <2>4, <2>5
  <2> QED
    BY <2>6
<1>9. Kept(slots, hours) = f[n]
  BY DEF Kept, Begins, f, n
<1> QED
  BY <1>7, <1>8, <1>9 DEF n

(* All from one on, when those before it begin in other hours.              *)
LEMMA KeptSuffix ==
    ASSUME NEW V, NEW slots \in Seq(V), NEW hours, NEW m \in 0..Len(slots),
           \A i \in 1..Len(slots) : Begins(slots[i], hours) <=> m < i
    PROVE  /\ Kept(slots, hours) \in Seq(V) /\ Len(Kept(slots, hours)) = Len(slots) - m
           /\ \A j \in 1..Len(slots) - m : Kept(slots, hours)[j] = slots[m + j]
<1> DEFINE n == Len(slots)
<1>1. PICK f \in [0..n -> Seq(V)] : Keeps(f, slots, hours) /\ Kept(slots, hours) = f[n]
  BY KeptIs
<1>2. n \in Nat /\ m \in Nat /\ m <= n /\ \A i \in 1..n : slots[i] \in V
  OBVIOUS
<1>3. /\ f[0] = <<>>
      /\ \A i \in 1..n : f[i] = IF m < i THEN Append(f[i - 1], slots[i]) ELSE f[i - 1]
  BY <1>1 DEF Keeps
<1> DEFINE Good(i) == IF i <= m THEN f[i] = <<>>
                      ELSE Len(f[i]) = i - m /\ \A j \in 1..i - m : f[i][j] = slots[m + j]
           Bad == {i \in Nat : i <= n /\ ~Good(i)}
<1> HIDE DEF n
<1>4. Bad = {}
  <2> SUFFICES ASSUME Bad # {} PROVE FALSE
    OBVIOUS
  <2>1. PICK i \in Bad : \A j \in Bad : i <= j
    BY LeastNumber
  <2>2. i \in Nat /\ i <= n /\ ~Good(i)
    OBVIOUS
  <2> HIDE DEF Bad, Good
  <2>3. i # 0
    BY <1>2, <1>3, <2>2 DEF Good
  <2>4. i \in 1..n /\ i - 1 \in Nat /\ i - 1 <= n /\ ~(i <= i - 1)
    BY <1>2, <2>2, <2>3
  <2>5. Good(i - 1)
    BY <2>1, <2>4 DEF Bad
  <2>6. CASE i <= m
    BY <1>2, <1>3, <2>2, <2>4, <2>5, <2>6 DEF Good
  <2>7. CASE m < i
    <3>1. f[i] = Append(f[i - 1], slots[i]) /\ f[i - 1] \in Seq(V) /\ slots[i] \in V
      <4>1. i - 1 \in 0..n
        BY <1>2, <2>4
      <4>2. f[i - 1] \in Seq(V)
        BY <4>1
      <4>3. f[i] = Append(f[i - 1], slots[i])
        BY <1>3, <2>4, <2>7
      <4>4. slots[i] \in V
        BY <1>2, <2>4
      <4> QED
        BY <4>2, <4>3, <4>4
    <3>5. /\ Len(f[i - 1]) \in Nat /\ Len(f[i]) = Len(f[i - 1]) + 1 /\ f[i][Len(f[i - 1]) + 1] = slots[i]
          /\ \A j \in 1..Len(f[i - 1]) : f[i][j] = f[i - 1][j]
      BY <3>1, Appended
    <3>2. Len(f[i - 1]) = (i - 1) - m /\ \A j \in 1..(i - 1) - m : f[i - 1][j] = slots[m + j]
      <4>1. CASE i - 1 <= m
        <5>1. f[i - 1] = <<>> /\ i - 1 = m
          BY <1>2, <2>4, <2>5, <2>7, <4>1 DEF Good
        <5> QED
          BY <1>2, <2>4, <5>1
      <4>2. CASE ~(i - 1 <= m)
        BY <2>5, <4>2 DEF Good
      <4> QED
        BY <4>1, <4>2
    <3>3. Len(f[i]) = i - m
      BY <1>2, <2>4, <3>5, <3>2
    <3>4. ASSUME NEW j \in 1..i - m PROVE f[i][j] = slots[m + j]
      <4>1. CASE j = i - m
        <5>1. Len(f[i - 1]) + 1 = i - m /\ m + (i - m) = i
          BY <1>2, <2>4, <3>2
        <5> QED
          BY <3>5, <4>1, <5>1
      <4>2. CASE j # i - m
        <5>1. j \in 1..(i - 1) - m
          BY <1>2, <2>4, <4>2
        <5>2. f[i][j] = f[i - 1][j]
          BY <3>5, <3>2, <5>1
        <5> QED
          BY <3>2, <5>1, <5>2
      <4> QED
        BY <4>1, <4>2
    <3> QED
      BY <1>2, <2>2, <2>7, <3>3, <3>4 DEF Good
  <2> QED
    BY <1>2, <2>4, <2>6, <2>7
<1>5. Good(n) /\ f[n] \in Seq(V)
  <2> HIDE DEF Good
  <2>1. n \in 0..n /\ n \in Nat /\ n <= n
    BY <1>2
  <2>2. Good(n)
    BY <1>4, <2>1
  <2>3. f[n] \in Seq(V)
    BY <2>1
  <2> QED
    BY <2>2, <2>3
<1>6. CASE m = n
  BY <1>1, <1>2, <1>5, <1>6 DEF n
<1>7. CASE m # n
  BY <1>1, <1>2, <1>5, <1>7 DEF n
<1> QED
  BY <1>6, <1>7

BeginAfter(slots, hours, m) == \A i \in 1..Len(slots) : Begins(slots[i], hours) <=> m < i
KeepsAfter(V, slots, hours, m) ==
    /\ Kept(slots, hours) \in Seq(V) /\ Len(Kept(slots, hours)) = Len(slots) - m
    /\ \A j \in 1..Len(slots) - m : Kept(slots, hours)[j] = slots[m + j]

LEMMA KeptSuffixIs ==
    ASSUME NEW V, NEW slots \in Seq(V), NEW hours, NEW m \in 0..Len(slots), BeginAfter(slots, hours, m)
    PROVE  KeepsAfter(V, slots, hours, m)
  BY KeptSuffix DEF BeginAfter, KeepsAfter

LEMMA KeptAll ==
    ASSUME NEW V, NEW slots \in Seq(V), NEW hours, \A i \in 1..Len(slots) : Begins(slots[i], hours)
    PROVE  Kept(slots, hours) = slots
<1> DEFINE kept == Kept(slots, hours)
<1>1. 0 \in 0..Len(slots) /\ \A i \in 1..Len(slots) : Begins(slots[i], hours) <=> 0 < i
  OBVIOUS
<1>2. /\ kept \in Seq(V) /\ Len(kept) = Len(slots) - 0
      /\ \A j \in 1..Len(slots) - 0 : kept[j] = slots[0 + j]
  BY <1>1, KeptSuffix
<1> HIDE DEF kept
<1>3. Len(kept) = Len(slots) /\ \A j \in 1..Len(slots) : kept[j] = slots[j]
  BY <1>2
<1>4. kept = slots
  BY <1>2, <1>3
<1> QED
  BY <1>4 DEF kept

LEMMA KeptNone ==
    ASSUME NEW V, NEW slots \in Seq(V), NEW hours, \A i \in 1..Len(slots) : ~Begins(slots[i], hours)
    PROVE  Kept(slots, hours) = <<>>
<1> DEFINE n == Len(slots)
           kept == Kept(slots, hours)
<1>1. n \in 0..n /\ \A i \in 1..n : Begins(slots[i], hours) <=> n < i
  OBVIOUS
<1>2. kept \in Seq(V) /\ Len(kept) = n - n
  BY <1>1, KeptSuffix
<1> HIDE DEF kept
<1>3. kept = <<>>
  BY <1>2
<1> QED
  BY <1>3 DEF kept

(* What is kept of two sequences in a row.                                  *)
KeepsJoined(s, t, hours) == Kept(s \o t, hours) = Kept(s, hours) \o Kept(t, hours)

LEMMA KeptCat ==
    ASSUME NEW V, NEW s \in Seq(V), NEW t \in Seq(V), NEW hours
    PROVE  KeepsJoined(s, t, hours)
<1> DEFINE all == s \o t
           m == Len(s)
           n == Len(t)
<1>1. m \in Nat /\ n \in Nat /\ all \in Seq(V) /\ Len(all) = m + n
  OBVIOUS
<1>2. /\ \A i \in 1..m : all[i] = s[i] /\ s[i] \in V
      /\ \A j \in 1..n : all[m + j] = t[j] /\ t[j] \in V
  OBVIOUS
<1> HIDE DEF all
<1>3. PICK f \in [0..m -> Seq(V)] : Keeps(f, s, hours) /\ Kept(s, hours) = f[m]
  BY KeptIs
<1>4. PICK g \in [0..n -> Seq(V)] : Keeps(g, t, hours) /\ Kept(t, hours) = g[n]
  BY KeptIs
<1>5. PICK h \in [0..m + n -> Seq(V)] : Keeps(h, all, hours) /\ Kept(all, hours) = h[m + n]
  BY <1>1, KeptIs
<1>6. /\ f[0] = <<>> /\ g[0] = <<>> /\ h[0] = <<>>
      /\ \A i \in 1..m : f[i] = IF Begins(s[i], hours) THEN Append(f[i - 1], s[i]) ELSE f[i - 1]
      /\ \A i \in 1..n : g[i] = IF Begins(t[i], hours) THEN Append(g[i - 1], t[i]) ELSE g[i - 1]
      /\ \A i \in 1..m + n : h[i] = IF Begins(all[i], hours) THEN Append(h[i - 1], all[i]) ELSE h[i - 1]
  BY <1>1, <1>3, <1>4, <1>5 DEF Keeps
<1> HIDE DEF m, n
<1>7. \A i \in 0..m : h[i] = f[i]
  <2> DEFINE Bad == {i \in Nat : i <= m /\ h[i] # f[i]}
  <2> SUFFICES ASSUME NEW w \in 0..m, w \in Bad PROVE FALSE
    BY <1>1
  <2>1. PICK i \in Bad : \A j \in Bad : i <= j
    BY LeastNumber
  <2>2. i \in Nat /\ i <= m /\ h[i] # f[i]
    OBVIOUS
  <2>3. i # 0
    BY <1>6, <2>2
  <2>4. i \in 1..m /\ i \in 1..m + n /\ i - 1 \in Nat /\ i - 1 <= m /\ ~(i <= i - 1)
    BY <1>1, <2>2, <2>3
  <2>5. h[i - 1] = f[i - 1]
    BY <2>1, <2>4
  <2>6. all[i] = s[i]
    BY <1>2, <2>4
  <2> HIDE DEF Bad
  <2> QED
    BY <1>6, <2>2, <2>4, <2>5, <2>6
<1>8. \A j \in 0..n : h[m + j] = f[m] \o g[j]
  <2> DEFINE Bad == {j \in Nat : j <= n /\ h[m + j] # f[m] \o g[j]}
  <2> SUFFICES ASSUME NEW w \in 0..n, h[m + w] # f[m] \o g[w] PROVE FALSE
    OBVIOUS
  <2>0. w \in Bad
    <3>1. w \in Nat /\ w <= n
      BY <1>1
    <3> QED
      BY <3>1, Zenon
  <2>1. PICK j \in Bad : \A k \in Bad : j <= k
    BY <2>0, LeastNumber
  <2>2. j \in Nat /\ j <= n /\ h[m + j] # f[m] \o g[j]
    OBVIOUS
  <2>3. f[m] \in Seq(V)
    BY <1>1, <1>3
  <2>4. j # 0
    <3> SUFFICES ASSUME j = 0 PROVE FALSE
      OBVIOUS
    <3>1. h[m + 0] = f[m] /\ f[m] \o <<>> = f[m]
      BY <1>1, <1>7, <2>3
    <3> QED
      BY <1>6, <2>2, <3>1
  <2>5. j \in 1..n /\ m + j \in 1..m + n /\ j - 1 \in Nat /\ j - 1 <= n /\ ~(j <= j - 1) /\ (m + j) - 1 = m + (j - 1)
    BY <1>1, <2>2, <2>4
  <2>6. h[m + (j - 1)] = f[m] \o g[j - 1]
    BY <2>1, <2>5
  <2>7. all[m + j] = t[j] /\ t[j] \in V
    BY <1>2, <2>5
  <2>8. g[j - 1] \in Seq(V)
    BY <1>1, <1>4, <2>5
  <2> HIDE DEF Bad
  <2>9. Append(f[m] \o g[j - 1], t[j]) = f[m] \o Append(g[j - 1], t[j])
    <3>1. AppendsToJoined(f[m], g[j - 1], t[j])
      BY <2>3, <2>7, <2>8, JoinAppended
    <3> QED
      BY <3>1 DEF AppendsToJoined
  <2>10. h[m + j] = IF Begins(t[j], hours) THEN Append(f[m] \o g[j - 1], t[j]) ELSE f[m] \o g[j - 1]
    BY <1>6, <2>5, <2>6, <2>7
  <2>11. g[j] = IF Begins(t[j], hours) THEN Append(g[j - 1], t[j]) ELSE g[j - 1]
    BY <1>6, <2>5
  <2> QED
    BY <2>2, <2>9, <2>10, <2>11
<1>9. n \in 0..n
  BY <1>1
<1>10. h[m + n] = f[m] \o g[n]
  BY <1>8, <1>9
<1>11. Kept(all, hours) = h[m + n] /\ Kept(s, hours) = f[m] /\ Kept(t, hours) = g[n]
  BY <1>3, <1>4, <1>5
<1>12. Kept(all, hours) = Kept(s, hours) \o Kept(t, hours)
  BY <1>10, <1>11
<1> QED
  BY <1>12 DEF all, KeepsJoined

(* A sequence of sequences in a row, one after the other.                   *)
IsFlat(f, seqs) ==
    f = [i \in 1..Len(seqs) |-> IF i = 1 THEN seqs[i] ELSE f[i - 1] \o seqs[i]]
Flat(seqs) == CHOOSE f : IsFlat(f, seqs)

LEMMA FlattenIs ==
    ASSUME NEW V, NEW seqs \in Seq(Seq(V)), Len(seqs) > 0
    PROVE  /\ FlattenSeq(seqs) = Flat(seqs)[Len(seqs)] /\ Flat(seqs) \in [1..Len(seqs) -> Seq(V)]
           /\ Flat(seqs)[1] = seqs[1]
           /\ \A i \in 2..Len(seqs) : Flat(seqs)[i] = Flat(seqs)[i - 1] \o seqs[i]
<1> DEFINE n == Len(seqs)
           f == Flat(seqs)
           step == [p \in (1..n) \X Seq(V) |-> p[2] \o seqs[p[1]]]
<1>1. n \in Nat /\ n > 0 /\ \A i \in 1..n : seqs[i] \in Seq(V)
  OBVIOUS
<1>2. step \in Steps(n, Seq(V)) /\ \A i \in 1..n, v \in Seq(V) : step[<<i, v>>] = v \o seqs[i]
  <2> HIDE DEF n
  <2>1. \A p \in (1..n) \X Seq(V) : p[1] \in 1..n /\ p[2] \in Seq(V) /\ p[2] \o seqs[p[1]] \in Seq(V)
    BY <1>1
  <2>2. step \in Steps(n, Seq(V))
    BY <2>1 DEF Steps
  <2>3. \A i \in 1..n, v \in Seq(V) : <<i, v>> \in (1..n) \X Seq(V)
    OBVIOUS
  <2> QED
    BY <2>2, <2>3
<1> HIDE DEF step
<1>3. PICK l : Follows(n, Seq(V), <<>>, step, l)
  <2>1. <<>> \in Seq(V)
    OBVIOUS
  <2> QED
    BY <1>1, <1>2, <2>1, Recursion
<1>4. l \in [0..n -> Seq(V)] /\ l[0] = <<>> /\ \A i \in 1..n : l[i] = l[i - 1] \o seqs[i]
  <2>1. l \in [0..n -> Seq(V)] /\ l[0] = <<>> /\ \A i \in 1..n : l[i] = step[<<i, l[i - 1]>>]
    BY <1>3 DEF Follows
  <2>2. \A i \in 1..n : i - 1 \in 0..n
    BY <1>1
  <2>3. \A i \in 1..n : l[i - 1] \in Seq(V)
    BY <2>1, <2>2
  <2> QED
    BY <2>1, <2>3, <1>2
<1> DEFINE g == [i \in 1..n |-> l[i]]
<1> HIDE DEF n
<1>5. \A i \in 1..n : g[i] = IF i = 1 THEN seqs[i] ELSE g[i - 1] \o seqs[i]
  <2> SUFFICES ASSUME NEW i \in 1..n PROVE l[i] = IF i = 1 THEN seqs[i] ELSE g[i - 1] \o seqs[i]
    OBVIOUS
  <2>1. CASE i = 1
    <3>4. 1 \in 1..n /\ 1 - 1 = 0
      BY <1>1
    <3>1. l[1] = l[1 - 1] \o seqs[1] /\ seqs[1] \in Seq(V)
      BY <1>1, <1>4, <3>4
    <3>2. <<>> \o seqs[1] = seqs[1]
      BY <3>1, Joined
    <3>3. l[1] = seqs[1]
      BY <1>4, <3>4, <3>1, <3>2
    <3> QED
      BY <2>1, <3>3
  <2>2. CASE i # 1
    <3>1. i - 1 \in 1..n
      BY <1>1, <2>2
    <3>2. g[i - 1] = l[i - 1]
      BY <3>1
    <3>3. l[i] = l[i - 1] \o seqs[i]
      BY <1>4
    <3> QED
      BY <2>2, <3>2, <3>3
  <2> QED
    BY <2>1, <2>2
<1>6. IsFlat(g, seqs)
  <2>1. g = [i \in 1..n |-> g[i]]
    OBVIOUS
  <2> HIDE DEF g
  <2> QED
    BY <1>5, <2>1 DEF IsFlat, n
<1> HIDE DEF g
<1>7. IsFlat(f, seqs)
  BY <1>6 DEF Flat
<1> HIDE DEF f
<1>8. DOMAIN f = 1..n /\ \A i \in 1..n : f[i] = IF i = 1 THEN seqs[i] ELSE f[i - 1] \o seqs[i]
  BY <1>7 DEF IsFlat, n
<1>9. f[1] = seqs[1] /\ \A i \in 2..n : f[i] = f[i - 1] \o seqs[i]
  <2>1. 1 \in 1..n /\ \A i \in 2..n : i \in 1..n /\ i # 1
    BY <1>1
  <2> QED
    BY <1>8, <2>1
<1>10. \A i \in 1..n : f[i] \in Seq(V)
  <2> DEFINE Bad == {i \in Nat : i \in 1..n /\ f[i] \notin Seq(V)}
  <2> SUFFICES ASSUME NEW w \in 1..n, w \in Bad PROVE FALSE
    BY <1>1
  <2>1. PICK i \in Bad : \A j \in Bad : i <= j
    BY LeastNumber
  <2>2. i \in 1..n /\ f[i] \notin Seq(V)
    OBVIOUS
  <2>3. i # 1
    BY <1>1, <1>9, <2>2
  <2>4. i \in 2..n /\ i - 1 \in Nat /\ i - 1 \in 1..n /\ ~(i <= i - 1)
    BY <1>1, <2>2, <2>3
  <2>5. f[i - 1] \in Seq(V)
    BY <2>1, <2>4
  <2>6. f[i] = f[i - 1] \o seqs[i]
    BY <1>9, <2>4
  <2>7. seqs[i] \in Seq(V)
    BY <1>1, <2>2
  <2>8. f[i - 1] \o seqs[i] \in Seq(V)
    BY <2>5, <2>7
  <2> QED
    BY <2>2, <2>6, <2>8
<1>11. f = [i \in 1..n |-> f[i]]
  BY <1>7 DEF IsFlat, n
<1>12. f \in [1..n -> Seq(V)]
  BY <1>10, <1>11
<1>13. FlattenSeq(seqs) = f[n]
  <2>1. Len(seqs) # 0
    BY <1>1 DEF n
  <2>2. FlattenSeq(seqs) = Flat(seqs)[Len(seqs)]
    BY <2>1, Zenon DEF FlattenSeq, Flat, IsFlat
  <2> QED
    BY <2>2 DEF f, n
<1> QED
  BY <1>9, <1>12, <1>13 DEF n, f

(* What is kept of a day, when the other days begin in other hours.         *)
LEMMA KeptDay ==
    ASSUME NEW V, NEW seqs \in Seq(Seq(V)), NEW hours, NEW k \in 1..Len(seqs),
           \A i \in 1..Len(seqs[k]) : Begins(seqs[k][i], hours),
           \A d \in 1..Len(seqs) : d # k => \A i \in 1..Len(seqs[d]) : ~Begins(seqs[d][i], hours)
    PROVE  Kept(FlattenSeq(seqs), hours) = seqs[k]
<1> DEFINE n == Len(seqs)
           f == Flat(seqs)
<1>1. n \in Nat /\ n > 0 /\ k \in 1..n /\ \A i \in 1..n : seqs[i] \in Seq(V)
  OBVIOUS
<1>2. /\ FlattenSeq(seqs) = f[n] /\ f \in [1..n -> Seq(V)] /\ f[1] = seqs[1]
      /\ \A i \in 2..n : f[i] = f[i - 1] \o seqs[i]
  BY <1>1, FlattenIs
<1>3. Kept(seqs[k], hours) = seqs[k]
  BY <1>1, KeptAll
<1>4. \A d \in 1..n : d # k => Kept(seqs[d], hours) = <<>>
  BY <1>1, KeptNone
<1> HIDE DEF n, f
<1> DEFINE Good(i) == Kept(f[i], hours) = IF i < k THEN <<>> ELSE seqs[k]
           Bad == {i \in Nat : i \in 1..n /\ ~Good(i)}
<1>5. Bad = {}
  <2> SUFFICES ASSUME Bad # {} PROVE FALSE
    OBVIOUS
  <2>1. PICK i \in Bad : \A j \in Bad : i <= j
    BY LeastNumber
  <2>2. i \in 1..n /\ ~Good(i)
    OBVIOUS
  <2>3. i # 1
    <3> SUFFICES ASSUME i = 1 PROVE FALSE
      OBVIOUS
    <3>1. Kept(f[1], hours) = Kept(seqs[1], hours)
      BY <1>2
    <3>2. CASE k = 1
      BY <1>3, <2>2, <3>1, <3>2
    <3>3. CASE k # 1
      <4>1. 1 < k /\ 1 \in 1..n
        BY <1>1, <3>3
      <4> QED
        BY <1>4, <2>2, <3>1, <3>3, <4>1
    <3> QED
      BY <3>2, <3>3
  <2>4. i \in 2..n /\ i - 1 \in Nat /\ i - 1 \in 1..n /\ ~(i <= i - 1) /\ i \in Nat /\ k \in Nat
    BY <1>1, <2>2, <2>3
  <2>5. Good(i - 1)
    BY <2>1, <2>4
  <2>6. f[i - 1] \in Seq(V) /\ seqs[i] \in Seq(V) /\ f[i] = f[i - 1] \o seqs[i] /\ seqs[k] \in Seq(V)
    BY <1>1, <1>2, <2>4
  <2>7. Kept(f[i - 1] \o seqs[i], hours) = Kept(f[i - 1], hours) \o Kept(seqs[i], hours)
    <3>1. KeepsJoined(f[i - 1], seqs[i], hours)
      BY <2>6, KeptCat
    <3> QED
      BY <3>1 DEF KeepsJoined
  <2>8. Kept(f[i], hours) = Kept(f[i - 1], hours) \o Kept(seqs[i], hours)
    BY <2>6, <2>7
  <2>9. <<>> \o seqs[k] = seqs[k] /\ seqs[k] \o <<>> = seqs[k]
    BY <2>6, Joined
  <2>10. <<>> \in Seq(V) /\ <<>> \o <<>> = <<>>
    BY Joined
  <2>11. CASE i < k
    <3>1. Kept(f[i - 1], hours) = <<>> /\ Kept(seqs[i], hours) = <<>>
      <4>1. i - 1 < k /\ i # k
        BY <2>4, <2>11
      <4> QED
        BY <1>4, <2>2, <2>5, <4>1
    <3> QED
      BY <2>2, <2>8, <2>10, <2>11, <3>1
  <2>12. CASE i = k
    <3>1. i - 1 < k /\ ~(i < k)
      BY <2>4, <2>12
    <3>2. Kept(f[i - 1], hours) = <<>> /\ Kept(seqs[i], hours) = seqs[k]
      BY <1>3, <2>5, <2>12, <3>1
    <3> QED
      BY <2>2, <2>8, <2>9, <3>1, <3>2
  <2>13. CASE k < i
    <3>1. ~(i - 1 < k) /\ ~(i < k) /\ i # k
      BY <2>4, <2>13
    <3>2. Kept(f[i - 1], hours) = seqs[k] /\ Kept(seqs[i], hours) = <<>>
      BY <1>4, <2>2, <2>5, <3>1
    <3> QED
      BY <2>2, <2>8, <2>9, <3>1, <3>2
  <2> QED
    BY <2>4, <2>11, <2>12, <2>13
<1>6. Good(n) /\ ~(n < k)
  BY <1>1, <1>5
<1> QED
  BY <1>2, <1>6

(* Many short sequences are long.                                           *)
LEMMA FlattenLong ==
    ASSUME NEW V, NEW seqs \in Seq(Seq(V)), Len(seqs) > 0, \A d \in 1..Len(seqs) : Len(seqs[d]) >= 2
    PROVE  FlattenSeq(seqs) \in Seq(V) /\ Len(FlattenSeq(seqs)) >= 2 * Len(seqs)
<1> DEFINE n == Len(seqs)
           f == Flat(seqs)
<1>1. n \in Nat /\ n > 0 /\ \A i \in 1..n : seqs[i] \in Seq(V) /\ Len(seqs[i]) \in Nat /\ Len(seqs[i]) >= 2
  OBVIOUS
<1>2. /\ FlattenSeq(seqs) = f[n] /\ f \in [1..n -> Seq(V)] /\ f[1] = seqs[1]
      /\ \A i \in 2..n : f[i] = f[i - 1] \o seqs[i]
  BY FlattenIs
<1> HIDE DEF n, f
<1> DEFINE Good(i) == Len(f[i]) >= 2 * i
           Bad == {i \in Nat : i \in 1..n /\ ~Good(i)}
<1>3. Bad = {}
  <2> SUFFICES ASSUME Bad # {} PROVE FALSE
    OBVIOUS
  <2>1. PICK i \in Bad : \A j \in Bad : i <= j
    BY LeastNumber
  <2>2. i \in 1..n /\ ~Good(i)
    OBVIOUS
  <2>3. i # 1
    BY <1>1, <1>2, <2>2
  <2>4. i \in 2..n /\ i - 1 \in Nat /\ i - 1 \in 1..n /\ ~(i <= i - 1) /\ i \in Nat
    BY <1>1, <2>2, <2>3
  <2>5. Good(i - 1)
    BY <2>1, <2>4
  <2>6. f[i - 1] \in Seq(V) /\ seqs[i] \in Seq(V) /\ f[i] = f[i - 1] \o seqs[i]
    BY <1>1, <1>2, <2>4
  <2>7. Len(f[i - 1] \o seqs[i]) = Len(f[i - 1]) + Len(seqs[i]) /\ Len(f[i - 1]) \in Nat
    BY <2>6, Joined
  <2>8. Len(seqs[i]) \in Nat /\ Len(seqs[i]) >= 2
    BY <1>1, <2>2
  <2>9. Len(f[i]) = Len(f[i - 1]) + Len(seqs[i])
    BY <2>6, <2>7
  <2>10. Len(f[i - 1]) >= 2 * (i - 1)
    BY <2>5
  <2>11. Good(i)
    <3>1. \A a, b, j \in Nat : a >= 2 * (j - 1) /\ b >= 2 => a + b >= 2 * j
      OBVIOUS
    <3>2. Len(f[i - 1]) + Len(seqs[i]) >= 2 * i
      BY <2>4, <2>7, <2>8, <2>10, <3>1
    <3> QED
      BY <2>9, <3>2
  <2> QED
    BY <2>2, <2>11
<1>4. Good(n) /\ f[n] \in Seq(V)
  <2> HIDE DEF Good
  <2>1. n \in Nat /\ n \in 1..n
    BY <1>1
  <2>2. f[n] \in Seq(V)
    BY <1>2, <2>1
  <2> QED
    BY <1>3, <2>1, <2>2
<1> QED
  BY <1>2, <1>4 DEF n

-----------------------------------------------------------------------------
(* What the portal answers for a day. *)

Slots == [timeId : Int, end : Int, value : Int]

(* The hour of a change of the clock, on a day of its kind.                 *)
OfKind(day, kind, hour) == IF DayLengths[day] = kind THEN hour ELSE NoTime

WallLate(back, i) == IF back = NoTime \/ i < back - 1 THEN 0 ELSE 1
WallAfter(back, i) == IF back # NoTime /\ i > back THEN 1 ELSE 0
WallId(forward, i) == IF forward # NoTime /\ i >= forward THEN i + 1 ELSE i
WallLength(day, back) == DayLengths[day] - (IF back = NoTime THEN 0 ELSE 1)

ClockHours(day, back, forward) ==
    /\ back \in 1..HoursPerDay \cup {NoTime} /\ forward \in 1..HoursPerDay \cup {NoTime}
    /\ back # NoTime => DayLengths[day] = LongDay

(* The hours of the wall clock are consecutive, and begin on the day.       *)
LEMMA WallIs ==
    ASSUME NEW day \in Days, NEW back, NEW forward, ClockHours(day, back, forward)
    PROVE  /\ WallHours(day, back, forward) \in Seq(Slots)
           /\ Len(WallHours(day, back, forward)) = WallLength(day, back)
           /\ WallLength(day, back) \in Nat /\ WallLength(day, back) >= 2
           /\ \A i \in 1..WallLength(day, back) :
                  /\ WallHours(day, back, forward)[i].timeId = WallId(forward, i)
                  /\ WallHours(day, back, forward)[i].end = DayStart[day] + i + WallLate(back, i)
                  /\ WallHours(day, back, forward)[i].value = DayStart[day] + i - 1 + WallAfter(back, i)
                  /\ Begins(WallHours(day, back, forward)[i], HoursOf(day))
<1> DEFINE n == WallLength(day, back)
           wall == WallHours(day, back, forward)
           slot(i) == [timeId |-> WallId(forward, i), end |-> DayStart[day] + i + WallLate(back, i),
                       value |-> DayStart[day] + i - 1 + WallAfter(back, i)]
<1>1. /\ DayStart[day] \in Nat /\ DayStart[day + 1] = DayStart[day] + DayLengths[day]
      /\ DayLengths[day] \in Nat /\ DayLengths[day] >= HoursPerDay - 1 /\ HoursPerDay \in Nat /\ HoursPerDay > 2
      /\ DayLengths[day] >= 2
  BY DayStartIs, LengthsAre
<1>2. n \in Nat /\ n >= 2 /\ (back # NoTime => n = DayLengths[day] - 1) /\ (back = NoTime => n = DayLengths[day])
  BY <1>1 DEF WallLength, ClockHours, LongDay
<1>3. /\ NoTime \notin Int /\ (back = NoTime \/ back \in Int) /\ (forward = NoTime \/ forward \in Int)
  <2>1. NoTime \notin Int
    BY HoursAssumption
  <2> QED
    BY <2>1 DEF ClockHours
<1>4. \A i \in 1..n : WallLate(back, i) \in {0, 1} /\ WallAfter(back, i) \in {0, 1} /\ WallId(forward, i) \in Int
  BY <1>2 DEF WallLate, WallAfter, WallId
<1>5. \A i \in 1..n : slot(i) \in Slots
  <2> SUFFICES ASSUME NEW i \in 1..n PROVE slot(i) \in Slots
    OBVIOUS
  <2>1. /\ i \in Int /\ WallLate(back, i) \in Int /\ WallAfter(back, i) \in Int
        /\ WallId(forward, i) \in Int /\ DayStart[day] \in Int
    BY <1>1, <1>2, <1>4
  <2>2. DayStart[day] + i + WallLate(back, i) \in Int /\ DayStart[day] + i - 1 + WallAfter(back, i) \in Int
    BY <2>1
  <2> QED
    BY <2>1, <2>2 DEF Slots
<1>6. wall = [i \in 1..n |-> slot(i)]
  BY DEF WallHours, WallLength, WallId, WallLate, WallAfter
<1> HIDE DEF wall, n, slot
<1>7. wall \in Seq(Slots) /\ Len(wall) = n /\ \A i \in 1..n : wall[i] = slot(i)
  BY <1>2, <1>5, <1>6
<1>8. ASSUME NEW i \in 1..n
      PROVE  /\ wall[i].timeId = WallId(forward, i)
             /\ wall[i].end = DayStart[day] + i + WallLate(back, i)
             /\ wall[i].value = DayStart[day] + i - 1 + WallAfter(back, i)
  BY <1>7 DEF slot
<1>9. ASSUME NEW i \in 1..n PROVE Begins(wall[i], HoursOf(day))
  <2>1. WallLate(back, i) \in {0, 1} /\ i \in Int /\ 1 <= i /\ i <= n
    BY <1>2, <1>4
  <2>2. back = NoTime => WallLate(back, i) = 0
    BY DEF WallLate
  <2>3. wall[i].end \in Int
    BY <1>1, <1>8, <2>1
  <2>4. wall[i].end - 1 \in DayStart[day]..DayStart[day + 1] - 1
    <3>1. i + WallLate(back, i) <= DayLengths[day]
      BY <1>1, <1>2, <2>1, <2>2
    <3> QED
      BY <1>1, <1>8, <2>1, <3>1
  <2> QED
    BY <1>3, <2>3, <2>4 DEF Begins, SlotStart, HoursOf
<1> QED
  BY <1>2, <1>7, <1>8, <1>9 DEF wall, n

(* The hour apart begins on the day as well.                                *)
LEMMA ApartIs ==
    ASSUME NEW day \in Days, NEW back, NEW forward, ClockHours(day, back, forward)
    PROVE  /\ RepeatedHour(day, back) \in Seq(Slots)
           /\ Len(RepeatedHour(day, back)) = (IF back = NoTime THEN 0 ELSE 1)
           /\ \A i \in 1..Len(RepeatedHour(day, back)) : Begins(RepeatedHour(day, back)[i], HoursOf(day))
<1> DEFINE slot == [timeId |-> back, end |-> DayStart[day] + back + 1, value |-> DayStart[day] + back]
<1>1. CASE back = NoTime
  <2>1. RepeatedHour(day, back) = <<>>
    BY <1>1 DEF RepeatedHour
  <2> QED
    BY <1>1, <2>1
<1>2. CASE back # NoTime
  <2>1. RepeatedHour(day, back) = <<slot>>
    BY <1>2 DEF RepeatedHour
  <2>2. /\ DayStart[day] \in Nat /\ DayStart[day + 1] = DayStart[day] + DayLengths[day]
        /\ HoursPerDay \in Nat
    BY DayStartIs, LengthsAre
  <2>3. back \in 1..HoursPerDay /\ back \in Int /\ DayLengths[day] = HoursPerDay + 1
    BY <1>2, <2>2 DEF ClockHours, LongDay
  <2>4. slot \in Slots
    BY <2>2, <2>3 DEF Slots
  <2>5. slot.end \in Int /\ slot.end - 1 \in DayStart[day]..DayStart[day + 1] - 1
    BY <2>2, <2>3
  <2>6. NoTime \notin Int
    BY HoursAssumption
  <2>7. Begins(slot, HoursOf(day))
    BY <2>5, <2>6 DEF Begins, SlotStart, HoursOf
  <2> HIDE DEF slot
  <2>8. <<slot>> \in Seq(Slots) /\ Len(<<slot>>) = 1 /\ <<slot>>[1] = slot
    BY <2>4
  <2> QED
    BY <1>2, <2>1, <2>7, <2>8
<1> QED
  BY <1>1, <1>2

(* The answer, with the days named.                                         *)
WallOf(day, back, forward) == WallHours(day, OfKind(day, LongDay, back), OfKind(day, ShortDay, forward))
ApartOf(day, back) == RepeatedHour(day, OfKind(day, LongDay, back))
DaysWall(first, n, back, forward) == [i \in 1..n |-> WallOf(first + i - 1, back, forward)]
DaysApart(first, n, back) == [i \in 1..n |-> ApartOf(first + i - 1, back)]

LEMMA AnswerIs ==
    ASSUME NEW first, NEW last, NEW back, NEW forward, NEW sums
    PROVE  LET n == last - first + 1
               wall == FlattenSeq(DaysWall(first, n, back, forward))
               apart == FlattenSeq(DaysApart(first, n, back))
           IN  RangeAnswer(first, last, back, forward, sums) =
                   [table |-> wall, tableWinter |-> apart,
                    values |-> IF sums THEN [i \in 1..n |-> SumAt(DayStart[first + i])] ELSE wall,
                    valuesWinter |-> IF sums THEN <<>> ELSE apart]
  BY DEF RangeAnswer, DaysWall, DaysApart, WallOf, ApartOf, OfKind

LEMMA ClockIs ==
    ASSUME NEW day \in Days, NEW back \in 1..HoursPerDay, NEW forward \in 1..HoursPerDay
    PROVE  ClockHours(day, OfKind(day, LongDay, back), OfKind(day, ShortDay, forward))
  BY HoursAssumption DEF ClockHours, OfKind

(* The days asked for, one after the other.                                 *)
LEMMA AskedAre ==
    ASSUME NEW first \in Days, NEW last \in Days, first <= last,
           NEW back \in 1..HoursPerDay, NEW forward \in 1..HoursPerDay
    PROVE  LET n == last - first + 1
           IN  /\ n \in Nat /\ n > 0
               /\ \A i \in 1..n : first + i - 1 \in Days
               /\ DaysWall(first, n, back, forward) \in Seq(Seq(Slots))
               /\ Len(DaysWall(first, n, back, forward)) = n
               /\ DaysApart(first, n, back) \in Seq(Seq(Slots)) /\ Len(DaysApart(first, n, back)) = n
               /\ \A i \in 1..n : DaysWall(first, n, back, forward)[i] = WallOf(first + i - 1, back, forward)
               /\ \A i \in 1..n : DaysApart(first, n, back)[i] = ApartOf(first + i - 1, back)
<1> DEFINE n == last - first + 1
           wall == DaysWall(first, n, back, forward)
           apart == DaysApart(first, n, back)
<1>1. n \in Nat /\ n > 0 /\ \A i \in 1..n : first + i - 1 \in Days
  BY LengthsAre DEF Days
<1>2. \A i \in 1..n : WallOf(first + i - 1, back, forward) \in Seq(Slots) /\ ApartOf(first + i - 1, back) \in Seq(Slots)
  BY <1>1, ClockIs, WallIs, ApartIs DEF WallOf, ApartOf
<1>3. /\ wall = [i \in 1..n |-> WallOf(first + i - 1, back, forward)]
      /\ apart = [i \in 1..n |-> ApartOf(first + i - 1, back)]
  BY DEF DaysWall, DaysApart
<1> HIDE DEF n, wall, apart
<1>4. wall \in Seq(Seq(Slots)) /\ Len(wall) = n /\ \A i \in 1..n : wall[i] = WallOf(first + i - 1, back, forward)
  BY <1>1, <1>2, <1>3
<1>5. apart \in Seq(Seq(Slots)) /\ Len(apart) = n /\ \A i \in 1..n : apart[i] = ApartOf(first + i - 1, back)
  BY <1>1, <1>2, <1>3
<1> QED
  BY <1>1, <1>4, <1>5 DEF n, wall, apart

(* The hours are taken, not the sums.                                       *)
LEMMA EntriesAre ==
    ASSUME NEW first \in Days, NEW last \in Days, first <= last,
           NEW back \in 1..HoursPerDay, NEW forward \in 1..HoursPerDay, NEW sums \in BOOLEAN
    PROVE  LET n == last - first + 1
           IN  Entries(RangeAnswer(first, last, back, forward, sums)) =
                   [hours |-> FlattenSeq(DaysWall(first, n, back, forward)),
                    repeated |-> FlattenSeq(DaysApart(first, n, back))]
<1> DEFINE n == last - first + 1
           seqs == DaysWall(first, n, back, forward)
           wall == FlattenSeq(seqs)
           apart == FlattenSeq(DaysApart(first, n, back))
           all == [i \in 1..n |-> SumAt(DayStart[first + i])]
           answer == RangeAnswer(first, last, back, forward, sums)
<1>1. answer = [table |-> wall, tableWinter |-> apart, values |-> IF sums THEN all ELSE wall,
                valuesWinter |-> IF sums THEN <<>> ELSE apart]
  BY AnswerIs
<1>2. n \in Nat /\ n > 0 /\ seqs \in Seq(Seq(Slots)) /\ Len(seqs) = n /\ \A d \in 1..n : Len(seqs[d]) >= 2
  <2>1. /\ n \in Nat /\ n > 0 /\ seqs \in Seq(Seq(Slots)) /\ Len(seqs) = n
        /\ \A i \in 1..n : first + i - 1 \in Days
        /\ \A i \in 1..n : seqs[i] = WallOf(first + i - 1, back, forward)
    BY AskedAre
  <2> HIDE DEF n, seqs
  <2>2. ASSUME NEW d \in 1..n PROVE Len(seqs[d]) >= 2
    <3>1. LET b == OfKind(first + d - 1, LongDay, back)
              f == OfKind(first + d - 1, ShortDay, forward)
          IN  /\ Len(WallHours(first + d - 1, b, f)) = WallLength(first + d - 1, b)
              /\ WallLength(first + d - 1, b) >= 2
      BY <2>1, ClockIs, WallIs
    <3> QED
      BY <2>1, <3>1 DEF WallOf
  <2> QED
    BY <2>1, <2>2
<1> HIDE DEF seqs
<1>3. wall \in Seq(Slots) /\ Len(wall) >= 2 * n
  BY <1>2, FlattenLong
<1>4. Len(all) = n
  BY <1>2
<1>5. Len(wall) > n
  BY <1>2, <1>3
<1> HIDE DEF n, wall, apart, all, answer
<1>6. CASE sums
  <2>1. answer.table = wall /\ answer.tableWinter = apart /\ answer.values = all
    BY <1>1, <1>6
  <2> QED
    BY <1>4, <1>5, <2>1 DEF Entries, answer, wall, apart, n, seqs
<1>7. CASE ~sums
  <2>1. answer.table = wall /\ answer.tableWinter = apart /\ answer.values = wall /\ answer.valuesWinter = apart
    BY <1>1, <1>7
  <2> QED
    BY <2>1 DEF Entries, answer, wall, apart, n, seqs
<1> QED
  BY <1>6, <1>7

(* What is kept of the answer for a day is its wall clock, and apart.       *)
LEMMA AskedKept ==
    ASSUME NEW first \in Days, NEW last \in Days, NEW day \in first..last,
           NEW back \in 1..HoursPerDay, NEW forward \in 1..HoursPerDay
    PROVE  LET n == last - first + 1
           IN  /\ Kept(FlattenSeq(DaysWall(first, n, back, forward)), HoursOf(day)) = WallOf(day, back, forward)
               /\ Kept(FlattenSeq(DaysApart(first, n, back)), HoursOf(day)) = ApartOf(day, back)
<1> DEFINE n == last - first + 1
           wall == DaysWall(first, n, back, forward)
           apart == DaysApart(first, n, back)
           k == day - first + 1
<1>1. first \in Nat /\ last \in Nat /\ day \in Nat /\ first <= last /\ first <= day /\ day <= last /\ day \in Days
  BY LengthsAre DEF Days
<1>2. /\ n \in Nat /\ n > 0
      /\ \A i \in 1..n : first + i - 1 \in Days
      /\ wall \in Seq(Seq(Slots)) /\ Len(wall) = n /\ apart \in Seq(Seq(Slots)) /\ Len(apart) = n
      /\ \A i \in 1..n : wall[i] = WallOf(first + i - 1, back, forward)
      /\ \A i \in 1..n : apart[i] = ApartOf(first + i - 1, back)
  BY <1>1, AskedAre
<1>3. k \in 1..n /\ first + k - 1 = day
  BY <1>1
<1> HIDE DEF wall, apart, k
<1>4. wall[k] = WallOf(day, back, forward) /\ apart[k] = ApartOf(day, back)
  BY <1>2, <1>3
<1>5. ASSUME NEW d \in 1..n
      PROVE  /\ \A i \in 1..Len(wall[d]) : Begins(wall[d][i], HoursOf(first + d - 1))
             /\ \A i \in 1..Len(apart[d]) : Begins(apart[d][i], HoursOf(first + d - 1))
  <2>1. first + d - 1 \in Days /\ wall[d] = WallOf(first + d - 1, back, forward) /\ apart[d] = ApartOf(first + d - 1, back)
    BY <1>2
  <2>2. \A c \in Days : /\ \A i \in 1..Len(WallOf(c, back, forward)) : Begins(WallOf(c, back, forward)[i], HoursOf(c))
                        /\ \A i \in 1..Len(ApartOf(c, back)) : Begins(ApartOf(c, back)[i], HoursOf(c))
    BY ClockIs, WallIs, ApartIs DEF WallOf, ApartOf
  <2> QED
    BY <2>1, <2>2
<1>6. ASSUME NEW d \in 1..n, d # k, NEW slot, Begins(slot, HoursOf(first + d - 1)) PROVE ~Begins(slot, HoursOf(day))
  <2>1. first + d - 1 \in Days /\ d \in Int /\ k \in Int
    BY <1>2, <1>3
  <2>2. first + d - 1 # day
    BY <1>1, <1>3, <1>6, <2>1
  <2> QED
    BY <1>1, <1>6, <2>1, <2>2, HoursApart DEF Begins
<1> HIDE DEF n
<1>7. Kept(FlattenSeq(wall), HoursOf(day)) = wall[k]
  <2>1. \A i \in 1..Len(wall[k]) : Begins(wall[k][i], HoursOf(day))
    BY <1>3, <1>5
  <2>2. \A d \in 1..n : d # k => \A i \in 1..Len(wall[d]) : ~Begins(wall[d][i], HoursOf(day))
    BY <1>5, <1>6
  <2> QED
    BY <1>2, <1>3, <2>1, <2>2, KeptDay
<1>8. Kept(FlattenSeq(apart), HoursOf(day)) = apart[k]
  <2>1. \A i \in 1..Len(apart[k]) : Begins(apart[k][i], HoursOf(day))
    BY <1>3, <1>5
  <2>2. \A d \in 1..n : d # k => \A i \in 1..Len(apart[d]) : ~Begins(apart[d][i], HoursOf(day))
    BY <1>5, <1>6
  <2> QED
    BY <1>2, <1>3, <2>1, <2>2, KeptDay
<1> QED
  BY <1>4, <1>7, <1>8 DEF n, wall, apart

-----------------------------------------------------------------------------
(* The hour that is repeated. *)

InsertOne(slots, slot) ==
    IF WithTimeId(slots, slot.timeId) = {} THEN <<>>
    ELSE InsertAt(slots, LastOf(WithTimeId(slots, slot.timeId)) + 1, slot)

IsMerging(f, slots, repeated) ==
    f = [s \in SUBSET (DOMAIN repeated) |->
            IF s = {} THEN slots ELSE InsertOne(f[s \ {Max(s)}], repeated[Max(s)])]

(* One hour apart is put in its place.                                      *)
LEMMA InsertAllOne ==
    ASSUME NEW slots, NEW slot
    PROVE  InsertAll(slots, <<slot>>) = InsertOne(slots, slot)
<1> DEFINE apart == <<slot>>
           g == [s \in SUBSET (DOMAIN apart) |-> IF s = {} THEN slots ELSE InsertOne(slots, slot)]
           f == CHOOSE f : IsMerging(f, slots, apart)
<1>1. DOMAIN apart = {1} /\ apart[1] = slot
  <2>1. DOMAIN apart = 1..1 /\ 1..1 = {1}
    OBVIOUS
  <2> QED
    BY <2>1
<1>2. Max({1}) = 1
  <2>1. \E x \in {1} : \A y \in {1} : x >= y
    OBVIOUS
  <2> QED
    BY <2>1 DEF Max
<1> HIDE DEF apart
<1>3. SUBSET (DOMAIN apart) = {{}, {1}} /\ {1} \ {1} = {} /\ {1} # {}
  BY <1>1
<1>4. \A s \in SUBSET (DOMAIN apart) :
          g[s] = IF s = {} THEN slots ELSE InsertOne(g[s \ {Max(s)}], apart[Max(s)])
  <2> SUFFICES ASSUME NEW s \in {{}, {1}}
               PROVE  g[s] = IF s = {} THEN slots ELSE InsertOne(g[s \ {Max(s)}], apart[Max(s)])
    BY <1>3
  <2>1. g[{}] = slots /\ g[{1}] = InsertOne(slots, slot)
    BY <1>3
  <2> HIDE DEF g
  <2>2. CASE s = {}
    BY <2>1, <2>2
  <2>3. CASE s = {1}
    <3>1. Max(s) = 1 /\ s \ {Max(s)} = {} /\ s # {} /\ apart[Max(s)] = slot
      BY <1>1, <1>2, <2>3
    <3> QED
      BY <2>1, <2>3, <3>1
  <2> QED
    BY <2>2, <2>3
<1>5. IsMerging(g, slots, apart)
  <2>1. g = [s \in SUBSET (DOMAIN apart) |-> g[s]]
    OBVIOUS
  <2> HIDE DEF g
  <2> QED
    BY <1>4, <2>1, Zenon DEF IsMerging
<1> HIDE DEF g
<1>6. IsMerging(f, slots, apart)
  BY <1>5
<1>7. f[{}] = slots /\ f[{1}] = InsertOne(slots, slot)
  <2> HIDE DEF f
  <2>1. \A s \in SUBSET (DOMAIN apart) :
            f[s] = IF s = {} THEN slots ELSE InsertOne(f[s \ {Max(s)}], apart[Max(s)])
    BY <1>6 DEF IsMerging
  <2>2. f[{}] = slots
    BY <2>1, <1>3
  <2>3. f[{1}] = InsertOne(f[{1} \ {Max({1})}], apart[Max({1})])
    BY <2>1, <1>3
  <2> QED
    BY <2>2, <2>3, <1>1, <1>2, <1>3
<1>8. InsertAll(slots, apart) = f[DOMAIN apart]
  BY DEF InsertAll, FoldLeft, MapThenFoldSet, IsMerging, InsertOne, f
<1> QED
  BY <1>1, <1>7, <1>8 DEF apart

(* A slot put after another.                                                *)
IsInserted(V, s, k, e) ==
    /\ InsertAt(s, k + 1, e) \in Seq(V) /\ Len(InsertAt(s, k + 1, e)) = Len(s) + 1
    /\ \A i \in 1..k : InsertAt(s, k + 1, e)[i] = s[i]
    /\ InsertAt(s, k + 1, e)[k + 1] = e
    /\ \A i \in k + 2..Len(s) + 1 : InsertAt(s, k + 1, e)[i] = s[i - 1]

LEMMA Inserted ==
    ASSUME NEW V, NEW s \in Seq(V), NEW e \in V, NEW k \in 1..Len(s)
    PROVE  IsInserted(V, s, k, e)
<1> DEFINE n == Len(s)
           a == SubSeq(s, 1, (k + 1) - 1)
           b == SubSeq(s, k + 1, n)
<1>1. n \in Nat /\ k \in Nat /\ 1 <= k /\ k <= n
  OBVIOUS
<1>2. a \in Seq(V) /\ Len(a) = k /\ \A i \in 1..k : a[i] = s[i]
  <2>1. (k + 1) - 1 = k
    BY <1>1
  <2>2. SubSeq(s, 1, k) \in Seq(V) /\ Len(SubSeq(s, 1, k)) = k
    BY <1>1
  <2>3. \A i \in 1..k : SubSeq(s, 1, k)[i] = s[i]
    BY <1>1
  <2> QED
    BY <2>1, <2>2, <2>3
<1>3. b \in Seq(V) /\ Len(b) = n - k /\ \A i \in 1..n - k : b[i] = s[k + i]
  <2>1. b \in Seq(V) /\ Len(b) = n - k
    BY <1>1
  <2>2. ASSUME NEW i \in 1..n - k PROVE b[i] = s[k + i]
    BY <1>1, <2>1
  <2> QED
    BY <2>1, <2>2
<1>4. <<e>> \in Seq(V) /\ Len(<<e>>) = 1 /\ <<e>>[1] = e
  OBVIOUS
<1>5. InsertAt(s, k + 1, e) = (a \o <<e>>) \o b
  BY DEF InsertAt
<1> HIDE DEF a, b, n
<1> DEFINE c == a \o <<e>>
<1>6. c \in Seq(V) /\ Len(c) = k + 1 /\ c[k + 1] = e /\ \A i \in 1..k : c[i] = s[i]
  <2>1. /\ c \in Seq(V) /\ Len(c) = Len(a) + Len(<<e>>) /\ \A i \in 1..Len(a) : c[i] = a[i]
        /\ \A i \in 1..Len(<<e>>) : c[Len(a) + i] = <<e>>[i]
    BY <1>2, <1>4, Joined
  <2>2. 1 \in 1..Len(<<e>>)
    BY <1>4
  <2> QED
    BY <1>2, <1>4, <2>1, <2>2
<1> HIDE DEF c
<1> DEFINE d == c \o b
<1>7. /\ d \in Seq(V) /\ Len(d) = Len(c) + Len(b)
      /\ \A i \in 1..Len(c) : d[i] = c[i]
      /\ \A i \in 1..Len(b) : d[Len(c) + i] = b[i]
  <2>1. b \in Seq(V) /\ c \in Seq(V)
    BY <1>3, <1>6
  <2>2. IsJoined(V, c, b)
    BY <2>1, JoinedAre
  <2> QED
    BY <2>2 DEF IsJoined
<1> HIDE DEF d
<1>8. Len(d) = n + 1 /\ \A i \in 1..k : d[i] = s[i]
  BY <1>1, <1>3, <1>6, <1>7
<1>9. d[k + 1] = e
  BY <1>1, <1>6, <1>7
<1>10. ASSUME NEW i \in k + 2..n + 1 PROVE d[i] = s[i - 1]
  <2>1. i - (k + 1) \in 1..n - k /\ (k + 1) + (i - (k + 1)) = i /\ k + (i - (k + 1)) = i - 1
    BY <1>1
  <2>2. d[(k + 1) + (i - (k + 1))] = b[i - (k + 1)]
    BY <1>3, <1>6, <1>7, <2>1
  <2>3. b[i - (k + 1)] = s[k + (i - (k + 1))]
    BY <1>3, <2>1
  <2> QED
    BY <2>1, <2>2, <2>3
<1>11. InsertAt(s, k + 1, e) = d
  BY <1>5 DEF d, c
<1> QED
  BY <1>7, <1>8, <1>9, <1>10, <1>11 DEF n, IsInserted

(* The hours of a day, each with its own value.                             *)
HoursInOrder(day, slots) ==
    /\ slots \in Seq(Slots) /\ Len(slots) = DayLengths[day]
    /\ \A i \in 1..DayLengths[day] : slots[i].end = DayStart[day] + i /\ slots[i].value = DayStart[day] + i - 1

LEMMA OrdinaryDay ==
    ASSUME NEW day \in Days, NEW forward, ClockHours(day, NoTime, forward)
    PROVE  HoursInOrder(day, WallHours(day, NoTime, forward))
<1> DEFINE wall == WallHours(day, NoTime, forward)
           n == DayLengths[day]
<1>1. WallLength(day, NoTime) = n /\ n \in Nat /\ DayStart[day] \in Nat
  BY DayStartIs, LengthsAre DEF WallLength
<1>2. /\ wall \in Seq(Slots) /\ Len(wall) = n
      /\ \A i \in 1..n : /\ wall[i].end = DayStart[day] + i + WallLate(NoTime, i)
                         /\ wall[i].value = DayStart[day] + i - 1 + WallAfter(NoTime, i)
  BY <1>1, WallIs
<1>3. \A i \in 1..n : WallLate(NoTime, i) = 0 /\ WallAfter(NoTime, i) = 0
  BY DEF WallLate, WallAfter
<1> HIDE DEF wall, n
<1>4. \A i \in 1..n : wall[i].end = DayStart[day] + i /\ wall[i].value = DayStart[day] + i - 1
  BY <1>1, <1>2, <1>3
<1> QED
  BY <1>2, <1>4 DEF HoursInOrder, wall, n

(* The hour of the change is there twice, and every hour at its own time.   *)
LEMMA MergedDay ==
    ASSUME NEW day \in Days, NEW back \in 1..HoursPerDay, DayLengths[day] = LongDay
    PROVE  HoursInOrder(day, MergeRepeatedHours(day, WallHours(day, back, NoTime), RepeatedHour(day, back)))
<1> DEFINE wall == WallHours(day, back, NoTime)
           slot == [timeId |-> back, end |-> DayStart[day] + back + 1, value |-> DayStart[day] + back]
           n == DayLengths[day]
           merged == InsertAll(wall, <<slot>>)
<1>1. /\ NoTime \notin Int /\ HoursPerDay \in Nat /\ n = HoursPerDay + 1 /\ n \in Nat /\ DayStart[day] \in Nat
      /\ back \in Int /\ 1 <= back /\ back <= HoursPerDay /\ back # NoTime
  BY HoursAssumption, DayStartIs, LengthsAre DEF LongDay
<1>2. ClockHours(day, back, NoTime) /\ WallLength(day, back) = HoursPerDay
  BY <1>1 DEF ClockHours, WallLength
<1>3. /\ wall \in Seq(Slots) /\ Len(wall) = HoursPerDay
      /\ \A i \in 1..HoursPerDay : /\ wall[i].timeId = WallId(NoTime, i)
                                   /\ wall[i].value = DayStart[day] + i - 1 + WallAfter(back, i)
  BY <1>2, WallIs
<1> HIDE DEF wall
<1>4. slot \in Slots /\ slot.timeId = back /\ slot.value = DayStart[day] + back
  BY <1>1 DEF Slots
<1>5. RepeatedHour(day, back) = <<slot>>
  BY <1>1 DEF RepeatedHour
<1> HIDE DEF slot
<1>6. WithTimeId(wall, back) = {back}
  <2>1. \A i \in 1..HoursPerDay : wall[i].timeId = i
    BY <1>3 DEF WallId
  <2>2. DOMAIN wall = 1..HoursPerDay
    BY <1>3
  <2> QED
    BY <1>1, <2>1, <2>2 DEF WithTimeId
<1>7. LastOf({back}) = back
  <2>1. \E i \in {back} : \A j \in {back} : j <= i
    BY <1>1
  <2> QED
    BY <2>1 DEF LastOf
<1>8. merged = InsertAt(wall, back + 1, slot)
  <2>1. merged = InsertOne(wall, slot)
    BY InsertAllOne
  <2> QED
    BY <1>4, <1>6, <1>7, <2>1 DEF InsertOne
<1>9. /\ merged \in Seq(Slots) /\ Len(merged) = n
      /\ \A i \in 1..back : merged[i] = wall[i]
      /\ merged[back + 1] = slot
      /\ \A i \in back + 2..n : merged[i] = wall[i - 1]
  <2>1. back \in 1..Len(wall) /\ Len(wall) + 1 = n
    BY <1>1, <1>3
  <2>2. /\ InsertAt(wall, back + 1, slot) \in Seq(Slots) /\ Len(InsertAt(wall, back + 1, slot)) = Len(wall) + 1
        /\ \A i \in 1..back : InsertAt(wall, back + 1, slot)[i] = wall[i]
        /\ InsertAt(wall, back + 1, slot)[back + 1] = slot
        /\ \A i \in back + 2..Len(wall) + 1 : InsertAt(wall, back + 1, slot)[i] = wall[i - 1]
    <3>1. IsInserted(Slots, wall, back, slot)
      BY <1>3, <1>4, <2>1, Inserted
    <3> QED
      BY <3>1 DEF IsInserted
  <2> QED
    BY <1>8, <2>1, <2>2
<1> HIDE DEF merged
<1>10. ASSUME NEW i \in 1..n PROVE merged[i].value = DayStart[day] + i - 1 /\ merged[i].timeId \in Int
  <2>1. i \in Int /\ 1 <= i /\ i <= n
    BY <1>1
  <2>2. CASE i <= back
    <3>1. merged[i] = wall[i] /\ i \in 1..HoursPerDay
      BY <1>1, <1>9, <2>1, <2>2
    <3>2. WallAfter(back, i) = 0 /\ WallId(NoTime, i) = i
      BY <1>1, <2>1, <2>2 DEF WallAfter, WallId
    <3> QED
      BY <1>1, <1>3, <2>1, <3>1, <3>2
  <2>3. CASE i = back + 1
    BY <1>1, <1>4, <1>9, <2>3
  <2>4. CASE i > back + 1
    <3>1. merged[i] = wall[i - 1] /\ i - 1 \in 1..HoursPerDay /\ i - 1 > back
      BY <1>1, <1>9, <2>1, <2>4
    <3>2. WallAfter(back, i - 1) = 1 /\ WallId(NoTime, i - 1) = i - 1
      BY <1>1, <2>1, <3>1 DEF WallAfter, WallId
    <3> QED
      BY <1>1, <1>3, <2>1, <3>1, <3>2
  <2> QED
    BY <1>1, <2>1, <2>2, <2>3, <2>4
<1> DEFINE whole == [i \in DOMAIN merged |-> [merged[i] EXCEPT !.end = DayStart[day] + i]]
<1>11. MergeRepeatedHours(day, wall, <<slot>>) = whole
  BY <1>9 DEF MergeRepeatedHours, merged
<1>12. DOMAIN merged = 1..n
  BY <1>9
<1>13. ASSUME NEW i \in 1..n
       PROVE  whole[i] \in Slots /\ whole[i].end = DayStart[day] + i /\ whole[i].value = DayStart[day] + i - 1
  <2>1. merged[i] \in Slots /\ DayStart[day] + i \in Int
    BY <1>1, <1>9
  <2>2. whole[i] = [merged[i] EXCEPT !.end = DayStart[day] + i]
    BY <1>12
  <2> HIDE DEF whole
  <2>3. whole[i] \in Slots /\ whole[i].end = DayStart[day] + i /\ whole[i].value = merged[i].value
    BY <2>1, <2>2 DEF Slots
  <2> QED
    BY <2>3, <1>10
<1>14. whole = [i \in 1..n |-> whole[i]]
  BY <1>12
<1> HIDE DEF whole
<1>15. whole \in Seq(Slots) /\ Len(whole) = n
  BY <1>1, <1>13, <1>14, IsSequence
<1>16. HoursInOrder(day, whole)
  BY <1>13, <1>15 DEF HoursInOrder
<1> QED
  BY <1>5, <1>11, <1>16 DEF wall

(* What is found of a day in an answer.                                     *)
LEMMA DaySlotsAre ==
    ASSUME NEW first \in Days, NEW last \in Days, NEW day \in first..last,
           NEW back \in 1..HoursPerDay, NEW forward \in 1..HoursPerDay, NEW sums \in BOOLEAN
    PROVE  HoursInOrder(day, DaySlots(RangeAnswer(first, last, back, forward, sums), day))
<1> DEFINE answer == RangeAnswer(first, last, back, forward, sums)
           b == OfKind(day, LongDay, back)
           f == OfKind(day, ShortDay, forward)
           wall == WallHours(day, b, f)
           apart == RepeatedHour(day, b)
<1>1. first <= last /\ day \in Days /\ ClockHours(day, b, f)
  <2>1. first <= last /\ day \in Days
    BY LengthsAre DEF Days
  <2> QED
    BY <2>1, ClockIs
<1>2. Kept(Entries(answer).hours, HoursOf(day)) = wall /\ Kept(Entries(answer).repeated, HoursOf(day)) = apart
  <2> DEFINE n == last - first + 1
             hours == FlattenSeq(DaysWall(first, n, back, forward))
             repeated == FlattenSeq(DaysApart(first, n, back))
  <2>1. Entries(answer) = [hours |-> hours, repeated |-> repeated]
    BY <1>1, EntriesAre
  <2>2. Kept(hours, HoursOf(day)) = wall /\ Kept(repeated, HoursOf(day)) = apart
    BY AskedKept DEF WallOf, ApartOf
  <2> HIDE DEF hours, repeated, answer, wall, apart
  <2>3. Entries(answer).hours = hours /\ Entries(answer).repeated = repeated
    BY <2>1
  <2> QED
    BY <2>2, <2>3
<1> HIDE DEF answer
<1>3. DaySlots(answer, day) = IF wall = <<>> \/ apart = <<>> THEN wall ELSE MergeRepeatedHours(day, wall, apart)
  BY <1>2 DEF DaySlots
<1>4. CASE DayLengths[day] # LongDay
  <2>1. b = NoTime /\ apart = <<>>
    BY <1>4 DEF OfKind, RepeatedHour
  <2>2. HoursInOrder(day, wall)
    BY <1>1, <2>1, OrdinaryDay
  <2> QED
    BY <1>3, <2>1, <2>2 DEF answer
<1>5. CASE DayLengths[day] = LongDay
  <2>1. b = back /\ f = NoTime /\ NoTime \notin Int /\ b # NoTime
    <3>1. LongDay # ShortDay /\ NoTime \notin Int
      BY HoursAssumption DEF LongDay, ShortDay
    <3> QED
      BY <1>5, <3>1 DEF OfKind
  <2>2. Len(wall) >= 2 /\ Len(apart) = 1
    BY <1>1, <2>1, WallIs, ApartIs
  <2>3. wall # <<>> /\ apart # <<>>
    BY <2>2
  <2>4. HoursInOrder(day, MergeRepeatedHours(day, wall, apart))
    BY <1>1, <1>5, <2>1, MergedDay
  <2> QED
    BY <1>3, <2>3, <2>4 DEF answer
<1> QED
  BY <1>4, <1>5

(* Slots in order give an interval of hours, each at its own time.          *)
AreHoursFrom(slots, low, high) ==
    /\ Len(slots) = Cardinality(low..high) /\ {slots[i].value : i \in DOMAIN slots} = low..high
    /\ \A i \in DOMAIN slots : SlotStart(slots[i]) = slots[i].value

LEMMA HoursFrom ==
    ASSUME NEW n \in Nat, NEW low \in Int, NEW slots \in Seq(Slots), Len(slots) = n,
           \A i \in 1..n : slots[i].end = low + i /\ slots[i].value = low + i - 1
    PROVE  AreHoursFrom(slots, low, low + n - 1)
<1>1. DOMAIN slots = 1..n
  OBVIOUS
<1>2. low + n - 1 \in Int /\ (low > low + n - 1 => n = 0) /\ (low + n - 1) - low + 1 = n
  OBVIOUS
<1>3. Cardinality(low..low + n - 1) = n
  BY <1>2, FS_Interval
<1>4. {slots[i].value : i \in 1..n} = low..low + n - 1
  <2>1. ASSUME NEW i \in 1..n PROVE slots[i].value \in low..low + n - 1
    BY <1>2
  <2>2. ASSUME NEW h \in low..low + n - 1 PROVE \E i \in 1..n : slots[i].value = h
    <3>1. h - low + 1 \in 1..n /\ low + (h - low + 1) - 1 = h
      BY <1>2
    <3>2. slots[h - low + 1].value = low + (h - low + 1) - 1
      BY <3>1
    <3> QED
      BY <3>1, <3>2
  <2> QED
    BY <2>1, <2>2
<1>5. \A i \in 1..n : SlotStart(slots[i]) = slots[i].value
  <2> SUFFICES ASSUME NEW i \in 1..n PROVE slots[i].end - 1 = slots[i].value
    BY DEF SlotStart
  <2>1. slots[i].end = low + i /\ slots[i].value = low + i - 1 /\ i \in Int
    OBVIOUS
  <2> QED
    BY <2>1
<1> QED
  BY <1>1, <1>3, <1>4, <1>5 DEF AreHoursFrom

(* On the day of the assembly the hours that end after it are left, and the *)
(* hour before if the clock gives both the same name.                       *)
FirstLeft(assembly, day, back) ==
    IF DayLengths[day] = LongDay /\ assembly \div 2 = DayStart[day] + back
    THEN assembly \div 2 - 1 ELSE assembly \div 2

LEMMA ClockOrder ==
    ASSUME NEW day \in Days, NEW assembly \in Int, assembly \div 2 \in HoursOf(day), NEW back \in 1..HoursPerDay
    PROVE  LET a == FirstLeft(assembly, day, back)
               now == Wall(assembly \div 2, day, back)
           IN  /\ a \in HoursOf(day) /\ a \in Int
               /\ \A h \in Int : Wall(h, day, back) >= now <=> h >= a
               /\ \A h \in Int : 2 * (h + 1) > assembly \/ Wall(h, day, back) = now <=> h >= a
<1> DEFINE a == FirstLeft(assembly, day, back)
           at == assembly \div 2
           start == DayStart[day]
           now == Wall(at, day, back)
<1>1. start \in Nat /\ DayLengths[day] \in Nat /\ DayStart[day + 1] = start + DayLengths[day] /\ back \in Nat /\ back > 0
  BY DayStartIs, LengthsAre, HoursAssumption
<1>2. at \in Int /\ \A h \in Int : 2 * (h + 1) > assembly <=> h >= at
  OBVIOUS
<1>3. start <= at /\ at <= start + DayLengths[day] - 1
  BY <1>1, <1>2 DEF HoursOf
<1> HIDE DEF at, start
<1>4. CASE DayLengths[day] = LongDay
  <2>1. a = (IF at = start + back THEN at - 1 ELSE at) /\ a \in Int /\ start <= a /\ a <= start + DayLengths[day] - 1
    BY <1>1, <1>2, <1>3, <1>4 DEF FirstLeft, at, start
  <2>2. \A h \in Int : Wall(h, day, back) = IF h >= start + back THEN h - 1 ELSE h
    BY <1>4 DEF Wall, start
  <2>3. now = IF at >= start + back THEN at - 1 ELSE at
    BY <1>2, <2>2
  <2> QED
    BY <1>1, <1>2, <2>1, <2>2, <2>3 DEF HoursOf, at, start
<1>5. CASE DayLengths[day] # LongDay
  <2>1. a = at /\ now = at /\ \A h \in Int : Wall(h, day, back) = h
    BY <1>5 DEF FirstLeft, Wall, at
  <2> QED
    BY <1>1, <1>2, <1>3, <2>1 DEF HoursOf, at, start
<1> QED
  BY <1>4, <1>5

HoursLeft(day, assembly, back) ==
    {h \in HoursOf(day) : 2 * (h + 1) > assembly \/ Wall(h, day, back) = Wall(assembly \div 2, day, back)}

LeavesHours(slots, day, assembly, back) ==
    LET low == FirstLeft(assembly, day, back)
    IN  /\ AreHoursFrom(HoursAfter(slots, assembly, day, back), low, DayStart[day + 1] - 1)
        /\ HoursLeft(day, assembly, back) = low..DayStart[day + 1] - 1

LEMMA AssemblyHours ==
    ASSUME NEW day \in Days, NEW slots, HoursInOrder(day, slots),
           NEW assembly \in Int, assembly \div 2 \in HoursOf(day), NEW back \in 1..HoursPerDay
    PROVE  LeavesHours(slots, day, assembly, back)
<1> DEFINE a == FirstLeft(assembly, day, back)
           now == Wall(assembly \div 2, day, back)
           start == DayStart[day]
           n == DayLengths[day]
           m == a - start
           after == {h \in Int : Wall(h, day, back) >= now}
           kept == HoursAfter(slots, assembly, day, back)
<1>1. start \in Nat /\ n \in Nat /\ DayStart[day + 1] = start + n /\ NoTime \notin Int
  BY DayStartIs, LengthsAre, HoursAssumption
<1>2. /\ a \in Int /\ a \in HoursOf(day)
      /\ \A h \in Int : h \in after <=> h >= a
      /\ \A h \in Int : 2 * (h + 1) > assembly \/ Wall(h, day, back) = now <=> h >= a
  BY ClockOrder
<1>20. kept = Kept(slots, after)
  BY DEF HoursAfter
<1> HIDE DEF a, start, n, now, after, kept
<1>3. start <= a /\ a <= start + n - 1
  BY <1>1, <1>2 DEF HoursOf, start
<1>4. slots \in Seq(Slots) /\ Len(slots) = n /\ \A i \in 1..n : slots[i].end = start + i /\ slots[i].value = start + i - 1
  BY DEF HoursInOrder, n, start
<1>5. m \in 0..n /\ n - m \in Nat
  BY <1>1, <1>2, <1>3
<1>6. \A i \in 1..n : Begins(slots[i], after) <=> m < i
  <2> SUFFICES ASSUME NEW i \in 1..n PROVE Begins(slots[i], after) <=> m < i
    OBVIOUS
  <2>1. slots[i].end = start + i /\ slots[i].end \in Int /\ i \in Int
    BY <1>1, <1>4
  <2>2. Begins(slots[i], after) <=> slots[i].end - 1 \in after
    BY <1>1, <2>1 DEF Begins, SlotStart
  <2>3. slots[i].end - 1 \in after <=> start + i - 1 >= a
    BY <1>1, <1>2, <2>1
  <2> QED
    BY <1>1, <1>2, <2>1, <2>2, <2>3
<1> HIDE DEF m
<1>8. kept \in Seq(Slots) /\ Len(kept) = n - m /\ \A j \in 1..n - m : kept[j] = slots[m + j]
  <2>1. m \in 0..Len(slots) /\ \A i \in 1..Len(slots) : Begins(slots[i], after) <=> m < i
    BY <1>4, <1>5, <1>6
  <2>2. /\ Kept(slots, after) \in Seq(Slots) /\ Len(Kept(slots, after)) = Len(slots) - m
        /\ \A j \in 1..Len(slots) - m : Kept(slots, after)[j] = slots[m + j]
    <3>1. KeepsAfter(Slots, slots, after, m)
      BY <1>4, <2>1, KeptSuffixIs DEF BeginAfter
    <3> QED
      BY <3>1 DEF KeepsAfter
  <2> QED
    BY <1>4, <1>20, <2>2
<1>9. \A j \in 1..n - m : kept[j].end = a + j /\ kept[j].value = a + j - 1
  <2> SUFFICES ASSUME NEW j \in 1..n - m PROVE kept[j].end = a + j /\ kept[j].value = a + j - 1
    OBVIOUS
  <2>1. m + j \in 1..n /\ start + (m + j) = a + j /\ j \in Int
    BY <1>1, <1>2, <1>5 DEF m
  <2>2. slots[m + j].end = start + (m + j) /\ slots[m + j].value = start + (m + j) - 1
    BY <1>4, <2>1
  <2>3. kept[j] = slots[m + j]
    BY <1>8
  <2>4. start + (m + j) - 1 = a + j - 1
    <3>1. start \in Int /\ a \in Int /\ m \in Int /\ j \in Int /\ a = m + start
      BY <1>1, <1>2, <1>5 DEF m
    <3> QED
      BY <3>1
  <2> QED
    BY <2>1, <2>2, <2>3, <2>4
<1>10. a + (n - m) - 1 = DayStart[day + 1] - 1
  BY <1>1, <1>2 DEF m
<1>11. AreHoursFrom(kept, a, a + (n - m) - 1)
  BY <1>2, <1>5, <1>8, <1>9, HoursFrom
<1>12. {h \in HoursOf(day) : 2 * (h + 1) > assembly \/ Wall(h, day, back) = now} = a..DayStart[day + 1] - 1
  <2>2. \A h : h \in HoursOf(day) <=> h \in Int /\ start <= h /\ h <= DayStart[day + 1] - 1
    BY <1>1 DEF HoursOf, start
  <2>3. \A h : h \in a..DayStart[day + 1] - 1 <=> h \in Int /\ a <= h /\ h <= DayStart[day + 1] - 1
    BY <1>1, <1>2
  <2> QED
    BY <1>1, <1>2, <1>3, <2>2, <2>3
<1> QED
  BY <1>10, <1>11, <1>12 DEF a, kept, now, HoursLeft, LeavesHours

(* The day the meter was assembled on is the day of that hour.              *)
LEMMA AssemblyDayIs ==
    ASSUME NEW assembly, \E d \in Days : assembly \div 2 \in HoursOf(d)
    PROVE  AssemblyDay(assembly) \in Days /\ assembly \div 2 \in HoursOf(AssemblyDay(assembly))
  BY DEF AssemblyDay

-----------------------------------------------------------------------------
(* The properties of the calculations. *)

TypeOK ==
    \/ input = [kind |-> "none"]
    \/ input \in [kind : {"hours"}, of : MeteredHours]
    \/ input \in [kind : {"windows"}, of : BillWindows]
    \/ input \in [kind : {"facts"}, of : Households]
    \/ input \in [kind : {"answer"}, of : Answers]
    \/ input \in [kind : {"history"}, of : Histories]

(* An input is one of those given, of its kind.                             *)
LEMMA InputsAreGiven == Spec => []TypeOK
<1>1. Init => TypeOK
  BY DEF Init, TypeOK
<1>2. TypeOK /\ [Next]_input => TypeOK'
  <2> SUFFICES ASSUME TypeOK, [Next]_input PROVE TypeOK'
    OBVIOUS
  <2>1. CASE TakeHours
    BY <2>1 DEF TakeHours, TypeOK
  <2>2. CASE TakeWindows
    BY <2>2 DEF TakeWindows, TypeOK
  <2>3. CASE TakeFacts
    BY <2>3 DEF TakeFacts, TypeOK
  <2>4. CASE TakeAnswer
    BY <2>4 DEF TakeAnswer, TypeOK
  <2>5. CASE TakeHistory
    BY <2>5 DEF TakeHistory, TypeOK
  <2>6. CASE UNCHANGED input
    BY <2>6 DEF TypeOK
  <2> QED
    BY <2>1, <2>2, <2>3, <2>4, <2>5, <2>6 DEF Next
<1> QED
  BY <1>1, <1>2, PTL DEF Spec

(* Every settlement conserves energy and credit (billing.py:203-228).       *)
THEOREM NetMeteringIsRight == Spec => []NetMeteringConserves
<1>1. TypeOK => NetMeteringConserves
  <2> SUFFICES ASSUME TypeOK, input.kind = "hours"
               PROVE  Conserves(input.of.consumed, input.of.returned, input.of.ratio, input.of.rate)
    BY DEF NetMeteringConserves
  <2>1. input.of \in MeteredHours
    BY DEF TypeOK
  <2> QED
    BY <2>1, MeteredHoursAssumption, SettlementConserves
<1> QED
  BY <1>1, InputsAreGiven, PTL

(* Any bills in a row add up (billing.py:389-437).                          *)
THEOREM BillsAreRight == Spec => []BillsAddUp
<1>1. TypeOK => BillsAddUp
  <2> SUFFICES ASSUME TypeOK, input.kind = "windows"
               PROVE  AddUp(input.of.start, input.of.reading, input.of.end,
                            {d \in CalendarDays : d >= input.of.first})
    BY DEF BillsAddUp
  <2>1. input.of \in BillWindows
    BY DEF TypeOK
  <2> QED
    BY <2>1, BillWindowsAssumption, BillsInARowAddUp
<1> QED
  BY <1>1, InputsAreGiven, PTL

(* Any scan finds the history (coordinator.py:985-1029).                    *)
THEOREM ScansAreRight == Spec => []ScanFindsHistory
<1>1. TypeOK => ScanFindsHistory
  <2> SUFFICES ASSUME TypeOK, input.kind = "history"
               PROVE  FindsHistory(input.of.data, input.of.newest)
    BY DEF ScanFindsHistory
  <2>1. input.of \in Histories
    BY DEF TypeOK
  <2> QED
    BY <2>1, HistoriesAssumption, ScanFindsAll
<1> QED
  BY <1>1, InputsAreGiven, PTL

(* The facts detected are those the customer is billed by, for every        *)
(* dashboard, typed reading dates and consumption, as far as it is stored,  *)
(* whichever days are not: the bracket of the yearly consumption and the    *)
(* months of the billing period (installation.py:97-299).                   *)
THEOREM FactsAreFound == Spec => []FactsAreRight
<1>1. TypeOK => FactsAreRight
  <2> SUFFICES ASSUME NEW x \in Households, NEW stored, stored = Stored(x),
                      NEW sums, sums = SumsOf(stored, x.from, x.zeroes)
               PROVE  DetectedRight(DetectInstallation(x.dashboard, x.previous, x.last, x.until, sums),
                                    x.dashboard, x.previous, x.last, x.until, sums, stored, x.used)
    BY DEF FactsAreRight, RightBy, Detected, TypeOK
  <2> DEFINE starts == x.dashboard.starts
             n == Len(starts)
             spans == SpansOf(starts, x.previous, x.last)
             months == DetectBillingMonths(starts, x.previous, x.last)
             reading == LatestReadingDay(starts, x.last, x.until, months)
             since == YearBefore(reading)
             kwh == Consumption(sums, since, reading)
             first == FirstDayOf(sums, reading)
             annual == IF reading = None \/ x.until = None THEN None
                       ELSE IF reading > x.until THEN None
                       ELSE IF YearComplete(x.dashboard, since, first) THEN [kwh |-> kwh, partial |-> FALSE]
                       ELSE IF first # None /\ CapacityBracket(kwh) = Len(CAPACITY_BRACKET_LIMITS_KWH)
                       THEN [kwh |-> kwh, partial |-> TRUE]
                       ELSE None
             detected == [months |-> months, annual |-> annual, until |-> reading]
             known == YearOf(stored, since, reading)
             actual == YearOf(x.used, since, reading)
             unsummed == SumOver(stored, Unsummed(stored, sums, Slack(x.dashboard.assembled)))
  <2>1. DetectInstallation(x.dashboard, x.previous, x.last, x.until, sums) = detected
    BY DEF DetectInstallation
  <2>2. /\ starts \in Seq(CalendarDays) /\ (starts # <<>> => HasYearBefore(starts[Len(starts)] - 1))
        /\ {x.previous, x.last, x.until} \subseteq CalendarDays \cup {None}
        /\ \A day \in {x.last, x.until} \ {None} : HasYearBefore(day)
        /\ IsHousehold(x)
    BY HouseholdsAssumption DEF IsMetered, IsHousehold
  <2>3. /\ months \in (Nat \ {0}) \cup {None}
        /\ months # None => \E days \in spans : IsWhole(days) /\ WholeMonths(days) = months
    <3>1. x.previous \in CalendarDays \cup {None} /\ x.last \in CalendarDays \cup {None}
      BY <2>2
    <3> QED
      BY <2>2, <3>1, MonthsAre
  <2>4. reading # None => HasYearBefore(reading)
    <3> HIDE DEF months, starts
    <3> QED
      BY <2>2, <2>3, ReadingIs
  <2>5. ASSUME annual # None
        PROVE  /\ reading \in Int /\ since \in Int /\ since < reading /\ reading <= x.until
               /\ annual = [kwh |-> kwh, partial |-> FALSE] \/ annual = [kwh |-> kwh, partial |-> TRUE]
               /\ annual = [kwh |-> kwh, partial |-> FALSE] => YearComplete(x.dashboard, since, first)
               /\ annual = [kwh |-> kwh, partial |-> TRUE]
                      => first # None /\ CapacityBracket(kwh) = Len(CAPACITY_BRACKET_LIMITS_KWH)
    <3> HIDE DEF reading, since, first, kwh
    <3>1. reading # None /\ x.until # None /\ ~(reading > x.until)
      BY <2>5
    <3>2. reading \in CalendarDays /\ MonthOf[reading] > 12
      BY <2>4, <3>1 DEF HasYearBefore
    <3>3. reading \in Int /\ x.until \in Int
      BY <2>2, <3>1, <3>2 DEF CalendarDays
    <3>4. since \in Int /\ since < reading
      BY <3>2, YearBeforeIs DEF since
    <3>5. [kwh |-> kwh, partial |-> FALSE] # [kwh |-> kwh, partial |-> TRUE]
      <4>1. [kwh |-> kwh, partial |-> FALSE].partial # [kwh |-> kwh, partial |-> TRUE].partial
        OBVIOUS
      <4> QED
        BY <4>1
    <3> QED
      BY <2>5, <3>1, <3>3, <3>4, <3>5
  <2>6. ASSUME annual # None
        PROVE  /\ reading <= x.until /\ annual.kwh <= actual
               /\ annual.partial => CapacityBracket(annual.kwh) = CapacityBracket(actual)
               /\ \/ annual.partial
                  \/ CapacityBracket(annual.kwh) = CapacityBracket(known)
                  \/ /\ ~x.dashboard.earlier
                     /\ x.dashboard.assembled # None /\ x.dashboard.assembled > since
                     /\ known - annual.kwh = unsummed
    <3> HIDE DEF annual, reading, since, first, kwh, known, actual, unsummed
    <3>1. /\ reading \in Int /\ since \in Int /\ since < reading /\ reading <= x.until
      BY <2>5, <2>6
    <3>2. /\ YearComplete(x.dashboard, since, first)
                  => \/ CapacityBracket(kwh) = CapacityBracket(known)
                     \/ /\ ~x.dashboard.earlier /\ x.dashboard.assembled # None /\ x.dashboard.assembled > since
                        /\ known - kwh = unsummed
          /\ kwh \in Nat /\ \E more \in Nat : known = kwh + more
      <4> DEFINE y == StoredPart(x)
      <4>1. IsHousehold(y) /\ y.used = stored /\ y.from = x.from /\ y.zeroes = x.zeroes /\ y.dashboard = x.dashboard
        BY <2>2, StoredIsMetered DEF StoredPart
      <4> HIDE DEF y
      <4>2. AnnualRight(y, since, reading, sums, first, kwh, known)
        BY <3>1, <4>1, AnnualIs DEF first, kwh, known, YearOf
      <4>3. kwh \in Nat /\ \E more \in Nat : known = kwh + more
        <5>1. IsMetered(stored, x.from, x.zeroes) /\ \A d \in DOMAIN stored : d \in Int
          BY <4>1 DEF IsHousehold, IsMetered
        <5>2. DOMAIN stored \cap since + 1..reading = UsedIn(stored, since, reading)
          BY <3>1, <5>1 DEF UsedIn
        <5>3. known = SumOver(stored, UsedIn(stored, since, reading))
          BY <5>2, Zenon DEF known, YearOf
        <5>4. /\ kwh \in Nat /\ SumOver(stored, Missed(stored, x.from, since, reading)) \in Nat
              /\ SumOver(stored, UsedIn(stored, since, reading))
                     = kwh + SumOver(stored, Missed(stored, x.from, since, reading))
          BY <3>1, <5>1, ConsumptionIs DEF kwh
        <5> QED
          BY <5>3, <5>4
      <4> QED
        BY <4>1, <4>2, <4>3 DEF AnnualRight, unsummed
    <3>3. /\ kwh <= actual
          /\ CapacityBracket(kwh) = Len(CAPACITY_BRACKET_LIMITS_KWH) => CapacityBracket(kwh) = CapacityBracket(actual)
      <4>1. PICK some \in Nat : known = kwh + some
        BY <3>2
      <4>2. PICK more \in Nat : actual = known + more
        BY <2>2, <3>1, StoredIsLess DEF known, actual
      <4>3. kwh \in Nat /\ some + more \in Nat /\ actual = kwh + (some + more)
        BY <3>2, <4>1, <4>2
      <4>4. kwh <= actual
        BY <4>3
      <4> QED
        BY <4>3, <4>4, BracketIsInt
    <3>4. CASE annual = [kwh |-> kwh, partial |-> FALSE]
      <4>1. annual.kwh = kwh /\ ~annual.partial /\ YearComplete(x.dashboard, since, first)
        BY <2>5, <2>6, <3>4
      <4> QED
        BY <3>1, <3>2, <3>3, <4>1
    <3>5. CASE annual = [kwh |-> kwh, partial |-> TRUE]
      <4>1. annual.kwh = kwh /\ annual.partial /\ CapacityBracket(kwh) = Len(CAPACITY_BRACKET_LIMITS_KWH)
        BY <2>5, <2>6, <3>5
      <4> QED
        BY <3>1, <3>3, <4>1
    <3> QED
      BY <2>5, <2>6, <3>4, <3>5
  <2>7. detected.months = months /\ detected.annual = annual /\ detected.until = reading
    <3> HIDE DEF months, annual, reading
    <3> QED
      OBVIOUS
  <2> HIDE DEF detected, annual, months, reading
  <2>8. DetectedRight(detected, x.dashboard, x.previous, x.last, x.until, sums, stored, x.used)
    <3>1. annual # None =>
             /\ reading <= x.until /\ annual.kwh <= actual
             /\ annual.partial => CapacityBracket(annual.kwh) = CapacityBracket(actual)
             /\ \/ annual.partial
                \/ CapacityBracket(annual.kwh) = CapacityBracket(known)
                \/ /\ ~x.dashboard.earlier
                   /\ x.dashboard.assembled # None /\ x.dashboard.assembled > since
                   /\ known - annual.kwh = unsummed
      BY <2>6
    <3> QED
      BY <2>3, <2>7, <3>1 DEF DetectedRight, YearOf, SumOver, Slack, Unsummed, SpansOf
  <2> QED
    BY <2>1, <2>8
<1> QED
  BY <1>1, InputsAreGiven, PTL

(* Every hour of every day asked for is there once, with its own value and  *)
(* at its own time, whatever the days asked for, wherever the clock changes *)
(* and whenever the meter was assembled (parsing.py:41-186).  Of a meter    *)
(* assembled in the second of two repeated hours the first is kept as well, *)
(* since the code compares them by the clock: HoursAfter.                   *)
THEOREM DaysAreRight == Spec => []DaysAreWhole
<1>1. TypeOK => DaysAreWhole
  <2> SUFFICES ASSUME TypeOK, input.kind = "answer"
               PROVE  WholeDays(RangeAnswer(input.of.first, input.of.last, input.of.back, input.of.forward, input.of.sums),
                                input.of.first..input.of.last, input.of.assembly, input.of.back)
    BY DEF DaysAreWhole
  <2> DEFINE x == input.of
             answer == RangeAnswer(x.first, x.last, x.back, x.forward, x.sums)
  <2>1. /\ x.first \in Days /\ x.last \in Days /\ x.back \in 1..HoursPerDay /\ x.forward \in 1..HoursPerDay
        /\ x.sums \in BOOLEAN
        /\ x.assembly # NoTime => x.assembly \in Int /\ \E d \in Days : x.assembly \div 2 \in HoursOf(d)
    <3>1. input.of \in Answers
      BY DEF TypeOK
    <3> QED
      BY <3>1, AnswersAssumption
  <2> SUFFICES ASSUME NEW day \in x.first..x.last
               PROVE  LET slots == Stripped(DaySlots(answer, day), day, x.assembly, x.back)
                          hours == {h \in HoursOf(day) : \/ x.assembly = NoTime \/ day # AssemblyDay(x.assembly)
                                                         \/ 2 * (h + 1) > x.assembly
                                                         \/ Wall(h, day, x.back) = Wall(x.assembly \div 2, day, x.back)}
                      IN  /\ Len(slots) = Cardinality(hours)
                          /\ {slots[i].value : i \in DOMAIN slots} = hours
                          /\ \A i \in DOMAIN slots : SlotStart(slots[i]) = slots[i].value
    BY DEF WholeDays
  <2> DEFINE slots == DaySlots(answer, day)
             hours == {h \in HoursOf(day) : \/ x.assembly = NoTime \/ day # AssemblyDay(x.assembly)
                                            \/ 2 * (h + 1) > x.assembly
                                            \/ Wall(h, day, x.back) = Wall(x.assembly \div 2, day, x.back)}
  <2>2. HoursInOrder(day, slots)
    BY <2>1, DaySlotsAre
  <2>3. day \in Days
    BY <2>1, LengthsAre DEF Days
  <2>4. CASE x.assembly = NoTime \/ day # AssemblyDay(x.assembly)
    <3>1. Stripped(slots, day, x.assembly, x.back) = slots /\ hours = HoursOf(day)
      BY <2>4 DEF Stripped
    <3>2. /\ DayLengths[day] \in Nat /\ DayStart[day] \in Nat
          /\ DayStart[day + 1] = DayStart[day] + DayLengths[day]
      BY <2>3, DayStartIs, LengthsAre
    <3> HIDE DEF slots
    <3>3. AreHoursFrom(slots, DayStart[day], DayStart[day] + DayLengths[day] - 1)
      <4>1. /\ slots \in Seq(Slots) /\ Len(slots) = DayLengths[day]
            /\ \A i \in 1..DayLengths[day] : /\ slots[i].end = DayStart[day] + i
                                             /\ slots[i].value = DayStart[day] + i - 1
        BY <2>2 DEF HoursInOrder
      <4>2. DayStart[day] \in Int
        BY <3>2
      <4> QED
        BY <3>2, <4>1, <4>2, HoursFrom
    <3>4. hours = DayStart[day]..DayStart[day] + DayLengths[day] - 1
      BY <3>1, <3>2 DEF HoursOf
    <3> HIDE DEF hours
    <3> QED
      BY <3>1, <3>3, <3>4 DEF AreHoursFrom, slots, hours
  <2>5. CASE ~(x.assembly = NoTime \/ day # AssemblyDay(x.assembly))
    <3>1. x.assembly \in Int /\ x.assembly \div 2 \in HoursOf(day) /\ x.assembly # NoTime /\ day = AssemblyDay(x.assembly)
      BY <2>1, <2>5, AssemblyDayIs
    <3>2. Stripped(slots, day, x.assembly, x.back) = HoursAfter(slots, x.assembly, day, x.back)
      BY <3>1 DEF Stripped
    <3>3. hours = HoursLeft(day, x.assembly, x.back)
      BY <3>1 DEF HoursLeft
    <3> HIDE DEF slots, hours
    <3>4. LeavesHours(slots, day, x.assembly, x.back)
      BY <2>1, <2>2, <2>3, <3>1, AssemblyHours
    <3> DEFINE left == Stripped(slots, day, x.assembly, x.back)
               low == FirstLeft(x.assembly, day, x.back)
               high == DayStart[day + 1] - 1
    <3>5. AreHoursFrom(left, low, high) /\ hours = low..high
      BY <3>2, <3>3, <3>4 DEF LeavesHours
    <3> HIDE DEF left, low, high
    <3>6. /\ Len(left) = Cardinality(hours) /\ {left[i].value : i \in DOMAIN left} = hours
          /\ \A i \in DOMAIN left : SlotStart(left[i]) = left[i].value
      BY <3>5 DEF AreHoursFrom
    <3> QED
      BY <3>6 DEF left, slots, hours
  <2> QED
    BY <2>4, <2>5
<1> QED
  BY <1>1, InputsAreGiven, PTL
=============================================================================
