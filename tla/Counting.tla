-------------------------------- MODULE Counting --------------------------------
(***************************************************************************)
(* What counting and adding up amount to, for the modules that prove       *)
(* something of code that does: the hits a limiter keeps, the sums of a    *)
(* finite set of amounts, the numbers of those that fall under something.  *)
(***************************************************************************)
EXTENDS Integers, Sequences, FiniteSets, FiniteSetTheorems, WellFoundedInduction, TLAPS

(* Of a set of numbers one is least.                                       *)
LEMMA LeastNat ==
  ASSUME NEW K \in SUBSET Nat, K # {}
  PROVE  \E k \in K : \A j \in K : k <= j
<1> DEFINE R == {ss \in Nat \X Nat : ss[1] < ss[2]}
<1>1. IsWellFoundedOn(R, Nat)
  <2>1. OpToRel(<, Nat) = R
    BY Zenon DEF OpToRel
  <2> QED BY <2>1, NatLessThanWellFounded
<1>2. PICK k \in K : \A j \in K : <<j, k>> \notin R
  <2> HIDE DEF R
  <2> QED BY <1>1, WFMin
<1>3. ASSUME NEW j \in K PROVE k <= j
  <2>1. k \in Nat /\ j \in Nat /\ <<j, k>> \notin R
    BY <1>2
  <2> QED BY <2>1
<1> QED BY <1>3

----------------------------------------------------------------------------
(* Limiters that keep the instants of their hits: hits that are dropped at *)
(* the front because they are older than an instant are not missed by a    *)
(* count of those since.                                                   *)

HitsSince(h, t) == {k \in DOMAIN h : h[k] >= t}

(* In every sequence the hits at the front that are older than t end       *)
(* somewhere.                                                              *)
LEMMA FrontEnds ==
  ASSUME NEW h \in Seq(Nat), NEW t \in Int
  PROVE  \E d \in 0..Len(h) : (\A k \in 1..d : h[k] < t) /\ (d < Len(h) => h[d + 1] >= t)
<1> DEFINE K == {k \in 1..Len(h) : h[k] >= t}
<1>1. Len(h) \in Nat /\ \A k \in 1..Len(h) : h[k] \in Nat
  OBVIOUS
<1>2. CASE K = {}
  <2>1. \A k \in 1..Len(h) : h[k] < t
    BY <1>1, <1>2
  <2> QED BY <1>1, <2>1
<1>3. CASE K # {}
  <2>1. K \in SUBSET Nat
    BY <1>1
  <2>2. PICK m \in K : \A j \in K : m <= j
    <3> HIDE DEF K
    <3> QED BY <1>3, <2>1, LeastNat
  <2>3. m \in 1..Len(h) /\ h[m] >= t
    BY <2>2
  <2>4. \A k \in 1..(m - 1) : h[k] < t
    <3> TAKE k \in 1..(m - 1)
    <3>1. k \in 1..Len(h) /\ k \notin K
      BY <1>1, <2>2, <2>3
    <3> QED BY <1>1, <3>1
  <2>5. m - 1 \in 0..Len(h) /\ (m - 1) + 1 = m
    BY <1>1, <2>3
  <2> QED BY <2>3, <2>4, <2>5
<1> QED BY <1>2, <1>3

(* Dropping old hits loses none of the recent ones.                        *)
LEMMA DropsNone ==
  ASSUME NEW h \in Seq(Nat), NEW g \in Seq(Nat), NEW d \in 0..Len(h), NEW t \in Int,
         \A k \in 1..d : h[k] < t, Len(g) = Len(h) - d, \A k \in 1..Len(g) : g[k] = h[k + d]
  PROVE  /\ IsFiniteSet(HitsSince(g, t))
         /\ Cardinality(HitsSince(h, t)) <= Cardinality(HitsSince(g, t))
         /\ Cardinality(HitsSince(g, t)) <= Len(g)
<1>1. /\ Len(h) \in Nat /\ Len(g) \in Nat
      /\ DOMAIN g = 1..Len(g) /\ DOMAIN h = 1..Len(h)
      /\ \A k \in 1..Len(h) : h[k] \in Nat
  OBVIOUS
<1>2. IsFiniteSet(1..Len(g)) /\ Cardinality(1..Len(g)) = Len(g)
  <2> PICK n \in Nat : n = Len(g)
    BY <1>1
  <2>1. 1 \in Int /\ n \in Int
    OBVIOUS
  <2>2. IsFiniteSet(1..n) /\ Cardinality(1..n) = IF 1 > n THEN 0 ELSE n - 1 + 1
    BY <2>1, FS_Interval
  <2>3. (IF 1 > n THEN 0 ELSE n - 1 + 1) = n
    OBVIOUS
  <2> QED BY <2>2, <2>3
<1>3. HitsSince(g, t) \subseteq 1..Len(g)
  BY <1>1 DEF HitsSince
<1>4. IsFiniteSet(HitsSince(g, t)) /\ Cardinality(HitsSince(g, t)) <= Len(g)
  BY <1>2, <1>3, FS_Subset
<1>5. ASSUME NEW k \in HitsSince(h, t) PROVE k \in Int /\ k - d \in HitsSince(g, t)
  <2>1. k \in 1..Len(h) /\ h[k] >= t /\ h[k] \in Nat
    BY <1>1 DEF HitsSince
  <2>2. ~(k \in 1..d)
    BY <2>1
  <2>3. k - d \in 1..Len(g) /\ (k - d) + d = k
    BY <1>1, <2>1, <2>2
  <2>4. g[k - d] = h[k]
    BY <1>1, <2>3
  <2> QED BY <1>1, <2>1, <2>3, <2>4 DEF HitsSince
<1> DEFINE f == [k \in HitsSince(h, t) |-> k - d]
<1>6. f \in Injection(HitsSince(h, t), HitsSince(g, t))
  <2>1. f \in [HitsSince(h, t) -> HitsSince(g, t)]
    BY <1>5
  <2>2. \A k, m \in HitsSince(h, t) : f[k] = f[m] => k = m
    BY <1>5
  <2> QED BY <2>1, <2>2 DEF Injection, IsInjective
<1>7. Cardinality(HitsSince(h, t)) <= Cardinality(HitsSince(g, t))
  <2> HIDE DEF f
  <2> QED BY <1>4, <1>6, FS_Injection
<1> QED BY <1>4, <1>7

LEMMA OnlyOldDropped ==
  ASSUME NEW h \in Seq(Nat), NEW d \in 0..Len(h), NEW t \in Int, \A k \in 1..d : h[k] < t,
         NEW g, g = SubSeq(h, d + 1, Len(h))
  PROVE  /\ g \in Seq(Nat) /\ IsFiniteSet(HitsSince(g, t))
         /\ Cardinality(HitsSince(h, t)) <= Cardinality(HitsSince(g, t))
         /\ Cardinality(HitsSince(g, t)) <= Len(g)
<1>1. Len(h) \in Nat
  OBVIOUS
<1>2. g \in Seq(Nat) /\ Len(g) = Len(h) - d /\ \A k \in 1..Len(g) : g[k] = h[k + d]
  BY <1>1
<1> QED BY <1>2, DropsNone

LEMMA SinceType ==
  ASSUME NEW h \in Seq(Nat), NEW t \in Int
  PROVE  IsFiniteSet(HitsSince(h, t)) /\ Cardinality(HitsSince(h, t)) \in Nat
<1>1. Len(h) \in Nat /\ 0 \in 0..Len(h) /\ Len(h) = Len(h) - 0 /\ (\A k \in 1..Len(h) : h[k] = h[k + 0])
  OBVIOUS
<1>2. \A k \in 1..0 : h[k] < t
  OBVIOUS
<1>3. IsFiniteSet(HitsSince(h, t))
  BY <1>1, <1>2, DropsNone
<1> QED BY <1>3, FS_CardinalityType

(* One more hit counts in every window it is in.                           *)
LEMMA OneMoreHit ==
  ASSUME NEW h \in Seq(Nat), NEW m \in Nat, NEW t \in Int, IsFiniteSet(HitsSince(h, t))
  PROVE  /\ Append(h, m) \in Seq(Nat)
         /\ Cardinality(HitsSince(Append(h, m), t)) = Cardinality(HitsSince(h, t)) + (IF m >= t THEN 1 ELSE 0)
<1> DEFINE g == Append(h, m)
<1>1. /\ g \in Seq(Nat) /\ Len(h) \in Nat /\ Len(g) = Len(h) + 1
      /\ DOMAIN g = 1..(Len(h) + 1) /\ DOMAIN h = 1..Len(h)
      /\ g[Len(h) + 1] = m /\ \A k \in 1..Len(h) : g[k] = h[k]
  OBVIOUS
<1> HIDE DEF g
<1>2. Len(h) + 1 \notin HitsSince(h, t)
  BY <1>1 DEF HitsSince
<1>3. CASE m >= t
  <2>1. HitsSince(g, t) = HitsSince(h, t) \cup {Len(h) + 1}
    BY <1>1, <1>3 DEF HitsSince
  <2> QED BY <1>1, <1>2, <1>3, <2>1, FS_AddElement, FS_CardinalityType DEF g
<1>4. CASE ~(m >= t)
  <2>1. HitsSince(g, t) = HitsSince(h, t)
    BY <1>1, <1>4 DEF HitsSince
  <2> QED BY <1>1, <1>4, <2>1, FS_CardinalityType DEF g
<1> QED BY <1>3, <1>4

----------------------------------------------------------------------------
(* Sums.  SumFunctionOnSet folds in an order of its own; what it gives is  *)
(* the sum in any order.                                                   *)

Pick(T) == CHOOSE x \in T : TRUE

(* g sums up f over every set of D.                                        *)
SumsUp(g, f, D) ==
  g = [T \in D |-> IF T = {} THEN 0 ELSE f[Pick(T)] + g[T \ {Pick(T)}]]

AtMost(S, n) == {T \in SUBSET S : Cardinality(T) <= n}

LEMMA LessThanAll ==
  ASSUME NEW S, IsFiniteSet(S), NEW T \in SUBSET S, T # {}
  PROVE  /\ Pick(T) \in T /\ IsFiniteSet(T) /\ IsFiniteSet(T \ {Pick(T)})
         /\ Cardinality(T) \in Nat /\ Cardinality(T \ {Pick(T)}) = Cardinality(T) - 1
<1>1. Pick(T) \in T
  BY DEF Pick
<1>2. IsFiniteSet(T)
  BY FS_Subset
<1> QED BY <1>1, <1>2, FS_RemoveElement, FS_CardinalityType

LEMMA SumExists ==
  ASSUME NEW S, IsFiniteSet(S), NEW f
  PROVE  \E g : SumsUp(g, f, SUBSET S)
<1> DEFINE K == {n \in Nat : ~\E g : SumsUp(g, f, AtMost(S, n))}
<1>1. K = {}
  <2> SUFFICES ASSUME K # {} PROVE FALSE
    OBVIOUS
  <2>1. K \in SUBSET Nat
    OBVIOUS
  <2>2. PICK n \in K : \A j \in K : n <= j
    <3> HIDE DEF K
    <3> QED BY <2>1, LeastNat
  <2>3. n \in Nat /\ ~\E g : SumsUp(g, f, AtMost(S, n))
    OBVIOUS
  <2>4. \A T \in AtMost(S, n) : T # {} => n > 0 /\ T \ {Pick(T)} \in AtMost(S, n - 1)
    <3> TAKE T \in AtMost(S, n)
    <3> HAVE T # {}
    <3>1. T \in SUBSET S /\ Cardinality(T) <= n
      BY DEF AtMost
    <3>2. Cardinality(T) \in Nat /\ Cardinality(T \ {Pick(T)}) = Cardinality(T) - 1 /\ IsFiniteSet(T \ {Pick(T)})
      BY <3>1, LessThanAll
    <3>3. Cardinality(T \ {Pick(T)}) \in Nat
      BY <3>2, FS_CardinalityType
    <3> QED BY <2>3, <3>1, <3>2, <3>3 DEF AtMost
  <2>5. PICK h : n > 0 => SumsUp(h, f, AtMost(S, n - 1))
    <3>1. CASE n > 0
      <4>1. n - 1 \in Nat /\ ~(n <= n - 1)
        BY <2>3, <3>1
      <4>2. n - 1 \notin K
        <5> HIDE DEF K
        <5> QED BY <2>2, <4>1
      <4> QED BY <4>1, <4>2
    <3>2. CASE ~(n > 0)
      BY <3>2
    <3> QED BY <3>1, <3>2
  <2> DEFINE g == [T \in AtMost(S, n) |-> IF T = {} THEN 0 ELSE f[Pick(T)] + h[T \ {Pick(T)}]]
  <2>6. ASSUME NEW T \in AtMost(S, n), T # {} PROVE g[T \ {Pick(T)}] = h[T \ {Pick(T)}]
    <3>1. n > 0 /\ T \ {Pick(T)} \in AtMost(S, n - 1)
      BY <2>4, <2>6
    <3>2. T \ {Pick(T)} \in AtMost(S, n)
      <4>1. IsFiniteSet(T \ {Pick(T)})
        BY <2>6, LessThanAll DEF AtMost
      <4>2. Cardinality(T \ {Pick(T)}) \in Nat
        BY <4>1, FS_CardinalityType
      <4> QED BY <2>3, <3>1, <4>2 DEF AtMost
    <3>3. SumsUp(h, f, AtMost(S, n - 1))
      BY <2>5, <3>1
    <3> QED BY <3>1, <3>2, <3>3 DEF SumsUp
  <2>7. SumsUp(g, f, AtMost(S, n))
    <3> SUFFICES g = [T \in AtMost(S, n) |-> IF T = {} THEN 0 ELSE f[Pick(T)] + g[T \ {Pick(T)}]]
      BY Zenon DEF SumsUp
    <3>1. \A T \in AtMost(S, n) : (IF T = {} THEN 0 ELSE f[Pick(T)] + h[T \ {Pick(T)}])
                                  = (IF T = {} THEN 0 ELSE f[Pick(T)] + g[T \ {Pick(T)}])
      <4> HIDE DEF g
      <4> QED BY <2>6
    <3> QED BY <3>1, Zenon
  <2> HIDE DEF g
  <2> QED BY <2>3, <2>7
<1>2. Cardinality(S) \in Nat
  BY FS_CardinalityType
<1>3. AtMost(S, Cardinality(S)) = SUBSET S
  BY FS_Subset DEF AtMost
<1>4. \E g : SumsUp(g, f, AtMost(S, Cardinality(S)))
  BY <1>1, <1>2
<1> QED BY <1>3, <1>4

(* What sums up gives one answer.                                          *)
LEMMA SumsAgree ==
  ASSUME NEW S, IsFiniteSet(S), NEW f, NEW g, NEW h, NEW U \in SUBSET S,
         SumsUp(g, f, SUBSET S), SumsUp(h, f, SUBSET U)
  PROVE  g[U] = h[U]
<1> DEFINE K == {n \in Nat : \E T \in SUBSET U : Cardinality(T) = n /\ g[T] # h[T]}
<1>1. K = {}
  <2> SUFFICES ASSUME K # {} PROVE FALSE
    OBVIOUS
  <2>1. K \in SUBSET Nat
    OBVIOUS
  <2>2. PICK n \in K : \A j \in K : n <= j
    <3> HIDE DEF K
    <3> QED BY <2>1, LeastNat
  <2>3. PICK T \in SUBSET U : Cardinality(T) = n /\ g[T] # h[T]
    OBVIOUS
  <2>4. T # {} /\ T \in SUBSET S
    BY <2>3 DEF SumsUp
  <2>5. g[T \ {Pick(T)}] # h[T \ {Pick(T)}]
    BY <2>3, <2>4 DEF SumsUp
  <2>6. Cardinality(T \ {Pick(T)}) = n - 1 /\ IsFiniteSet(T \ {Pick(T)}) /\ T \ {Pick(T)} \in SUBSET U
    BY <2>3, <2>4, LessThanAll
  <2>7. n - 1 \in Nat
    BY <2>6, FS_CardinalityType
  <2>8. n - 1 \in K
    BY <2>5, <2>6, <2>7
  <2>9. n \in Nat
    OBVIOUS
  <2>10. n <= n - 1
    <3> HIDE DEF K
    <3> QED BY <2>2, <2>8
  <2> QED BY <2>7, <2>9, <2>10
<1>2. IsFiniteSet(U)
  BY FS_Subset
<1>3. Cardinality(U) \in Nat
  BY <1>2, FS_CardinalityType
<1> QED BY <1>1, <1>3

LEMMA SumIs ==
  ASSUME NEW S, NEW f
  PROVE  SumFunctionOnSet(f, S) = (CHOOSE g : SumsUp(g, f, SUBSET S))[S]
BY DEF SumFunctionOnSet, FoldFunctionOnSet, MapThenFoldSet, SumsUp, Pick

LEMMA SumUnfolds ==
  ASSUME NEW S, IsFiniteSet(S), NEW f
  PROVE  SumFunctionOnSet(f, S) = IF S = {} THEN 0 ELSE f[Pick(S)] + SumFunctionOnSet(f, S \ {Pick(S)})
<1>1. PICK g : g = (CHOOSE h : SumsUp(h, f, SUBSET S)) /\ SumsUp(g, f, SUBSET S) /\ SumFunctionOnSet(f, S) = g[S]
  <2>1. SumsUp((CHOOSE h : SumsUp(h, f, SUBSET S)), f, SUBSET S)
    BY SumExists, Zenon
  <2> QED BY <2>1, SumIs, Zenon
<1>2. CASE S = {}
  BY <1>1, <1>2 DEF SumsUp
<1>3. CASE S # {}
  <2>1. g[S] = f[Pick(S)] + g[S \ {Pick(S)}]
    BY <1>1, <1>3 DEF SumsUp
  <2>2. S \ {Pick(S)} \in SUBSET S /\ IsFiniteSet(S \ {Pick(S)})
    BY <1>3, LessThanAll
  <2>3. PICK U : U = S \ {Pick(S)}
    OBVIOUS
  <2>4. PICK h : h = (CHOOSE k : SumsUp(k, f, SUBSET U)) /\ SumsUp(h, f, SUBSET U) /\ SumFunctionOnSet(f, U) = h[U]
    <3>1. SumsUp((CHOOSE k : SumsUp(k, f, SUBSET U)), f, SUBSET U)
      BY <2>2, <2>3, SumExists, Zenon
    <3> QED BY <3>1, SumIs, Zenon
  <2>5. g[U] = h[U]
    <3>1. U \in SUBSET S
      BY <2>2, <2>3
    <3>2. SumsUp(g, f, SUBSET S) /\ SumsUp(h, f, SUBSET U)
      BY <1>1, <2>4
    <3> QED BY <3>1, <3>2, SumsAgree
  <2> QED BY <1>1, <1>3, <2>1, <2>3, <2>4, <2>5
<1> QED BY <1>2, <1>3

LEMMA SumEmpty == ASSUME NEW f PROVE SumFunctionOnSet(f, {}) = 0
<1>1. IsFiniteSet({})
  BY FS_EmptySet
<1> QED BY <1>1, SumUnfolds

(* Of the sets a claim fails for, one is smallest.                         *)
LEMMA Smallest ==
  ASSUME NEW S, IsFiniteSet(S), NEW Bad \in SUBSET SUBSET S, Bad # {}
  PROVE  \E T \in Bad : IsFiniteSet(T) /\ \A U \in SUBSET T : U # T => U \notin Bad
<1> DEFINE K == {Cardinality(T) : T \in Bad}
<1>1. \A T \in Bad : IsFiniteSet(T) /\ Cardinality(T) \in Nat
  BY FS_Subset, FS_CardinalityType
<1>2. K \in SUBSET Nat /\ K # {}
  BY <1>1
<1>3. PICK n \in K : \A j \in K : n <= j
  <2> HIDE DEF K
  <2> QED BY <1>2, LeastNat
<1>4. PICK T \in Bad : Cardinality(T) = n
  OBVIOUS
<1>5. ASSUME NEW U \in SUBSET T, U # T, U \in Bad PROVE FALSE
  <2>1. n <= Cardinality(U)
    BY <1>3, <1>5
  <2>2. Cardinality(U) <= Cardinality(T) /\ (Cardinality(T) = Cardinality(U) => T = U)
    BY <1>1, FS_Subset
  <2> QED BY <1>1, <1>4, <1>5, <2>1, <2>2
<1> QED BY <1>1, <1>4, <1>5

LEMMA SumType ==
  ASSUME NEW S, IsFiniteSet(S), NEW f, \A x \in S : f[x] \in Int
  PROVE  SumFunctionOnSet(f, S) \in Int
<1> DEFINE Bad == {T \in SUBSET S : SumFunctionOnSet(f, T) \notin Int}
<1>1. Bad = {}
  <2> SUFFICES ASSUME Bad # {} PROVE FALSE
    OBVIOUS
  <2>1. PICK T \in Bad : IsFiniteSet(T) /\ \A U \in SUBSET T : U # T => U \notin Bad
    <3>1. Bad \in SUBSET SUBSET S
      OBVIOUS
    <3> HIDE DEF Bad
    <3> QED BY <3>1, Smallest
  <2>2. T \in SUBSET S /\ SumFunctionOnSet(f, T) \notin Int
    OBVIOUS
  <2>3. CASE T = {}
    BY <2>2, <2>3, SumEmpty
  <2>4. CASE T # {}
    <3>1. PICK x : x = Pick(T)
      OBVIOUS
    <3>2. x \in T
      BY <2>4, <3>1 DEF Pick
    <3>3. SumFunctionOnSet(f, T) = f[x] + SumFunctionOnSet(f, T \ {x})
      BY <2>1, <2>4, <3>1, SumUnfolds
    <3>4. SumFunctionOnSet(f, T \ {x}) \in Int
      BY <2>1, <2>2, <3>2
    <3> QED BY <2>2, <3>2, <3>3, <3>4
  <2> QED BY <2>3, <2>4
<1> QED BY <1>1

(* Any element may be taken out of a sum first.                            *)
LEMMA SumTakeOut ==
  ASSUME NEW S, IsFiniteSet(S), NEW f, \A x \in S : f[x] \in Int, NEW y \in S
  PROVE  SumFunctionOnSet(f, S) = f[y] + SumFunctionOnSet(f, S \ {y})
<1> DEFINE Bad == {T \in SUBSET S : \E z \in T : SumFunctionOnSet(f, T) # f[z] + SumFunctionOnSet(f, T \ {z})}
<1>1. Bad = {}
  <2> SUFFICES ASSUME Bad # {} PROVE FALSE
    OBVIOUS
  <2>1. PICK T \in Bad : IsFiniteSet(T) /\ \A U \in SUBSET T : U # T => U \notin Bad
    <3>1. Bad \in SUBSET SUBSET S
      OBVIOUS
    <3> HIDE DEF Bad
    <3> QED BY <3>1, Smallest
  <2>2. PICK z \in T : SumFunctionOnSet(f, T) # f[z] + SumFunctionOnSet(f, T \ {z})
    OBVIOUS
  <2>3. T \in SUBSET S
    OBVIOUS
  <2>4. PICK x : x = Pick(T)
    OBVIOUS
  <2>5. x \in T /\ SumFunctionOnSet(f, T) = f[x] + SumFunctionOnSet(f, T \ {x})
    BY <2>1, <2>2, <2>4, SumUnfolds DEF Pick
  <2>6. x # z
    BY <2>2, <2>5
  <2>7. /\ T \ {x} \in SUBSET T /\ T \ {x} # T /\ z \in T \ {x}
        /\ T \ {z} \in SUBSET T /\ T \ {z} # T /\ x \in T \ {z}
        /\ (T \ {x}) \ {z} = (T \ {z}) \ {x}
    BY <2>2, <2>5, <2>6
  <2>8. SumFunctionOnSet(f, T \ {x}) = f[z] + SumFunctionOnSet(f, (T \ {x}) \ {z})
    BY <2>1, <2>3, <2>7
  <2>9. SumFunctionOnSet(f, T \ {z}) = f[x] + SumFunctionOnSet(f, (T \ {z}) \ {x})
    BY <2>1, <2>3, <2>7
  <2>10. PICK U : U = (T \ {x}) \ {z}
    OBVIOUS
  <2>11. SumFunctionOnSet(f, U) \in Int
    <3>1. IsFiniteSet(U) /\ \A u \in U : f[u] \in Int
      BY <2>1, <2>3, <2>10, FS_Subset
    <3> QED BY <3>1, SumType
  <2>12. f[x] \in Int /\ f[z] \in Int
    BY <2>2, <2>3, <2>5
  <2>13. PICK a, b, c : a = f[x] /\ b = f[z] /\ c = SumFunctionOnSet(f, U)
    OBVIOUS
  <2>14. a + (b + c) = b + (a + c)
    BY <2>11, <2>12, <2>13
  <2> QED BY <2>2, <2>5, <2>7, <2>8, <2>9, <2>10, <2>13, <2>14
<1> QED BY <1>1

LEMMA SumInsert ==
  ASSUME NEW S, IsFiniteSet(S), NEW f, NEW y, y \notin S, \A x \in S \cup {y} : f[x] \in Int
  PROVE  SumFunctionOnSet(f, S \cup {y}) = f[y] + SumFunctionOnSet(f, S)
<1>1. IsFiniteSet(S \cup {y}) /\ (S \cup {y}) \ {y} = S
  BY FS_AddElement
<1> QED BY <1>1, SumTakeOut

(* Sums over two sets that correspond to each other.                       *)
LEMMA SumMapped ==
  ASSUME NEW S, IsFiniteSet(S), NEW f, NEW g, NEW h, \A x \in S : f[x] \in Int /\ g[h[x]] = f[x],
         \A x, y \in S : h[x] = h[y] => x = y
  PROVE  SumFunctionOnSet(g, {h[x] : x \in S}) = SumFunctionOnSet(f, S)
<1> DEFINE Bad == {T \in SUBSET S : SumFunctionOnSet(g, {h[x] : x \in T}) # SumFunctionOnSet(f, T)}
<1>1. Bad = {}
  <2> SUFFICES ASSUME Bad # {} PROVE FALSE
    OBVIOUS
  <2>1. PICK T \in Bad : IsFiniteSet(T) /\ \A U \in SUBSET T : U # T => U \notin Bad
    <3>1. Bad \in SUBSET SUBSET S
      OBVIOUS
    <3> HIDE DEF Bad
    <3> QED BY <3>1, Smallest
  <2>2. T \in SUBSET S /\ SumFunctionOnSet(g, {h[x] : x \in T}) # SumFunctionOnSet(f, T)
    OBVIOUS
  <2>3. CASE T = {}
    <3>1. {h[x] : x \in T} = {}
      BY <2>3
    <3> QED BY <2>2, <2>3, <3>1, SumEmpty
  <2>4. CASE T # {}
    <3>1. PICK x \in T : TRUE
      BY <2>4
    <3>2. PICK I, J : I = {h[z] : z \in T} /\ J = {h[z] : z \in T \ {x}}
      OBVIOUS
    <3>3. J = I \ {h[x]} /\ h[x] \in I
      BY <2>2, <3>1, <3>2
    <3>4. IsFiniteSet(I)
      <4>1. ExistsSurjection(T, I)
        <5>1. [z \in T |-> h[z]] \in Surjection(T, I)
          BY <3>2 DEF Surjection
        <5> QED BY <5>1 DEF ExistsSurjection
      <4>2. PICK s \in Surjection(T, I) : TRUE
        BY <4>1 DEF ExistsSurjection
      <4> QED BY <2>1, <4>2, FS_Surjection
    <3>5. \A i \in I : g[i] \in Int
      BY <2>2, <3>2
    <3>6. SumFunctionOnSet(g, I) = g[h[x]] + SumFunctionOnSet(g, J)
      BY <3>3, <3>4, <3>5, SumTakeOut
    <3>7. SumFunctionOnSet(f, T) = f[x] + SumFunctionOnSet(f, T \ {x})
      BY <2>1, <2>2, <3>1, SumTakeOut
    <3>8. SumFunctionOnSet(g, J) = SumFunctionOnSet(f, T \ {x})
      BY <2>1, <2>2, <3>1, <3>2
    <3> QED BY <2>2, <3>1, <3>2, <3>6, <3>7, <3>8
  <2> QED BY <2>3, <2>4
<1> QED BY <1>1

(* Two sets whose amounts correspond one to one sum up to the same.        *)
LEMMA SumCorresponds ==
  ASSUME NEW S, IsFiniteSet(S), NEW T, NEW f, NEW g, NEW h,
         \A x \in S : h[x] \in T, \A y \in T : \E x \in S : y = h[x],
         \A x \in S : f[x] \in Int /\ g[h[x]] = f[x],
         \A x, y \in S : h[x] = h[y] => x = y
  PROVE  SumFunctionOnSet(g, T) = SumFunctionOnSet(f, S)
<1>1. {h[x] : x \in S} = T
  OBVIOUS
<1>2. SumFunctionOnSet(g, {h[x] : x \in S}) = SumFunctionOnSet(f, S)
  BY SumMapped
<1> QED BY <1>1, <1>2, Zenon

(* Functions that agree on a set sum up to the same over it.               *)
LEMMA SumSame ==
  ASSUME NEW S, IsFiniteSet(S), NEW f, NEW g, \A x \in S : f[x] \in Int /\ g[x] = f[x]
  PROVE  SumFunctionOnSet(g, S) = SumFunctionOnSet(f, S)
<1> PICK h : h = [x \in S |-> x]
  OBVIOUS
<1>1. \A x, y \in S : h[x] = h[y] => x = y
  OBVIOUS
<1>2. \A x \in S : f[x] \in Int /\ g[h[x]] = f[x]
  OBVIOUS
<1>3. {h[x] : x \in S} = S
  OBVIOUS
<1>4. SumFunctionOnSet(g, {h[x] : x \in S}) = SumFunctionOnSet(f, S)
  BY <1>1, <1>2, SumMapped
<1> QED BY <1>3, <1>4, Zenon

LEMMA SumOfZeros ==
  ASSUME NEW S, IsFiniteSet(S), NEW f, \A x \in S : f[x] = 0
  PROVE  SumFunctionOnSet(f, S) = 0
<1> DEFINE Bad == {T \in SUBSET S : SumFunctionOnSet(f, T) # 0}
<1>1. Bad = {}
  <2> SUFFICES ASSUME Bad # {} PROVE FALSE
    OBVIOUS
  <2>1. PICK T \in Bad : IsFiniteSet(T) /\ \A U \in SUBSET T : U # T => U \notin Bad
    <3>1. Bad \in SUBSET SUBSET S
      OBVIOUS
    <3> HIDE DEF Bad
    <3> QED BY <3>1, Smallest
  <2>2. T \in SUBSET S /\ SumFunctionOnSet(f, T) # 0
    OBVIOUS
  <2>3. T # {}
    BY <2>2, SumEmpty
  <2>4. PICK x \in T : TRUE
    BY <2>3
  <2>5. SumFunctionOnSet(f, T) = f[x] + SumFunctionOnSet(f, T \ {x})
    BY <2>1, <2>2, <2>4, SumTakeOut
  <2>6. SumFunctionOnSet(f, T \ {x}) = 0
    BY <2>1, <2>2, <2>4
  <2> QED BY <2>2, <2>5, <2>6
<1> QED BY <1>1

(* What is counted by what it falls under, over some of what it may fall   *)
(* under: all of it that does.                                             *)
CountsBy(g, f, S, I) == \A x \in I : g[x] = Cardinality({c \in S : f[c] = x})

LEMMA SumOfCounts ==
  ASSUME NEW S, IsFiniteSet(S), NEW I, IsFiniteSet(I), NEW f, NEW g,
         CountsBy(g, f, S, I), NEW C, C = {c \in S : f[c] \in I}
  PROVE  SumFunctionOnSet(g, I) = Cardinality(C)
<1> DEFINE Under(T) == {c \in S : f[c] \in T}
           Bad == {T \in SUBSET I : SumFunctionOnSet(g, T) # Cardinality(Under(T))}
<1>1. \A T : IsFiniteSet(Under(T)) /\ Cardinality(Under(T)) \in Nat
  <2> TAKE T
  <2>1. Under(T) \in SUBSET S
    OBVIOUS
  <2> HIDE DEF Under
  <2> QED BY <2>1, FS_Subset, FS_CardinalityType
<1>2. ASSUME NEW x \in I PROVE g[x] = Cardinality(Under({x})) /\ g[x] \in Int
  <2>1. Under({x}) = {c \in S : f[c] = x}
    OBVIOUS
  <2>2. g[x] = Cardinality(Under({x}))
    BY <2>1 DEF CountsBy
  <2>3. Cardinality(Under({x})) \in Nat
    BY <1>1
  <2> HIDE DEF Under
  <2> QED BY <2>2, <2>3
<1>3. \A x \in I : g[x] \in Int
  BY <1>2
<1>4. Bad = {}
  <2> SUFFICES ASSUME Bad # {} PROVE FALSE
    OBVIOUS
  <2>1. PICK T \in Bad : IsFiniteSet(T) /\ \A U \in SUBSET T : U # T => U \notin Bad
    <3>1. Bad \in SUBSET SUBSET I
      OBVIOUS
    <3> HIDE DEF Bad
    <3> QED BY <3>1, Smallest
  <2>2. T \in SUBSET I /\ SumFunctionOnSet(g, T) # Cardinality(Under(T))
    OBVIOUS
  <2>3. T # {}
    <3>1. SUFFICES ASSUME T = {} PROVE FALSE
      OBVIOUS
    <3>2. Under({}) = {}
      OBVIOUS
    <3> HIDE DEF Under
    <3> QED BY <2>2, <3>1, <3>2, SumEmpty, FS_EmptySet
  <2>4. PICK x \in T : TRUE
    BY <2>3
  <2>5. PICK U : U = T \ {x}
    OBVIOUS
  <2>6. SumFunctionOnSet(g, T) = g[x] + SumFunctionOnSet(g, U)
    <3>1. \A y \in T : g[y] \in Int
      BY <1>3, <2>2
    <3> QED BY <2>1, <2>4, <2>5, <3>1, SumTakeOut
  <2>7. SumFunctionOnSet(g, U) = Cardinality(Under(U))
    <3>1. U \in SUBSET T /\ U # T /\ U \in SUBSET I
      BY <2>2, <2>4, <2>5
    <3> QED BY <2>1, <3>1
  <2>8. Cardinality(Under(T)) = Cardinality(Under({x})) + Cardinality(Under(U))
    <3>1. Under(T) = Under({x}) \cup Under(U) /\ Under({x}) \cap Under(U) = {}
      BY <2>4, <2>5
    <3> HIDE DEF Under
    <3>2. PICK A, B, D : A = Under({x}) /\ B = Under(U) /\ D = Under(T)
      OBVIOUS
    <3>3. /\ IsFiniteSet(A) /\ IsFiniteSet(B) /\ A \cap B = {} /\ D = A \cup B
          /\ Cardinality(A) \in Nat /\ Cardinality(B) \in Nat
      BY <1>1, <3>1, <3>2, Zenon
    <3>4. Cardinality(A \cup B) = Cardinality(A) + Cardinality(B) - Cardinality(A \cap B)
      BY <3>3, FS_Union
    <3>5. Cardinality(A \cap B) = 0
      BY <3>3, FS_EmptySet
    <3>6. Cardinality(D) = Cardinality(A) + Cardinality(B)
      BY <3>3, <3>4, <3>5
    <3> QED BY <3>2, <3>6, Zenon
  <2> HIDE DEF Bad, Under
  <2> QED BY <1>2, <2>2, <2>4, <2>6, <2>7, <2>8
<1>5. SumFunctionOnSet(g, I) = Cardinality(Under(I)) /\ C = Under(I)
  BY <1>4
<1> QED BY <1>5

(* A part of a sum of numbers is at most the whole.                        *)
LEMMA SumOfPart ==
  ASSUME NEW S, IsFiniteSet(S), NEW f, \A x \in S : f[x] \in Nat
  PROVE  SumFunctionOnSet(f, S) \in Nat /\ \A x \in S : f[x] <= SumFunctionOnSet(f, S)
<1> DEFINE Bad == {T \in SUBSET S : SumFunctionOnSet(f, T) \notin Nat}
<1>1. Bad = {}
  <2> SUFFICES ASSUME Bad # {} PROVE FALSE
    OBVIOUS
  <2>1. PICK T \in Bad : IsFiniteSet(T) /\ \A U \in SUBSET T : U # T => U \notin Bad
    <3>1. Bad \in SUBSET SUBSET S
      OBVIOUS
    <3> HIDE DEF Bad
    <3> QED BY <3>1, Smallest
  <2>2. T \in SUBSET S /\ SumFunctionOnSet(f, T) \notin Nat
    OBVIOUS
  <2>3. T # {}
    BY <2>2, SumEmpty
  <2>4. PICK x \in T : TRUE
    BY <2>3
  <2>5. SumFunctionOnSet(f, T) = f[x] + SumFunctionOnSet(f, T \ {x})
    BY <2>1, <2>2, <2>4, SumTakeOut
  <2>6. SumFunctionOnSet(f, T \ {x}) \in Nat
    <3>1. T \ {x} \in SUBSET T /\ T \ {x} # T /\ T \ {x} \in SUBSET S
      BY <2>2, <2>4
    <3> QED BY <2>1, <3>1
  <2> QED BY <2>2, <2>4, <2>5, <2>6
<1>2. \A T \in SUBSET S : SumFunctionOnSet(f, T) \in Nat
  BY <1>1
<1>3. \A x \in S : f[x] <= SumFunctionOnSet(f, S)
  <2> TAKE x \in S
  <2>1. SumFunctionOnSet(f, S) = f[x] + SumFunctionOnSet(f, S \ {x})
    BY SumTakeOut
  <2>2. SumFunctionOnSet(f, S \ {x}) \in Nat
    BY <1>2
  <2> QED BY <2>1, <2>2
<1> QED BY <1>2, <1>3

===============================================================================
