------------------------------ MODULE PullProofs ------------------------------
(***************************************************************************)
(* What a scrape exposes is the engine's work: the invariants of Pull, for *)
(* any models, line-up of engines and amount of work.                      *)
(*                                                                         *)
(* The values exposed are sums over sets of series.  What such a sum is,   *)
(* for every finite set, is an induction; it is done by looking at a least *)
(* counterexample, which WFMin provides for a set of them.                 *)
(***************************************************************************)
EXTENDS Pull, FiniteSetTheorems, WellFoundedInduction, TLAPS

(* A set of numbers has a least one, and a set of subsets of a finite set  *)
(* one of the fewest elements.                                             *)
LEMMA NatMin ==
    ASSUME NEW T \in SUBSET Nat, T # {}
    PROVE  \E n \in T : \A k \in T : n <= k
<1> DEFINE R == OpToRel(<, Nat)
<1>1. \A a, b \in Nat : a < b => <<a, b>> \in R
  BY DEF OpToRel
<1>2. IsWellFoundedOn(R, Nat)
  BY NatLessThanWellFounded
<1> HIDE DEF R
<1>3. PICK n \in T : \A k \in T : ~(<<k, n>> \in R)
  BY <1>2, WFMin
<1>4. \A k \in T : ~(k < n)
  BY <1>1, <1>3
<1>5. \A k \in T : n <= k
  BY <1>4
<1> QED BY <1>5

LEMMA FiniteMin ==
    ASSUME NEW S, IsFiniteSet(S), NEW T \in SUBSET (SUBSET S), T # {}
    PROVE  \E s \in T : \A t \in T : Cardinality(s) <= Cardinality(t)
<1>1. \A s \in T : Cardinality(s) \in Nat
  BY FS_Subset, FS_CardinalityType
<1> DEFINE N == {Cardinality(s) : s \in T}
<1>2. N \in SUBSET Nat /\ N # {}
  BY <1>1
<1> HIDE DEF N
<1>3. PICK n \in N : \A k \in N : n <= k
  BY <1>2, NatMin
<1> QED BY <1>3 DEF N

Pick(s) == CHOOSE x \in s : TRUE
Body(f, g, s) == IF s = {} THEN 0 ELSE f[Pick(s)] + g[s \ {Pick(s)}]
Iter(f, S) == CHOOSE g : g = [s \in SUBSET S |-> Body(f, g, s)]

LEMMA SumIsIter ==
    ASSUME NEW f, NEW S PROVE SumFunctionOnSet(f, S) = Iter(f, S)[S]
BY DEF SumFunctionOnSet, FoldFunctionOnSet, MapThenFoldSet, Iter, Body, Pick

LEMMA PickIn == \A s : s # {} => Pick(s) \in s
BY DEF Pick

LEMMA LessOne ==
    ASSUME NEW S, IsFiniteSet(S), NEW s \in SUBSET S
    PROVE  /\ Cardinality(s) \in Nat /\ Cardinality({}) = 0
           /\ Cardinality(s) = 0 <=> s = {}
           /\ \A x \in s : s \ {x} \in SUBSET S /\ Cardinality(s \ {x}) = Cardinality(s) - 1
<1>1. IsFiniteSet(s)
  BY FS_Subset
<1> QED BY <1>1, FS_CardinalityType, FS_EmptySet, FS_RemoveElement

UpTo(f, S, g, k) == \A s \in SUBSET S : Cardinality(s) <= k => g[s] = Body(f, g, s)

LEMMA IterDefined ==
    ASSUME NEW S, IsFiniteSet(S), NEW f, \A x \in S : f[x] \in Nat
    PROVE  Iter(f, S) = [s \in SUBSET S |-> Body(f, Iter(f, S), s)]
<1> DEFINE Partial(k) == \E g \in [SUBSET S -> Nat] : UpTo(f, S, g, k)
           Bad == {k \in Nat : ~Partial(k)}
<1>1. Partial(0)
  <2> DEFINE g == [s \in SUBSET S |-> 0]
  <2>1. g \in [SUBSET S -> Nat]
    OBVIOUS
  <2>2. UpTo(f, S, g, 0)
    BY LessOne DEF UpTo, Body
  <2> QED BY <2>1, <2>2
<1>2. ASSUME NEW k \in Nat, Partial(k) PROVE Partial(k + 1)
  <2>1. PICK g \in [SUBSET S -> Nat] : UpTo(f, S, g, k)
    BY <1>2
  <2> DEFINE h == [s \in SUBSET S |-> Body(f, g, s)]
  <2>2. ASSUME NEW s \in SUBSET S PROVE Body(f, g, s) \in Nat
    <3>1. CASE s = {}
      BY <3>1 DEF Body
    <3>2. CASE s # {}
      <4>1. Pick(s) \in s /\ s \ {Pick(s)} \in SUBSET S
        BY <3>2, PickIn
      <4> QED BY <3>2, <4>1 DEF Body
    <3> QED BY <3>1, <3>2
  <2>3. h \in [SUBSET S -> Nat]
    BY <2>2
  <2>4. ASSUME NEW s \in SUBSET S, Cardinality(s) <= k + 1
        PROVE  h[s] = Body(f, h, s)
    <3>1. CASE s = {}
      BY <3>1 DEF Body
    <3>2. CASE s # {}
      <4> DEFINE t == s \ {Pick(s)}
      <4>1. t \in SUBSET S /\ Cardinality(t) <= k
        BY <2>4, <3>2, PickIn, LessOne
      <4>2. h[t] = g[t]
        BY <2>1, <4>1 DEF UpTo
      <4> QED BY <3>2, <4>2 DEF Body
    <3> QED BY <3>1, <3>2
  <2>5. UpTo(f, S, h, k + 1)
    <3> HIDE DEF h
    <3> QED BY <2>4 DEF UpTo
  <2> HIDE DEF h
  <2> QED BY <2>3, <2>5
<1> HIDE DEF Partial
<1>3. Bad = {}
  <2>1. SUFFICES ASSUME Bad # {} PROVE FALSE
    OBVIOUS
  <2>2. PICK k \in Bad : \A j \in Bad : k <= j
    BY <2>1, NatMin
  <2>3. k \in Nat /\ k # 0
    BY <1>1, <2>2
  <2>4. Partial(k - 1) /\ k - 1 \in Nat
    BY <2>2, <2>3
  <2>5. Partial((k - 1) + 1)
    BY <1>2, <2>4
  <2> QED BY <2>2, <2>3, <2>5
<1>4. Cardinality(S) \in Nat
  BY FS_CardinalityType
<1>5. PICK g \in [SUBSET S -> Nat] : UpTo(f, S, g, Cardinality(S))
  BY <1>3, <1>4 DEF Partial
<1>6. \A s \in SUBSET S : Cardinality(s) <= Cardinality(S)
  BY FS_Subset
<1>7. g = [s \in SUBSET S |-> Body(f, g, s)]
  BY <1>5, <1>6 DEF UpTo
<1> QED BY <1>7 DEF Iter


(* What is taken first does not matter. *)
Takes(f, g, s) == /\ g[s] \in Nat /\ (s = {} => g[s] = 0)
                  /\ \A x \in s : g[s] = f[x] + g[s \ {x}]

LEMMA IterTakes ==
    ASSUME NEW S, IsFiniteSet(S), NEW f, \A x \in S : f[x] \in Nat
    PROVE  \A s \in SUBSET S : Takes(f, Iter(f, S), s)
<1> DEFINE g == Iter(f, S)
           Bad == {s \in SUBSET S : ~Takes(f, g, s)}
<1>1. g = [s \in SUBSET S |-> Body(f, g, s)]
  BY IterDefined
<1> HIDE DEF g
<1>2. \A s \in SUBSET S : g[s] = Body(f, g, s)
  BY <1>1
<1>3. SUFFICES ASSUME Bad # {} PROVE FALSE
  BY DEF g
<1>4. PICK s \in Bad : \A t \in Bad : Cardinality(s) <= Cardinality(t)
  BY <1>3, FiniteMin
<1>5. s \in SUBSET S /\ ~Takes(f, g, s)
  BY <1>4
<1>6. ASSUME NEW t \in SUBSET S, Cardinality(t) < Cardinality(s) PROVE Takes(f, g, t)
  <2>1. Cardinality(t) \in Nat /\ Cardinality(s) \in Nat
    BY <1>5, LessOne
  <2> QED BY <1>4, <1>6, <2>1
<1> HIDE DEF Bad
<1>7. s # {}
  <2>1. {} \in SUBSET S
    OBVIOUS
  <2>2. g[{}] = 0
    BY <1>2, <2>1 DEF Body
  <2> QED BY <1>5, <2>2 DEF Takes
<1> DEFINE y == Pick(s)
<1>8. y \in s /\ g[s] = f[y] + g[s \ {y}]
  BY <1>2, <1>5, <1>7, PickIn DEF Body
<1>9. ASSUME NEW x \in s PROVE s \ {x} \in SUBSET S /\ Takes(f, g, s \ {x})
  <2>1. s \ {x} \in SUBSET S /\ Cardinality(s \ {x}) = Cardinality(s) - 1 /\ Cardinality(s) \in Nat
    BY <1>5, LessOne
  <2> QED BY <1>6, <2>1
<1>10. ASSUME NEW x \in s, NEW z \in s \ {x} PROVE g[(s \ {x}) \ {z}] \in Nat
  <2>1. Cardinality(s \ {x}) = Cardinality(s) - 1 /\ Cardinality(s) \in Nat
    BY <1>5, LessOne
  <2>2. /\ (s \ {x}) \ {z} \in SUBSET S
        /\ Cardinality((s \ {x}) \ {z}) = Cardinality(s \ {x}) - 1
    <3>1. s \ {x} \in SUBSET S
      BY <1>9
    <3> QED BY <3>1, <1>10, LessOne
  <2>3. Takes(f, g, (s \ {x}) \ {z})
    BY <1>6, <2>1, <2>2
  <2> QED BY <2>3 DEF Takes
<1> HIDE DEF y
<1>11. ASSUME NEW x \in s PROVE g[s] = f[x] + g[s \ {x}]
  <2>1. CASE x = y
    BY <1>8, <2>1
  <2>2. CASE x # y
    <3>1. (s \ {y}) \ {x} = (s \ {x}) \ {y}
      OBVIOUS
    <3>2. g[s \ {y}] = f[x] + g[(s \ {y}) \ {x}] /\ g[s \ {x}] = f[y] + g[(s \ {x}) \ {y}]
      BY <1>8, <1>9, <2>2 DEF Takes
    <3>3. f[x] \in Nat /\ f[y] \in Nat /\ g[(s \ {x}) \ {y}] \in Nat
      BY <1>5, <1>8, <1>10, <2>2
    <3>4. \A a, b, c \in Nat : a + (b + c) = b + (a + c)
      OBVIOUS
    <3>5. f[y] + (f[x] + g[(s \ {x}) \ {y}]) = f[x] + (f[y] + g[(s \ {x}) \ {y}])
      BY <3>3, <3>4
    <3> QED BY <1>8, <3>1, <3>2, <3>5, Zenon
  <2> QED BY <2>1, <2>2
<1>12. g[s] \in Nat
  <2>1. f[y] \in Nat /\ g[s \ {y}] \in Nat
    BY <1>5, <1>8, <1>9 DEF Takes
  <2>2. f[y] + g[s \ {y}] \in Nat
    BY <2>1
  <2> QED BY <1>8, <2>2, Zenon
<1> QED BY <1>5, <1>7, <1>11, <1>12 DEF Takes

(* Nor does the set a sum over s is a part of. *)
LEMMA IterAgree ==
    ASSUME NEW S, IsFiniteSet(S), NEW T \in SUBSET S, NEW f, NEW h,
           \A x \in S : f[x] \in Nat, \A x \in T : h[x] = f[x]
    PROVE  \A s \in SUBSET T : Iter(h, T)[s] = Iter(f, S)[s]
<1> DEFINE Bad == {s \in SUBSET T : Iter(h, T)[s] # Iter(f, S)[s]}
<1>1. SUFFICES ASSUME Bad # {} PROVE FALSE
  OBVIOUS
<1>2. IsFiniteSet(T)
  BY FS_Subset
<1>3. PICK s \in Bad : \A t \in Bad : Cardinality(s) <= Cardinality(t)
  BY <1>1, <1>2, FiniteMin
<1>4. s \in SUBSET T /\ Iter(h, T)[s] # Iter(f, S)[s]
  BY <1>3
<1>5. Takes(h, Iter(h, T), s) /\ Takes(f, Iter(f, S), s)
  BY <1>2, <1>4, IterTakes
<1>6. PICK x \in s : TRUE
  BY <1>4, <1>5 DEF Takes
<1>7. s \ {x} \in SUBSET T /\ Cardinality(s \ {x}) < Cardinality(s)
  BY <1>2, <1>4, LessOne
<1>8. Iter(h, T)[s \ {x}] = Iter(f, S)[s \ {x}]
  <2>1. Cardinality(s \ {x}) \in Nat /\ Cardinality(s) \in Nat
    BY <1>2, <1>4, <1>7, LessOne
  <2> QED BY <1>3, <1>7, <2>1
<1> QED BY <1>4, <1>5, <1>6, <1>8 DEF Takes

-----------------------------------------------------------------------------
Sum(f, S) == SumFunctionOnSet(f, S)

LEMMA SumTake ==
    ASSUME NEW S, IsFiniteSet(S), NEW f, \A x \in S : f[x] \in Nat
    PROVE  /\ Sum(f, S) \in Nat
           /\ S = {} => Sum(f, S) = 0
           /\ \A x \in S : Sum(f, S) = f[x] + Sum(f, S \ {x})
<1>1. Takes(f, Iter(f, S), S)
  BY IterTakes
<1>2. ASSUME NEW x \in S PROVE Sum(f, S \ {x}) = Iter(f, S)[S \ {x}]
  <2>1. Iter(f, S \ {x})[S \ {x}] = Iter(f, S)[S \ {x}]
    BY IterAgree
  <2> QED BY <2>1, SumIsIter DEF Sum
<1>3. Sum(f, S) = Iter(f, S)[S]
  BY SumIsIter DEF Sum
<1> QED BY <1>1, <1>2, <1>3 DEF Takes

LEMMA SumSame ==
    ASSUME NEW S, IsFiniteSet(S), NEW f, NEW h,
           \A x \in S : f[x] \in Nat /\ h[x] = f[x]
    PROVE  Sum(h, S) = Sum(f, S)
BY IterAgree, SumIsIter DEF Sum

(* Facts about sums that are proved by the least counterexample. *)
LEMMA SumSplit ==
    ASSUME NEW S, IsFiniteSet(S), NEW f, \A x \in S : f[x] \in Nat, NEW T \in SUBSET S
    PROVE  Sum(f, S) = Sum(f, T) + Sum(f, S \ T)
<1> DEFINE Bad == {t \in SUBSET S : Sum(f, S) # Sum(f, t) + Sum(f, S \ t)}
<1>1. SUFFICES ASSUME Bad # {} PROVE FALSE
  OBVIOUS
<1>2. PICK t \in Bad : \A u \in Bad : Cardinality(t) <= Cardinality(u)
  BY <1>1, FiniteMin
<1>3. t \in SUBSET S /\ Sum(f, S) # Sum(f, t) + Sum(f, S \ t)
  BY <1>2
<1>4. IsFiniteSet(t) /\ IsFiniteSet({})
  BY <1>3, FS_Subset, FS_EmptySet
<1>5. Sum(f, {}) = 0 /\ Sum(f, S) \in Nat /\ Sum(f, t) \in Nat
  BY <1>3, <1>4, SumTake
<1>6. t # {}
  <2>1. S \ {} = S
    OBVIOUS
  <2>2. Sum(f, S) = 0 + Sum(f, S)
    BY <1>5
  <2> QED BY <1>3, <1>5, <2>1, <2>2, Zenon
<1>7. PICK x \in t : TRUE
  BY <1>6
<1> DEFINE u == t \ {x}
<1>8. u \in SUBSET S /\ Cardinality(u) < Cardinality(t)
  <2>1. Cardinality(u) = Cardinality(t) - 1 /\ Cardinality(t) \in Nat
    BY <1>3, <1>7, LessOne
  <2> QED BY <1>3, <2>1
<1>9. Sum(f, S) = Sum(f, u) + Sum(f, S \ u)
  <2>1. Cardinality(u) \in Nat /\ Cardinality(t) \in Nat
    BY <1>3, <1>8, LessOne
  <2>2. ~(Cardinality(t) <= Cardinality(u))
    BY <1>8, <2>1
  <2> HIDE DEF u
  <2> QED BY <1>2, <1>8, <2>2
<1>10. (S \ u) \ {x} = S \ t /\ x \in S \ u
  BY <1>3
<1>11. IsFiniteSet(S \ u) /\ IsFiniteSet(u) /\ IsFiniteSet(S \ t)
  BY <1>8, <1>3, FS_Subset
<1>12. f[x] \in Nat /\ Sum(f, u) \in Nat /\ Sum(f, S \ t) \in Nat
  <2> HIDE DEF u
  <2>1. f[x] \in Nat
    BY <1>3, <1>7
  <2>2. (\A y \in u : f[y] \in Nat) /\ \A y \in S \ t : f[y] \in Nat
    BY <1>8
  <2> QED BY <1>11, <2>1, <2>2, SumTake
<1>13. Sum(f, S \ u) = f[x] + Sum(f, S \ t)
  <2>1. \A y \in S \ u : f[y] \in Nat
    OBVIOUS
  <2> HIDE DEF u
  <2>2. Sum(f, S \ u) = f[x] + Sum(f, (S \ u) \ {x})
    BY <1>10, <1>11, <2>1, SumTake
  <2> QED BY <1>10, <2>2
<1>14. Sum(f, t) = f[x] + Sum(f, u)
  BY <1>3, <1>4, <1>7, SumTake
<1> HIDE DEF u
<1> QED BY <1>3, <1>9, <1>12, <1>13, <1>14

LEMMA SumLe ==
    ASSUME NEW S, IsFiniteSet(S), NEW f, NEW h,
           \A x \in S : f[x] \in Nat /\ h[x] \in Nat /\ f[x] <= h[x]
    PROVE  Sum(f, S) <= Sum(h, S)
<1> DEFINE Bad == {t \in SUBSET S : ~(Sum(f, t) <= Sum(h, t))}
<1>1. SUFFICES ASSUME Bad # {} PROVE FALSE
  OBVIOUS
<1>2. PICK t \in Bad : \A u \in Bad : Cardinality(t) <= Cardinality(u)
  BY <1>1, FiniteMin
<1>3. t \in SUBSET S /\ ~(Sum(f, t) <= Sum(h, t)) /\ IsFiniteSet(t)
  BY <1>2, FS_Subset
<1>4. t # {}
  BY <1>3, SumTake
<1>5. PICK x \in t : TRUE
  BY <1>4
<1> DEFINE u == t \ {x}
<1>6. /\ u \in SUBSET S /\ Cardinality(u) \in Nat /\ Cardinality(t) \in Nat
      /\ Cardinality(u) = Cardinality(t) - 1 /\ IsFiniteSet(u)
  BY <1>3, <1>5, LessOne, FS_Subset
<1>7. Sum(f, t) = f[x] + Sum(f, u) /\ Sum(h, t) = h[x] + Sum(h, u)
  BY <1>3, SumTake
<1> HIDE DEF u
<1>8. Sum(f, u) <= Sum(h, u)
  <2>1. ~(Cardinality(t) <= Cardinality(u))
    BY <1>6
  <2> QED BY <1>2, <1>6, <2>1
<1>9. /\ f[x] \in Nat /\ h[x] \in Nat /\ f[x] <= h[x]
      /\ Sum(f, u) \in Nat /\ Sum(h, u) \in Nat
  BY <1>3, <1>6, SumTake
<1> QED BY <1>3, <1>7, <1>8, <1>9

LEMMA SumZero ==
    ASSUME NEW S, IsFiniteSet(S), NEW f, \A x \in S : f[x] = 0
    PROVE  Sum(f, S) = 0
<1> DEFINE Bad == {t \in SUBSET S : Sum(f, t) # 0}
<1>1. SUFFICES ASSUME Bad # {} PROVE FALSE
  OBVIOUS
<1>2. PICK t \in Bad : \A u \in Bad : Cardinality(t) <= Cardinality(u)
  BY <1>1, FiniteMin
<1>3. t \in SUBSET S /\ Sum(f, t) # 0 /\ IsFiniteSet(t)
  BY <1>2, FS_Subset
<1>4. t # {}
  BY <1>3, SumTake
<1>5. PICK x \in t : TRUE
  BY <1>4
<1> DEFINE u == t \ {x}
<1>6. /\ u \in SUBSET S /\ Cardinality(u) \in Nat /\ Cardinality(t) \in Nat
      /\ Cardinality(u) = Cardinality(t) - 1
  BY <1>3, <1>5, LessOne
<1>7. Sum(f, t) = f[x] + Sum(f, u) /\ f[x] = 0
  BY <1>3, SumTake
<1> HIDE DEF u
<1>8. Sum(f, u) = 0
  <2>1. ~(Cardinality(t) <= Cardinality(u))
    BY <1>6
  <2> QED BY <1>2, <1>6, <2>1
<1> QED BY <1>3, <1>7, <1>8

LEMMA SumImage ==
    ASSUME NEW S, IsFiniteSet(S), NEW f, NEW h, NEW g,
           \A x \in S : f[x] \in Nat /\ f[x] = h[g[x]],
           \A x, y \in S : g[x] = g[y] => x = y
    PROVE  Sum(f, S) = Sum(h, {g[x] : x \in S})
<1> DEFINE Im(t) == {g[x] : x \in t}
           Bad == {t \in SUBSET S : Sum(f, t) # Sum(h, Im(t))}
<1>1. SUFFICES ASSUME Bad # {} PROVE FALSE
  OBVIOUS
<1>2. PICK t \in Bad : \A u \in Bad : Cardinality(t) <= Cardinality(u)
  BY <1>1, FiniteMin
<1>3. t \in SUBSET S /\ Sum(f, t) # Sum(h, Im(t)) /\ IsFiniteSet(t)
  BY <1>2, FS_Subset
<1>4. IsFiniteSet(Im(t)) /\ \A y \in Im(t) : h[y] \in Nat
  <2> DEFINE j == [x \in t |-> g[x]]
  <2>1. j \in Surjection(t, Im(t))
    BY DEF Surjection
  <2>2. IsFiniteSet(Im(t))
    <3> HIDE DEF j, Im
    <3> QED BY <1>3, <2>1, FS_Surjection
  <2> QED BY <1>3, <2>2
<1>5. t # {}
  BY <1>3, <1>4, SumTake
<1>6. PICK x \in t : TRUE
  BY <1>5
<1> DEFINE u == t \ {x}
<1>7. /\ u \in SUBSET S /\ Cardinality(u) \in Nat /\ Cardinality(t) \in Nat
      /\ Cardinality(u) = Cardinality(t) - 1
  BY <1>3, <1>6, LessOne
<1>8. Sum(f, t) = f[x] + Sum(f, u)
  BY <1>3, SumTake
<1>9. Im(u) = Im(t) \ {g[x]} /\ g[x] \in Im(t)
  BY <1>3
<1>10. Sum(h, Im(t)) = h[g[x]] + Sum(h, Im(u))
  <2>1. Sum(h, Im(t)) = h[g[x]] + Sum(h, Im(t) \ {g[x]})
    <3> DEFINE I == Im(t)
    <3>1. IsFiniteSet(I) /\ (\A y \in I : h[y] \in Nat) /\ g[x] \in I
      BY <1>4, <1>9
    <3> HIDE DEF I
    <3>2. Sum(h, I) = h[g[x]] + Sum(h, I \ {g[x]})
      BY <3>1, SumTake
    <3> QED BY <3>2 DEF I
  <2> HIDE DEF Im
  <2> QED BY <1>9, <2>1
<1>11. Sum(f, u) = Sum(h, Im(u))
  <2>1. ~(Cardinality(t) <= Cardinality(u))
    BY <1>7
  <2> HIDE DEF u, Im
  <2> QED BY <1>2, <1>7, <2>1
<1>12. f[x] = h[g[x]]
  BY <1>3
<1> QED BY <1>3, <1>8, <1>10, <1>11, <1>12

-----------------------------------------------------------------------------
(* The engine.  The work it counts is that of its current models: those it *)
(* had before were forgotten when it was launched.                         *)
Engine ==
    /\ arm \in Arms /\ models \in ModelSets /\ up \subseteq arm.workers
    /\ arm.labelled \/ Cardinality(models) = 1
    /\ count \in [arm.workers \X Models -> [Kinds -> Nat]]
    /\ since \in [arm.workers \X Models -> [Kinds -> Nat]]
    /\ \A w \in arm.workers : \A m \in Models \ models : count[<<w, m>>] = NoWork

LEMMA ArmFacts ==
    ASSUME arm \in Arms
    PROVE  /\ arm.adapter \in {"vllm", "sglang", "llamacpp", "tensorfold"}
           /\ arm.served \in Models \cup {Absent} /\ arm.exposes \subseteq Expositions
           /\ arm.labelled \in BOOLEAN /\ arm.workers \subseteq {Absent, "0", "1"}
           /\ arm.ranks \subseteq [Groups -> {Absent, "0", "1"}] /\ arm.lacks \subseteq Kinds
           /\ DOMAIN arm.bounds \subseteq {"stream", "batch"}
           /\ arm.workers # {} /\ OneReporter(arm) /\ arm.ranks # {}
           /\ arm.adapter \notin {"vllm", "sglang"} => arm.workers = {Absent}
<1>1. arm \in Arm
  BY ArmsAssumption
<1>2. DOMAIN arm.bounds \subseteq {"stream", "batch"}
  <2>1. arm.bounds \in UNION {[h -> {"coarse", "fine"}] : h \in SUBSET {"stream", "batch"}}
    BY <1>1 DEF Arm
  <2>2. PICK h \in SUBSET {"stream", "batch"} : arm.bounds \in [h -> {"coarse", "fine"}]
    BY <2>1
  <2> QED BY <2>2
<1>3. arm.ranks # {}
  BY ArmsAssumption DEF OneReporter
<1>4. /\ arm.adapter \in {"vllm", "sglang", "llamacpp", "tensorfold"}
      /\ arm.served \in Models \cup {Absent} /\ arm.exposes \subseteq Expositions
      /\ arm.labelled \in BOOLEAN /\ arm.workers \subseteq {Absent, "0", "1"}
      /\ arm.ranks \subseteq [Groups -> {Absent, "0", "1"}] /\ arm.lacks \subseteq Kinds
  BY <1>1 DEF Arm
<1> QED BY <1>2, <1>3, <1>4, ArmsAssumption

(* The rows of the mappings and the counters of the expositions: each row  *)
(* selects one counter, of its own kind, and each kind an exposition has   *)
(* is in one row.                                                          *)
Selects(row, c) == c[1] = row.family /\ (row.mode = AnyMode \/ c[2] = row.mode)
Measures(row) == <<row.def, row.phase>>

UsageRow == Row("usage", "none", "usage", AnyMode)

LEMMA AbsentFacts ==
    /\ Absent # "any" /\ Absent # "decode" /\ Absent # "0" /\ Absent # "1"
    /\ Absent # "local_compute" /\ Absent # "prefill_compute" /\ Absent # "prefill_cache"
<1>1. Absent # "any"
  BY DEF Absent
<1>2. Absent # "decode"
  BY DEF Absent
<1>3. Absent # "0"
  BY DEF Absent
<1>4. Absent # "1"
  BY DEF Absent
<1>5. Absent # "local_compute"
  BY DEF Absent
<1>6. Absent # "prefill_compute"
  BY DEF Absent
<1>7. Absent # "prefill_cache"
  BY DEF Absent
<1> QED BY <1>1, <1>2, <1>3, <1>4, <1>5, <1>6, <1>7

(* The counter a row selects. *)
CounterOf(row) ==
    <<row.family, IF row.mode = AnyMode THEN Absent ELSE row.mode, KindOf(Measures(row))>>

LEMMA RowsMeasure ==
    ASSUME NEW x \in Expositions, NEW row \in Rows(x), row # UsageRow
    PROVE  /\ Measures(row) \in Measurements /\ row.family # "usage"
           /\ row.def = Measures(row)[1] /\ row.phase = Measures(row)[2]
           /\ CounterOf(row) \in Counters(x) /\ Selects(row, CounterOf(row))
<1> USE DEF Rows, Row, UsageRow, Counters, Selects, CounterOf, Measures, Measurements, KindOf, AnyMode
<1>1. CASE x = "vllm"
  BY <1>1 DEF VLLMRows
<1>2. CASE x = "sglang"
  BY <1>2 DEF SGLangRows
<1>3. CASE x = "llamacpp"
  BY <1>3 DEF LlamacppRows
<1>4. CASE x = "native"
  BY <1>4 DEF NativeRows
<1>5. CASE x = "patch0150"
  BY <1>5 DEF Patch0150Rows
<1> QED BY <1>1, <1>2, <1>3, <1>4, <1>5 DEF Expositions

LEMMA RowsSelectOne ==
    ASSUME NEW x \in Expositions, NEW row \in Rows(x), row # UsageRow,
           NEW d \in Counters(x), Selects(row, d)
    PROVE  d = CounterOf(row)
<1> USE AbsentFacts DEF Rows, Row, UsageRow, Counters, Selects, CounterOf, Measures, KindOf, AnyMode
<1>1. CASE x = "vllm"
  BY <1>1 DEF VLLMRows
<1>2. CASE x = "sglang"
  BY <1>2 DEF SGLangRows
<1>3. CASE x = "llamacpp"
  BY <1>3 DEF LlamacppRows
<1>4. CASE x = "native"
  BY <1>4 DEF NativeRows
<1>5. CASE x = "patch0150"
  BY <1>5 DEF Patch0150Rows
<1> QED BY <1>1, <1>2, <1>3, <1>4, <1>5 DEF Expositions

LEMMA UsageRows ==
    ASSUME NEW x \in Expositions
    PROVE  UsageRow \in Rows(x) <=> x \in HasUsage
<1> USE DEF Rows, Row, UsageRow, HasUsage
<1>1. CASE x = "vllm"
  BY <1>1 DEF VLLMRows
<1>2. CASE x = "sglang"
  BY <1>2 DEF SGLangRows
<1>3. CASE x = "llamacpp"
  BY <1>3 DEF LlamacppRows
<1>4. CASE x = "native"
  BY <1>4 DEF NativeRows
<1>5. CASE x = "patch0150"
  BY <1>5 DEF Patch0150Rows
<1> QED BY <1>1, <1>2, <1>3, <1>4, <1>5 DEF Expositions

(* Each kind an exposition has is in a row. *)
LEMMA KindsHaveRows ==
    ASSUME NEW x \in Expositions, NEW m \in Measurements,
           NEW c \in Counters(x), c[3] = KindOf(m)
    PROVE  \E row \in Rows(x) : row # UsageRow /\ Measures(row) = m
<1> USE DEF Rows, Row, UsageRow, Counters, Measures, Measurements, KindOf
<1>1. CASE x = "vllm"
  BY <1>1 DEF VLLMRows
<1>2. CASE x = "sglang"
  BY <1>2 DEF SGLangRows
<1>3. CASE x = "llamacpp"
  BY <1>3 DEF LlamacppRows
<1>4. CASE x = "native"
  <2>1. c[3] # "prefill"
    BY <1>4
  <2>2. m = <<"tokens", "decode">> \/ m = <<"cached", "none">>
    BY <2>1
  <2> QED BY <1>4, <2>2 DEF NativeRows
<1>5. CASE x = "patch0150"
  <2>1. c[3] # "prefill"
    BY <1>5
  <2>2. m = <<"tokens", "decode">> \/ m = <<"cached", "none">>
    BY <2>1
  <2> QED BY <1>5, <2>2 DEF Patch0150Rows
<1> QED BY <1>1, <1>2, <1>3, <1>4, <1>5 DEF Expositions

(* The family a mapping looks for counts decoded tokens. *)
LEMMA CharacteristicCounter ==
    ASSUME NEW x \in Expositions
    PROVE  /\ Characteristic(x) # "usage"
           /\ <<Characteristic(x), Absent, "decode">> \in Counters(x)
           /\ \A c \in Counters(x) : c[1] = Characteristic(x) => c[3] = "decode"
<1> USE DEF Characteristic, Counters
<1>1. CASE x = "vllm"
  BY <1>1
<1>2. CASE x = "sglang"
  BY <1>2
<1>3. CASE x = "llamacpp"
  BY <1>3
<1>4. CASE x = "native"
  BY <1>4
<1>5. CASE x = "patch0150"
  BY <1>5
<1> QED BY <1>1, <1>2, <1>3, <1>4, <1>5 DEF Expositions

-----------------------------------------------------------------------------
(* The body.                                                               *)
Series(w, m, r, c) == [labels |-> Labels(<<w, m, r>>, c[2]), val |-> count[<<w, m>>][c[3]]]

LEMMA FamilyIs ==
    ASSUME NEW x \in arm.exposes, NEW name, name # "usage"
    PROVE  Family(x, name) =
             {Series(p[1][1], p[1][2], p[1][3], p[2]) :
                p \in Reporters \X {c \in Counters(x) : c[1] = name /\ c[3] \notin arm.lacks}}
<1>1. \A p \in Reporters : p = <<p[1], p[2], p[3]>>
  BY DEF Reporters
<1> DEFINE P == Reporters \X {c \in Counters(x) : c[1] = name /\ c[3] \notin arm.lacks}
<1>2. \A p \in P : Labels(p[1], p[2][2]) = Labels(<<p[1][1], p[1][2], p[1][3]>>, p[2][2])
  BY <1>1
<1>3. Family(x, name) = {[labels |-> Labels(p[1], p[2][2]),
                          val |-> count[<<p[1][1], p[1][2]>>][p[2][3]]] : p \in P}
  BY DEF Family
<1> HIDE DEF P
<1>4. Family(x, name) = {Series(p[1][1], p[1][2], p[1][3], p[2]) : p \in P}
  BY <1>2, <1>3 DEF Series
<1> QED BY <1>4 DEF P

LEMMA FamilyHas ==
    ASSUME NEW x \in arm.exposes, NEW name, name # "usage", NEW s
    PROVE  s \in Family(x, name) <=>
             \E w \in up, m \in models, r \in arm.ranks, c \in Counters(x) :
                c[1] = name /\ c[3] \notin arm.lacks /\ s = Series(w, m, r, c)
<1> DEFINE C == {c \in Counters(x) : c[1] = name /\ c[3] \notin arm.lacks}
<1>1. ASSUME s \in Family(x, name)
      PROVE  \E w \in up, m \in models, r \in arm.ranks, c \in C : s = Series(w, m, r, c)
  <2>1. PICK p \in Reporters \X C : s = Series(p[1][1], p[1][2], p[1][3], p[2])
    BY <1>1, FamilyIs
  <2>2. p[1][1] \in up /\ p[1][2] \in models /\ p[1][3] \in arm.ranks /\ p[2] \in C
    <3> HIDE DEF C
    <3> QED BY <2>1 DEF Reporters
  <2> HIDE DEF C
  <2> QED BY <2>1, <2>2
<1>2. ASSUME NEW w \in up, NEW m \in models, NEW r \in arm.ranks, NEW c \in C
      PROVE  Series(w, m, r, c) \in Family(x, name)
  <2> DEFINE p == <<<<w, m, r>>, c>>
  <2>1. p \in Reporters \X C
    BY DEF Reporters
  <2>2. p[1][1] = w /\ p[1][2] = m /\ p[1][3] = r /\ p[2] = c
    OBVIOUS
  <2> HIDE DEF p, C
  <2>3. Family(x, name) = {Series(q[1][1], q[1][2], q[1][3], q[2]) : q \in Reporters \X C}
    BY FamilyIs DEF C
  <2> QED BY <2>1, <2>2, <2>3
<1> QED BY <1>1, <1>2

(* The registered engine answers, and its models, if it labels them. *)
Answers(x) == x \in arm.exposes /\ up # {} /\ models # {} /\ "decode" \notin arm.lacks

LEMMA HasIs ==
    ASSUME Engine, NEW x \in Expositions
    PROVE  Has(x) <=> Answers(x)
<1>1. Characteristic(x) # "usage" /\ arm.ranks # {}
  BY ArmFacts, CharacteristicCounter DEF Engine
<1>2. ASSUME Has(x) PROVE Answers(x)
  <2>1. PICK s : s \in Family(x, Characteristic(x))
    BY <1>2 DEF Has
  <2>2. x \in arm.exposes
    BY <2>1 DEF Family
  <2>3. PICK w \in up, m \in models, r \in arm.ranks, c \in Counters(x) :
            c[1] = Characteristic(x) /\ c[3] \notin arm.lacks
    BY <1>1, <2>1, <2>2, FamilyHas
  <2>4. c[3] = "decode"
    BY <2>3, CharacteristicCounter
  <2> QED BY <2>2, <2>3, <2>4 DEF Answers
<1>3. ASSUME Answers(x) PROVE Has(x)
  <2>1. PICK w \in up, m \in models, r \in arm.ranks : TRUE
    BY <1>1, <1>3 DEF Answers
  <2> DEFINE c == <<Characteristic(x), Absent, "decode">>
  <2>2. c \in Counters(x) /\ c[1] = Characteristic(x) /\ c[3] \notin arm.lacks
    BY <1>3, CharacteristicCounter DEF Answers
  <2> HIDE DEF c
  <2>3. Series(w, m, r, c) \in Family(x, Characteristic(x))
    BY <1>1, <1>3, <2>1, <2>2, FamilyHas DEF Answers
  <2> QED BY <2>3 DEF Has
<1> QED BY <1>2, <1>3

LEMMA ReportedIs ==
    ASSUME Engine, NEW x \in Expositions, Answers(x)
    PROVE  LabelValues(Family(x, Characteristic(x))) = IF arm.labelled THEN models ELSE {}
<1> DEFINE f == Family(x, Characteristic(x))
<1>1. /\ Characteristic(x) # "usage" /\ arm.ranks # {} /\ arm.labelled \in BOOLEAN
      /\ models \subseteq Models /\ Absent \notin Models
  BY ArmFacts, CharacteristicCounter, ModelsAssumption DEF Engine, Models
<1>2. ASSUME NEW s \in f PROVE s.labels.model \in (IF arm.labelled THEN models ELSE {Absent})
  <2>1. PICK w \in up, m \in models, r \in arm.ranks, c \in Counters(x) : s = Series(w, m, r, c)
    BY <1>1, <1>2, FamilyHas DEF Answers
  <2> QED BY <1>1, <2>1 DEF Series, Labels
<1>3. ASSUME arm.labelled, NEW m \in models PROVE \E s \in f : s.labels.model = m
  <2>1. PICK w \in up, r \in arm.ranks : TRUE
    BY <1>1 DEF Answers
  <2> DEFINE c == <<Characteristic(x), Absent, "decode">>
  <2>2. c \in Counters(x) /\ c[1] = Characteristic(x) /\ c[3] \notin arm.lacks
    BY CharacteristicCounter DEF Answers
  <2> HIDE DEF c
  <2>3. Series(w, m, r, c) \in f
    BY <1>1, <1>3, <2>1, <2>2, FamilyHas DEF Answers
  <2>4. Series(w, m, r, c).labels.model = m
    BY <1>3 DEF Series, Labels
  <2> QED BY <2>3, <2>4
<1> HIDE DEF f
<1>4. LabelValues(f) = IF arm.labelled THEN models ELSE {}
  BY <1>1, <1>2, <1>3 DEF LabelValues
<1> QED BY <1>4 DEF f

-----------------------------------------------------------------------------
(* Sums over workers, models and kinds of work.                            *)
LEMMA SumOne ==
    ASSUME NEW f, NEW x, f[x] \in Nat
    PROVE  Sum(f, {x}) = f[x]
<1>1. IsFiniteSet({x}) /\ IsFiniteSet({}) /\ {x} \ {x} = {}
  BY FS_Singleton, FS_EmptySet
<1>2. Sum(f, {x}) = f[x] + Sum(f, {x} \ {x}) /\ Sum(f, {}) = 0
  BY <1>1, SumTake
<1> QED BY <1>1, <1>2

LEMMA FiniteTriples ==
    ASSUME NEW A, NEW B, NEW C, IsFiniteSet(A), IsFiniteSet(B), IsFiniteSet(C)
    PROVE  IsFiniteSet(A \X B \X C)
<1> DEFINE D == (A \X B) \X C
           g == [d \in D |-> <<d[1][1], d[1][2], d[2]>>]
           T == A \X B \X C
<1>1. IsFiniteSet(D)
  BY FS_Product
<1>2. g \in [D -> T]
  OBVIOUS
<1>3. ASSUME NEW t \in T PROVE \E d \in D : g[d] = t
  <2> DEFINE d == <<<<t[1], t[2]>>, t[3]>>
  <2>1. d \in D /\ g[d] = t
    OBVIOUS
  <2> QED BY <2>1
<1>4. g \in Surjection(D, T)
  <2> HIDE DEF D, T, g
  <2> QED BY <1>2, <1>3 DEF Surjection
<1>5. IsFiniteSet(T)
  <2> HIDE DEF D, T, g
  <2> QED BY <1>1, <1>4, FS_Surjection
<1> QED BY <1>5

Work3(f, W, M, K) == [p \in W \X M \X K |-> f[<<p[1], p[2]>>][p[3]]]
Cube(f, W, M, K) == Sum(Work3(f, W, M, K), W \X M \X K)

LEMMA DoneIsCube ==
    ASSUME NEW f, NEW ws, NEW ks
    PROVE  Done(f, ws, ks) = Cube(f, ws, Counted, ks)
BY DEF Done, Cube, Work3, Sum, SumFunction

(* A function of work on a box of workers, models and kinds. *)
Counts(f, W, M, K) ==
    /\ IsFiniteSet(W) /\ IsFiniteSet(M) /\ IsFiniteSet(K)
    /\ \A w \in W, m \in M, k \in K : f[<<w, m>>][k] \in Nat

(* It is so on every part of it. *)
LEMMA CountsSub ==
    ASSUME NEW f, NEW W, NEW M, NEW K, Counts(f, W, M, K),
           NEW V \in SUBSET W, NEW N \in SUBSET M, NEW J \in SUBSET K
    PROVE  Counts(f, V, N, J)
<1>1. IsFiniteSet(V) /\ IsFiniteSet(N) /\ IsFiniteSet(J)
  BY FS_Subset DEF Counts
<1> QED BY <1>1 DEF Counts

LEMMA CubeType ==
    ASSUME NEW f, NEW W, NEW M, NEW K, Counts(f, W, M, K)
    PROVE  /\ IsFiniteSet(W \X M \X K) /\ Cube(f, W, M, K) \in Nat
           /\ \A p \in W \X M \X K : Work3(f, W, M, K)[p] \in Nat
<1>1. IsFiniteSet(W \X M \X K)
  BY FiniteTriples DEF Counts
<1>2. \A p \in W \X M \X K : Work3(f, W, M, K)[p] \in Nat
  BY DEF Work3, Counts
<1> QED BY <1>1, <1>2, SumTake DEF Cube

LEMMA CubeSplit ==
    ASSUME NEW f, NEW W, NEW M, NEW K, Counts(f, W, M, K),
           NEW V \in SUBSET W, NEW N \in SUBSET M, NEW J \in SUBSET K
    PROVE  /\ Counts(f, V, N, J)
           /\ Cube(f, W, M, K) = Cube(f, V, N, J)
                + Sum(Work3(f, W, M, K), (W \X M \X K) \ (V \X N \X J))
<1>1. Counts(f, V, N, J)
  BY CountsSub
<1> DEFINE S == W \X M \X K
           T == V \X N \X J
           F == Work3(f, W, M, K)
           G == Work3(f, V, N, J)
<1>2. T \in SUBSET S
  OBVIOUS
<1>3. \A p \in T : F[p] = G[p]
  BY DEF Work3
<1>4. IsFiniteSet(S) /\ IsFiniteSet(T) /\ (\A p \in S : F[p] \in Nat) /\ \A p \in T : G[p] \in Nat
  BY <1>1, CubeType
<1>5. Cube(f, W, M, K) = Sum(F, S) /\ Cube(f, V, N, J) = Sum(G, T)
  BY DEF Cube
<1> HIDE DEF S, T, F, G
<1>6. Sum(F, S) = Sum(F, T) + Sum(F, S \ T)
  BY <1>2, <1>4, SumSplit
<1>7. Sum(F, T) = Sum(G, T)
  BY <1>3, <1>4, SumSame
<1>8. Cube(f, W, M, K) = Cube(f, V, N, J) + Sum(F, S \ T)
  BY <1>5, <1>6, <1>7
<1> QED BY <1>1, <1>8 DEF S, T, F

LEMMA CubeSub ==
    ASSUME NEW f, NEW W, NEW M, NEW K, Counts(f, W, M, K),
           NEW V \in SUBSET W, NEW N \in SUBSET M, NEW J \in SUBSET K
    PROVE  /\ Cube(f, V, N, J) <= Cube(f, W, M, K)
           /\ (\A p \in (W \X M \X K) \ (V \X N \X J) : f[<<p[1], p[2]>>][p[3]] = 0) =>
                 Cube(f, V, N, J) = Cube(f, W, M, K)
<1> DEFINE R == (W \X M \X K) \ (V \X N \X J)
           F == Work3(f, W, M, K)
<1>1. /\ Cube(f, W, M, K) = Cube(f, V, N, J) + Sum(F, R)
      /\ Cube(f, V, N, J) \in Nat
  <2>1. Counts(f, V, N, J)
    BY CountsSub
  <2>2. Cube(f, V, N, J) \in Nat
    BY <2>1, CubeType
  <2>3. Cube(f, W, M, K) = Cube(f, V, N, J) + Sum(F, R)
    BY CubeSplit
  <2> QED BY <2>2, <2>3
<1>2. IsFiniteSet(R) /\ \A p \in R : F[p] \in Nat /\ F[p] = f[<<p[1], p[2]>>][p[3]]
  <2>1. IsFiniteSet(R)
    BY CubeType, FS_Subset
  <2>2. \A p \in R : F[p] \in Nat
    BY CubeType
  <2>3. \A p \in R : F[p] = f[<<p[1], p[2]>>][p[3]]
    BY DEF Work3
  <2> QED BY <2>1, <2>2, <2>3
<1> HIDE DEF R, F
<1>3. Sum(F, R) \in Nat
  BY <1>2, SumTake
<1>4. (\A p \in R : f[<<p[1], p[2]>>][p[3]] = 0) => Sum(F, R) = 0
  BY <1>2, SumZero
<1>5. /\ Cube(f, V, N, J) <= Cube(f, W, M, K)
      /\ (\A p \in R : f[<<p[1], p[2]>>][p[3]] = 0) => Cube(f, V, N, J) = Cube(f, W, M, K)
  BY <1>1, <1>3, <1>4
<1> QED BY <1>5 DEF R

Point(f, w, m, k) == Cube(f, {w}, {m}, {k})

LEMMA CubeOne ==
    ASSUME NEW f, NEW w, NEW m, NEW k, f[<<w, m>>][k] \in Nat
    PROVE  Point(f, w, m, k) = f[<<w, m>>][k]
<1> DEFINE t == <<w, m, k>>
           F == Work3(f, {w}, {m}, {k})
<1>1. {w} \X {m} \X {k} = {t}
  OBVIOUS
<1>2. F[t] = f[<<w, m>>][k]
  BY DEF Work3
<1>3. Cube(f, {w}, {m}, {k}) = Sum(F, {w} \X {m} \X {k})
  BY DEF Cube
<1> HIDE DEF t, F
<1> QED BY <1>1, <1>2, <1>3, SumOne DEF Point

-----------------------------------------------------------------------------
(* The series that are taken: of the model m and of the rank r.            *)
TakesModel(chosen, m) ==
    m \in models /\ \A q \in models : (IF arm.labelled THEN q ELSE Absent) \in chosen <=> q = m
TakesRank(x, r) == r \in arm.ranks /\ \A q \in arm.ranks : (x = "sglang" => FirstRank(q)) <=> q = r

(* The adapter is the one for x, and x labels workers or there is only one. *)
Adapted(x) ==
    /\ x = "sglang" <=> arm.adapter = "sglang"
    /\ x \notin {"vllm", "sglang"} => arm.workers = {Absent}

LEMMA SeriesLabels ==
    ASSUME NEW x, NEW w, NEW m, NEW r, NEW mode, NEW chosen
    PROVE  LET l == Labels(<<w, m, r>>, mode) IN
           /\ l.model = (IF arm.labelled THEN m ELSE Absent) /\ l.mode = mode
           /\ RankZero(x, l) <=> (x = "sglang" => FirstRank(r))
           /\ Worker(x, l) = IF x \in {"vllm", "sglang"} THEN w ELSE Absent
BY DEF Labels, RankZero, Worker

LEMMA OneWorkerEach ==
    ASSUME Engine, NEW x, Adapted(x), NEW w \in up, NEW m, NEW r, NEW mode
    PROVE  Worker(x, Labels(<<w, m, r>>, mode)) = w
<1>1. Worker(x, Labels(<<w, m, r>>, mode)) = IF x \in {"vllm", "sglang"} THEN w ELSE Absent
  BY SeriesLabels
<1>2. w \in arm.workers
  BY DEF Engine
<1> QED BY <1>1, <1>2 DEF Adapted

Having(row) == {v \in up : KindOf(Measures(row)) \notin arm.lacks}
SeriesOf(row, m, r) == {Series(w, m, r, CounterOf(row)) : w \in Having(row)}

LEMMA TakenIs ==
    ASSUME Engine, NEW x \in arm.exposes, x \in Expositions, NEW row \in Rows(x), row # UsageRow,
           NEW chosen, NEW m, TakesModel(chosen, m), NEW r, TakesRank(x, r)
    PROVE  Selected(x, Family(x, row.family), chosen, row.mode) = SeriesOf(row, m, r)
<1> DEFINE c == CounterOf(row)
           taken == Selected(x, Family(x, row.family), chosen, row.mode)
           V == Having(row)
<1>1. /\ c \in Counters(x) /\ Selects(row, c) /\ row.family # "usage"
      /\ c[1] = row.family /\ c[3] = KindOf(Measures(row))
  BY RowsMeasure DEF Selects, CounterOf
<1> USE DEF Having
<1>2. ASSUME NEW s \in taken PROVE \E w \in V : s = Series(w, m, r, c)
  <2>1. /\ s \in Family(x, row.family) /\ s.labels.model \in chosen /\ RankZero(x, s.labels)
        /\ row.mode = AnyMode \/ s.labels.mode = row.mode
    BY <1>2 DEF Selected
  <2>2. PICK w \in up, q \in models, k \in arm.ranks, d \in Counters(x) :
            d[1] = row.family /\ d[3] \notin arm.lacks /\ s = Series(w, q, k, d)
    BY <1>1, <2>1, FamilyHas
  <2>3. s.labels = Labels(<<w, q, k>>, d[2])
    BY <2>2 DEF Series
  <2>4. q = m /\ k = r
    BY <2>1, <2>2, <2>3, SeriesLabels DEF TakesModel, TakesRank
  <2>5. d = c
    BY <2>1, <2>2, <2>3, SeriesLabels, RowsSelectOne DEF Selects
  <2> HIDE DEF c
  <2> QED BY <1>1, <2>2, <2>4, <2>5
<1>3. ASSUME NEW w \in V PROVE Series(w, m, r, c) \in taken
  <2> HIDE DEF c
  <2> DEFINE s == Series(w, m, r, c)
  <2>1. m \in models /\ r \in arm.ranks /\ w \in up /\ c[3] \notin arm.lacks
    BY <1>1, <1>3 DEF TakesModel, TakesRank
  <2>2. s \in Family(x, row.family)
    BY <1>1, <2>1, FamilyHas
  <2>3. s.labels = Labels(<<w, m, r>>, c[2])
    BY DEF Series
  <2>4. s.labels.model \in chosen /\ RankZero(x, s.labels) /\ s.labels.mode = c[2]
    BY <2>1, <2>3, SeriesLabels DEF TakesModel, TakesRank
  <2>5. row.mode = AnyMode \/ s.labels.mode = row.mode
    BY <1>1, <2>4 DEF Selects
  <2> HIDE DEF s
  <2>6. s \in taken
    BY <2>2, <2>4, <2>5 DEF Selected
  <2> QED BY <2>6 DEF s
<1> HIDE DEF taken, V, c
<1>4. taken = {Series(w, m, r, c) : w \in V}
  BY <1>2, <1>3
<1> QED BY <1>4 DEF taken, V, c, SeriesOf

(* The samples of a family with one series per worker. *)
Family1(ser, W) == {ser[w] : w \in W}
Samples1(d, phase, ser, W) ==
    {[def |-> d, phase |-> phase, worker |-> WorkerID(w), val |-> ser[w].val] : w \in W}

LEMMA ValueIs ==
    ASSUME NEW d, NEW phase, NEW x, NEW W, NEW ser,
           \A w \in W : Worker(x, ser[w].labels) = w /\ ser[w].val \in Nat
    PROVE  Value(d, phase, x, Family1(ser, W)) = Samples1(d, phase, ser, W)
<1> DEFINE f == Family1(ser, W)
<1>1. Each(x, f) = W
  BY DEF Each, Family1
<1>2. ASSUME NEW w \in W PROVE SumFunction([s \in Of(x, f, w) |-> s.val]) = ser[w].val
  <2>1. Of(x, f, w) = {ser[w]}
    BY DEF Of, Family1
  <2> DEFINE g == [s \in {ser[w]} |-> s.val]
  <2>2. DOMAIN g = {ser[w]} /\ g[ser[w]] = ser[w].val
    OBVIOUS
  <2> HIDE DEF g
  <2>3. SumFunction(g) = Sum(g, {ser[w]})
    BY <2>2 DEF SumFunction, Sum
  <2>4. SumFunction(g) = ser[w].val
    BY <2>2, <2>3, SumOne
  <2> QED BY <2>1, <2>4 DEF g
<1> HIDE DEF f
<1>3. Value(d, phase, x, f) = {[def |-> d, phase |-> phase, worker |-> WorkerID(w),
                                val |-> SumFunction([s \in Of(x, f, w) |-> s.val])] : w \in W}
  BY <1>1 DEF Value
<1>4. Value(d, phase, x, f) =
        {[def |-> d, phase |-> phase, worker |-> WorkerID(w), val |-> ser[w].val] : w \in W}
  BY <1>2, <1>3
<1> QED BY <1>4 DEF f, Samples1

-----------------------------------------------------------------------------
(* What is exposed of a worker is the work it did for the arm's one model. *)
Sole(m) == m \in models /\ Counted \cap models = {m}

CounterSample(m, w) ==
    [def |-> m[1], phase |-> m[2], worker |-> WorkerID(w),
     val |-> Done(count, {w}, {KindOf(m)})]
UsageSample(w) ==
    [def |-> "usage", phase |-> "none", worker |-> WorkerID(w), val |-> Usage]
HistogramOf(w) ==
    [worker |-> WorkerID(w), count |-> Done(count, {w}, DOMAIN arm.bounds),
     le |-> Done(count, {w}, {"stream"} \cap DOMAIN arm.bounds)]

LEMMA EngineCounts ==
    ASSUME Engine, NEW W \in SUBSET arm.workers, NEW M \in SUBSET Models, NEW K \in SUBSET Kinds
    PROVE  Counts(count, W, M, K) /\ Counts(since, W, M, K) /\ Counted \in SUBSET Models
<1>1. IsFiniteSet(Kinds) /\ IsFiniteSet({Absent, "0", "1"})
  <2>1. IsFiniteSet({"prefill"}) /\ IsFiniteSet({Absent})
    BY FS_Singleton
  <2>2. IsFiniteSet({"prefill"} \cup {"decode"}) /\ IsFiniteSet({Absent} \cup {"0"})
    BY <2>1, FS_AddElement
  <2>3. IsFiniteSet({"prefill"} \cup {"decode"} \cup {"cached"})
        /\ IsFiniteSet({Absent} \cup {"0"} \cup {"1"})
    BY <2>2, FS_AddElement
  <2>4. IsFiniteSet({"prefill"} \cup {"decode"} \cup {"cached"} \cup {"stream"})
    BY <2>3, FS_AddElement
  <2>5. IsFiniteSet({"prefill"} \cup {"decode"} \cup {"cached"} \cup {"stream"} \cup {"batch"})
    BY <2>4, FS_AddElement
  <2>6. /\ Kinds = {"prefill"} \cup {"decode"} \cup {"cached"} \cup {"stream"} \cup {"batch"}
        /\ {Absent, "0", "1"} = {Absent} \cup {"0"} \cup {"1"}
    BY DEF Kinds
  <2> QED BY <2>3, <2>5, <2>6
<1>2. arm.workers \subseteq {Absent, "0", "1"} /\ arm.served \in Models \cup {Absent}
  BY ArmFacts DEF Engine
<1>3. IsFiniteSet(W) /\ IsFiniteSet(M) /\ IsFiniteSet(K)
  BY <1>1, <1>2, FS_Subset, ModelsAssumption
<1>4. \A w \in W, m \in M, k \in K : count[<<w, m>>][k] \in Nat /\ since[<<w, m>>][k] \in Nat
  BY DEF Engine
<1>5. Counted \in SUBSET Models
  BY <1>2 DEF Counted
<1> QED BY <1>3, <1>4, <1>5 DEF Counts

LEMMA DoneIs ==
    ASSUME Engine, NEW m, Sole(m), NEW w \in up, NEW ks \in SUBSET Kinds
    PROVE  Done(count, {w}, ks) = Cube(count, {w}, {m}, ks)
<1>1. /\ w \in arm.workers /\ {w} \in SUBSET arm.workers /\ models \subseteq Models
      /\ m \in Counted /\ m \in models
  BY DEF Engine, Sole, Models
<1>2. Counted \in SUBSET Models
  BY <1>1, EngineCounts
<1>3. Counts(count, {w}, Counted, ks)
  BY <1>1, <1>2, EngineCounts
<1>4. ASSUME NEW p \in ({w} \X Counted \X ks) \ ({w} \X {m} \X ks)
      PROVE  count[<<p[1], p[2]>>][p[3]] = 0
  <2>1. p[1] = w /\ p[2] \in Models \ models /\ p[3] \in Kinds
    BY <1>2 DEF Sole
  <2>2. count[<<p[1], p[2]>>] = NoWork
    BY <1>1, <2>1 DEF Engine
  <2> QED BY <2>1, <2>2 DEF NoWork
<1>5. Cube(count, {w}, {m}, ks) = Cube(count, {w}, Counted, ks)
  BY <1>1, <1>3, <1>4, CubeSub
<1> QED BY <1>5, DoneIsCube

CounterSamples(m, W) == {CounterSample(m, w) : w \in W}

LEMMA RowSamples ==
    ASSUME Engine, NEW x \in arm.exposes, x \in Expositions, Adapted(x),
           NEW row \in Rows(x), row # UsageRow,
           NEW chosen, NEW m, TakesModel(chosen, m), Sole(m), NEW r, TakesRank(x, r)
    PROVE  Value(row.def, row.phase, x, Selected(x, Family(x, row.family), chosen, row.mode)) =
             CounterSamples(Measures(row), Having(row))
<1> DEFINE V == Having(row)
           c == CounterOf(row)
           ser == [w \in V |-> Series(w, m, r, c)]
           k == KindOf(Measures(row))
<1>1. Selected(x, Family(x, row.family), chosen, row.mode) = Family1(ser, V)
  <2>1. Selected(x, Family(x, row.family), chosen, row.mode) = SeriesOf(row, m, r)
    BY TakenIs
  <2>2. \A w \in V : ser[w] = Series(w, m, r, c)
    OBVIOUS
  <2> HIDE DEF ser
  <2>3. SeriesOf(row, m, r) = Family1(ser, V)
    BY <2>2 DEF SeriesOf, Family1
  <2> QED BY <2>1, <2>3
<1>2. /\ Measures(row) \in Measurements /\ c[3] = k /\ k \in Kinds
      /\ row.def = Measures(row)[1] /\ row.phase = Measures(row)[2]
  <2>1. Measures(row) \in Measurements /\ row.def = Measures(row)[1] /\ row.phase = Measures(row)[2]
    BY RowsMeasure
  <2>2. c[3] = k
    BY DEF CounterOf
  <2>3. k \in Kinds
    BY <2>1 DEF Measurements, KindOf, Kinds
  <2> QED BY <2>1, <2>2, <2>3
<1>3. ASSUME NEW w \in V
      PROVE  /\ Worker(x, ser[w].labels) = w /\ ser[w].val \in Nat
             /\ ser[w].val = Done(count, {w}, {k})
  <2> HIDE DEF c, k
  <2>1. ser[w].labels = Labels(<<w, m, r>>, c[2]) /\ ser[w].val = count[<<w, m>>][k]
    BY <1>2 DEF Series
  <2>2. w \in up
    BY DEF Having
  <2>3. Worker(x, ser[w].labels) = w
    BY <2>1, <2>2, OneWorkerEach
  <2>4. count[<<w, m>>][k] \in Nat
    BY <1>2, <2>2 DEF Engine, Sole, Models
  <2>5. Done(count, {w}, {k}) = Cube(count, {w}, {m}, {k})
    BY <1>2, <2>2, DoneIs
  <2> HIDE DEF ser, V
  <2>6. Cube(count, {w}, {m}, {k}) = count[<<w, m>>][k]
    <3>1. Point(count, w, m, k) = count[<<w, m>>][k]
      BY <2>4, CubeOne
    <3> QED BY <3>1 DEF Point
  <2> QED BY <2>1, <2>3, <2>4, <2>5, <2>6
<1> HIDE DEF V, ser, c
<1>4. Value(row.def, row.phase, x, Family1(ser, V)) = Samples1(row.def, row.phase, ser, V)
  <2>1. \A w \in V : Worker(x, ser[w].labels) = w /\ ser[w].val \in Nat
    BY <1>3
  <2> HIDE DEF k
  <2> QED BY ONLY <2>1, ValueIs
<1>5. \A w \in V : [def |-> row.def, phase |-> row.phase, worker |-> WorkerID(w), val |-> ser[w].val]
                     = CounterSample(Measures(row), w)
  BY <1>2, <1>3 DEF CounterSample
<1>6. Samples1(row.def, row.phase, ser, V) = CounterSamples(Measures(row), V)
  BY <1>5 DEF Samples1, CounterSamples
<1> QED BY <1>1, <1>4, <1>6 DEF V

(* The cache usage of each worker. *)
UsageSeries(w, m, r) == [labels |-> Labels(<<w, m, r>>, Absent), val |-> Usage]
UsageSamples(W) == {UsageSample(w) : w \in W}

LEMMA UsageRowSamples ==
    ASSUME Engine, NEW x \in arm.exposes, x \in HasUsage, Adapted(x),
           NEW chosen, NEW m, TakesModel(chosen, m), NEW r, TakesRank(x, r)
    PROVE  Value("usage", "none", x, Selected(x, Family(x, "usage"), chosen, AnyMode)) =
             UsageSamples(up)
<1> DEFINE ser == [w \in up |-> UsageSeries(w, m, r)]
           taken == Selected(x, Family(x, "usage"), chosen, AnyMode)
           f == {[labels |-> Labels(q, Absent), val |-> Usage] : q \in Reporters}
<1>1. Family(x, "usage") = f
  BY DEF Family
<1>2. ASSUME NEW s \in taken PROVE \E w \in up : s = UsageSeries(w, m, r)
  <2>1. s \in f /\ s.labels.model \in chosen /\ RankZero(x, s.labels)
    BY <1>1, <1>2 DEF Selected
  <2>2. PICK q \in Reporters : s = [labels |-> Labels(q, Absent), val |-> Usage]
    BY <2>1
  <2>3. q[1] \in up /\ q[2] \in models /\ q[3] \in arm.ranks /\ q = <<q[1], q[2], q[3]>>
    BY DEF Reporters
  <2>4. s.labels = Labels(<<q[1], q[2], q[3]>>, Absent) /\ s = UsageSeries(q[1], q[2], q[3])
    BY <2>2, <2>3 DEF UsageSeries
  <2>5. q[2] = m /\ q[3] = r
    BY <2>1, <2>3, <2>4, SeriesLabels DEF TakesModel, TakesRank
  <2> QED BY <2>3, <2>4, <2>5
<1>3. ASSUME NEW w \in up PROVE UsageSeries(w, m, r) \in taken
  <2>1. <<w, m, r>> \in Reporters
    BY DEF Reporters, TakesModel, TakesRank
  <2>2. UsageSeries(w, m, r) \in Family(x, "usage")
    BY <1>1, <2>1 DEF UsageSeries
  <2>3. UsageSeries(w, m, r).labels = Labels(<<w, m, r>>, Absent)
    BY DEF UsageSeries
  <2>4. /\ UsageSeries(w, m, r).labels.model \in chosen
        /\ RankZero(x, UsageSeries(w, m, r).labels)
    BY <2>3, SeriesLabels DEF TakesModel, TakesRank
  <2> QED BY <2>2, <2>4 DEF Selected
<1> HIDE DEF taken
<1>4. taken = Family1(ser, up)
  <2>1. \A w \in up : ser[w] = UsageSeries(w, m, r)
    OBVIOUS
  <2> HIDE DEF ser
  <2> QED BY <1>2, <1>3, <2>1 DEF Family1
<1>5. ASSUME NEW w \in up
      PROVE  /\ Worker(x, ser[w].labels) = w /\ ser[w].val \in Nat /\ ser[w].val = Usage
  BY OneWorkerEach DEF UsageSeries, Usage
<1> HIDE DEF ser
<1>6. Value("usage", "none", x, Family1(ser, up)) = Samples1("usage", "none", ser, up)
  BY <1>5, ValueIs
<1>7. Samples1("usage", "none", ser, up) = UsageSamples(up)
  BY <1>5 DEF Samples1, UsageSamples, UsageSample
<1> QED BY <1>4, <1>6, <1>7 DEF taken

-----------------------------------------------------------------------------
(* The histograms.                                                         *)
Line(f, w, m, K) == [k \in K |-> f[<<w, m>>][k]]

LEMMA CubeLine ==
    ASSUME NEW f, NEW w, NEW m, NEW K, Counts(f, {w}, {m}, K)
    PROVE  Cube(f, {w}, {m}, K) = Sum(Line(f, w, m, K), K)
<1> DEFINE l == Line(f, w, m, K)
           g == [k \in K |-> <<w, m, k>>]
           F == Work3(f, {w}, {m}, K)
<1>1. {g[k] : k \in K} = {w} \X {m} \X K
  OBVIOUS
<1>2. \A k \in K : l[k] \in Nat /\ l[k] = F[g[k]]
  BY DEF Counts, Work3, Line
<1>3. \A j, k \in K : g[j] = g[k] => j = k
  OBVIOUS
<1>4. IsFiniteSet(K) /\ Cube(f, {w}, {m}, K) = Sum(F, {w} \X {m} \X K)
  BY DEF Counts, Cube
<1> HIDE DEF l, g, F
<1>5. Sum(l, K) = Sum(F, {g[k] : k \in K})
  BY <1>2, <1>3, <1>4, SumImage
<1> QED BY <1>1, <1>4, <1>5 DEF l

HistSeries(w, m, r, h) ==
    [labels |-> Labels(<<w, m, r>>, h), bounds |-> arm.bounds[h],
     count |-> count[<<w, m>>][h], le |-> IF h = "stream" THEN count[<<w, m>>][h] ELSE 0]

LEMMA HistTaken ==
    ASSUME Engine, NEW x, NEW chosen, NEW m, TakesModel(chosen, m), NEW r, TakesRank(x, r), NEW s
    PROVE  s \in Selected(x, Histograms(x), chosen, AnyMode) <=>
             /\ x \in arm.exposes \cap HasTTFT
             /\ \E w \in up, h \in DOMAIN arm.bounds : s = HistSeries(w, m, r, h)
<1> DEFINE P == {q \in Reporters \X DOMAIN arm.bounds : x \in arm.exposes \cap HasTTFT}
           taken == Selected(x, Histograms(x), chosen, AnyMode)
           H(p) == [labels |-> Labels(p[1], p[2]), bounds |-> arm.bounds[p[2]],
                    count |-> count[<<p[1][1], p[1][2]>>][p[2]],
                    le |-> IF p[2] = "stream" THEN count[<<p[1][1], p[1][2]>>][p[2]] ELSE 0]
<1>1. Histograms(x) = {H(p) : p \in P}
  BY DEF Histograms
<1>2. ASSUME s \in taken
      PROVE  /\ x \in arm.exposes \cap HasTTFT
             /\ \E w \in up, h \in DOMAIN arm.bounds : s = HistSeries(w, m, r, h)
  <2>1. s \in Histograms(x) /\ s.labels.model \in chosen /\ RankZero(x, s.labels)
    BY <1>2 DEF Selected
  <2>2. PICK p \in P : s = H(p)
    BY <1>1, <2>1
  <2>3. /\ p[1][1] \in up /\ p[1][2] \in models /\ p[1][3] \in arm.ranks
        /\ p[1] = <<p[1][1], p[1][2], p[1][3]>> /\ p[2] \in DOMAIN arm.bounds
        /\ x \in arm.exposes \cap HasTTFT
    BY <2>2 DEF Reporters
  <2>4. s.labels = Labels(<<p[1][1], p[1][2], p[1][3]>>, p[2])
        /\ s = HistSeries(p[1][1], p[1][2], p[1][3], p[2])
    BY <2>2, <2>3 DEF HistSeries
  <2>5. p[1][2] = m /\ p[1][3] = r
    BY <2>1, <2>3, <2>4, SeriesLabels DEF TakesModel, TakesRank
  <2> QED BY <2>3, <2>4, <2>5
<1>3. ASSUME x \in arm.exposes \cap HasTTFT, NEW w \in up, NEW h \in DOMAIN arm.bounds,
             s = HistSeries(w, m, r, h)
      PROVE  s \in taken
  <2> DEFINE p == <<<<w, m, r>>, h>>
  <2>1. p \in P
    BY <1>3 DEF Reporters, TakesModel, TakesRank
  <2>2. s = H(p) /\ s.labels = Labels(<<w, m, r>>, h)
    BY <1>3 DEF HistSeries
  <2>3. s \in Histograms(x)
    BY <1>1, <2>1, <2>2
  <2>4. s.labels.model \in chosen /\ RankZero(x, s.labels)
    BY <2>2, SeriesLabels DEF TakesModel, TakesRank
  <2> QED BY <2>3, <2>4 DEF Selected
<1> QED BY <1>2, <1>3

LEMMA HistogramIs ==
    ASSUME Engine, NEW x, Adapted(x), NEW chosen, NEW m, TakesModel(chosen, m), Sole(m),
           NEW r, TakesRank(x, r),
           NEW h \in Histogram(x, Selected(x, Histograms(x), chosen, AnyMode))
    PROVE  \E w \in up : h = HistogramOf(w)
<1> DEFINE f == Selected(x, Histograms(x), chosen, AnyMode)
           D == DOMAIN arm.bounds
<1>1. ASSUME NEW s \in f
      PROVE  /\ x \in arm.exposes \cap HasTTFT
             /\ \E w \in up, k \in D : s = HistSeries(w, m, r, k) /\ Worker(x, s.labels) = w
  <2>1. x \in arm.exposes \cap HasTTFT
    BY <1>1, HistTaken
  <2>2. PICK w \in up, k \in D : s = HistSeries(w, m, r, k)
    BY <1>1, HistTaken
  <2>3. s.labels = Labels(<<w, m, r>>, k)
    BY <2>2 DEF HistSeries
  <2> QED BY <2>1, <2>2, <2>3, OneWorkerEach
<1>2. PICK w \in Each(x, f) :
          h = [worker |-> WorkerID(w), count |-> SumFunction([s \in Of(x, f, w) |-> s.count]),
               le |-> SumFunction([s \in Of(x, f, w) |-> s.le])]
  BY DEF Histogram
<1>3. w \in up /\ x \in arm.exposes \cap HasTTFT
  <2>1. PICK s \in f : Worker(x, s.labels) = w
    BY <1>2 DEF Each
  <2> QED BY <1>1, <2>1
<1> DEFINE F == Of(x, f, w)
           hs == [k \in D |-> HistSeries(w, m, r, k)]
           c == [k \in D |-> count[<<w, m>>][k]]
           l == [k \in D |-> IF k = "stream" THEN count[<<w, m>>][k] ELSE 0]
           cs == [s \in F |-> s.count]
           ls == [s \in F |-> s.le]
           J == {"stream"} \cap D
<1>4. F = {hs[k] : k \in D}
  <2>1. ASSUME NEW s \in F PROVE \E k \in D : s = hs[k]
    <3>1. s \in f /\ Worker(x, s.labels) = w
      BY <2>1 DEF Of
    <3>2. PICK v \in up, k \in D : s = HistSeries(v, m, r, k) /\ Worker(x, s.labels) = v
      BY <1>1, <3>1
    <3> QED BY <3>1, <3>2
  <2>2. ASSUME NEW k \in D PROVE hs[k] \in F
    <3>1. HistSeries(w, m, r, k) \in f
      BY <1>3, HistTaken
    <3>2. HistSeries(w, m, r, k).labels = Labels(<<w, m, r>>, k)
      BY DEF HistSeries
    <3>3. Worker(x, HistSeries(w, m, r, k).labels) = w
      BY <1>3, <3>2, OneWorkerEach
    <3> QED BY <3>1, <3>3 DEF Of
  <2> HIDE DEF F, hs, D
  <2> QED BY <2>1, <2>2
<1>5. /\ D \in SUBSET Kinds /\ J \in SUBSET D /\ w \in arm.workers /\ m \in Models
      /\ {w} \in SUBSET arm.workers /\ {m} \in SUBSET Models
  <2>1. D \subseteq {"stream", "batch"}
    BY ArmFacts DEF Engine
  <2> QED BY <1>3, <2>1 DEF Kinds, Engine, Sole, Models
<1>6. IsFiniteSet(D) /\ IsFiniteSet(J) /\ Counts(count, {w}, {m}, D) /\ Counts(count, {w}, {m}, J)
  <2>1. Counts(count, {w}, {m}, D) /\ Counts(count, {w}, {m}, J)
    BY <1>5, EngineCounts
  <2> QED BY <2>1 DEF Counts
<1>7. ASSUME NEW k \in D
      PROVE  /\ c[k] \in Nat /\ l[k] \in Nat /\ hs[k] \in F
             /\ c[k] = cs[hs[k]] /\ l[k] = ls[hs[k]] /\ hs[k].labels.mode = k
  <2>1. count[<<w, m>>][k] \in Nat
    BY <1>6 DEF Counts
  <2>2. hs[k] \in F
    BY <1>4
  <2>3. hs[k] = HistSeries(w, m, r, k)
    OBVIOUS
  <2>4. /\ hs[k].count = count[<<w, m>>][k] /\ hs[k].labels.mode = k
        /\ hs[k].le = IF k = "stream" THEN count[<<w, m>>][k] ELSE 0
    BY <2>3 DEF HistSeries, Labels
  <2> HIDE DEF hs, F, D
  <2> QED BY <2>1, <2>2, <2>4
<1>8. \A j, k \in D : hs[j] = hs[k] => j = k
  <2>1. \A k \in D : hs[k].labels.mode = k
    BY <1>7
  <2> HIDE DEF hs, D
  <2> QED BY <2>1
<1>9. SumFunction(cs) = Sum(cs, F) /\ SumFunction(ls) = Sum(ls, F)
  BY DEF SumFunction, Sum
<1>10. DOMAIN c = D /\ \A k \in J : c[k] = l[k]
  OBVIOUS
<1>11. \A k \in D \ J : l[k] = 0
  OBVIOUS
<1>12. /\ Cube(count, {w}, {m}, D) = Sum(c, D)
       /\ Cube(count, {w}, {m}, J) = Sum(Line(count, w, m, J), J)
  <2>1. c = Line(count, w, m, D)
    BY DEF Line
  <2> HIDE DEF D, J, c
  <2>2. Cube(count, {w}, {m}, D) = Sum(Line(count, w, m, D), D)
    BY <1>6, CubeLine
  <2>3. Cube(count, {w}, {m}, J) = Sum(Line(count, w, m, J), J)
    BY <1>6, CubeLine
  <2> QED BY <2>1, <2>2, <2>3
<1>13. Sum(Line(count, w, m, J), J) = Sum(l, J)
  <2> DEFINE g == Line(count, w, m, J)
  <2>1. \A k \in J : g[k] = l[k] /\ l[k] \in Nat
    BY <1>7 DEF Line
  <2> HIDE DEF g, l, J, D
  <2>2. Sum(g, J) = Sum(l, J)
    BY <1>6, <2>1, SumSame
  <2> QED BY <2>2 DEF g
<1>14. Done(count, {w}, D) = Cube(count, {w}, {m}, D) /\ Done(count, {w}, J) = Cube(count, {w}, {m}, J)
  BY <1>3, <1>5, DoneIs
<1> HIDE DEF f, F, D, hs, c, l, cs, ls, J
<1>15. Sum(c, D) = Sum(cs, F)
  BY <1>4, <1>6, <1>7, <1>8, SumImage
<1>16. Sum(l, D) = Sum(ls, F)
  BY <1>4, <1>6, <1>7, <1>8, SumImage
<1>17. Sum(l, D) = Sum(l, J)
  <2>1. Sum(l, D) = Sum(l, J) + Sum(l, D \ J)
    BY <1>5, <1>6, <1>7, SumSplit
  <2>2. IsFiniteSet(D \ J)
    BY <1>6, FS_Subset
  <2>3. Sum(l, D \ J) = 0
    BY <1>11, <2>2, SumZero
  <2>4. Sum(l, J) \in Nat
    BY <1>5, <1>6, <1>7, SumTake
  <2> QED BY <2>1, <2>3, <2>4
<1>18. SumFunction(cs) = Done(count, {w}, D) /\ SumFunction(ls) = Done(count, {w}, J)
  BY <1>9, <1>12, <1>13, <1>14, <1>15, <1>16, <1>17
<1>19. h = [worker |-> WorkerID(w), count |-> SumFunction(cs), le |-> SumFunction(ls)]
  BY <1>2 DEF cs, ls, F
<1>20. h = HistogramOf(w)
  BY <1>18, <1>19 DEF HistogramOf, D, J
<1> QED BY <1>3, <1>20

-----------------------------------------------------------------------------
(* The mapping.  Reads is the exposition the adapter takes for its own     *)
(* whenever there is one.                                                  *)
Reads ==
    IF arm.adapter # "tensorfold" THEN arm.adapter
    ELSE IF "native" \in arm.exposes THEN "native" ELSE "patch0150"

LEMMA ReadsFacts ==
    ASSUME Engine
    PROVE  /\ Reads \in Expositions /\ Adapted(Reads)
           /\ \E r : TakesRank(Reads, r)
<1>1. /\ arm.adapter \in {"vllm", "sglang", "llamacpp", "tensorfold"} /\ OneReporter(arm)
      /\ arm.adapter \notin {"vllm", "sglang"} => arm.workers = {Absent}
  BY ArmFacts DEF Engine
<1>2. Reads \in Expositions /\ Adapted(Reads)
  BY <1>1 DEF Reads, Expositions, Adapted
<1>3. \E r : TakesRank(Reads, r)
  BY <1>1, <1>2 DEF OneReporter, TakesRank, Adapted
<1> QED BY <1>2, <1>3

LEMMA MappingReads ==
    ASSUME Engine
    PROVE  /\ Mapping \in Expositions
           /\ Answers(Mapping) => Mapping = Reads
           /\ Answers(Reads) => Mapping = Reads
<1>1. Has("native") <=> Answers("native")
  BY HasIs DEF Expositions
<1>2. arm.adapter \in {"vllm", "sglang", "llamacpp", "tensorfold"}
  BY ArmFacts DEF Engine
<1>3. Mapping \in Expositions
  BY <1>2 DEF Mapping, Expositions
<1>4. Answers(Mapping) => Mapping = Reads
  BY <1>1, <1>2 DEF Mapping, Reads, Answers
<1>5. Answers(Reads) => Mapping = Reads
  BY <1>1, <1>2 DEF Mapping, Reads, Answers
<1> QED BY <1>3, <1>4, <1>5

LEMMA ChoosesModel ==
    ASSUME Engine, models # {}, NEW reported, reported = IF arm.labelled THEN models ELSE {},
           ~Mismatch(reported)
    PROVE  OneModel /\ \E m : TakesModel(SelectModel(reported), m) /\ Sole(m)
<1>1. /\ arm.served \in Models \cup {Absent} /\ arm.labelled \in BOOLEAN
      /\ models \subseteq Models /\ Absent \notin Models /\ IsFiniteSet(models)
      /\ Cardinality(models) \in Nat /\ Cardinality(models) # 0
  <2>1. arm.served \in Models \cup {Absent} /\ arm.labelled \in BOOLEAN /\ models \subseteq Models
    BY ArmFacts DEF Engine, Models
  <2>2. IsFiniteSet(models)
    BY <2>1, ModelsAssumption, FS_Subset
  <2> QED BY <2>1, <2>2, ModelsAssumption, FS_CardinalityType, FS_EmptySet
<1>2. CASE arm.labelled /\ arm.served # Absent
  <2>1. arm.served \in models
    BY <1>2 DEF Mismatch
  <2>2. TakesModel(SelectModel(reported), arm.served)
    BY <1>2, <2>1 DEF TakesModel, SelectModel
  <2>3. Sole(arm.served)
    BY <1>2, <2>1 DEF Sole, Counted
  <2> QED BY <1>2, <2>1, <2>2, <2>3 DEF OneModel
<1>3. CASE ~(arm.labelled /\ arm.served # Absent)
  <2>1. Cardinality(models) = 1
    <3>1. CASE ~arm.labelled
      BY <3>1 DEF Engine
    <3>2. CASE arm.labelled
      <4>1. reported = models /\ arm.served = Absent
        BY <1>3, <3>2
      <4>2. ~(Cardinality(models) > 1)
        BY <4>1 DEF Mismatch
      <4> QED BY <1>1, <4>2
    <3> QED BY <3>1, <3>2
  <2>2. PICK m : models = {m}
    BY <1>1, <2>1, FS_Singleton
  <2>3. SelectModel(reported) = Models \cup {Absent}
    BY <1>1, <1>3 DEF SelectModel
  <2>4. TakesModel(SelectModel(reported), m)
    BY <1>1, <2>2, <2>3 DEF TakesModel
  <2>5. Sole(m)
    BY <1>1, <1>3, <2>2 DEF Sole, Counted
  <2> QED BY <1>3, <2>1, <2>4, <2>5 DEF OneModel
<1> QED BY <1>2, <1>3

(* What a scrape that succeeds has: a counter of every worker for each     *)
(* kind of work the exposition has, and the cache usage.                   *)
Shows(m) == \E c \in Counters(Reads) : c[3] = KindOf(m) /\ c[3] \notin arm.lacks
Offered == {m \in Measurements : Shows(m)}
AllCounters == UNION {CounterSamples(m, up) : m \in Offered}
AllUsages == IF Reads \in HasUsage THEN UsageSamples(up) ELSE {}
AllSamples == AllCounters \cup AllUsages

LEMMA RowUnion ==
    ASSUME Engine, Answers(Reads), NEW chosen, NEW m, TakesModel(chosen, m), Sole(m)
    PROVE  UNION {Value(row.def, row.phase, Reads,
                        Selected(Reads, Family(Reads, row.family), chosen, row.mode)) :
                    row \in Rows(Reads)} = AllSamples
<1> DEFINE x == Reads
           V(row) == Value(row.def, row.phase, x,
                           Selected(x, Family(x, row.family), chosen, row.mode))
<1>1. x \in arm.exposes /\ x \in Expositions /\ Adapted(x)
  BY ReadsFacts DEF Answers
<1>2. PICK r : TakesRank(x, r)
  BY ReadsFacts
<1>3. ASSUME NEW row \in Rows(x), row # UsageRow
      PROVE  /\ V(row) = CounterSamples(Measures(row), Having(row))
             /\ Measures(row) \in Measurements
             /\ Having(row) = IF Shows(Measures(row)) THEN up ELSE {}
  <2> HIDE DEF x
  <2>1. V(row) = CounterSamples(Measures(row), Having(row))
    BY <1>1, <1>2, <1>3, RowSamples
  <2>2. Measures(row) \in Measurements /\ CounterOf(row) \in Counters(x)
    BY <1>1, <1>3, RowsMeasure
  <2>3. CounterOf(row)[3] = KindOf(Measures(row))
    BY DEF CounterOf
  <2>4. Shows(Measures(row)) <=> KindOf(Measures(row)) \notin arm.lacks
    BY <2>2, <2>3 DEF Shows, x
  <2> QED BY <2>1, <2>2, <2>4 DEF Having
<1>4. ASSUME x \in HasUsage PROVE V(UsageRow) = UsageSamples(up)
  <2> HIDE DEF x
  <2>1. /\ UsageRow.def = "usage" /\ UsageRow.phase = "none"
        /\ UsageRow.family = "usage" /\ UsageRow.mode = AnyMode
    BY DEF UsageRow, Row
  <2> QED BY <1>1, <1>2, <1>4, <2>1, UsageRowSamples
<1>5. UsageRow \in Rows(x) <=> x \in HasUsage
  BY <1>1, UsageRows
<1>6. ASSUME NEW q \in Offered PROVE \E row \in Rows(x) : row # UsageRow /\ Measures(row) = q
  <2>1. PICK c \in Counters(x) : c[3] = KindOf(q)
    BY DEF Offered, Shows
  <2> QED BY <1>1, <2>1, KindsHaveRows DEF Offered
<1>7. \A s : s \in AllSamples <=>
               \/ \E q \in Offered : s \in CounterSamples(q, up)
               \/ (x \in HasUsage /\ s \in UsageSamples(up))
  <2>1. \A s : s \in AllCounters <=> \E q \in Offered : s \in CounterSamples(q, up)
    BY DEF AllCounters
  <2>2. \A s : s \in AllUsages <=> (x \in HasUsage /\ s \in UsageSamples(up))
    BY DEF AllUsages
  <2> HIDE DEF x
  <2> QED BY <2>1, <2>2 DEF AllSamples
<1> HIDE DEF V, x
<1>8. ASSUME NEW row \in Rows(x), NEW s \in V(row) PROVE s \in AllSamples
  <2>1. CASE row = UsageRow
    BY <1>4, <1>5, <1>8, <1>7, <2>1
  <2>2. CASE row # UsageRow
    <3>1. s \in CounterSamples(Measures(row), up) /\ Measures(row) \in Offered
      BY <1>3, <1>8, <2>2 DEF Offered, CounterSamples
    <3> QED BY <1>7, <3>1
  <2> QED BY <2>1, <2>2
<1>9. ASSUME NEW s \in AllSamples PROVE \E row \in Rows(x) : s \in V(row)
  <2>1. CASE x \in HasUsage /\ s \in UsageSamples(up)
    BY <1>4, <1>5, <2>1
  <2>2. CASE \E q \in Offered : s \in CounterSamples(q, up)
    <3>1. PICK q \in Offered : s \in CounterSamples(q, up)
      BY <2>2
    <3>2. PICK row \in Rows(x) : row # UsageRow /\ Measures(row) = q
      BY <1>6
    <3>3. V(row) = CounterSamples(q, up)
      BY <1>3, <3>1, <3>2 DEF Offered
    <3> QED BY <3>1, <3>3
  <2> QED BY <1>9, <1>7, <2>1, <2>2
<1>10. UNION {V(row) : row \in Rows(x)} = AllSamples
  BY <1>8, <1>9
<1> QED BY <1>10 DEF V, x

-----------------------------------------------------------------------------
(* The report.                                                             *)
LEMMA WorkerIDs ==
    ASSUME Engine
    PROVE  /\ \A v, w \in arm.workers : WorkerID(v) = WorkerID(w) => v = w
           /\ \A w \in arm.workers : WorkerID(w) \in {"default", "0", "1"}
<1>1. arm.workers \subseteq {Absent, "0", "1"}
  BY ArmFacts DEF Engine
<1> QED BY <1>1 DEF WorkerID

LEMMA SampleKinds ==
    ASSUME NEW s \in AllSamples
    PROVE  \/ \E m \in Offered, w \in up : s = CounterSample(m, w)
           \/ Reads \in HasUsage /\ \E w \in up : s = UsageSample(w)
<1>1. CASE s \in AllCounters
  <2>1. PICK m \in Offered : s \in CounterSamples(m, up)
    BY <1>1 DEF AllCounters
  <2> QED BY <2>1 DEF CounterSamples
<1>2. CASE s \in AllUsages
  BY <1>2 DEF AllUsages, UsageSamples
<1> QED BY <1>1, <1>2 DEF AllSamples

LEMMA SamplesIn ==
    /\ \A m \in Offered, w \in up : CounterSample(m, w) \in AllSamples
    /\ Reads \in HasUsage => \A w \in up : UsageSample(w) \in AllSamples
<1>1. ASSUME NEW m \in Offered, NEW w \in up PROVE CounterSample(m, w) \in AllSamples
  <2>1. CounterSample(m, w) \in CounterSamples(m, up)
    BY DEF CounterSamples
  <2> QED BY <2>1 DEF AllSamples, AllCounters
<1>2. ASSUME Reads \in HasUsage, NEW w \in up PROVE UsageSample(w) \in AllSamples
  BY <1>2 DEF AllSamples, AllUsages, UsageSamples
<1> QED BY <1>1, <1>2

(* The key of a series is what it measures and its worker. *)
LEMMA KeysAre ==
    /\ \A m, w : LET k == Key(CounterSample(m, w))
                 IN  k[1] = m[1] /\ k[2] = m[2] /\ k[3] = WorkerID(w)
    /\ \A w : LET k == Key(UsageSample(w)) IN k[1] = "usage" /\ k[3] = WorkerID(w)
BY DEF Key, CounterSample, UsageSample

LEMMA MeasurementIs ==
    ASSUME NEW m \in Measurements, NEW n \in Measurements
    PROVE  m[1] # "usage" /\ (m[1] = n[1] /\ m[2] = n[2] => m = n)
BY DEF Measurements

LEMMA SampleKeys ==
    ASSUME Engine, NEW s \in AllSamples, NEW t \in AllSamples, Key(s) = Key(t)
    PROVE  s = t
<1>1. up \subseteq arm.workers
  BY DEF Engine
<1>2. \/ \E m \in Offered, w \in up : t = CounterSample(m, w)
      \/ \E w \in up : t = UsageSample(w)
  BY SampleKinds
<1>3. ASSUME NEW m \in Offered, NEW w \in up, s = CounterSample(m, w) PROVE s = t
  <2>1. m \in Measurements /\ Key(t)[1] = m[1] /\ Key(t)[2] = m[2] /\ Key(t)[3] = WorkerID(w)
    BY <1>3, KeysAre DEF Offered
  <2>2. Key(t)[1] # "usage"
    BY <2>1, MeasurementIs
  <2>3. PICK n \in Offered, v \in up : t = CounterSample(n, v)
    BY <1>2, <2>2, KeysAre
  <2>4. n \in Measurements /\ n[1] = m[1] /\ n[2] = m[2] /\ WorkerID(v) = WorkerID(w)
    BY <2>1, <2>3, KeysAre DEF Offered
  <2>5. m = n /\ w = v
    BY <1>1, <2>1, <2>4, MeasurementIs, WorkerIDs
  <2> QED BY <1>3, <2>3, <2>5
<1>4. ASSUME NEW w \in up, s = UsageSample(w) PROVE s = t
  <2>1. Key(t)[1] = "usage" /\ Key(t)[3] = WorkerID(w)
    BY <1>4, KeysAre
  <2>2. \A n \in Offered, v \in up : Key(CounterSample(n, v))[1] # "usage"
    BY KeysAre, MeasurementIs DEF Offered
  <2>3. PICK v \in up : t = UsageSample(v)
    BY <1>2, <2>1, <2>2
  <2>4. WorkerID(v) = WorkerID(w)
    BY <2>1, <2>3, KeysAre
  <2>5. w = v
    BY <1>1, <2>4, WorkerIDs
  <2> QED BY <1>4, <2>3, <2>5
<1> QED BY <1>3, <1>4, SampleKinds

LEMMA NothingDropped ==
    ASSUME NEW ss, \A s, t \in ss : Key(s) = Key(t) => s = t
    PROVE  Deduplicated(ss) = ss
<1> DEFINE C(k) == CHOOSE s \in ss : Key(s) = k
<1>1. ASSUME NEW s \in ss PROVE C(Key(s)) = s
  <2>1. C(Key(s)) \in ss /\ Key(C(Key(s))) = Key(s)
    BY <1>1
  <2> QED BY <2>1
<1> HIDE DEF C
<1>2. {C(k) : k \in {Key(s) : s \in ss}} = ss
  BY <1>1
<1> QED BY <1>2 DEF Deduplicated, C

LEMMA ValidSamples ==
    {s \in AllSamples : Valid(s)} = AllSamples
<1>1. \A m \in Offered, w \in up : Valid(CounterSample(m, w))
  BY DEF Valid, CounterSample, Offered, Measurements
<1>2. \A w \in up : Valid(UsageSample(w))
  BY DEF Valid, UsageSample, Usage, Full
<1>3. \A s \in AllSamples : Valid(s)
  BY <1>1, <1>2, SampleKinds
<1> QED BY <1>3

(* What a scrape tells, if the arm is up and if it is not. *)
Tells(o) ==
    /\ o \in [up : BOOLEAN, mismatch : BOOLEAN, fresh : BOOLEAN, samples : SUBSET o.samples,
              hists : SUBSET o.hists, available : SUBSET Measurements]
    /\ ~o.up => o.samples = {} /\ o.hists = {} /\ o.available = {}
    /\ o.up => /\ Answers(Reads) /\ OneModel
               /\ o.samples = AllSamples /\ o.available = Offered
               /\ \A h \in o.hists : \E w \in up : h = HistogramOf(w)

LEMMA ReportOfNothing ==
    ASSUME NEW res, res.samples = {}, res.hists = {}, res.err # "none"
    PROVE  Tells(Report(res))
<1>1. {s \in res.samples : Valid(s)} = {} /\ {h \in res.hists : ValidHist(h)} = {}
  OBVIOUS
<1>2. Deduplicated({}) = {}
  BY DEF Deduplicated
<1> QED BY <1>1, <1>2 DEF Tells, Report

(* What is exposed of a measurement is the counters of the workers. *)
LEMMA ExposedIs ==
    ASSUME NEW m \in Measurements, NEW s \in AllSamples, <<s.def, s.phase>> = m
    PROVE  m \in Offered /\ \E w \in up : s = CounterSample(m, w)
<1>1. s.def = m[1] /\ s.phase = m[2] /\ m[1] # "usage"
  BY MeasurementIs
<1>2. \A w : UsageSample(w).def = "usage"
  BY DEF UsageSample
<1>3. PICK n \in Offered, w \in up : s = CounterSample(n, w)
  BY <1>1, <1>2, SampleKinds
<1>4. n \in Measurements /\ n[1] = m[1] /\ n[2] = m[2]
  BY <1>1, <1>3 DEF CounterSample, Offered
<1>5. m = n
  BY <1>4, MeasurementIs
<1> QED BY <1>3, <1>5

LEMMA ReportOfAll ==
    ASSUME Engine, Answers(Reads), OneModel, NEW res, res.err = "none", res.samples = AllSamples,
           \A h \in res.hists : \E w \in up : h = HistogramOf(w)
    PROVE  Tells(Report(res))
<1>1. {s \in res.samples : Valid(s)} = AllSamples
  BY ValidSamples
<1>2. Deduplicated(AllSamples) = AllSamples
  BY SampleKeys, NothingDropped
<1>3. {m \in Measurements : \E s \in AllSamples : <<s.def, s.phase>> = m} = Offered
  <2>1. ASSUME NEW m \in Offered PROVE \E s \in AllSamples : <<s.def, s.phase>> = m
    <3>1. PICK w \in up : TRUE
      BY DEF Answers
    <3>2. CounterSample(m, w) \in AllSamples
      BY SamplesIn
    <3>3. /\ CounterSample(m, w).def = m[1] /\ CounterSample(m, w).phase = m[2]
          /\ <<m[1], m[2]>> = m
      BY DEF CounterSample, Offered, Measurements
    <3> QED BY <3>2, <3>3
  <2>2. ASSUME NEW m \in Measurements, NEW s \in AllSamples, <<s.def, s.phase>> = m
        PROVE  m \in Offered
    BY <2>2, ExposedIs
  <2> QED BY <2>1, <2>2 DEF Offered
<1>4. Report(res) =
        [up |-> TRUE, mismatch |-> FALSE, fresh |-> TRUE, samples |-> AllSamples,
         hists |-> {h \in res.hists : ValidHist(h)}, available |-> Offered]
  BY <1>1, <1>2, <1>3 DEF Report
<1>5. Offered \subseteq Measurements
  BY DEF Offered
<1> HIDE DEF Offered
<1> QED BY <1>4, <1>5 DEF Tells

(* A scrape exposes all of the work, once, or nothing. *)
LEMMA ReportTells ==
    ASSUME Engine, NEW res \in {NoResult, Map}
    PROVE  Tells(Report(res)) /\ Report(res).fresh
<1>1. Report(res).fresh
  BY DEF Report
<1>2. CASE res = NoResult
  BY <1>1, <1>2, ReportOfNothing DEF NoResult
<1>3. CASE res = Map
  <2> DEFINE x == Mapping
             reported == LabelValues(Family(x, Characteristic(x)))
             chosen == SelectModel(reported)
             hist == Selected(x, Histograms(x), chosen, AnyMode)
             All == UNION {Value(row.def, row.phase, x,
                                 Selected(x, Family(x, row.family), chosen, row.mode)) :
                              row \in Rows(x)}
             Whole == [err |-> "none", hists |-> Histogram(x, hist), samples |-> All]
  <2>1. \/ res = NoResult
        \/ res = [NoResult EXCEPT !.err = "mismatch"]
        \/ Has(x) /\ ~Mismatch(reported) /\ res = Whole
    BY <1>3 DEF Map
  <2>2. CASE res = [NoResult EXCEPT !.err = "mismatch"]
    BY <1>1, <2>2, ReportOfNothing DEF NoResult
  <2>3. CASE Has(x) /\ ~Mismatch(reported) /\ res = Whole
    <3>1. Answers(x)
      BY <2>3, HasIs, MappingReads
    <3>2. x = Reads /\ x \in Expositions /\ Adapted(x) /\ models # {}
      BY <3>1, MappingReads, ReadsFacts DEF Answers
    <3>3. reported = IF arm.labelled THEN models ELSE {}
      BY <3>1, <3>2, ReportedIs
    <3> HIDE DEF x, reported
    <3>4. PICK m : TakesModel(chosen, m) /\ Sole(m)
      BY <2>3, <3>2, <3>3, ChoosesModel
    <3>5. OneModel
      BY <2>3, <3>2, <3>3, ChoosesModel
    <3>6. PICK r : TakesRank(x, r)
      BY <3>2, ReadsFacts
    <3> HIDE DEF chosen
    <3>7. ASSUME NEW h \in Histogram(x, hist) PROVE \E w \in up : h = HistogramOf(w)
      BY <3>2, <3>4, <3>6, <3>7, HistogramIs
    <3>8. All = AllSamples
      BY <3>1, <3>2, <3>4, RowUnion
    <3> HIDE DEF All, hist
    <3>9. res.err = "none" /\ res.hists = Histogram(x, hist) /\ res.samples = AllSamples
      BY <2>3, <3>8
    <3> QED BY <1>1, <3>1, <3>2, <3>5, <3>7, <3>9, ReportOfAll
  <2> QED BY <1>2, <2>1, <2>2, <2>3
<1> QED BY <1>2, <1>3

-----------------------------------------------------------------------------
(* The invariant.  There was no more work than was done; what is exposed   *)
(* has its type, and is all of the work if nothing happened since; and of  *)
(* every series ever exposed, the worker's counter is what was exposed     *)
(* last plus the work since, unless the worker has started again.          *)
Samples == [def : {"tokens", "cached", "usage"}, phase : {"prefill", "decode", "none"},
            worker : {"default", "0", "1"}, val : 0..MaxWork + Full]
Hists == [worker : {"default", "0", "1"}, count : 0..MaxWork, le : 0..MaxWork]

Budget ==
    /\ used \in [work : 0..MaxWork, restarts : 0..MaxRestarts]
    /\ Cube(count, arm.workers, Models, Kinds) <= used.work
    /\ \A w \in arm.workers, m \in Models, k \in Kinds : since[<<w, m>>][k] <= used.work

Output ==
    /\ out \in [up : BOOLEAN, mismatch : BOOLEAN, fresh : BOOLEAN, samples : SUBSET Samples,
                hists : SUBSET Hists, available : SUBSET Measurements]
    /\ ~out.up => out.samples = {} /\ out.hists = {} /\ out.available = {}
    /\ out.fresh => Tells(out)

SeriesKey(m, w) == <<m[1], m[2], WorkerID(w)>>

Follows(k, m, w) ==
    LET now == Done(count, {w}, {KindOf(m)})
        new == Done(since, {w}, {KindOf(m)})
    IN  k = SeriesKey(m, w) /\ (now <= new \/ now = shown[k] + new)

Tracked ==
    \A k \in DOMAIN shown : /\ shown[k] \in 0..MaxWork
                            /\ \E m \in Offered, w \in arm.workers : Follows(k, m, w)

IInv == Engine /\ Budget /\ Output /\ Tracked

(* What the invariant says of the properties. *)
LEMMA SampleFields ==
    ASSUME NEW w
    PROVE  /\ \A m \in Measurements :
                 /\ CounterSample(m, w).worker = WorkerID(w)
                 /\ CounterSample(m, w).val = Done(count, {w}, {KindOf(m)})
                 /\ <<CounterSample(m, w).def, CounterSample(m, w).phase>> = m
           /\ UsageSample(w).worker = WorkerID(w) /\ UsageSample(w).val = Usage
           /\ <<UsageSample(w).def, UsageSample(w).phase>> = <<"usage", "none">>
<1>1. ASSUME NEW m \in Measurements PROVE <<m[1], m[2]>> = m
  BY DEF Measurements
<1> QED BY <1>1 DEF CounterSample, UsageSample

LEMMA ImpliesCountsOnce == IInv => CountsOnce
<1> SUFFICES ASSUME IInv, out.fresh, out.up PROVE CountsOnce
  BY DEF CountsOnce
<1>1. Engine /\ Tells(out)
  BY DEF IInv, Output
<1>2. /\ Answers(Reads) /\ OneModel /\ out.samples = AllSamples
      /\ \A h \in out.hists : \E w \in up : h = HistogramOf(w)
  BY <1>1 DEF Tells
<1>3. Mapping = Reads
  BY <1>1, <1>2, MappingReads
<1>4. ASSUME NEW m \in Measurements, NEW s \in Exposed(m)
      PROVE  \E w \in up : WorkerID(w) = s.worker /\ s.val = Done(count, {w}, {KindOf(m)})
  <2>1. s \in AllSamples /\ <<s.def, s.phase>> = m
    BY <1>2 DEF Exposed
  <2>2. PICK w \in up : s = CounterSample(m, w)
    BY <2>1, ExposedIs
  <2> QED BY <2>2, SampleFields
<1>5. ASSUME NEW w \in up, Mapping \in HasUsage
      PROVE  \E s \in Exposed(<<"usage", "none">>) : s.worker = WorkerID(w) /\ s.val = Usage
  <2>1. UsageSample(w) \in AllSamples
    BY <1>3, <1>5, SamplesIn
  <2>2. UsageSample(w) \in Exposed(<<"usage", "none">>)
    BY <1>2, <2>1, SampleFields DEF Exposed
  <2> QED BY <2>2, SampleFields
<1>6. ASSUME NEW h \in out.hists
      PROVE  \E w \in up : /\ WorkerID(w) = h.worker
                           /\ h.count = Done(count, {w}, DOMAIN arm.bounds)
                           /\ h.le = Done(count, {w}, {"stream"} \cap DOMAIN arm.bounds)
  <2>1. PICK w \in up : h = HistogramOf(w)
    BY <1>2
  <2> QED BY <2>1 DEF HistogramOf
<1> QED BY <1>2, <1>4, <1>5, <1>6 DEF CountsOnce

LEMMA ImpliesAbsentIsNotZero == IInv => AbsentIsNotZero
<1> SUFFICES ASSUME IInv, out.fresh, out.up, NEW m \in Measurements
             PROVE  /\ m \in out.available <=> Measured(m)
                    /\ {s.worker : s \in Exposed(m)} =
                          {WorkerID(w) : w \in {v \in up : Measured(m)}}
  BY DEF AbsentIsNotZero
<1>1. Engine /\ Tells(out)
  BY DEF IInv, Output
<1>2. Answers(Reads) /\ out.samples = AllSamples /\ out.available = Offered
  BY <1>1 DEF Tells
<1>3. Mapping = Reads
  BY <1>1, <1>2, MappingReads
<1>4. Measured(m) <=> m \in Offered
  BY <1>3 DEF Measured, Offered, Shows
<1>5. ASSUME NEW s \in Exposed(m) PROVE m \in Offered /\ \E w \in up : s.worker = WorkerID(w)
  <2>1. s \in AllSamples /\ <<s.def, s.phase>> = m
    BY <1>2 DEF Exposed
  <2>2. PICK w \in up : s = CounterSample(m, w)
    BY <2>1, ExposedIs
  <2>3. m \in Offered
    BY <2>1, ExposedIs
  <2>4. s.worker = WorkerID(w)
    BY <2>2, SampleFields
  <2> QED BY <2>3, <2>4
<1>6. ASSUME NEW w \in up, m \in Offered PROVE \E s \in Exposed(m) : s.worker = WorkerID(w)
  <2>1. CounterSample(m, w) \in AllSamples
    BY <1>6, SamplesIn
  <2> QED BY <1>2, <2>1, SampleFields DEF Exposed
<1>7. {s.worker : s \in Exposed(m)} = {WorkerID(w) : w \in {v \in up : Measured(m)}}
  <2> DEFINE B == {v \in up : Measured(m)}
  <2>1. \A v : v \in B <=> v \in up /\ m \in Offered
    BY <1>4
  <2> HIDE DEF B
  <2>2. \A y : y \in {s.worker : s \in Exposed(m)} <=> y \in {WorkerID(w) : w \in B}
    BY <1>5, <1>6, <2>1
  <2>3. {s.worker : s \in Exposed(m)} = {WorkerID(w) : w \in B}
    BY <2>2
  <2> QED BY <2>3 DEF B
<1> QED BY <1>2, <1>4, <1>7

LEMMA ImpliesTypeOK == IInv => TypeOK
<1> SUFFICES ASSUME IInv PROVE TypeOK
  OBVIOUS
<1>1. Engine /\ Budget /\ Output /\ Tracked
  BY DEF IInv
<1>2. MaxWork \in Nat /\ used.work \in Nat /\ used.work <= MaxWork
  BY <1>1, BoundsAssumption DEF Budget
<1>3. ASSUME NEW w \in arm.workers, NEW m \in Models, NEW k \in Kinds
      PROVE  count[<<w, m>>][k] \in 0..MaxWork /\ since[<<w, m>>][k] \in 0..MaxWork
  <2>1. Counts(count, arm.workers, Models, Kinds)
    BY <1>1, EngineCounts
  <2>2. count[<<w, m>>][k] \in Nat /\ since[<<w, m>>][k] \in Nat
    BY <1>1 DEF Engine
  <2>3. {w} \in SUBSET arm.workers /\ {m} \in SUBSET Models /\ {k} \in SUBSET Kinds
    OBVIOUS
  <2>4. Cube(count, {w}, {m}, {k}) <= Cube(count, arm.workers, Models, Kinds)
    BY <2>1, <2>3, CubeSub
  <2>5. Cube(count, arm.workers, Models, Kinds) \in Nat
    BY <2>1, CubeType
  <2>6. Point(count, w, m, k) = count[<<w, m>>][k]
    BY <2>2, CubeOne
  <2>7. count[<<w, m>>][k] <= Cube(count, arm.workers, Models, Kinds)
    BY <2>4, <2>6 DEF Point
  <2> QED BY <1>1, <1>2, <2>2, <2>5, <2>7 DEF Budget
<1>4. count \in [arm.workers \X Models -> [Kinds -> 0..MaxWork]]
  <2>1. ASSUME NEW p \in arm.workers \X Models PROVE count[p] \in [Kinds -> 0..MaxWork]
    <3>1. p = <<p[1], p[2]>> /\ p[1] \in arm.workers /\ p[2] \in Models
      OBVIOUS
    <3>2. \A k \in Kinds : count[p][k] \in 0..MaxWork
      BY <1>3, <3>1
    <3> QED BY <1>1, <3>2 DEF Engine
  <2> QED BY <1>1, <2>1 DEF Engine
<1>5. since \in [arm.workers \X Models -> [Kinds -> 0..MaxWork]]
  <2>1. ASSUME NEW p \in arm.workers \X Models PROVE since[p] \in [Kinds -> 0..MaxWork]
    <3>1. p = <<p[1], p[2]>> /\ p[1] \in arm.workers /\ p[2] \in Models
      OBVIOUS
    <3>2. \A k \in Kinds : since[p][k] \in 0..MaxWork
      BY <1>3, <3>1
    <3> QED BY <1>1, <3>2 DEF Engine
  <2> QED BY <1>1, <2>1 DEF Engine
<1>6. /\ out.samples \subseteq Samples /\ out.hists \subseteq Hists
      /\ ~out.up => out.samples \cup out.hists \cup out.available = {}
  BY <1>1 DEF Output
<1> QED BY <1>1, <1>4, <1>5, <1>6 DEF TypeOK, Engine, Budget, Tracked, Samples, Hists

-----------------------------------------------------------------------------
(* What the steps do to sums of work.                                      *)
LEMMA CubeSame ==
    ASSUME NEW f, NEW g, NEW W, NEW M, NEW K, Counts(f, W, M, K),
           \A w \in W, m \in M, k \in K : g[<<w, m>>][k] = f[<<w, m>>][k]
    PROVE  Cube(g, W, M, K) = Cube(f, W, M, K)
<1> DEFINE S == W \X M \X K
<1>1. IsFiniteSet(S) /\ \A p \in S : Work3(f, W, M, K)[p] \in Nat
  BY CubeType
<1>2. ASSUME NEW p \in S PROVE Work3(g, W, M, K)[p] = Work3(f, W, M, K)[p]
  BY DEF Work3
<1> HIDE DEF S
<1>3. Sum(Work3(g, W, M, K), S) = Sum(Work3(f, W, M, K), S)
  BY <1>1, <1>2, SumSame
<1> QED BY <1>3 DEF Cube, S

LEMMA CubeLe ==
    ASSUME NEW f, NEW g, NEW W, NEW M, NEW K, Counts(f, W, M, K), Counts(g, W, M, K),
           \A w \in W, m \in M, k \in K : g[<<w, m>>][k] <= f[<<w, m>>][k]
    PROVE  Cube(g, W, M, K) <= Cube(f, W, M, K)
<1> DEFINE S == W \X M \X K
<1>1. IsFiniteSet(S) /\ \A p \in S : Work3(f, W, M, K)[p] \in Nat /\ Work3(g, W, M, K)[p] \in Nat
  BY CubeType
<1>2. ASSUME NEW p \in S PROVE Work3(g, W, M, K)[p] <= Work3(f, W, M, K)[p]
  BY DEF Work3
<1> HIDE DEF S
<1>3. Sum(Work3(g, W, M, K), S) <= Sum(Work3(f, W, M, K), S)
  BY <1>1, <1>2, SumLe
<1> QED BY <1>3 DEF Cube, S

LEMMA CubeZero ==
    ASSUME NEW f, NEW W, NEW M, NEW K, Counts(f, W, M, K),
           \A w \in W, m \in M, k \in K : f[<<w, m>>][k] = 0
    PROVE  Cube(f, W, M, K) = 0
<1> DEFINE S == W \X M \X K
<1>1. IsFiniteSet(S)
  BY CubeType
<1>2. ASSUME NEW p \in S PROVE Work3(f, W, M, K)[p] = 0
  BY DEF Work3
<1> HIDE DEF S
<1>3. Sum(Work3(f, W, M, K), S) = 0
  BY <1>1, <1>2, SumZero
<1> QED BY <1>3 DEF Cube, S

(* One more piece of work in one place. *)
Bump(W, M, K, v, n, j) == IF v \in W /\ n \in M /\ j \in K THEN 1 ELSE 0

BumpedIn(f, g, W, M, K, v, n, j) == \A w \in W, m \in M, k \in K : g[<<w, m>>][k] =
    IF w = v /\ m = n /\ k = j THEN f[<<w, m>>][k] + 1 ELSE f[<<w, m>>][k]

LEMMA CubeBump ==
    ASSUME NEW f, NEW g, NEW W, NEW M, NEW K, Counts(f, W, M, K), NEW v, NEW n, NEW j,
           BumpedIn(f, g, W, M, K, v, n, j)
    PROVE  Cube(g, W, M, K) = Cube(f, W, M, K) + Bump(W, M, K, v, n, j)
<1>1. Cube(f, W, M, K) \in Nat
  BY CubeType
<1>2. CASE ~(v \in W /\ n \in M /\ j \in K)
  <2>1. \A w \in W, m \in M, k \in K : g[<<w, m>>][k] = f[<<w, m>>][k]
    BY <1>2 DEF BumpedIn
  <2>2. Cube(g, W, M, K) = Cube(f, W, M, K)
    BY <2>1, CubeSame
  <2> QED BY <1>1, <1>2, <2>2 DEF Bump
<1>3. CASE v \in W /\ n \in M /\ j \in K
  <2> DEFINE S == W \X M \X K
             x == <<v, n, j>>
             F == Work3(f, W, M, K)
             G == Work3(g, W, M, K)
  <2>1. IsFiniteSet(S) /\ x \in S /\ \A p \in S : F[p] \in Nat
    BY <1>3, CubeType
  <2>2. ASSUME NEW p \in S PROVE G[p] = IF p = x THEN F[p] + 1 ELSE F[p]
    BY DEF Work3, BumpedIn
  <2> HIDE DEF S, x, F, G
  <2>3. \A p \in S : G[p] \in Nat
    BY <2>1, <2>2
  <2>4. IsFiniteSet(S \ {x})
    BY <2>1, FS_Subset
  <2>5. Sum(G, S \ {x}) = Sum(F, S \ {x})
    BY <2>1, <2>2, <2>4, SumSame
  <2>6. Sum(F, S) = F[x] + Sum(F, S \ {x}) /\ Sum(G, S) = G[x] + Sum(G, S \ {x})
    BY <2>1, <2>3, SumTake
  <2>7. Sum(F, S \ {x}) \in Nat
    BY <2>1, <2>4, SumTake
  <2>8. Sum(G, S) = Sum(F, S) + 1
    BY <2>1, <2>2, <2>5, <2>6, <2>7
  <2> QED BY <1>3, <2>8 DEF Bump, Cube, S, F, G
<1> QED BY <1>2, <1>3

(* Work is that of each worker, added up. *)
ByWorker(f, W, M, K) == [w \in W |-> Cube(f, {w}, M, K)]

LEMMA CubeLess ==
    ASSUME NEW f, NEW W, NEW M, NEW K, Counts(f, W, M, K), NEW w \in W
    PROVE  /\ Cube(f, {w}, M, K) \in Nat
           /\ Cube(f, W, M, K) = Cube(f, {w}, M, K) + Cube(f, W \ {w}, M, K)
<1> DEFINE S == W \X M \X K
           T == (W \ {w}) \X M \X K
           F == Work3(f, W, M, K)
           G == Work3(f, W \ {w}, M, K)
<1>1. {w} \in SUBSET W /\ W \ {w} \in SUBSET W /\ M \in SUBSET M /\ K \in SUBSET K
  OBVIOUS
<1>2. /\ Counts(f, {w}, M, K)
      /\ Cube(f, W, M, K) = Cube(f, {w}, M, K) + Sum(F, S \ ({w} \X M \X K))
  BY <1>1, CubeSplit
<1>3. Counts(f, W \ {w}, M, K)
  BY <1>1, CubeSplit
<1>4. S \ ({w} \X M \X K) = T
  OBVIOUS
<1>5. IsFiniteSet(T) /\ \A p \in T : G[p] \in Nat
  BY <1>3, CubeType
<1>6. \A p \in T : F[p] = G[p]
  BY DEF Work3
<1>7. Cube(f, W \ {w}, M, K) = Sum(G, T)
  BY DEF Cube
<1>8. Cube(f, {w}, M, K) \in Nat
  BY <1>2, CubeType
<1> HIDE DEF S, T, F, G
<1>9. Sum(F, T) = Sum(G, T)
  BY <1>5, <1>6, SumSame
<1> QED BY <1>2, <1>4, <1>7, <1>8, <1>9

LEMMA CubeByWorker ==
    ASSUME NEW f, NEW W, NEW M, NEW K, Counts(f, W, M, K)
    PROVE  Cube(f, W, M, K) = Sum(ByWorker(f, W, M, K), W)
<1> DEFINE h == ByWorker(f, W, M, K)
           T == {V \in SUBSET W : Cube(f, V, M, K) # Sum(h, V)}
<1>1. IsFiniteSet(W)
  BY DEF Counts
<1>2. ASSUME NEW w \in W PROVE h[w] = Cube(f, {w}, M, K) /\ h[w] \in Nat
  BY CubeLess DEF ByWorker
<1> HIDE DEF h
<1>3. SUFFICES T = {}
  BY <1>3 DEF h
<1>4. SUFFICES ASSUME T # {} PROVE FALSE
  OBVIOUS
<1>5. T \in SUBSET (SUBSET W)
  OBVIOUS
<1>6. PICK V \in T : \A U \in T : Cardinality(V) <= Cardinality(U)
  BY <1>1, <1>4, <1>5, FiniteMin
<1>7. V \in SUBSET W /\ IsFiniteSet(V) /\ Cube(f, V, M, K) # Sum(h, V)
  BY <1>1, <1>6, FS_Subset
<1>8. Counts(f, V, M, K)
  BY <1>7 DEF Counts
<1>9. \A w \in V : h[w] \in Nat
  BY <1>2, <1>7
<1>10. CASE V = {}
  <2>1. Sum(h, V) = 0
    BY <1>7, <1>9, <1>10, SumTake
  <2>2. Cube(f, V, M, K) = 0
    BY <1>8, <1>10, CubeZero
  <2> QED BY <1>7, <2>1, <2>2
<1>11. CASE V # {}
  <2>1. PICK w \in V : TRUE
    BY <1>11
  <2>2. Sum(h, V) = h[w] + Sum(h, V \ {w})
    BY <1>7, <1>9, SumTake
  <2>3. Cube(f, V, M, K) = Cube(f, {w}, M, K) + Cube(f, V \ {w}, M, K)
    BY <1>8, CubeLess
  <2>4. V \ {w} \in SUBSET W /\ Cardinality(V \ {w}) = Cardinality(V) - 1 /\ Cardinality(V) \in Nat
    BY <1>1, <1>7, LessOne
  <2>5. V \ {w} \notin T
    BY <1>6, <2>4
  <2>6. Cube(f, V \ {w}, M, K) = Sum(h, V \ {w})
    BY <2>4, <2>5
  <2>7. h[w] = Cube(f, {w}, M, K)
    BY <1>2, <1>7
  <2> QED BY <1>7, <2>2, <2>3, <2>6, <2>7
<1> QED BY <1>10, <1>11

-----------------------------------------------------------------------------
(* The steps of the engine.                                                *)
LEMMA InitEngine == Init => IInv
<1> SUFFICES ASSUME Init PROVE IInv
  OBVIOUS
<1>1. Engine
  <2>1. NoWork \in [Kinds -> Nat]
    BY DEF NoWork
  <2>2. count \in [arm.workers \X Models -> [Kinds -> Nat]] /\ since = count
    BY <2>1 DEF Init
  <2>3. \A w \in arm.workers : \A m \in Models \ models : count[<<w, m>>] = NoWork
    BY DEF Init
  <2> QED BY <2>2, <2>3 DEF Init, Engine
<1>2. Budget
  <2>1. Counts(count, arm.workers, Models, Kinds)
    BY <1>1, EngineCounts
  <2>2. \A w \in arm.workers, m \in Models, k \in Kinds :
           count[<<w, m>>][k] = 0 /\ since[<<w, m>>][k] = 0
    BY DEF Init, NoWork
  <2>3. Cube(count, arm.workers, Models, Kinds) = 0
    BY <2>1, <2>2, CubeZero
  <2> QED BY <2>2, <2>3, BoundsAssumption DEF Budget, Init
<1>3. Output
  BY DEF Init, NoOut, Output
<1>4. Tracked
  BY DEF Init, Tracked
<1> QED BY <1>1, <1>2, <1>3, <1>4 DEF IInv

(* Work is bounded, whoever did it. *)
LEMMA DoneBound ==
    ASSUME Engine, Budget, NEW w \in arm.workers, NEW ks \in SUBSET Kinds
    PROVE  /\ Done(count, {w}, ks) \in 0..MaxWork /\ Done(since, {w}, ks) \in Nat
           /\ Counts(count, {w}, Counted, ks) /\ Counts(since, {w}, Counted, ks)
<1>1. {w} \in SUBSET arm.workers /\ Counted \in SUBSET Models
  BY EngineCounts
<1>2. Counts(count, {w}, Counted, ks) /\ Counts(since, {w}, Counted, ks)
  BY <1>1, EngineCounts
<1>3. Counts(count, arm.workers, Models, Kinds)
  BY EngineCounts
<1>4. Cube(count, {w}, Counted, ks) <= Cube(count, arm.workers, Models, Kinds)
  BY <1>1, <1>3, CubeSub
<1>5. /\ Cube(count, arm.workers, Models, Kinds) \in Nat
      /\ Cube(count, {w}, Counted, ks) \in Nat /\ Cube(since, {w}, Counted, ks) \in Nat
  BY <1>2, <1>3, CubeType
<1>6. Cube(count, {w}, Counted, ks) \in 0..MaxWork
  BY <1>4, <1>5, BoundsAssumption DEF Budget
<1> QED BY <1>2, <1>5, <1>6, DoneIsCube

(* The arm stays as it is, and what is said of it. *)
LEMMA ArmStays ==
    ASSUME arm' = arm
    PROVE  /\ Offered' = Offered /\ Counted' = Counted
           /\ \A w, ks : /\ Done(count, {w}, ks)' = Cube(count', {w}, Counted, ks)
                         /\ Done(since, {w}, ks)' = Cube(since', {w}, Counted, ks)
<1>1. Counted' = Counted
  BY DEF Counted
<1>2. Offered' = Offered
  BY DEF Offered, Shows, Reads
<1>3. ASSUME NEW w, NEW ks
      PROVE  /\ Done(count, {w}, ks)' = Cube(count', {w}, Counted, ks)
             /\ Done(since, {w}, ks)' = Cube(since', {w}, Counted, ks)
  BY <1>1 DEF Done, Cube, Work3, Sum, SumFunction
<1> QED BY <1>1, <1>2, <1>3

LEMMA StaleOutput ==
    ASSUME Output, Stale PROVE Output' /\ ~out'.fresh
<1>1. out' = [out EXCEPT !.fresh = FALSE]
  BY DEF Stale
<1>2. /\ out' \in [up : BOOLEAN, mismatch : BOOLEAN, fresh : BOOLEAN, samples : SUBSET Samples,
                   hists : SUBSET Hists, available : SUBSET Measurements]
      /\ ~out'.fresh
      /\ ~out'.up => out'.samples = {} /\ out'.hists = {} /\ out'.available = {}
  BY <1>1 DEF Output
<1> QED BY <1>2 DEF Output, Samples, Hists, Measurements

(* A step keeps track of a series if it forgets the worker's work or adds  *)
(* as much to its counter as to the work since.                            *)
Kept(w, ks) ==
    LET c0 == Cube(count, {w}, Counted, ks)
        c1 == Cube(count', {w}, Counted, ks)
        s0 == Cube(since, {w}, Counted, ks)
        s1 == Cube(since', {w}, Counted, ks)
    IN  c1 \in Nat /\ s1 \in Nat /\ (c1 <= s1 \/ c1 + s0 = s1 + c0)

LEMMA KindsOf == \A m \in Measurements : {KindOf(m)} \in SUBSET Kinds
BY DEF Measurements, KindOf, Kinds

LEMMA TrackedKept ==
    ASSUME Engine, Budget, Tracked, arm' = arm, shown' = shown,
           \A w \in arm.workers, ks \in SUBSET Kinds : Kept(w, ks)
    PROVE  Tracked'
<1> SUFFICES ASSUME NEW k \in DOMAIN shown
             PROVE  /\ shown[k] \in 0..MaxWork
                    /\ \E m \in Offered, w \in arm.workers : Follows(k, m, w)'
  BY ArmStays DEF Tracked
<1>1. shown[k] \in 0..MaxWork
  BY DEF Tracked
<1>2. PICK m \in Offered, w \in arm.workers : Follows(k, m, w)
  BY DEF Tracked
<1> DEFINE ks == {KindOf(m)}
           c0 == Cube(count, {w}, Counted, ks)
           c1 == Cube(count', {w}, Counted, ks)
           s0 == Cube(since, {w}, Counted, ks)
           s1 == Cube(since', {w}, Counted, ks)
<1>3. ks \in SUBSET Kinds
  BY KindsOf DEF Offered
<1>4. k = SeriesKey(m, w) /\ (c0 <= s0 \/ c0 = shown[k] + s0)
  BY <1>2, DoneIsCube DEF Follows
<1>5. c0 \in Nat /\ s0 \in Nat
  BY <1>3, DoneBound, CubeType
<1>6. c1 \in Nat /\ s1 \in Nat /\ (c1 <= s1 \/ c1 + s0 = s1 + c0)
  BY <1>3 DEF Kept
<1>7. Done(count, {w}, ks)' = c1 /\ Done(since, {w}, ks)' = s1
  BY ArmStays
<1> HIDE DEF c0, c1, s0, s1
<1>8. shown[k] \in Nat
  BY <1>1, BoundsAssumption
<1>9. c1 <= s1 \/ c1 = shown[k] + s1
  BY <1>4, <1>5, <1>6, <1>8
<1>10. Follows(k, m, w)'
  BY <1>4, <1>7, <1>9 DEF Follows, SeriesKey
<1> QED BY <1>1, <1>10

Adds(f, g, w, m, k) == g = [f EXCEPT ![<<w, m>>][k] = @ + 1]

Works(W) == [W \X Models -> [Kinds -> Nat]]

LEMMA AddsOne ==
    ASSUME NEW W, NEW w \in W, NEW m \in Models, NEW k \in Kinds,
           NEW f \in Works(W), NEW g, Adds(f, g, w, m, k)
    PROVE  /\ g \in Works(W) /\ BumpedIn(f, g, W, Models, Kinds, w, m, k)
           /\ \A v \in W : \A n \in Models \ {m} : g[<<v, n>>] = f[<<v, n>>]
<1>1. /\ <<w, m>> \in W \X Models /\ f \in [W \X Models -> [Kinds -> Nat]]
      /\ f[<<w, m>>] \in [Kinds -> Nat] /\ g = [f EXCEPT ![<<w, m>>][k] = @ + 1]
  BY DEF Adds, Works
<1>2. g \in Works(W)
  BY <1>1 DEF Works
<1>3. ASSUME NEW v \in W, NEW n \in Models, NEW j \in Kinds
      PROVE  g[<<v, n>>][j] =
               IF v = w /\ n = m /\ j = k THEN f[<<v, n>>][j] + 1 ELSE f[<<v, n>>][j]
  <2>1. g[<<w, m>>] = [f[<<w, m>>] EXCEPT ![k] = @ + 1]
    BY <1>1
  <2>2. CASE v = w /\ n = m
    BY <1>1, <2>1, <2>2
  <2>3. CASE ~(v = w /\ n = m)
    <3>1. <<v, n>> # <<w, m>> /\ <<v, n>> \in W \X Models
      BY <2>3
    <3> QED BY <1>1, <2>3, <3>1
  <2> QED BY <2>2, <2>3
<1>4. \A v \in W : \A n \in Models \ {m} : g[<<v, n>>] = f[<<v, n>>]
  BY <1>1
<1> QED BY <1>2, <1>3, <1>4 DEF BumpedIn

LEMMA WorkStep ==
    ASSUME IInv, NEW w \in arm.workers, NEW m \in models, NEW k \in Kinds, Work(w, m, k)
    PROVE  IInv'
<1>1. Engine /\ Budget /\ Output /\ Tracked
  BY DEF IInv
<1>2. /\ arm' = arm /\ models' = models /\ up' = up /\ shown' = shown
      /\ m \in Models /\ m \in models /\ used.work < MaxWork
  BY <1>1 DEF Work, Engine, Models
<1>3. /\ Adds(count, count', w, m, k) /\ Adds(since, since', w, m, k)
      /\ used' = [used EXCEPT !.work = @ + 1] /\ Stale
      /\ count \in Works(arm.workers) /\ since \in Works(arm.workers)
  BY <1>1 DEF Work, Adds, Engine, Works
<1>4. /\ count' \in Works(arm.workers)
      /\ BumpedIn(count, count', arm.workers, Models, Kinds, w, m, k)
      /\ \A v \in arm.workers : \A n \in Models \ {m} : count'[<<v, n>>] = count[<<v, n>>]
  BY <1>2, <1>3, AddsOne
<1>5. /\ since' \in Works(arm.workers)
      /\ BumpedIn(since, since', arm.workers, Models, Kinds, w, m, k)
  BY <1>2, <1>3, AddsOne
<1>6. Engine'
  BY <1>1, <1>2, <1>4, <1>5 DEF Engine, Works
<1>7. Budget'
  <2>1. Counts(count, arm.workers, Models, Kinds)
    BY <1>1, EngineCounts
  <2>2. Cube(count, arm.workers, Models, Kinds) \in Nat
    BY <2>1, CubeType
  <2>3. Cube(count', arm.workers, Models, Kinds) = Cube(count, arm.workers, Models, Kinds) + 1
    BY <1>2, <1>4, <2>1, CubeBump DEF Bump
  <2>4. /\ used' \in [work : 0..MaxWork, restarts : 0..MaxRestarts]
        /\ used'.work = used.work + 1 /\ used.work \in Nat
    BY <1>1, <1>2, <1>3, BoundsAssumption DEF Budget
  <2>5. Cube(count, arm.workers, Models, Kinds)' <= used'.work
    <3>1. Cube(count, arm.workers, Models, Kinds)' = Cube(count', arm.workers, Models, Kinds)
      BY <1>2 DEF Cube, Work3, Sum
    <3>2. Cube(count, arm.workers, Models, Kinds) <= used.work
      BY <1>1 DEF Budget
    <3> QED BY <2>2, <2>3, <2>4, <3>1, <3>2
  <2>6. ASSUME NEW v \in arm.workers, NEW n \in Models, NEW j \in Kinds
        PROVE  since'[<<v, n>>][j] <= used'.work
    <3>1. since[<<v, n>>][j] \in Nat /\ since[<<v, n>>][j] <= used.work
      BY <1>1 DEF Engine, Budget
    <3>2. since'[<<v, n>>][j] \in {since[<<v, n>>][j], since[<<v, n>>][j] + 1}
      BY <1>5 DEF BumpedIn
    <3> QED BY <2>4, <3>1, <3>2
  <2> QED BY <1>2, <2>4, <2>5, <2>6 DEF Budget
<1>8. Output'
  BY <1>1, <1>3, StaleOutput
<1>9. ASSUME NEW v \in arm.workers, NEW ks \in SUBSET Kinds PROVE Kept(v, ks)
  <2> DEFINE b == Bump({v}, Counted, ks, w, m, k)
  <2>1. Counted \in SUBSET Models /\ {v} \in SUBSET arm.workers
    BY <1>1, EngineCounts
  <2>2. Counts(count, {v}, Counted, ks) /\ Counts(since, {v}, Counted, ks)
    BY <1>1, DoneBound
  <2>3. /\ BumpedIn(count, count', {v}, Counted, ks, w, m, k)
        /\ BumpedIn(since, since', {v}, Counted, ks, w, m, k)
    BY <1>4, <1>5, <2>1 DEF BumpedIn
  <2>4. Cube(count', {v}, Counted, ks) = Cube(count, {v}, Counted, ks) + b
    BY <2>2, <2>3, CubeBump
  <2>5. Cube(since', {v}, Counted, ks) = Cube(since, {v}, Counted, ks) + b
    BY <2>2, <2>3, CubeBump
  <2>6. Cube(count, {v}, Counted, ks) \in Nat /\ Cube(since, {v}, Counted, ks) \in Nat
    BY <2>2, CubeType
  <2>7. b \in Nat
    BY DEF Bump
  <2> HIDE DEF b
  <2> QED BY <2>4, <2>5, <2>6, <2>7 DEF Kept
<1>10. Tracked'
  BY <1>1, <1>2, <1>9, TrackedKept
<1> QED BY <1>6, <1>7, <1>8, <1>10 DEF IInv

(* A worker that starts again has done no work. *)
LEMMA StartedKeeps ==
    ASSUME Engine, Budget, NEW ws \in SUBSET arm.workers, Started(ws), since' = since, arm' = arm
    PROVE  /\ count' \in [arm.workers \X Models -> [Kinds -> Nat]]
           /\ \A p \in arm.workers \X Models :
                 count'[p] = IF p[1] \in ws THEN NoWork ELSE count[p]
           /\ Cube(count, arm.workers, Models, Kinds)' <= used.work
           /\ \A w \in arm.workers, ks \in SUBSET Kinds : Kept(w, ks)
<1>1. DOMAIN count = arm.workers \X Models
  BY DEF Engine
<1>2. \A p \in arm.workers \X Models : count'[p] = IF p[1] \in ws THEN NoWork ELSE count[p]
  BY <1>1 DEF Started
<1>3. NoWork \in [Kinds -> Nat]
  BY DEF NoWork
<1>4. count' \in [arm.workers \X Models -> [Kinds -> Nat]]
  BY <1>1, <1>2, <1>3 DEF Engine, Started
<1>5. ASSUME NEW w \in arm.workers, NEW m \in Models, NEW k \in Kinds
      PROVE  /\ count'[<<w, m>>][k] = IF w \in ws THEN 0 ELSE count[<<w, m>>][k]
             /\ count[<<w, m>>][k] \in Nat /\ count'[<<w, m>>][k] \in Nat
  BY <1>2, <1>4 DEF NoWork, Engine
<1>6. ASSUME NEW W \in SUBSET arm.workers, NEW M \in SUBSET Models, NEW K \in SUBSET Kinds
      PROVE  Counts(count', W, M, K) /\ Cube(count', W, M, K) <= Cube(count, W, M, K)
  <2>1. Counts(count, W, M, K)
    BY EngineCounts
  <2>2. Counts(count', W, M, K)
    BY <1>5, <2>1 DEF Counts
  <2>3. ASSUME NEW w \in W, NEW m \in M, NEW k \in K
        PROVE  count'[<<w, m>>][k] <= count[<<w, m>>][k]
    <3>1. w \in arm.workers /\ m \in Models /\ k \in Kinds
      OBVIOUS
    <3>2. /\ count'[<<w, m>>][k] = 0 \/ count'[<<w, m>>][k] = count[<<w, m>>][k]
          /\ count[<<w, m>>][k] \in Nat
      BY <1>5, <3>1
    <3> QED BY <3>2
  <2> QED BY <2>1, <2>2, <2>3, CubeLe
<1>7. Cube(count, arm.workers, Models, Kinds)' <= used.work
  <2>1. Cube(count, arm.workers, Models, Kinds)' = Cube(count', arm.workers, Models, Kinds)
    BY DEF Cube, Work3, Sum
  <2>2. Counts(count, arm.workers, Models, Kinds)
    BY EngineCounts
  <2>3. /\ Counts(count', arm.workers, Models, Kinds)
        /\ Cube(count', arm.workers, Models, Kinds) <= Cube(count, arm.workers, Models, Kinds)
    BY <1>6
  <2>4. /\ Cube(count', arm.workers, Models, Kinds) \in Nat
        /\ Cube(count, arm.workers, Models, Kinds) \in Nat
    BY <2>2, <2>3, CubeType
  <2>5. Cube(count, arm.workers, Models, Kinds) <= used.work /\ used.work \in Nat
    BY DEF Budget
  <2> QED BY <2>1, <2>3, <2>4, <2>5
<1>8. ASSUME NEW w \in arm.workers, NEW ks \in SUBSET Kinds PROVE Kept(w, ks)
  <2>1. {w} \in SUBSET arm.workers /\ Counted \in SUBSET Models
    BY EngineCounts
  <2>2. /\ Counts(count, {w}, Counted, ks) /\ Counts(since, {w}, Counted, ks)
        /\ Counts(count', {w}, Counted, ks)
    BY <1>6, <2>1, DoneBound
  <2>3. /\ Cube(count, {w}, Counted, ks) \in Nat /\ Cube(since, {w}, Counted, ks) \in Nat
        /\ Cube(count', {w}, Counted, ks) \in Nat
    BY <2>2, CubeType
  <2>4. Cube(since', {w}, Counted, ks) = Cube(since, {w}, Counted, ks)
    OBVIOUS
  <2>5. CASE w \in ws
    <3>1. \A v \in {w}, m \in Counted, k \in ks : count'[<<v, m>>][k] = 0
      BY <1>5, <2>1, <2>5
    <3>2. Cube(count', {w}, Counted, ks) = 0
      BY <2>2, <3>1, CubeZero
    <3> QED BY <2>3, <2>4, <3>2 DEF Kept
  <2>6. CASE w \notin ws
    <3>1. \A v \in {w}, m \in Counted, k \in ks : count'[<<v, m>>][k] = count[<<v, m>>][k]
      BY <1>5, <2>1, <2>6
    <3>2. Cube(count', {w}, Counted, ks) = Cube(count, {w}, Counted, ks)
      BY <2>2, <3>1, CubeSame
    <3> QED BY <2>3, <2>4, <3>2 DEF Kept
  <2> QED BY <2>5, <2>6
<1> QED BY <1>2, <1>4, <1>7, <1>8

(* Restarts and departures: the counters of some workers start again. *)
LEMMA DisturbedStep ==
    ASSUME IInv, Disturbed, NEW ws \in SUBSET arm.workers, Started(ws),
           up' \subseteq arm.workers, models' \in ModelSets,
           arm.labelled \/ Cardinality(models') = 1,
           models' = models \/ ws = arm.workers
    PROVE  IInv'
<1>1. Engine /\ Budget /\ Output /\ Tracked
  BY DEF IInv
<1>2. /\ arm' = arm /\ shown' = shown /\ since' = since /\ Stale
      /\ used.restarts < MaxRestarts /\ used' = [used EXCEPT !.restarts = @ + 1]
  BY DEF Disturbed
<1>3. /\ count' \in [arm.workers \X Models -> [Kinds -> Nat]]
      /\ \A p \in arm.workers \X Models :
            count'[p] = IF p[1] \in ws THEN NoWork ELSE count[p]
      /\ Cube(count, arm.workers, Models, Kinds)' <= used.work
      /\ \A w \in arm.workers, ks \in SUBSET Kinds : Kept(w, ks)
  BY <1>1, <1>2, StartedKeeps
<1>4. ASSUME NEW w \in arm.workers, NEW m \in Models \ models' PROVE count'[<<w, m>>] = NoWork
  BY <1>1, <1>3 DEF Engine
<1>5. Engine'
  BY <1>1, <1>2, <1>3, <1>4 DEF Engine
<1>6. Budget'
  <2>1. used' \in [work : 0..MaxWork, restarts : 0..MaxRestarts] /\ used'.work = used.work
    BY <1>1, <1>2, BoundsAssumption DEF Budget
  <2> QED BY <1>1, <1>2, <1>3, <2>1 DEF Budget
<1>7. Output'
  BY <1>1, <1>2, StaleOutput
<1>8. Tracked'
  BY <1>1, <1>2, <1>3, TrackedKept
<1> QED BY <1>5, <1>6, <1>7, <1>8 DEF IInv

LEMMA EngineSteps ==
    ASSUME IInv, \/ \E w \in arm.workers : Leave(w) \/ Restart(w)
                 \/ \E ms \in ModelSets : Relaunch(ms)
    PROVE  IInv' /\ ~out'.fresh
<1>1. Engine /\ Output
  BY DEF IInv
<1>2. /\ up \subseteq arm.workers /\ models \in ModelSets
      /\ arm.labelled \/ Cardinality(models) = 1
      /\ count \in [arm.workers \X Models -> [Kinds -> Nat]]
  BY <1>1 DEF Engine
<1>3. ASSUME NEW w \in arm.workers, Leave(w) PROVE IInv' /\ ~out'.fresh
  <2>1. Disturbed /\ Stale /\ up' = up \ {w} /\ models' = models /\ count' = count
    BY <1>3 DEF Leave, Disturbed
  <2>2. Started({}) /\ {} \in SUBSET arm.workers
    BY <1>2, <2>1 DEF Started
  <2> QED BY <1>1, <1>2, <2>1, <2>2, DisturbedStep, StaleOutput
<1>4. ASSUME NEW w \in arm.workers, Restart(w) PROVE IInv' /\ ~out'.fresh
  <2>1. Disturbed /\ Stale /\ up' = up \cup {w} /\ models' = models /\ Started({w})
    BY <1>4 DEF Restart, Disturbed
  <2>2. {w} \in SUBSET arm.workers
    OBVIOUS
  <2> QED BY <1>1, <1>2, <2>1, <2>2, DisturbedStep, StaleOutput
<1>5. ASSUME NEW ms \in ModelSets, Relaunch(ms) PROVE IInv' /\ ~out'.fresh
  <2>1. /\ Disturbed /\ Stale /\ (arm.labelled \/ Cardinality(ms) = 1)
        /\ up' = arm.workers /\ models' = ms /\ Started(arm.workers)
    BY <1>5 DEF Relaunch, Disturbed, Launched
  <2> QED BY <1>1, <2>1, DisturbedStep, StaleOutput
<1> QED BY <1>3, <1>4, <1>5

-----------------------------------------------------------------------------
(* A scrape.                                                               *)
LEMMA KeyParts ==
    ASSUME NEW m, NEW w
    PROVE  /\ SeriesKey(m, w)[1] = m[1] /\ SeriesKey(m, w)[2] = m[2]
           /\ SeriesKey(m, w)[3] = WorkerID(w) /\ Key(CounterSample(m, w)) = SeriesKey(m, w)
BY DEF SeriesKey, Key, CounterSample

LEMMA SameSeries ==
    ASSUME Engine, NEW m \in Measurements, NEW n \in Measurements,
           NEW v \in arm.workers, NEW w \in arm.workers, SeriesKey(m, v) = SeriesKey(n, w)
    PROVE  m = n /\ v = w
BY KeyParts, MeasurementIs, WorkerIDs

(* What is stored of a scrape: the counters it exposed. *)
LEMMA StoredIs ==
    ASSUME Engine
    PROVE  /\ \A k \in DOMAIN Stored(AllSamples) :
                 \/ \E m \in Offered, w \in up : k = SeriesKey(m, w)
                 \/ k \in DOMAIN shown /\ Stored(AllSamples)[k] = shown[k]
           /\ DOMAIN shown \subseteq DOMAIN Stored(AllSamples)
           /\ \A m \in Offered, w \in up :
                 /\ SeriesKey(m, w) \in DOMAIN Stored(AllSamples)
                 /\ Stored(AllSamples)[SeriesKey(m, w)] = Done(count, {w}, {KindOf(m)})
<1> DEFINE new == {s \in AllSamples : s.def # "usage"}
           keys == {Key(s) : s \in new}
           At(k) == CHOOSE s \in new : Key(s) = k
<1>1. Stored(AllSamples) =
        [k \in keys \cup DOMAIN shown |-> IF k \in keys THEN At(k).val ELSE shown[k]]
  BY DEF Stored
<1>2. ASSUME NEW k \in keys PROVE \E m \in Offered, w \in up : k = SeriesKey(m, w)
  <2>1. PICK s \in new : Key(s) = k
    OBVIOUS
  <2>2. s \in AllSamples /\ s.def # "usage"
    OBVIOUS
  <2>3. \A w : UsageSample(w).def = "usage"
    BY DEF UsageSample
  <2>4. PICK m \in Offered, w \in up : s = CounterSample(m, w)
    BY <2>2, <2>3, SampleKinds
  <2> QED BY <2>1, <2>4, KeyParts
<1>3. ASSUME NEW m \in Offered, NEW w \in up
      PROVE  /\ SeriesKey(m, w) \in keys
             /\ At(SeriesKey(m, w)).val = Done(count, {w}, {KindOf(m)})
  <2> DEFINE s == CounterSample(m, w)
             k == SeriesKey(m, w)
  <2>1. s \in AllSamples /\ Key(s) = k
    BY SamplesIn, KeyParts
  <2>2. s.def # "usage" /\ s.val = Done(count, {w}, {KindOf(m)})
    BY MeasurementIs DEF CounterSample, Offered
  <2>3. s \in new
    BY <2>1, <2>2
  <2> HIDE DEF s, k
  <2>4. k \in keys
    BY <2>1, <2>3
  <2>5. At(k) \in new /\ Key(At(k)) = k
    BY <2>1, <2>3
  <2>6. At(k) \in AllSamples
    BY <2>5
  <2> HIDE DEF At, new, keys
  <2>7. At(k) = s
    BY <2>1, <2>5, <2>6, SampleKeys
  <2> QED BY <2>2, <2>4, <2>7 DEF k
<1> HIDE DEF keys, At
<1> QED BY <1>1, <1>2, <1>3

LEMMA StoredNothing ==
    /\ DOMAIN Stored({}) = DOMAIN shown
    /\ \A k \in DOMAIN shown : Stored({})[k] = shown[k]
BY DEF Stored

LEMMA SampleTypes ==
    ASSUME Engine, Budget
    PROVE  AllSamples \subseteq Samples /\ \A w \in up : HistogramOf(w) \in Hists
<1>1. up \subseteq arm.workers
  BY DEF Engine
<1>2. \A w \in up : WorkerID(w) \in {"default", "0", "1"}
  BY <1>1, WorkerIDs
<1>3. MaxWork \in Nat
  BY BoundsAssumption
<1>4. ASSUME NEW m \in Offered, NEW w \in up PROVE CounterSample(m, w) \in Samples
  <2>1. {KindOf(m)} \in SUBSET Kinds
    BY KindsOf DEF Offered
  <2>2. Done(count, {w}, {KindOf(m)}) \in 0..MaxWork
    BY <1>1, <2>1, DoneBound
  <2>3. Done(count, {w}, {KindOf(m)}) \in 0..MaxWork + Full
    BY <1>3, <2>2 DEF Full
  <2>4. m[1] \in {"tokens", "cached", "usage"} /\ m[2] \in {"prefill", "decode", "none"}
    BY DEF Offered, Measurements
  <2> QED BY <1>2, <2>3, <2>4 DEF CounterSample, Samples
<1>5. ASSUME NEW w \in up PROVE UsageSample(w) \in Samples
  <2>1. Usage \in 0..MaxWork + Full
    BY <1>3 DEF Usage, Full
  <2> QED BY <1>2, <2>1 DEF UsageSample, Samples
<1>6. ASSUME NEW w \in up PROVE HistogramOf(w) \in Hists
  <2>1. DOMAIN arm.bounds \in SUBSET Kinds /\ {"stream"} \cap DOMAIN arm.bounds \in SUBSET Kinds
    BY ArmFacts DEF Engine, Kinds
  <2>2. /\ Done(count, {w}, DOMAIN arm.bounds) \in 0..MaxWork
        /\ Done(count, {w}, {"stream"} \cap DOMAIN arm.bounds) \in 0..MaxWork
    BY <1>1, <2>1, DoneBound
  <2> QED BY <1>2, <2>2 DEF HistogramOf, Hists
<1> QED BY <1>4, <1>5, <1>6, SampleKinds

(* What is told stays true as long as the engine stays as it is. *)
LEMMA TellsPrimed ==
    ASSUME UNCHANGED <<arm, models, up, count>>, Tells(out')
    PROVE  Tells(out)'
<1>1. Reads' = Reads /\ OneModel' = OneModel /\ Offered' = Offered
  BY DEF Reads, OneModel, Offered, Shows
<1>2. Answers(Reads)' <=> Answers(Reads)
  BY <1>1 DEF Answers
<1>3. AllSamples' = AllSamples
  BY <1>1 DEF AllSamples, AllCounters, AllUsages, CounterSamples, CounterSample, UsageSamples,
              UsageSample, Done, Counted
<1>4. \A w : HistogramOf(w)' = HistogramOf(w)
  BY DEF HistogramOf, Done, Counted
<1> QED BY <1>1, <1>2, <1>3, <1>4 DEF Tells

(* Of a scrape: its output, the series it exposed and the ones it did not, *)
(* and whose work it starts to count anew.                                 *)
Exposes(k) == \E m \in Offered, w \in up : k = SeriesKey(m, w)

LEMMA ScrapeFacts ==
    ASSUME IInv, Scrape
    PROVE  /\ UNCHANGED <<arm, models, up, count, used>>
           /\ Tells(out') /\ Output'
           /\ \A k \in DOMAIN shown' : \/ out'.up /\ Exposes(k)
                                       \/ k \in DOMAIN shown /\ shown'[k] = shown[k]
           /\ out'.up => \A m \in Offered, w \in up :
                            shown'[SeriesKey(m, w)] = Done(count, {w}, {KindOf(m)})
           /\ DOMAIN since' = DOMAIN since
           /\ \A p \in DOMAIN since :
                 since'[p] = IF out'.up /\ p[1] \in up THEN NoWork ELSE since[p]
<1>1. Engine /\ Budget
  BY DEF IInv
<1>2. PICK res \in {NoResult, Map} :
         /\ out' = Report(res) /\ shown' = Stored(out'.samples)
         /\ since' = [p \in DOMAIN since |->
                         IF out'.up /\ p[1] \in up THEN NoWork ELSE since[p]]
  BY DEF Scrape
<1>3. UNCHANGED <<arm, models, up, count, used>>
  BY DEF Scrape
<1>4. Tells(out')
  BY <1>1, <1>2, ReportTells
<1>5. Output'
  <2>1. /\ out' \in [up : BOOLEAN, mismatch : BOOLEAN, fresh : BOOLEAN,
                     samples : SUBSET out'.samples, hists : SUBSET out'.hists,
                     available : SUBSET Measurements]
        /\ ~out'.up => out'.samples = {} /\ out'.hists = {} /\ out'.available = {}
        /\ out'.up => /\ out'.samples = AllSamples
                      /\ \A h \in out'.hists : \E w \in up : h = HistogramOf(w)
    BY <1>4 DEF Tells
  <2>2. out'.samples \subseteq Samples /\ out'.hists \subseteq Hists
    BY <1>1, <2>1, SampleTypes
  <2>3. out' \in [up : BOOLEAN, mismatch : BOOLEAN, fresh : BOOLEAN, samples : SUBSET Samples,
                  hists : SUBSET Hists, available : SUBSET Measurements]
    BY <2>1, <2>2
  <2>4. Tells(out)'
    BY <1>3, <1>4, TellsPrimed
  <2>5. Samples' = Samples /\ Hists' = Hists /\ Measurements' = Measurements
    BY DEF Samples, Hists, Measurements
  <2> QED BY <2>1, <2>3, <2>4, <2>5 DEF Output
<1>6. CASE out'.up
  <2>1. shown' = Stored(AllSamples)
    BY <1>2, <1>4, <1>6 DEF Tells
  <2> QED BY <1>1, <1>2, <1>3, <1>4, <1>5, <1>6, <2>1, StoredIs DEF Exposes
<1>7. CASE ~out'.up
  <2>1. shown' = Stored({})
    BY <1>2, <1>4, <1>7 DEF Tells
  <2> QED BY <1>2, <1>3, <1>4, <1>5, <1>7, <2>1, StoredNothing
<1> QED BY <1>6, <1>7

LEMMA ScrapeStep ==
    ASSUME IInv, Scrape PROVE IInv'
<1>1. Engine /\ Budget /\ Tracked
  BY DEF IInv
<1>2. /\ arm' = arm /\ models' = models /\ up' = up /\ count' = count /\ used' = used
      /\ Output' /\ DOMAIN since' = DOMAIN since
      /\ \A p \in DOMAIN since :
            since'[p] = IF out'.up /\ p[1] \in up THEN NoWork ELSE since[p]
  BY ScrapeFacts
<1>3. /\ \A k \in DOMAIN shown' : \/ out'.up /\ Exposes(k)
                                  \/ k \in DOMAIN shown /\ shown'[k] = shown[k]
      /\ out'.up => \A m \in Offered, w \in up :
                       shown'[SeriesKey(m, w)] = Done(count, {w}, {KindOf(m)})
  BY ScrapeFacts
<1>4. since' \in [arm.workers \X Models -> [Kinds -> Nat]]
  <2>1. since \in [arm.workers \X Models -> [Kinds -> Nat]] /\ NoWork \in [Kinds -> Nat]
    BY <1>1 DEF Engine, NoWork
  <2>2. since' = [p \in DOMAIN since |->
                    IF out'.up /\ p[1] \in up THEN NoWork ELSE since[p]]
    BY DEF Scrape
  <2> QED BY <2>1, <2>2
<1>5. ASSUME NEW w \in arm.workers, NEW m \in Models, NEW k \in Kinds
      PROVE  /\ since[<<w, m>>][k] \in Nat
             /\ since'[<<w, m>>][k] = IF out'.up /\ w \in up THEN 0 ELSE since[<<w, m>>][k]
  <2>1. <<w, m>> \in DOMAIN since /\ since[<<w, m>>] \in [Kinds -> Nat]
    BY <1>1 DEF Engine
  <2>2. since'[<<w, m>>] = IF out'.up /\ w \in up THEN NoWork ELSE since[<<w, m>>]
    BY <1>2, <2>1
  <2> QED BY <2>1, <2>2 DEF NoWork
<1>6. Engine'
  BY <1>1, <1>2, <1>4 DEF Engine
<1>7. Budget'
  <2>1. ASSUME NEW w \in arm.workers, NEW m \in Models, NEW k \in Kinds
        PROVE  since'[<<w, m>>][k] <= used.work
    <3>1. since'[<<w, m>>][k] = 0 \/ since'[<<w, m>>][k] = since[<<w, m>>][k]
      BY <1>5
    <3>2. used.work \in Nat /\ since[<<w, m>>][k] <= used.work
      BY <1>1 DEF Budget
    <3> QED BY <3>1, <3>2
  <2>2. Cube(count, arm.workers, Models, Kinds)' = Cube(count, arm.workers, Models, Kinds)
    BY <1>2 DEF Cube, Work3, Sum
  <2> QED BY <1>1, <1>2, <2>1, <2>2 DEF Budget
<1>8. Tracked'
  <2> SUFFICES ASSUME NEW k \in DOMAIN shown'
               PROVE  /\ shown'[k] \in 0..MaxWork
                      /\ \E m \in Offered, w \in arm.workers : Follows(k, m, w)'
    BY <1>2, ArmStays DEF Tracked
  <2>1. ASSUME NEW m \in Offered, NEW w \in arm.workers
        PROVE  /\ Done(count, {w}, {KindOf(m)})' = Done(count, {w}, {KindOf(m)})
               /\ Done(count, {w}, {KindOf(m)}) \in 0..MaxWork
               /\ Done(since, {w}, {KindOf(m)})' =
                     IF out'.up /\ w \in up THEN 0 ELSE Done(since, {w}, {KindOf(m)})
    <3> DEFINE ks == {KindOf(m)}
    <3>1. ks \in SUBSET Kinds
      BY KindsOf DEF Offered
    <3>2. Done(count, {w}, ks) \in 0..MaxWork /\ Counts(since, {w}, Counted, ks)
      BY <1>1, <3>1, DoneBound
    <3>3. /\ Done(count, {w}, ks)' = Cube(count', {w}, Counted, ks)
          /\ Done(since, {w}, ks)' = Cube(since', {w}, Counted, ks)
      BY <1>2, ArmStays
    <3>4. Counted \in SUBSET Models
      BY <1>1, EngineCounts
    <3> HIDE DEF ks
    <3>5. CASE out'.up /\ w \in up
      <4>1. \A v \in {w}, n \in Counted, j \in ks : since'[<<v, n>>][j] = 0
        BY <1>5, <3>1, <3>4, <3>5
      <4>2. Counts(since', {w}, Counted, ks)
        BY <3>2, <4>1 DEF Counts
      <4>3. Cube(since', {w}, Counted, ks) = 0
        BY <4>1, <4>2, CubeZero
      <4> QED BY <1>2, <3>2, <3>3, <3>5, <4>3, DoneIsCube DEF ks
    <3>6. CASE ~(out'.up /\ w \in up)
      <4>1. \A v \in {w}, n \in Counted, j \in ks : since'[<<v, n>>][j] = since[<<v, n>>][j]
        BY <1>5, <3>1, <3>4, <3>6
      <4>2. Cube(since', {w}, Counted, ks) = Cube(since, {w}, Counted, ks)
        BY <3>2, <4>1, CubeSame
      <4> QED BY <1>2, <3>2, <3>3, <3>6, <4>2, DoneIsCube DEF ks
    <3> QED BY <3>5, <3>6
  <2>2. CASE out'.up /\ Exposes(k)
    <3>1. PICK m \in Offered, w \in up : k = SeriesKey(m, w)
      BY <2>2 DEF Exposes
    <3>2. w \in arm.workers
      BY <1>1 DEF Engine
    <3>3. shown'[k] = Done(count, {w}, {KindOf(m)})
      BY <1>3, <2>2, <3>1
    <3>4. /\ Done(count, {w}, {KindOf(m)})' = shown'[k] /\ shown'[k] \in 0..MaxWork
          /\ Done(since, {w}, {KindOf(m)})' = 0
      BY <2>1, <2>2, <3>2, <3>3
    <3>5. shown'[k] = shown'[k] + 0
      BY <3>4, BoundsAssumption
    <3>6. Follows(k, m, w)'
      BY <3>1, <3>4, <3>5 DEF Follows, SeriesKey
    <3> QED BY <3>2, <3>4, <3>6
  <2>3. CASE ~(out'.up /\ Exposes(k))
    <3>1. k \in DOMAIN shown /\ shown'[k] = shown[k]
      BY <1>3, <2>3
    <3>2. PICK m \in Offered, w \in arm.workers : Follows(k, m, w)
      BY <1>1, <3>1 DEF Tracked
    <3>3. k = SeriesKey(m, w)
      BY <3>2 DEF Follows
    <3>4. ~(out'.up /\ w \in up)
      BY <2>3, <3>3 DEF Exposes
    <3>5. /\ Done(count, {w}, {KindOf(m)})' = Done(count, {w}, {KindOf(m)})
          /\ Done(since, {w}, {KindOf(m)})' = Done(since, {w}, {KindOf(m)})
      BY <2>1, <3>4
    <3>6. Follows(k, m, w)'
      BY <3>1, <3>2, <3>5 DEF Follows, SeriesKey
    <3>7. shown[k] \in 0..MaxWork
      BY <1>1, <3>1 DEF Tracked
    <3> QED BY <3>1, <3>6, <3>7
  <2> QED BY <2>2, <2>3
<1> QED BY <1>2, <1>6, <1>7, <1>8 DEF IInv

-----------------------------------------------------------------------------
(* The increase of a series is no more than its worker did. *)
LEMMA IncreaseBound ==
    ASSUME IInv, Scrape, NEW m \in Measurements, NEW k \in DOMAIN shown', <<k[1], k[2]>> = m
    PROVE  \E w \in arm.workers :
              /\ k = SeriesKey(m, w) /\ Increase(k) \in Nat
              /\ Increase(k) <= Done(since, {w}, {KindOf(m)})
<1>1. Engine /\ Budget /\ Tracked
  BY DEF IInv
<1>2. k[1] = m[1] /\ k[2] = m[2]
  OBVIOUS
<1>3. ASSUME NEW n \in Offered, NEW w, k = SeriesKey(n, w) PROVE n = m
  <2>1. n \in Measurements /\ n[1] = m[1] /\ n[2] = m[2]
    BY <1>2, <1>3, KeyParts DEF Offered
  <2> QED BY <2>1, MeasurementIs
<1>4. ASSUME NEW w \in arm.workers
      PROVE  /\ Done(count, {w}, {KindOf(m)}) \in Nat
             /\ Done(since, {w}, {KindOf(m)}) \in Nat
  BY <1>1, KindsOf, DoneBound, BoundsAssumption
<1>5. ASSUME k \in DOMAIN shown
      PROVE  /\ shown[k] \in Nat
             /\ \E w \in arm.workers : m \in Offered /\ Follows(k, m, w) /\ k = SeriesKey(m, w)
  <2>1. PICK n \in Offered, w \in arm.workers : Follows(k, n, w)
    BY <1>1, <1>5 DEF Tracked
  <2>2. k = SeriesKey(n, w)
    BY <2>1 DEF Follows
  <2>3. n = m
    BY <1>3, <2>2
  <2>4. shown[k] \in Nat
    BY <1>1, <1>5, BoundsAssumption DEF Tracked
  <2> QED BY <2>1, <2>2, <2>3, <2>4
<1>6. CASE out'.up /\ Exposes(k)
  <2>1. PICK n \in Offered, w \in up : k = SeriesKey(n, w)
    BY <1>6 DEF Exposes
  <2>2. n = m /\ w \in arm.workers
    BY <1>1, <1>3, <2>1 DEF Engine
  <2> DEFINE c == Done(count, {w}, {KindOf(m)})
             s == Done(since, {w}, {KindOf(m)})
  <2>3. shown'[k] = c
    BY <1>6, <2>1, <2>2, ScrapeFacts
  <2>4. c \in Nat /\ s \in Nat
    BY <1>4, <2>2
  <2>5. CASE k \notin DOMAIN shown
    <3>1. Increase(k) = 0
      BY <2>5 DEF Increase
    <3> HIDE DEF s
    <3>2. Increase(k) \in Nat /\ Increase(k) <= s
      BY <2>4, <3>1
    <3> QED BY <2>1, <2>2, <3>2 DEF s
  <2>6. CASE k \in DOMAIN shown
    <3>1. PICK v \in arm.workers : Follows(k, m, v) /\ k = SeriesKey(m, v)
      BY <1>5, <2>6
    <3>2. SeriesKey(m, v) = SeriesKey(m, w)
      BY <2>1, <2>2, <3>1
    <3>3. v = w
      BY <1>1, <2>2, <3>2, SameSeries
    <3>4. shown[k] \in Nat /\ (c <= s \/ c = shown[k] + s)
      BY <1>5, <2>6, <3>1, <3>3 DEF Follows
    <3> HIDE DEF c, s
    <3>5. Increase(k) = IF c >= shown[k] THEN c - shown[k] ELSE c
      BY <2>3, <2>6 DEF Increase
    <3>6. Increase(k) \in Nat /\ Increase(k) <= s
      BY <2>4, <3>4, <3>5
    <3> QED BY <2>1, <2>2, <3>6 DEF s
  <2> QED BY <2>5, <2>6
<1>7. CASE k \in DOMAIN shown /\ shown'[k] = shown[k]
  <2>1. PICK w \in arm.workers : k = SeriesKey(m, w)
    BY <1>5, <1>7
  <2>2. Increase(k) = 0
    BY <1>5, <1>7 DEF Increase
  <2>3. Done(since, {w}, {KindOf(m)}) \in Nat
    BY <1>4
  <2>4. Increase(k) \in Nat /\ Increase(k) <= Done(since, {w}, {KindOf(m)})
    BY <2>2, <2>3
  <2> QED BY <2>1, <2>4
<1> QED BY <1>6, <1>7, ScrapeFacts

Rate ==
    out'.fresh => \A m \in Measurements :
        LET keys == {k \in DOMAIN shown' : <<k[1], k[2]>> = m}
            increase == [k \in keys |-> Increase(k)]
        IN  SumFunction(increase) <= Done(since, arm.workers, {KindOf(m)})

LEMMA ScrapeRate ==
    ASSUME IInv, Scrape PROVE Rate
<1> SUFFICES ASSUME NEW m \in Measurements
             PROVE  LET keys == {k \in DOMAIN shown' : <<k[1], k[2]>> = m}
                        increase == [k \in keys |-> Increase(k)]
                    IN  SumFunction(increase) <= Done(since, arm.workers, {KindOf(m)})
  BY DEF Rate
<1> DEFINE keys == {k \in DOMAIN shown' : <<k[1], k[2]>> = m}
           increase == [k \in keys |-> Increase(k)]
           ks == {KindOf(m)}
           h == ByWorker(since, arm.workers, Counted, ks)
           At(k) == CHOOSE w \in arm.workers : k = SeriesKey(m, w)
           g == [k \in keys |-> At(k)]
           f == [k \in keys |-> h[g[k]]]
           G == {g[k] : k \in keys}
<1>1. Engine /\ Budget
  BY DEF IInv
<1>2. ks \in SUBSET Kinds /\ Counted \in SUBSET Models /\ arm.workers \in SUBSET arm.workers
  BY <1>1, KindsOf, EngineCounts
<1>3. Counts(since, arm.workers, Counted, ks)
  BY <1>1, <1>2, EngineCounts
<1>4. ASSUME NEW w \in arm.workers PROVE h[w] = Done(since, {w}, ks) /\ h[w] \in Nat
  <2>1. Done(since, {w}, ks) = Cube(since, {w}, Counted, ks)
    BY DoneIsCube
  <2>2. Cube(since, {w}, Counted, ks) \in Nat
    BY <1>3, CubeLess
  <2> QED BY <2>1, <2>2 DEF ByWorker
<1>5. Done(since, arm.workers, ks) = Sum(h, arm.workers)
  BY <1>3, DoneIsCube, CubeByWorker
<1> HIDE DEF h
<1>6. ASSUME NEW k \in keys
      PROVE  /\ g[k] \in arm.workers /\ k = SeriesKey(m, g[k])
             /\ increase[k] \in Nat /\ increase[k] <= h[g[k]] /\ h[g[k]] \in Nat
  <2>1. k \in DOMAIN shown' /\ <<k[1], k[2]>> = m
    OBVIOUS
  <2>2. PICK w \in arm.workers : /\ k = SeriesKey(m, w) /\ Increase(k) \in Nat
                                 /\ Increase(k) <= Done(since, {w}, ks)
    BY <2>1, IncreaseBound
  <2>3. At(k) \in arm.workers /\ k = SeriesKey(m, At(k))
    BY <2>2
  <2> HIDE DEF At
  <2>4. At(k) = w
    BY <1>1, <2>2, <2>3, SameSeries
  <2>5. g[k] = At(k) /\ increase[k] = Increase(k)
    OBVIOUS
  <2> QED BY <1>4, <2>2, <2>4, <2>5
<1>7. \A k \in keys : f[k] = h[g[k]]
  OBVIOUS
<1>8. SumFunction(increase) = Sum(increase, keys)
  BY DEF Sum, SumFunction
<1>9. IsFiniteSet(arm.workers)
  BY <1>3 DEF Counts
<1> HIDE DEF keys, increase, ks, g, f
<1>10. \A j, k \in keys : g[j] = g[k] => j = k
  BY <1>6
<1>11. G \in SUBSET arm.workers
  BY <1>6
<1>12. IsFiniteSet(keys)
  <2>1. g \in [keys -> arm.workers]
    BY <1>6 DEF g
  <2>2. g \in Injection(keys, arm.workers)
    BY <1>10, <2>1 DEF Injection, IsInjective
  <2> QED BY <1>9, <2>2, FS_Injection
<1>13. Sum(increase, keys) <= Sum(f, keys)
  BY <1>6, <1>7, <1>12, SumLe
<1>14. Sum(f, keys) = Sum(h, G)
  <2>1. \A k \in keys : f[k] \in Nat /\ f[k] = h[g[k]]
    BY <1>6, <1>7
  <2> QED BY <1>10, <1>12, <2>1, SumImage
<1> HIDE DEF G
<1>15. Sum(h, arm.workers) = Sum(h, G) + Sum(h, arm.workers \ G)
  BY <1>4, <1>9, <1>11, SumSplit
<1>16. Sum(h, G) \in Nat /\ Sum(h, arm.workers \ G) \in Nat /\ Sum(increase, keys) \in Nat
  <2>1. IsFiniteSet(G) /\ IsFiniteSet(arm.workers \ G)
    BY <1>9, <1>11, FS_Subset
  <2>2. Sum(h, G) \in Nat
    BY <1>4, <1>11, <2>1, SumTake
  <2>3. Sum(h, arm.workers \ G) \in Nat
    BY <1>4, <2>1, SumTake
  <2>4. Sum(increase, keys) \in Nat
    BY <1>6, <1>12, SumTake
  <2> QED BY <2>2, <2>3, <2>4
<1>17. SumFunction(increase) <= Done(since, arm.workers, ks)
  BY <1>5, <1>8, <1>13, <1>14, <1>15, <1>16
<1> QED BY <1>17 DEF keys, increase, ks

-----------------------------------------------------------------------------
LEMMA NextKeeps ==
    ASSUME IInv, [Next]_vars PROVE IInv' /\ (Rate \/ UNCHANGED vars)
<1>1. CASE Scrape
  BY <1>1, ScrapeStep, ScrapeRate
<1>2. ASSUME NEW w \in arm.workers, NEW m \in models, NEW k \in Kinds, Work(w, m, k)
      PROVE  IInv' /\ Rate
  <2>1. Output /\ Stale
    BY <1>2 DEF IInv, Work
  <2>2. ~out'.fresh
    BY <2>1, StaleOutput
  <2> QED BY <1>2, <2>2, WorkStep DEF Rate
<1>3. CASE \/ \E w \in arm.workers : Leave(w) \/ Restart(w)
           \/ \E ms \in ModelSets : Relaunch(ms)
  BY <1>3, EngineSteps DEF Rate
<1>4. CASE UNCHANGED vars
  <2>1. Engine' /\ Budget' /\ Output' /\ Tracked'
    <3>1. /\ arm' = arm /\ models' = models /\ up' = up /\ count' = count /\ out' = out
          /\ shown' = shown /\ since' = since /\ used' = used
      BY <1>4 DEF vars
    <3>2. Engine /\ Budget /\ Output /\ Tracked
      BY DEF IInv
    <3>3. Engine'
      BY <3>1, <3>2 DEF Engine
    <3>4. Budget'
      BY <3>1, <3>2 DEF Budget, Cube, Work3, Sum
    <3>5. Output'
      <4>1. Tells(out)' <=> Tells(out')
        BY <3>1 DEF Tells, Answers, Reads, OneModel, AllSamples, AllCounters, AllUsages,
                    CounterSamples, CounterSample, UsageSamples, UsageSample, Offered, Shows,
                    HistogramOf, Done, Counted
      <4> QED BY <3>1, <3>2, <4>1 DEF Output, Samples, Hists, Measurements
    <3>6. Tracked'
      <4>1. ASSUME NEW k, NEW m, NEW w PROVE Follows(k, m, w)' <=> Follows(k, m, w)
        BY <3>1 DEF Follows, SeriesKey, Done, Counted
      <4>2. Offered' = Offered
        BY <3>1, ArmStays
      <4> QED BY <3>1, <3>2, <4>1, <4>2 DEF Tracked
    <3> QED BY <3>3, <3>4, <3>5, <3>6
  <2> QED BY <1>4, <2>1 DEF IInv
<1> QED BY <1>1, <1>2, <1>3, <1>4 DEF Next

LEMMA Invariant == Spec => []IInv
BY InitEngine, NextKeeps, PTL DEF Spec

(* Every variable has its type: no sum of series is more than the work     *)
(* that was done, whatever ranks and models are in the body, and an arm    *)
(* that is down exposes nothing.                                           *)
THEOREM TypeCorrect == Spec => []TypeOK
BY Invariant, ImpliesTypeOK, PTL

(* Value and Histogram count every piece of work once: what a fresh scrape *)
(* exposes of a worker is what that worker did for the arm's one model.    *)
THEOREM WorkCountsOnce == Spec => []CountsOnce
BY Invariant, ImpliesCountsOnce, PTL

(* report says that a measurement is available, and exposes it for every   *)
(* worker that is up, if and only if the engine's exposition has it.       *)
THEOREM AbsentNeverZero == Spec => []AbsentIsNotZero
BY Invariant, ImpliesAbsentIsNotZero, PTL

(* Keeping one series per worker keeps its resets: the increase between    *)
(* two scrapes, resets included, is at most the work done meanwhile.       *)
THEOREM IncreaseIsWork == Spec => RateNeverOvercounts
<1>1. IInv /\ [Next]_vars => [Rate]_vars
  BY NextKeeps
<1>2. [][Rate]_vars => RateNeverOvercounts
  BY PTL DEF RateNeverOvercounts, Rate
<1> QED BY Invariant, <1>1, <1>2, PTL DEF Spec

=============================================================================
