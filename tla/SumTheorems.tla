---------------------------- MODULE SumTheorems ----------------------------
(***************************************************************************)
(* Facts about SumFunctionOnSet for any finite set: its equation, its      *)
(* value at the empty set, that any element can be taken out, and what     *)
(* changing the function does to the sum.  The fold behind it is a         *)
(* recursive function on the subsets of the set; induction is by a minimal *)
(* counterexample.                                                         *)
(***************************************************************************)
EXTENDS FiniteSetTheorems, TLAPS

Pick(s) == CHOOSE x \in s : TRUE

\* The recursion of the fold: sum[s] for every subset s of S.
Counts(sum, f, S) ==
  sum = [s \in SUBSET S |-> IF s = {} THEN 0 ELSE f[Pick(s)] + sum[s \ {Pick(s)}]]

LEMMA SumUnfolds ==
  ASSUME NEW f, NEW S
  PROVE  SumFunctionOnSet(f, S) = (CHOOSE sum : Counts(sum, f, S))[S]
BY DEF SumFunctionOnSet, FoldFunctionOnSet, MapThenFoldSet, Counts, Pick

(* Among sets of subsets of a finite set there is always a smallest one.                *)
LEMMA MinimalSubset ==
  ASSUME NEW S, IsFiniteSet(S), NEW Bad, Bad \subseteq SUBSET S, Bad # {}
  PROVE  \E T \in Bad : \A U \in Bad : U \subseteq T => U = T
<1>1. IsWellFoundedOn(StrictSubsetOrdering(S), SUBSET S)
  BY FS_StrictSubsetOrderingWellFounded, FS_FiniteSubsetsOfFinite
<1>2. PICK T \in Bad : \A U \in Bad : ~(<<U, T>> \in StrictSubsetOrdering(S))
  BY <1>1, WFMin
<1>. QED
  BY <1>2 DEF StrictSubsetOrdering

LEMMA PickIn == ASSUME NEW s, s # {} PROVE Pick(s) \in s
BY DEF Pick

(* One step of the recursion.                                                           *)
LEMMA CountsStep ==
  ASSUME NEW f, NEW S, NEW sum, Counts(sum, f, S), NEW s \in SUBSET S
  PROVE  sum[s] = IF s = {} THEN 0 ELSE f[Pick(s)] + sum[s \ {Pick(s)}]
BY DEF Counts

(* The recursion has at most one solution on the subsets two sets share.                *)
LEMMA CountsAgree ==
  ASSUME NEW f, NEW S, IsFiniteSet(S), NEW T, NEW g, NEW h, Counts(g, f, S), Counts(h, f, T),
         T \subseteq S
  PROVE  \A s \in SUBSET T : g[s] = h[s]
<1>. DEFINE Bad == {s \in SUBSET T : g[s] # h[s]}
<1>1. SUFFICES ASSUME Bad # {} PROVE FALSE
  OBVIOUS
<1>2. PICK s \in Bad : \A u \in Bad : u \subseteq s => u = s
  <2>. HIDE DEF Bad
  <2>1. Bad \subseteq SUBSET S
    BY DEF Bad
  <2>. QED
    BY <1>1, <2>1, MinimalSubset
<1>3. s \in SUBSET T /\ s \in SUBSET S /\ g[s] # h[s]
  OBVIOUS
<1>4. g[s] = IF s = {} THEN 0 ELSE f[Pick(s)] + g[s \ {Pick(s)}]
  BY <1>3, CountsStep
<1>5. h[s] = IF s = {} THEN 0 ELSE f[Pick(s)] + h[s \ {Pick(s)}]
  BY <1>3, CountsStep
<1>6. s # {}
  BY <1>3, <1>4, <1>5
<1>7. s \ {Pick(s)} \notin Bad
  BY <1>2, <1>6, PickIn
<1>8. s \ {Pick(s)} \in SUBSET T
  BY <1>3
<1>9. g[s \ {Pick(s)}] = h[s \ {Pick(s)}]
  BY <1>7, <1>8
<1>. QED
  BY <1>3, <1>4, <1>5, <1>6, <1>9

(* The recursion has a solution.                                                        *)
LEMMA CountsExists ==
  ASSUME NEW f, NEW S, IsFiniteSet(S)
  PROVE  \E sum : Counts(sum, f, S)
<1>. DEFINE Bad == {T \in SUBSET S : ~\E sum : Counts(sum, f, T)}
<1>1. SUFFICES ASSUME Bad # {} PROVE FALSE
  OBVIOUS
<1>2. PICK T \in Bad : \A U \in Bad : U \subseteq T => U = T
  <2>. HIDE DEF Bad
  <2>1. Bad \subseteq SUBSET S
    BY DEF Bad
  <2>. QED
    BY <1>1, <2>1, MinimalSubset
<1>3. T \in SUBSET S /\ ~\E sum : Counts(sum, f, T)
  OBVIOUS
<1>. DEFINE below(U) == CHOOSE sum : Counts(sum, f, U)
            sum == [s \in SUBSET T |-> IF s = {} THEN 0
                                       ELSE f[Pick(s)] + below(s \ {Pick(s)})[s \ {Pick(s)}]]
<1>4. ASSUME NEW U \in SUBSET T, U # T
      PROVE  Counts(below(U), f, U)
  <2>1. U \notin Bad /\ U \in SUBSET S
    BY <1>2, <1>3, <1>4
  <2>. QED
    BY <2>1
<1>5. ASSUME NEW s \in SUBSET T, s # {}
      PROVE  sum[s] = f[Pick(s)] + sum[s \ {Pick(s)}]
  <2>. DEFINE u == s \ {Pick(s)}
  <2>1. u \in SUBSET T /\ u # T /\ IsFiniteSet(u)
    BY <1>3, <1>5, PickIn, FS_Subset
  <2>2. Counts(below(u), f, u)
    BY <1>4, <2>1
  <2>3. sum[u] = below(u)[u]
    <3>1. CASE u = {}
      <4>1. sum[u] = 0
        BY <2>1, <3>1
      <4>2. u \in SUBSET u
        OBVIOUS
      <4>3. below(u)[u] = 0
        <5>. HIDE DEF below, u
        <5>. QED
          BY <2>2, <3>1, <4>2, CountsStep
      <4>. QED
        BY <4>1, <4>3
    <3>2. CASE u # {}
      <4>. DEFINE v == u \ {Pick(u)}
      <4>1. v \in SUBSET u /\ v \in SUBSET T /\ v # T
        BY <2>1, <3>2, PickIn
      <4>2. Counts(below(v), f, v)
        BY <1>4, <4>1
      <4>3. sum[u] = f[Pick(u)] + below(v)[v]
        BY <2>1, <3>2
      <4>4. below(u)[u] = f[Pick(u)] + below(u)[v]
        <5>1. u \in SUBSET u
          OBVIOUS
        <5>. HIDE DEF below, u
        <5>. QED
          BY <2>2, <3>2, <5>1, CountsStep
      <4>5. below(u)[v] = below(v)[v]
        <5>1. v \in SUBSET v
          OBVIOUS
        <5>. HIDE DEF below, u, v
        <5>. QED
          BY <2>1, <2>2, <4>1, <4>2, <5>1, CountsAgree
      <4>. QED
        BY <4>3, <4>4, <4>5
    <3>. QED
      BY <3>1, <3>2
  <2>4. sum[s] = f[Pick(s)] + below(u)[u]
    BY <1>5
  <2>. QED
    BY <2>3, <2>4
<1>6. sum[{}] = 0
  OBVIOUS
<1>7. Counts(sum, f, T)
  <2>1. sum = [s \in SUBSET T |-> sum[s]]
    OBVIOUS
  <2>2. \A s \in SUBSET T : sum[s] = IF s = {} THEN 0 ELSE f[Pick(s)] + sum[s \ {Pick(s)}]
    <3>. HIDE DEF sum
    <3>. QED
      BY <1>5, <1>6
  <2>. HIDE DEF sum
  <2>. QED
    BY <2>1, <2>2 DEF Counts
<1>. QED
  BY <1>3, <1>7

-----------------------------------------------------------------------------
(* The lemmas to cite *)

(* The empty sum.                                                                       *)
LEMMA SumEmpty == ASSUME NEW f PROVE SumFunctionOnSet(f, {}) = 0
<1>1. PICK sum : Counts(sum, f, {})
  BY CountsExists, FS_EmptySet
<1>2. Counts(CHOOSE s : Counts(s, f, {}), f, {})
  BY <1>1
<1>. QED
  BY <1>2, SumUnfolds, CountsStep

(* A sum is what its first element adds to the sum of the others.                       *)
LEMMA SumFirst ==
  ASSUME NEW f, NEW S, IsFiniteSet(S), S # {}
  PROVE  SumFunctionOnSet(f, S) = f[Pick(S)] + SumFunctionOnSet(f, S \ {Pick(S)})
<1>. DEFINE T == S \ {Pick(S)}
            g == CHOOSE sum : Counts(sum, f, S)
            h == CHOOSE sum : Counts(sum, f, T)
<1>1. IsFiniteSet(T) /\ T \subseteq S
  BY FS_Subset
<1>2. Counts(g, f, S) /\ Counts(h, f, T)
  BY <1>1, CountsExists
<1>3. SumFunctionOnSet(f, S) = g[S] /\ SumFunctionOnSet(f, T) = h[T]
  BY SumUnfolds
<1>. HIDE DEF g, h
<1>4. g[S] = f[Pick(S)] + g[T]
  BY <1>2, CountsStep
<1>5. g[T] = h[T]
  BY <1>1, <1>2, CountsAgree
<1>. QED
  BY <1>3, <1>4, <1>5

(* A sum stays in any set of numbers that has zero and is closed under addition.        *)
LEMMA SumType ==
  ASSUME NEW S, IsFiniteSet(S), NEW Typ, 0 \in Typ, \A i, j \in Typ : i + j \in Typ,
         NEW f, \A x \in S : f[x] \in Typ
  PROVE  SumFunctionOnSet(f, S) \in Typ
<1>. DEFINE Bad == {T \in SUBSET S : SumFunctionOnSet(f, T) \notin Typ}
<1>1. SUFFICES ASSUME Bad # {} PROVE FALSE
  OBVIOUS
<1>2. PICK T \in Bad : \A U \in Bad : U \subseteq T => U = T
  <2>1. Bad \subseteq SUBSET S
    OBVIOUS
  <2>. HIDE DEF Bad
  <2>. QED
    BY <1>1, <2>1, MinimalSubset
<1>3. T # {}
  BY SumEmpty
<1>4. T \in SUBSET S /\ IsFiniteSet(T) /\ Pick(T) \in T
  BY <1>3, FS_Subset, PickIn
<1>5. SumFunctionOnSet(f, T \ {Pick(T)}) \in Typ
  BY <1>2, <1>4
<1>6. SumFunctionOnSet(f, T) = f[Pick(T)] + SumFunctionOnSet(f, T \ {Pick(T)})
  BY <1>3, <1>4, SumFirst
<1>7. f[Pick(T)] \in Typ
  BY <1>4
<1>8. SumFunctionOnSet(f, T) \in Typ
  BY <1>5, <1>6, <1>7
<1>. QED
  BY <1>8

LEMMA SumNat ==
  ASSUME NEW S, IsFiniteSet(S), NEW f, \A x \in S : f[x] \in Nat
  PROVE  SumFunctionOnSet(f, S) \in Nat
<1>1. 0 \in Nat /\ \A i, j \in Nat : i + j \in Nat
  OBVIOUS
<1>. QED
  BY <1>1, SumType

LEMMA SumInt ==
  ASSUME NEW S, IsFiniteSet(S), NEW f, \A x \in S : f[x] \in Int
  PROVE  SumFunctionOnSet(f, S) \in Int
<1>1. 0 \in Int /\ \A i, j \in Int : i + j \in Int
  OBVIOUS
<1>. QED
  BY <1>1, SumType

(* Sums are added element by element.                                                   *)
LEMMA SumPlus ==
  ASSUME NEW S, IsFiniteSet(S), NEW f, NEW g, NEW h,
         \A x \in S : f[x] \in Int /\ g[x] \in Int /\ h[x] = f[x] + g[x]
  PROVE  SumFunctionOnSet(h, S) = SumFunctionOnSet(f, S) + SumFunctionOnSet(g, S)
<1>. DEFINE Adds(T) == SumFunctionOnSet(h, T) = SumFunctionOnSet(f, T) + SumFunctionOnSet(g, T)
            Bad == {T \in SUBSET S : ~Adds(T)}
<1>1. SUFFICES ASSUME Bad # {} PROVE FALSE
  OBVIOUS
<1>2. PICK T \in Bad : \A U \in Bad : U \subseteq T => U = T
  <2>1. Bad \subseteq SUBSET S
    OBVIOUS
  <2>. HIDE DEF Bad
  <2>. QED
    BY <1>1, <2>1, MinimalSubset
<1>3. T # {}
  <2>1. Adds({})
    BY SumEmpty
  <2>. QED
    BY <2>1
<1>. DEFINE x == Pick(T)
            U == T \ {x}
<1>4. T \in SUBSET S /\ IsFiniteSet(T) /\ x \in T /\ U \in SUBSET S /\ IsFiniteSet(U)
  BY <1>3, FS_Subset, PickIn
<1>5. Adds(U)
  BY <1>2, <1>4
<1>6. /\ SumFunctionOnSet(f, T) = f[x] + SumFunctionOnSet(f, U)
      /\ SumFunctionOnSet(g, T) = g[x] + SumFunctionOnSet(g, U)
      /\ SumFunctionOnSet(h, T) = h[x] + SumFunctionOnSet(h, U)
  BY <1>3, <1>4, SumFirst
<1>7. f[x] \in Int /\ g[x] \in Int /\ h[x] = f[x] + g[x]
  BY <1>4
<1>8. SumFunctionOnSet(f, U) \in Int /\ SumFunctionOnSet(g, U) \in Int
  <2>. HIDE DEF U, x
  <2>. QED
    BY <1>4, SumInt
<1>9. Adds(T)
  <2>. HIDE DEF U, x
  <2>. QED
    BY <1>5, <1>6, <1>7, <1>8
<1>. QED
  BY <1>9

(* A function that is zero everywhere but at one element sums up to its value there.    *)
LEMMA SumSingle ==
  ASSUME NEW S, IsFiniteSet(S), NEW a, NEW f, \A x \in S : f[x] \in Int,
         \A x \in S : x # a => f[x] = 0
  PROVE  SumFunctionOnSet(f, S) = IF a \in S THEN f[a] ELSE 0
<1>. DEFINE Is(T) == SumFunctionOnSet(f, T) = IF a \in T THEN f[a] ELSE 0
            Bad == {T \in SUBSET S : ~Is(T)}
<1>1. SUFFICES ASSUME Bad # {} PROVE FALSE
  OBVIOUS
<1>2. PICK T \in Bad : \A U \in Bad : U \subseteq T => U = T
  <2>1. Bad \subseteq SUBSET S
    OBVIOUS
  <2>. HIDE DEF Bad
  <2>. QED
    BY <1>1, <2>1, MinimalSubset
<1>3. T # {}
  <2>1. Is({})
    BY SumEmpty
  <2>. QED
    BY <2>1
<1>. DEFINE x == Pick(T)
            U == T \ {x}
<1>4. T \in SUBSET S /\ IsFiniteSet(T) /\ x \in T /\ U \in SUBSET S /\ x \notin U
  BY <1>3, FS_Subset, PickIn
<1>5. Is(U)
  BY <1>2, <1>4
<1>6. SumFunctionOnSet(f, T) = f[x] + SumFunctionOnSet(f, U)
  BY <1>3, <1>4, SumFirst
<1>7. a \in T <=> a \in U \/ a = x
  BY <1>4
<1>8. Is(T)
  <2>. HIDE DEF U, x
  <2>. QED
    BY <1>4, <1>5, <1>6, <1>7
<1>. QED
  BY <1>8

(* Functions that agree on a set have the same sum.                                     *)
LEMMA SumEqual ==
  ASSUME NEW S, IsFiniteSet(S), NEW f, NEW g, \A x \in S : f[x] \in Int /\ g[x] = f[x]
  PROVE  SumFunctionOnSet(g, S) = SumFunctionOnSet(f, S)
<1>. DEFINE zero == [x \in S |-> 0]
<1>1. \A x \in S : zero[x] \in Int /\ g[x] = f[x] + zero[x]
  OBVIOUS
<1>2. \A x \in S : zero[x] = 0
  OBVIOUS
<1>. HIDE DEF zero
<1>3. SumFunctionOnSet(g, S) = SumFunctionOnSet(f, S) + SumFunctionOnSet(zero, S)
  BY <1>1, SumPlus
<1>4. SumFunctionOnSet(zero, S) = 0
  BY <1>1, <1>2, SumSingle
<1>. QED
  BY <1>3, <1>4, SumInt

(* Changing a function at one element changes its sum by the difference.                *)
LEMMA SumChange ==
  ASSUME NEW S, IsFiniteSet(S), NEW f, NEW g, NEW a \in S,
         \A x \in S : f[x] \in Int /\ g[x] \in Int /\ (x # a => g[x] = f[x])
  PROVE  SumFunctionOnSet(g, S) = SumFunctionOnSet(f, S) + g[a] - f[a]
<1>. DEFINE diff == [x \in S |-> IF x = a THEN g[a] - f[a] ELSE 0]
<1>1. \A x \in S : diff[x] \in Int /\ g[x] = f[x] + diff[x]
  OBVIOUS
<1>2. diff[a] = g[a] - f[a] /\ \A x \in S : x # a => diff[x] = 0
  OBVIOUS
<1>. HIDE DEF diff
<1>3. SumFunctionOnSet(g, S) = SumFunctionOnSet(f, S) + SumFunctionOnSet(diff, S)
  BY <1>1, SumPlus
<1>4. SumFunctionOnSet(diff, S) = diff[a]
  BY <1>1, <1>2, SumSingle
<1>5. SumFunctionOnSet(f, S) \in Int
  BY SumInt
<1>. QED
  BY <1>2, <1>3, <1>4, <1>5

(* Every value of a function to the naturals is part of its sum.                        *)
LEMMA SumAtLeast ==
  ASSUME NEW S, IsFiniteSet(S), NEW f, \A x \in S : f[x] \in Nat, NEW a \in S
  PROVE  f[a] <= SumFunctionOnSet(f, S)
<1>. DEFINE rest == [x \in S |-> IF x = a THEN 0 ELSE f[x]]
<1>1. \A x \in S : rest[x] \in Nat /\ (x # a => f[x] = rest[x])
  OBVIOUS
<1>2. rest[a] = 0
  OBVIOUS
<1>. HIDE DEF rest
<1>3. SumFunctionOnSet(f, S) = SumFunctionOnSet(rest, S) + f[a] - rest[a]
  BY <1>1, SumChange
<1>. QED
  BY <1>1, <1>2, <1>3, SumNat

-----------------------------------------------------------------------------
(* The sum of a whole function *)

LEMMA SumWhole ==
  ASSUME NEW S, NEW T, NEW f \in [S -> T]
  PROVE  SumFunction(f) = SumFunctionOnSet(f, S)
<1>1. DOMAIN f = S
  OBVIOUS
<1>. QED
  BY <1>1 DEF SumFunction

(* A function to the naturals that changes at one element.                              *)
LEMMA SumFunctionChange ==
  ASSUME NEW S, IsFiniteSet(S), NEW f \in [S -> Nat], NEW g \in [S -> Nat], NEW a \in S,
         \A x \in S : x # a => g[x] = f[x]
  PROVE  SumFunction(g) = SumFunction(f) + g[a] - f[a]
<1>1. \A x \in S : f[x] \in Int /\ g[x] \in Int /\ (x # a => g[x] = f[x])
  OBVIOUS
<1>. QED
  BY <1>1, SumChange, SumWhole

(* The sum of a function to the naturals, and its values.                               *)
LEMMA SumFunctionNat ==
  ASSUME NEW S, IsFiniteSet(S), NEW f \in [S -> Nat]
  PROVE  SumFunction(f) \in Nat /\ \A a \in S : f[a] <= SumFunction(f)
<1>1. \A x \in S : f[x] \in Nat
  OBVIOUS
<1>. QED
  BY <1>1, SumNat, SumAtLeast, SumWhole

(* A function that is zero everywhere.                                                  *)
LEMMA SumFunctionZero ==
  ASSUME NEW S, IsFiniteSet(S), NEW f \in [S -> Nat], \A x \in S : f[x] = 0
  PROVE  SumFunction(f) = 0
<1>1. \A x \in S : f[x] \in Int /\ (x # {} => f[x] = 0)
  OBVIOUS
<1>2. SumFunctionOnSet(f, S) = IF {} \in S THEN f[{}] ELSE 0
  BY <1>1, SumSingle
<1>. QED
  BY <1>2, SumWhole
=============================================================================
