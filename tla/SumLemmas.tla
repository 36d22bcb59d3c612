------------------------------ MODULE SumLemmas ------------------------------
(***************************************************************************)
(* Finite sums, division, recursion over numbers.  The balances, limits    *)
(* and obligations of the models are SumFunctionOnSet(f, S), a recursive   *)
(* function over the subsets of S that takes the elements in an unknown    *)
(* order.  The lemmas say what such a sum is for every finite S: they are  *)
(* proved by induction over finite sets, with the induction hypothesis as  *)
(* membership in a set.                                                    *)
(***************************************************************************)
EXTENDS Integers, FiniteSets, Functions, FiniteSetTheorems, TLAPS

(* Strong induction over the subsets of a finite set. *)
LEMMA SubsetInduction ==
    ASSUME NEW S, IsFiniteSet(S), NEW Good,
           \A T \in SUBSET S : (\A U \in SUBSET T : U # T => U \in Good) => T \in Good
    PROVE  \A T \in SUBSET S : T \in Good
<1> DEFINE Bad == {T \in FiniteSubsetsOf(S) : T \notin Good}
<1>1. IsWellFoundedOn(StrictSubsetOrdering(S), FiniteSubsetsOf(S))
  BY FS_StrictSubsetOrderingWellFounded
<1>2. \A T \in SUBSET S : T \in FiniteSubsetsOf(S)
  BY FS_Subset DEF FiniteSubsetsOf
<1>3. ASSUME Bad # {} PROVE FALSE
  <2>1. PICK T \in Bad : \A U \in Bad : <<U, T>> \notin StrictSubsetOrdering(S)
    <3>1. Bad \subseteq FiniteSubsetsOf(S)
      OBVIOUS
    <3> HIDE DEF Bad
    <3> QED
      BY <1>1, <1>3, <3>1, WFMin
  <2>2. T \in SUBSET S /\ T \notin Good
    BY <2>1 DEF FiniteSubsetsOf
  <2>3. PICK U \in SUBSET T : U # T /\ U \notin Good
    BY <2>2
  <2>4. U \in Bad /\ <<U, T>> \in StrictSubsetOrdering(S)
    BY <1>2, <2>2, <2>3 DEF StrictSubsetOrdering
  <2> QED
    BY <2>1, <2>4
<1> QED
  BY <1>2, <1>3

(* Induction that adds one element at a time. *)
LEMMA FiniteInduction ==
    ASSUME NEW S, IsFiniteSet(S), NEW Good, {} \in Good,
           \A T \in SUBSET S : \A x \in S \ T : T \in Good => T \cup {x} \in Good
    PROVE  S \in Good
<1>1. ASSUME NEW T \in SUBSET S, \A U \in SUBSET T : U # T => U \in Good PROVE T \in Good
  <2>1. CASE T = {}
    BY <2>1
  <2>2. CASE T # {}
    <3>1. PICK x \in T : TRUE
      BY <2>2
    <3>2. T \ {x} \in Good /\ T \ {x} \in SUBSET S /\ x \in S \ (T \ {x})
      BY <1>1, <3>1
    <3>3. (T \ {x}) \cup {x} = T
      BY <3>1
    <3> QED
      BY <3>2, <3>3
  <2> QED
    BY <2>1, <2>2
<1>2. \A T \in SUBSET S : T \in Good
  BY <1>1, SubsetInduction
<1> QED
  BY <1>2
-----------------------------------------------------------------------------
(* The recursion of SumFunctionOnSet. *)

Pick(s) == CHOOSE x \in s : TRUE

IsSum(g, f, S) ==
    g = [s \in SUBSET S |-> IF s = {} THEN 0 ELSE f[Pick(s)] + g[s \ {Pick(s)}]]

SumIter(f, S) ==
    CHOOSE g : g = [s \in SUBSET S |-> IF s = {} THEN 0 ELSE f[Pick(s)] + g[s \ {Pick(s)}]]

LEMMA SumUnfold == ASSUME NEW f, NEW S PROVE SumFunctionOnSet(f, S) = SumIter(f, S)[S]
  BY Zenon DEF SumFunctionOnSet, FoldFunctionOnSet, MapThenFoldSet, SumIter, Pick

LEMMA PickIn == ASSUME NEW s, s # {} PROVE Pick(s) \in s
  BY DEF Pick

LEMMA IsSumValue ==
    ASSUME NEW g, NEW f, NEW S, IsSum(g, f, S), NEW s \in SUBSET S
    PROVE  g[s] = IF s = {} THEN 0 ELSE f[Pick(s)] + g[s \ {Pick(s)}]
<1> DEFINE h == [t \in SUBSET S |-> IF t = {} THEN 0 ELSE f[Pick(t)] + g[t \ {Pick(t)}]]
<1>1. g = h
  BY DEF IsSum
<1>2. h[s] = IF s = {} THEN 0 ELSE f[Pick(s)] + g[s \ {Pick(s)}]
  OBVIOUS
<1> HIDE DEF h
<1> QED
  BY <1>1, <1>2

(* The equation has one solution on each set of subsets. *)
LEMMA IsSumAgree ==
    ASSUME NEW f, NEW S, NEW T \in SUBSET S, IsFiniteSet(T), NEW g, NEW h,
           IsSum(g, f, S), IsSum(h, f, T)
    PROVE  \A s \in SUBSET T : g[s] = h[s]
<1> DEFINE Good == {s \in SUBSET T : g[s] = h[s]}
<1>1. ASSUME NEW s \in SUBSET T, \A u \in SUBSET s : u # s => u \in Good PROVE s \in Good
  <2>1. g[s] = IF s = {} THEN 0 ELSE f[Pick(s)] + g[s \ {Pick(s)}]
    BY IsSumValue
  <2>2. h[s] = IF s = {} THEN 0 ELSE f[Pick(s)] + h[s \ {Pick(s)}]
    BY IsSumValue
  <2>3. CASE s = {}
    BY <2>1, <2>2, <2>3
  <2>4. CASE s # {}
    <3>1. s \ {Pick(s)} \in SUBSET s /\ s \ {Pick(s)} # s
      BY <2>4, PickIn
    <3>2. g[s \ {Pick(s)}] = h[s \ {Pick(s)}]
      BY <1>1, <3>1
    <3> QED
      BY <2>1, <2>2, <2>4, <3>2
  <2> QED
    BY <2>3, <2>4
<1> HIDE DEF Good
<1>2. \A s \in SUBSET T : s \in Good
  BY <1>1, SubsetInduction
<1> QED
  BY <1>2 DEF Good

(* It has a solution on every finite set. *)
LEMMA IsSumExists ==
    ASSUME NEW f, NEW S, IsFiniteSet(S) PROVE IsSum(SumIter(f, S), f, S)
<1> DEFINE Good == {T \in SUBSET S : IsSum(SumIter(f, T), f, T)}
<1>1. ASSUME NEW T \in SUBSET S, \A U \in SUBSET T : U # T => U \in Good PROVE T \in Good
  <2> DEFINE sub(U) == SumIter(f, U)[U]
             top == IF T = {} THEN 0 ELSE f[Pick(T)] + sub(T \ {Pick(T)})
             g == [s \in SUBSET T |-> IF s = T THEN top ELSE sub(s)]
  <2>1. \A U \in SUBSET T : U # T => IsSum(SumIter(f, U), f, U) /\ IsFiniteSet(U)
    BY <1>1, FS_Subset
  <2>2. ASSUME NEW s \in SUBSET T
        PROVE  g[s] = IF s = {} THEN 0 ELSE f[Pick(s)] + g[s \ {Pick(s)}]
    <3>1. CASE s = T
      <4>1. CASE T = {}
        BY <3>1, <4>1
      <4>2. CASE T # {}
        <5>1. T \ {Pick(T)} \in SUBSET T /\ T \ {Pick(T)} # T
          BY <4>2, PickIn
        <5>2. g[T \ {Pick(T)}] = sub(T \ {Pick(T)})
          BY <5>1
        <5>3. g[T] = top
          OBVIOUS
        <5> QED
          BY <3>1, <4>2, <5>2, <5>3
      <4> QED
        BY <4>1, <4>2
    <3>2. CASE s # T
      <4>1. IsSum(SumIter(f, s), f, s)
        BY <2>1, <3>2
      <4>2. sub(s) = IF s = {} THEN 0 ELSE f[Pick(s)] + SumIter(f, s)[s \ {Pick(s)}]
        BY <4>1, IsSumValue
      <4>3. g[s] = sub(s)
        BY <3>2
      <4>4. CASE s = {}
        BY <4>2, <4>3, <4>4
      <4>5. CASE s # {}
        <5> DEFINE u == s \ {Pick(s)}
        <5>1. u \in SUBSET s /\ u \in SUBSET T /\ u # T
          BY <4>5, PickIn, <3>2
        <5>2. IsSum(SumIter(f, u), f, u) /\ IsFiniteSet(u)
          BY <2>1, <5>1
        <5>3. SumIter(f, s)[u] = sub(u)
          <6> HIDE DEF u
          <6>1. \A t \in SUBSET u : SumIter(f, s)[t] = SumIter(f, u)[t]
            BY <4>1, <5>1, <5>2, IsSumAgree
          <6> QED
            BY <6>1
        <5>4. g[u] = sub(u)
          BY <5>1
        <5> HIDE DEF u
        <5> QED
          <6>1. sub(s) = f[Pick(s)] + SumIter(f, s)[u]
            BY <4>2, <4>5 DEF u
          <6> HIDE DEF sub
          <6>2. g[s] = f[Pick(s)] + g[u]
            BY <4>3, <5>3, <5>4, <6>1, Zenon
          <6> QED
            BY <4>5, <6>2, Zenon DEF u
      <4> QED
        BY <4>4, <4>5
    <3> QED
      BY <3>1, <3>2
  <2>3. g = [s \in SUBSET T |-> g[s]]
    OBVIOUS
  <2> HIDE DEF g
  <2>4. g = [s \in SUBSET T |-> IF s = {} THEN 0 ELSE f[Pick(s)] + g[s \ {Pick(s)}]]
    BY <2>2, <2>3
  <2>5. IsSum(SumIter(f, T), f, T)
    BY <2>4, Zenon DEF SumIter, IsSum
  <2> QED
    BY <2>5
<1> HIDE DEF Good
<1>2. \A T \in SUBSET S : T \in Good
  BY <1>1, SubsetInduction
<1> QED
  BY <1>2 DEF Good

LEMMA SumEmpty == ASSUME NEW f PROVE SumFunctionOnSet(f, {}) = 0
<1>1. IsSum(SumIter(f, {}), f, {})
  BY FS_EmptySet, IsSumExists
<1>2. SumIter(f, {})[{}] = 0
  BY <1>1, IsSumValue
<1> QED
  BY <1>2, SumUnfold

LEMMA SumOfSubset ==
    ASSUME NEW f, NEW S, IsFiniteSet(S), NEW T \in SUBSET S
    PROVE  SumIter(f, S)[T] = SumFunctionOnSet(f, T)
<1>1. IsFiniteSet(T)
  BY FS_Subset
<1> DEFINE g == SumIter(f, S)
           h == SumIter(f, T)
<1>2. IsSum(g, f, S) /\ IsSum(h, f, T)
  BY <1>1, IsSumExists
<1> HIDE DEF g, h
<1>3. g[T] = h[T]
  BY <1>1, <1>2, IsSumAgree
<1> QED
  BY <1>3, SumUnfold DEF g, h

LEMMA SumPick ==
    ASSUME NEW f, NEW S, IsFiniteSet(S), S # {}
    PROVE  SumFunctionOnSet(f, S) = f[Pick(S)] + SumFunctionOnSet(f, S \ {Pick(S)})
<1>1. IsSum(SumIter(f, S), f, S)
  BY IsSumExists
<1>2. SumIter(f, S)[S] = f[Pick(S)] + SumIter(f, S)[S \ {Pick(S)}]
  <2>1. S \in SUBSET S
    OBVIOUS
  <2>2. SumIter(f, S)[S] =
            IF S = {} THEN 0 ELSE f[Pick(S)] + SumIter(f, S)[S \ {Pick(S)}]
    BY <1>1, <2>1, IsSumValue
  <2> QED
    BY <2>2, Zenon
<1>3. SumIter(f, S)[S \ {Pick(S)}] = SumFunctionOnSet(f, S \ {Pick(S)})
  BY SumOfSubset
<1> QED
  BY <1>2, <1>3, SumUnfold

(* A sum of integers is an integer, of natural numbers a natural number. *)
LEMMA SumInt ==
    ASSUME NEW f, NEW S, IsFiniteSet(S), \A x \in S : f[x] \in Int
    PROVE  SumFunctionOnSet(f, S) \in Int
<1> DEFINE Good == {T \in SUBSET S : SumFunctionOnSet(f, T) \in Int}
<1>1. ASSUME NEW T \in SUBSET S, \A U \in SUBSET T : U # T => U \in Good PROVE T \in Good
  <2>1. CASE T = {}
    BY <2>1, SumEmpty
  <2>2. CASE T # {}
    <3>1. Pick(T) \in T /\ T \ {Pick(T)} \in Good /\ IsFiniteSet(T)
      BY <1>1, <2>2, PickIn, FS_Subset
    <3>2. f[Pick(T)] \in Int /\ SumFunctionOnSet(f, T \ {Pick(T)}) \in Int
      BY <3>1
    <3>3. SumFunctionOnSet(f, T) = f[Pick(T)] + SumFunctionOnSet(f, T \ {Pick(T)})
      BY <2>2, <3>1, SumPick
    <3> QED
      BY <3>2, <3>3
  <2> QED
    BY <2>1, <2>2
<1> HIDE DEF Good
<1>2. \A T \in SUBSET S : T \in Good
  BY <1>1, SubsetInduction
<1> QED
  BY <1>2 DEF Good

(* Any element may be taken out first. *)
LEMMA SumRemove ==
    ASSUME NEW f, NEW S, IsFiniteSet(S), \A x \in S : f[x] \in Int, NEW y \in S
    PROVE  SumFunctionOnSet(f, S) = f[y] + SumFunctionOnSet(f, S \ {y})
<1> DEFINE Good == {T \in SUBSET S : \A x \in T :
                       SumFunctionOnSet(f, T) = f[x] + SumFunctionOnSet(f, T \ {x})}
<1>1. ASSUME NEW T \in SUBSET S, \A U \in SUBSET T : U # T => U \in Good PROVE T \in Good
  <2>1. SUFFICES ASSUME NEW x \in T
                 PROVE  SumFunctionOnSet(f, T) = f[x] + SumFunctionOnSet(f, T \ {x})
    OBVIOUS
  <2> DEFINE c == Pick(T)
             R == (T \ {c}) \ {x}
  <2>2. c \in T /\ IsFiniteSet(T)
    BY PickIn, FS_Subset
  <2>3. SumFunctionOnSet(f, T) = f[c] + SumFunctionOnSet(f, T \ {c})
    BY <2>2, SumPick
  <2>4. CASE c = x
    BY <2>3, <2>4
  <2>5. CASE c # x
    <3>1. T \ {c} \in Good /\ T \ {x} \in Good
      BY <1>1, <2>2
    <3>2. SumFunctionOnSet(f, T \ {c}) = f[x] + SumFunctionOnSet(f, R)
      BY <3>1, <2>5
    <3>3. (T \ {x}) \ {c} = R
      OBVIOUS
    <3>4. SumFunctionOnSet(f, T \ {x}) = f[c] + SumFunctionOnSet(f, R)
      BY <3>1, <3>3, <2>2, <2>5
    <3>5. IsFiniteSet(R)
      BY <2>2, FS_Subset
    <3>6. SumFunctionOnSet(f, R) \in Int
      BY <3>5, SumInt
    <3>7. f[c] \in Int /\ f[x] \in Int
      BY <2>2
    <3> HIDE DEF c, R, Good
    <3> QED
      BY <2>3, <3>2, <3>4, <3>6, <3>7
  <2> QED
    BY <2>4, <2>5
<1>2. \A T \in SUBSET S : T \in Good
  <2> HIDE DEF Good
  <2> QED
    BY <1>1, SubsetInduction
<1> QED
  BY <1>2

LEMMA SumAdd ==
    ASSUME NEW f, NEW S, IsFiniteSet(S), NEW y, y \notin S, \A x \in S \cup {y} : f[x] \in Int
    PROVE  SumFunctionOnSet(f, S \cup {y}) = f[y] + SumFunctionOnSet(f, S)
<1>1. IsFiniteSet(S \cup {y}) /\ (S \cup {y}) \ {y} = S
  BY FS_AddElement
<1> QED
  BY <1>1, SumRemove

LEMMA SumNat ==
    ASSUME NEW f, NEW S, IsFiniteSet(S), \A x \in S : f[x] \in Nat
    PROVE  SumFunctionOnSet(f, S) \in Nat
<1> DEFINE Good == {T \in SUBSET S : SumFunctionOnSet(f, T) \in Nat}
<1>1. {} \in Good
  BY SumEmpty
<1>2. ASSUME NEW T \in SUBSET S, NEW x \in S \ T, T \in Good PROVE T \cup {x} \in Good
  <2>1. IsFiniteSet(T)
    BY FS_Subset
  <2>2. SumFunctionOnSet(f, T \cup {x}) = f[x] + SumFunctionOnSet(f, T)
    BY <2>1, SumAdd
  <2> QED
    BY <1>2, <2>2
<1> HIDE DEF Good
<1>3. S \in Good
  BY <1>1, <1>2, FiniteInduction
<1> QED
  BY <1>3 DEF Good

(* A sum depends on the values at its indices only, and grows with them. *)
LEMMA SumMonotone ==
    ASSUME NEW f, NEW g, NEW S, IsFiniteSet(S),
           \A x \in S : f[x] \in Int /\ g[x] \in Int /\ f[x] <= g[x]
    PROVE  SumFunctionOnSet(f, S) <= SumFunctionOnSet(g, S)
<1> DEFINE Good == {T \in SUBSET S : SumFunctionOnSet(f, T) <= SumFunctionOnSet(g, T)}
<1>1. {} \in Good
  BY SumEmpty
<1>2. ASSUME NEW T \in SUBSET S, NEW x \in S \ T, T \in Good PROVE T \cup {x} \in Good
  <2>1. IsFiniteSet(T)
    BY FS_Subset
  <2>2. /\ SumFunctionOnSet(f, T \cup {x}) = f[x] + SumFunctionOnSet(f, T)
        /\ SumFunctionOnSet(g, T \cup {x}) = g[x] + SumFunctionOnSet(g, T)
    BY <2>1, SumAdd
  <2>3. SumFunctionOnSet(f, T) \in Int /\ SumFunctionOnSet(g, T) \in Int
    BY <2>1, SumInt
  <2>4. SumFunctionOnSet(f, T) <= SumFunctionOnSet(g, T)
    BY <1>2
  <2>5. f[x] \in Int /\ g[x] \in Int /\ f[x] <= g[x]
    OBVIOUS
  <2>6. SumFunctionOnSet(f, T \cup {x}) <= SumFunctionOnSet(g, T \cup {x})
    BY <2>2, <2>3, <2>4, <2>5
  <2> QED
    BY <2>6
<1> HIDE DEF Good
<1>3. S \in Good
  BY <1>1, <1>2, FiniteInduction
<1> QED
  BY <1>3 DEF Good

LEMMA SumSame ==
    ASSUME NEW f, NEW g, NEW S, IsFiniteSet(S),
           \A x \in S : f[x] \in Int /\ g[x] = f[x]
    PROVE  SumFunctionOnSet(g, S) = SumFunctionOnSet(f, S)
<1>1. SumFunctionOnSet(f, S) <= SumFunctionOnSet(g, S)
  BY SumMonotone
<1>2. SumFunctionOnSet(g, S) <= SumFunctionOnSet(f, S)
  BY SumMonotone
<1>3. SumFunctionOnSet(f, S) \in Int /\ SumFunctionOnSet(g, S) \in Int
  BY SumInt
<1> QED
  BY <1>1, <1>2, <1>3

(* One value changes: so does the sum, by as much. *)
LEMMA SumUpdate ==
    ASSUME NEW f, NEW g, NEW S, IsFiniteSet(S), NEW y \in S,
           \A x \in S : f[x] \in Int /\ g[x] \in Int,
           \A x \in S \ {y} : g[x] = f[x]
    PROVE  SumFunctionOnSet(g, S) = SumFunctionOnSet(f, S) + g[y] - f[y]
<1>1. IsFiniteSet(S \ {y})
  BY FS_Subset
<1>2. SumFunctionOnSet(g, S \ {y}) = SumFunctionOnSet(f, S \ {y})
  BY <1>1, SumSame
<1>3. /\ SumFunctionOnSet(g, S) = g[y] + SumFunctionOnSet(g, S \ {y})
      /\ SumFunctionOnSet(f, S) = f[y] + SumFunctionOnSet(f, S \ {y})
  BY SumRemove
<1>4. SumFunctionOnSet(f, S \ {y}) \in Int /\ f[y] \in Int /\ g[y] \in Int
  BY <1>1, SumInt
<1> QED
  BY <1>2, <1>3, <1>4

(* Fewer indices, a smaller sum. *)
LEMMA SumSubset ==
    ASSUME NEW f, NEW S, IsFiniteSet(S), \A x \in S : f[x] \in Nat, NEW T \in SUBSET S
    PROVE  SumFunctionOnSet(f, T) <= SumFunctionOnSet(f, S)
<1> DEFINE D == S \ T
           Good == {U \in SUBSET D : SumFunctionOnSet(f, T) <= SumFunctionOnSet(f, T \cup U)}
<1>0. IsFiniteSet(T) /\ IsFiniteSet(D)
  BY FS_Subset
<1>1. {} \in Good
  <2>1. T \cup {} = T /\ SumFunctionOnSet(f, T) \in Int
    BY <1>0, SumNat
  <2> QED
    BY <2>1
<1>2. ASSUME NEW U \in SUBSET D, NEW x \in D \ U, U \in Good PROVE U \cup {x} \in Good
  <2>0. x \notin T \cup U /\ T \cup U \in SUBSET S
    OBVIOUS
  <2>1. IsFiniteSet(T \cup U) /\ x \notin T \cup U /\ T \cup U \subseteq S
    BY <2>0, FS_Subset
  <2>2. SumFunctionOnSet(f, (T \cup U) \cup {x}) = f[x] + SumFunctionOnSet(f, T \cup U)
    BY <2>1, SumAdd
  <2>3. (T \cup U) \cup {x} = T \cup (U \cup {x})
    OBVIOUS
  <2>4. SumFunctionOnSet(f, T \cup U) \in Nat /\ f[x] \in Nat /\ SumFunctionOnSet(f, T) \in Nat
    BY <1>0, <2>1, SumNat
  <2>5. SumFunctionOnSet(f, T) <= SumFunctionOnSet(f, T \cup U)
    BY <1>2
  <2>6. SumFunctionOnSet(f, T \cup (U \cup {x})) = f[x] + SumFunctionOnSet(f, T \cup U)
    BY <2>2, <2>3, Zenon
  <2>7. SumFunctionOnSet(f, T) <= SumFunctionOnSet(f, T \cup (U \cup {x}))
    BY <2>4, <2>5, <2>6
  <2> QED
    BY <2>7
<1> HIDE DEF Good
<1>3. D \in Good
  BY <1>0, <1>1, <1>2, FiniteInduction
<1>4. T \cup D = S
  OBVIOUS
<1> QED
  BY <1>3, <1>4 DEF Good
(* A set of indices in two parts. *)
LEMMA SumParts ==
    ASSUME NEW f, NEW S, IsFiniteSet(S), \A x \in S : f[x] \in Int, NEW T \in SUBSET S
    PROVE  SumFunctionOnSet(f, S) = SumFunctionOnSet(f, T) + SumFunctionOnSet(f, S \ T)
<1> DEFINE Good == {U \in SUBSET T : SumFunctionOnSet(f, (S \ T) \cup U)
                                      = SumFunctionOnSet(f, U) + SumFunctionOnSet(f, S \ T)}
<1>0. IsFiniteSet(T) /\ IsFiniteSet(S \ T)
  BY FS_Subset
<1>1. {} \in Good
  <2>1. (S \ T) \cup {} = S \ T /\ SumFunctionOnSet(f, S \ T) \in Int
    BY <1>0, SumInt
  <2>2. SumFunctionOnSet(f, (S \ T) \cup {}) = SumFunctionOnSet(f, S \ T)
    BY <2>1, Zenon
  <2>3. SumFunctionOnSet(f, (S \ T) \cup {}) = SumFunctionOnSet(f, {}) + SumFunctionOnSet(f, S \ T)
    BY <2>1, <2>2, SumEmpty
  <2> QED
    BY <2>3
<1>2. ASSUME NEW U \in SUBSET T, NEW x \in T \ U, U \in Good PROVE U \cup {x} \in Good
  <2> DEFINE W == (S \ T) \cup U
  <2>1. x \notin W /\ W \in SUBSET S /\ x \in S /\ U \in SUBSET S
    OBVIOUS
  <2>2. IsFiniteSet(W) /\ IsFiniteSet(U)
    BY <2>1, FS_Subset
  <2>3. SumFunctionOnSet(f, W \cup {x}) = f[x] + SumFunctionOnSet(f, W)
    <3> HIDE DEF W
    <3> QED
      BY <2>1, <2>2, SumAdd
  <2>4. SumFunctionOnSet(f, U \cup {x}) = f[x] + SumFunctionOnSet(f, U)
    BY <2>1, <2>2, SumAdd
  <2>5. SumFunctionOnSet(f, W) = SumFunctionOnSet(f, U) + SumFunctionOnSet(f, S \ T)
    BY <1>2
  <2>6. W \cup {x} = (S \ T) \cup (U \cup {x})
    OBVIOUS
  <2>7. /\ SumFunctionOnSet(f, W) \in Int /\ SumFunctionOnSet(f, U) \in Int
        /\ SumFunctionOnSet(f, S \ T) \in Int /\ f[x] \in Int
    BY <1>0, <2>1, <2>2, SumInt
  <2>8. SumFunctionOnSet(f, W \cup {x})
            = SumFunctionOnSet(f, U \cup {x}) + SumFunctionOnSet(f, S \ T)
    <3> HIDE DEF W
    <3> QED
      BY <2>3, <2>4, <2>5, <2>7
  <2>9. SumFunctionOnSet(f, (S \ T) \cup (U \cup {x}))
            = SumFunctionOnSet(f, U \cup {x}) + SumFunctionOnSet(f, S \ T)
    BY <2>6, <2>8, Zenon
  <2> QED
    BY <2>9
<1> HIDE DEF Good
<1>3. T \in Good
  BY <1>0, <1>1, <1>2, FiniteInduction
<1>4. (S \ T) \cup T = S
  OBVIOUS
<1> QED
  BY <1>3, <1>4, Zenon DEF Good

(* The sum of sums. *)
LEMMA SumPlus ==
    ASSUME NEW f, NEW g, NEW h, NEW S, IsFiniteSet(S),
           \A x \in S : f[x] \in Int /\ g[x] \in Int /\ h[x] = f[x] + g[x]
    PROVE  SumFunctionOnSet(h, S) = SumFunctionOnSet(f, S) + SumFunctionOnSet(g, S)
<1> DEFINE Good == {T \in SUBSET S :
                      SumFunctionOnSet(h, T) = SumFunctionOnSet(f, T) + SumFunctionOnSet(g, T)}
<1>1. {} \in Good
  BY SumEmpty
<1>2. ASSUME NEW T \in SUBSET S, NEW x \in S \ T, T \in Good PROVE T \cup {x} \in Good
  <2>1. IsFiniteSet(T)
    BY FS_Subset
  <2>2. /\ SumFunctionOnSet(f, T \cup {x}) = f[x] + SumFunctionOnSet(f, T)
        /\ SumFunctionOnSet(g, T \cup {x}) = g[x] + SumFunctionOnSet(g, T)
    BY <2>1, SumAdd
  <2>3. SumFunctionOnSet(h, T \cup {x}) = h[x] + SumFunctionOnSet(h, T)
    <3>1. \A y \in T \cup {x} : h[y] \in Int
      OBVIOUS
    <3> QED
      BY <2>1, <3>1, SumAdd
  <2>4. SumFunctionOnSet(f, T) \in Int /\ SumFunctionOnSet(g, T) \in Int
    BY <2>1, SumInt
  <2>5. SumFunctionOnSet(h, T) = SumFunctionOnSet(f, T) + SumFunctionOnSet(g, T)
    BY <1>2
  <2>6. f[x] \in Int /\ g[x] \in Int /\ h[x] = f[x] + g[x]
    OBVIOUS
  <2>7. SumFunctionOnSet(h, T \cup {x})
            = SumFunctionOnSet(f, T \cup {x}) + SumFunctionOnSet(g, T \cup {x})
    BY <2>2, <2>3, <2>4, <2>5, <2>6
  <2> QED
    BY <2>7
<1> HIDE DEF Good
<1>3. S \in Good
  BY <1>1, <1>2, FiniteInduction
<1> QED
  BY <1>3 DEF Good

(* One value everywhere. *)
LEMMA SumConst ==
    ASSUME NEW f, NEW S, IsFiniteSet(S), NEW c \in Nat, \A x \in S : f[x] = c
    PROVE  SumFunctionOnSet(f, S) = c * Cardinality(S)
<1> DEFINE Good == {T \in SUBSET S : SumFunctionOnSet(f, T) = c * Cardinality(T)}
<1>1. {} \in Good
  BY SumEmpty, FS_EmptySet
<1>2. ASSUME NEW T \in SUBSET S, NEW x \in S \ T, T \in Good PROVE T \cup {x} \in Good
  <2>1. IsFiniteSet(T)
    BY FS_Subset
  <2>2. SumFunctionOnSet(f, T \cup {x}) = f[x] + SumFunctionOnSet(f, T)
    BY <2>1, SumAdd
  <2>3. Cardinality(T \cup {x}) = Cardinality(T) + 1 /\ Cardinality(T) \in Nat
    BY <2>1, FS_AddElement, FS_CardinalityType
  <2>4. SumFunctionOnSet(f, T) = c * Cardinality(T) /\ f[x] = c
    BY <1>2
  <2>5. c * (Cardinality(T) + 1) = c * Cardinality(T) + c /\ c * Cardinality(T) \in Nat
    BY <2>3
  <2>6. SumFunctionOnSet(f, T \cup {x}) = c * Cardinality(T \cup {x})
    BY <2>2, <2>3, <2>4, <2>5
  <2> QED
    BY <2>6
<1> HIDE DEF Good
<1>3. S \in Good
  BY <1>1, <1>2, FiniteInduction
<1> QED
  BY <1>3 DEF Good

(* What is shared out in proportion to f, each part rounded down, is not   *)
(* more than there is.                                                     *)
LEMMA SumShares ==
    ASSUME NEW f, NEW g, NEW S, IsFiniteSet(S), NEW c \in Nat, NEW d \in Nat,
           \A x \in S : f[x] \in Nat /\ g[x] \in Nat /\ d * g[x] <= c * f[x]
    PROVE  d * SumFunctionOnSet(g, S) <= c * SumFunctionOnSet(f, S)
<1> DEFINE Good == {T \in SUBSET S : d * SumFunctionOnSet(g, T) <= c * SumFunctionOnSet(f, T)}
<1>1. {} \in Good
  BY SumEmpty
<1>2. ASSUME NEW T \in SUBSET S, NEW x \in S \ T, T \in Good PROVE T \cup {x} \in Good
  <2>1. IsFiniteSet(T)
    BY FS_Subset
  <2>2. /\ SumFunctionOnSet(f, T \cup {x}) = f[x] + SumFunctionOnSet(f, T)
        /\ SumFunctionOnSet(g, T \cup {x}) = g[x] + SumFunctionOnSet(g, T)
    BY <2>1, SumAdd
  <2> DEFINE F == SumFunctionOnSet(f, T)
             G == SumFunctionOnSet(g, T)
  <2>3. F \in Nat /\ G \in Nat
    BY <2>1, SumNat
  <2>4. d * G <= c * F /\ f[x] \in Nat /\ g[x] \in Nat /\ d * g[x] <= c * f[x]
    BY <1>2
  <2> HIDE DEF F, G
  <2>5. d * (g[x] + G) = d * g[x] + d * G /\ c * (f[x] + F) = c * f[x] + c * F
    BY <2>3, <2>4
  <2>6. {d * g[x], d * G, c * f[x], c * F} \subseteq Nat
    BY <2>3, <2>4
  <2>7. d * (g[x] + G) <= c * (f[x] + F)
    BY <2>4, <2>5, <2>6
  <2>8. d * SumFunctionOnSet(g, T \cup {x}) <= c * SumFunctionOnSet(f, T \cup {x})
    BY <2>2, <2>7 DEF F, G
  <2> QED
    BY <2>8
<1> HIDE DEF Good
<1>3. S \in Good
  BY <1>1, <1>2, FiniteInduction
<1> QED
  BY <1>3 DEF Good
-----------------------------------------------------------------------------
(* A finite set of integers has a greatest element. *)
LEMMA ImageFinite ==
    ASSUME NEW S, IsFiniteSet(S), NEW f
    PROVE  IsFiniteSet({f[x] : x \in S})
<1> DEFINE Im(T) == {f[x] : x \in T}
           Good == {T \in SUBSET S : IsFiniteSet(Im(T))}
<1>1. {} \in Good
  <2>1. Im({}) = {}
    OBVIOUS
  <2> QED
    BY <2>1, FS_EmptySet
<1>2. ASSUME NEW T \in SUBSET S, NEW x \in S \ T, T \in Good PROVE T \cup {x} \in Good
  <2>1. Im(T \cup {x}) = Im(T) \cup {f[x]}
    OBVIOUS
  <2>2. IsFiniteSet(Im(T))
    BY <1>2
  <2>3. IsFiniteSet(Im(T) \cup {f[x]})
    <3> HIDE DEF Im
    <3> QED
      BY <2>2, FS_AddElement
  <2> QED
    BY <2>1, <2>3
<1> HIDE DEF Good
<1>3. S \in Good
  BY <1>1, <1>2, FiniteInduction
<1> QED
  BY <1>3 DEF Good

LEMMA FiniteMax ==
    ASSUME NEW S \in SUBSET Int, IsFiniteSet(S), S # {}
    PROVE  \E m \in S : \A x \in S : m >= x
<1> DEFINE Good == {T \in SUBSET S : T # {} => \E m \in T : \A x \in T : m >= x}
<1>1. {} \in Good
  OBVIOUS
<1>2. ASSUME NEW T \in SUBSET S, NEW y \in S \ T, T \in Good PROVE T \cup {y} \in Good
  <2>1. CASE T = {}
    BY <2>1
  <2>2. CASE T # {}
    <3>1. PICK m \in T : \A x \in T : m >= x
      BY <1>2, <2>2
    <3>2. CASE m >= y
      BY <3>1, <3>2
    <3>3. CASE ~ (m >= y)
      BY <3>1, <3>3
    <3> QED
      BY <3>2, <3>3
  <2> QED
    BY <2>1, <2>2
<1> HIDE DEF Good
<1>3. S \in Good
  BY <1>1, <1>2, FiniteInduction
<1> QED
  BY <1>3 DEF Good

(* Rounding down. *)
LEMMA DivBounds ==
    ASSUME NEW a \in Nat, NEW d \in Nat \ {0}
    PROVE  a \div d \in Nat /\ d * (a \div d) <= a /\ a < d * (a \div d) + d
  OBVIOUS

LEMMA DivMonotone ==
    ASSUME NEW a \in Nat, NEW b \in Nat, NEW d \in Nat \ {0}, a <= b
    PROVE  a \div d <= b \div d
<1> DEFINE p == a \div d
           q == b \div d
<1>1. p \in Nat /\ q \in Nat /\ d * p <= a /\ b < d * q + d
  BY DivBounds
<1> HIDE DEF p, q
<1>2. ASSUME q + 1 <= p PROVE FALSE
  <2>1. d * (q + 1) <= d * p
    BY <1>1, <1>2
  <2>2. d * (q + 1) = d * q + d
    BY <1>1
  <2> QED
    BY <1>1, <2>1, <2>2
<1>3. p <= q
  BY <1>1, <1>2
<1> QED
  BY <1>3 DEF p, q

(* A fraction of an amount, rounded down. *)
LEMMA DivFraction ==
    ASSUME NEW a \in Nat, NEW p \in Nat, NEW q \in Nat \ {0}, p <= q
    PROVE  (a * p) \div q \in 0..a
<1> DEFINE x == (a * p) \div q
<1>1. a * p \in Nat /\ a * p <= a * q /\ q * a = a * q
  OBVIOUS
<1>2. x \in Nat /\ q * x <= a * p
  BY <1>1, DivBounds
<1> HIDE DEF x
<1>3. ASSUME x >= a + 1 PROVE FALSE
  <2>1. q * (a + 1) <= q * x
    BY <1>2, <1>3
  <2>2. q * (a + 1) = q * a + q
    OBVIOUS
  <2> QED
    BY <1>1, <1>2, <2>1, <2>2
<1>4. x \in 0..a
  BY <1>2, <1>3
<1> QED
  BY <1>4 DEF x

(* Complete intervals at a multiple of the interval's length. *)
LEMMA DivNext ==
    ASSUME NEW n \in Nat, NEW d \in Nat \ {0}, (n + 1) % d = 0
    PROVE  (n + 1) \div d = (n \div d) + 1
<1> DEFINE p == n \div d
           q == (n + 1) \div d
<1>1. p \in Nat /\ q \in Nat /\ d * p <= n /\ n < d * p + d
  BY DivBounds
<1>2. n + 1 = d * q
  OBVIOUS
<1> HIDE DEF p, q
<1>3. d * (p + 1) = d * p + d /\ d * (p + 2) = d * p + d + d
  BY <1>1
<1>4. ASSUME q <= p PROVE FALSE
  <2>1. d * q <= d * p
    BY <1>1, <1>4
  <2> QED
    BY <1>1, <1>2, <2>1
<1>5. ASSUME p + 2 <= q PROVE FALSE
  <2>1. d * (p + 2) <= d * q
    BY <1>1, <1>5
  <2> QED
    BY <1>1, <1>2, <1>3, <2>1
<1>6. q = p + 1
  BY <1>1, <1>4, <1>5
<1> QED
  BY <1>6 DEF p, q

(* Induction over the numbers up to m, the hypothesis as a set. *)
LEMMA IntervalInduction ==
    ASSUME NEW m \in Nat, NEW Good, 0 \in Good,
           \A n \in 1..m : n - 1 \in Good => n \in Good
    PROVE  \A n \in 0..m : n \in Good
<1> DEFINE Bad == {n \in 0..m : n \notin Good}
           Neg == {k \in (0 - m)..0 : 0 - k \in Bad}
<1>1. IsFiniteSet(Neg) /\ Neg \in SUBSET Int
  <2>1. IsFiniteSet((0 - m)..0) /\ Neg \in SUBSET ((0 - m)..0)
    BY FS_Interval
  <2>2. IsFiniteSet(Neg)
    <3> HIDE DEF Neg
    <3> QED
      BY <2>1, FS_Subset
  <2> QED
    BY <2>2
<1>2. ASSUME Bad # {} PROVE FALSE
  <2>1. PICK b0 \in Bad : TRUE
    BY <1>2
  <2>2. 0 - b0 \in Neg
    BY <2>1
  <2>3. \E k \in Neg : \A x \in Neg : k >= x
    <3> HIDE DEF Neg
    <3> QED
      BY <1>1, <2>2, FiniteMax
  <2>4. PICK k \in Neg : \A x \in Neg : k >= x
    BY <2>3
  <2>5. 0 - k \in Bad /\ 0 - k # 0
    BY <2>4
  <2>6. (0 - k) - 1 \in 0..m /\ 0 - k \in 1..m
    BY <2>5
  <2>7. (0 - k) - 1 \notin Bad
    <3>1. SUFFICES ASSUME (0 - k) - 1 \in Bad PROVE FALSE
      OBVIOUS
    <3>2. k + 1 \in Neg
      <4>1. k \in Int /\ 0 - (k + 1) = (0 - k) - 1
        OBVIOUS
      <4>2. k + 1 \in (0 - m)..0
        BY <2>6, <4>1
      <4> QED
        BY <3>1, <4>1, <4>2
    <3> QED
      BY <2>4, <3>2
  <2> QED
    BY <2>5, <2>6, <2>7
<1> QED
  BY <1>2

(* A recursion over the numbers up to m whose values stay in V has a       *)
(* solution.                                                               *)
IsRecursion(g, m, V, b, step) ==
    g \in [0..m -> V] /\ g[0] = b /\ \A n \in 1..m : g[n] = step[<<n, g[n - 1]>>]

LEMMA RecursionExists ==
    ASSUME NEW m \in Nat, NEW V, NEW b \in V, NEW step \in [(1..m) \X V -> V]
    PROVE  \E g : IsRecursion(g, m, V, b, step)
<1> DEFINE Up(k, g) == g[0] = b /\ \A n \in 1..k : g[n] = step[<<n, g[n - 1]>>]
           Good == {k \in 0..m : \E g \in [0..k -> V] : Up(k, g)}
<1>1. 0 \in Good
  <2> DEFINE g == [n \in 0..0 |-> b]
  <2>1. g \in [0..0 -> V] /\ Up(0, g)
    OBVIOUS
  <2> HIDE DEF g, Up
  <2> QED
    BY <2>1
<1>2. ASSUME NEW k \in 1..m, k - 1 \in Good PROVE k \in Good
  <2>1. PICK g \in [0..(k - 1) -> V] : Up(k - 1, g)
    BY <1>2
  <2>2. g[k - 1] \in V /\ <<k, g[k - 1]>> \in (1..m) \X V
    BY <2>1
  <2> DEFINE x == step[<<k, g[k - 1]>>]
             h == [n \in 0..k |-> IF n = k THEN x ELSE g[n]]
  <2>3. x \in V
    BY <2>2
  <2>4. h \in [0..k -> V]
    <3>1. \A n \in 0..k : n # k => n \in 0..(k - 1)
      OBVIOUS
    <3> HIDE DEF x
    <3> QED
      BY <2>1, <2>3, <3>1
  <2>5. h[0] = b
    BY <2>1
  <2>6. ASSUME NEW n \in 1..k PROVE h[n] = step[<<n, h[n - 1]>>]
    <3>1. h[n - 1] = g[n - 1]
      OBVIOUS
    <3>2. CASE n = k
      <4>1. h[k] = x
        OBVIOUS
      <4>2. <<n, h[n - 1]>> = <<k, g[k - 1]>>
        BY <3>1, <3>2
      <4> HIDE DEF h
      <4> QED
        BY <3>2, <4>1, <4>2, Zenon
    <3>3. CASE n # k
      <4>1. n \in 1..(k - 1)
        BY <3>3
      <4>3. h[n] = g[n]
        BY <3>3
      <4>2. g[n] = step[<<n, g[n - 1]>>]
        BY <2>1, <4>1
      <4> QED
        BY <3>1, <4>3, <4>2
    <3> QED
      BY <3>2, <3>3
  <2>7. Up(k, h)
    BY <2>5, <2>6
  <2> HIDE DEF h, Up
  <2> QED
    BY <2>4, <2>7
<1> HIDE DEF Good
<1>3. m \in Good
  <2>1. \A k \in 0..m : k \in Good
    BY <1>1, <1>2, IntervalInduction
  <2> QED
    BY <2>1
<1> QED
  BY <1>3 DEF Good, IsRecursion
=============================================================================
