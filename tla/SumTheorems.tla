----------------------------- MODULE SumTheorems -----------------------------
(***************************************************************************)
(* Facts about SumFunctionOnSet of the module Functions, which the models  *)
(* use for days, balances and duplicates: a sum over a finite set does not *)
(* depend on the order, grows with the set and follows its terms.  The     *)
(* sum is a fold, that is a recursive function given by CHOOSE; that there *)
(* is one, and all else, is shown by looking at a smallest subset for      *)
(* which it fails.                                                         *)
(***************************************************************************)
EXTENDS Integers, FiniteSets, Functions, FiniteSetTheorems, WellFoundedInduction, TLAPS

-----------------------------------------------------------------------------
(* Induction over the subsets of a finite set                              *)

\* A nonempty set of subsets of a finite set has one that contains no other.
LEMMA SmallestSubset ==
    ASSUME NEW S, IsFiniteSet(S), NEW C, C \subseteq SUBSET S, C # {}
    PROVE  \E T \in C : \A U \in C : U \subseteq T => U = T
<1>1. FiniteSubsetsOf(S) = SUBSET S
  BY FS_FiniteSubsetsOfFinite
<1>2. \E T \in C : \A U \in C : ~ (<<U, T>> \in StrictSubsetOrdering(S))
  <2>1. IsWellFoundedOn(StrictSubsetOrdering(S), FiniteSubsetsOf(S))
    BY FS_StrictSubsetOrderingWellFounded
  <2> QED
    BY <1>1, <2>1, WFMin
<1> QED
  BY <1>2 DEF StrictSubsetOrdering

-----------------------------------------------------------------------------
(* The sum and its recursion                                               *)

Pick(s) == CHOOSE x \in s : TRUE

Adds(g, f, S) ==
    g = [s \in SUBSET S |-> IF s = {} THEN 0 ELSE f[Pick(s)] + g[s \ {Pick(s)}]]

\* The fold is the function that adds up the elements as Pick takes them.
LEMMA SumOf ==
    ASSUME NEW f, NEW S
    PROVE  SumFunctionOnSet(f, S) = (CHOOSE g : Adds(g, f, S))[S]
  BY DEF SumFunctionOnSet, FoldFunctionOnSet, MapThenFoldSet, Adds, Pick

\* Pick takes an element.
LEMMA PickIn == ASSUME NEW S, S # {} PROVE Pick(S) \in S
  BY DEF Pick

\* Two such functions agree where both are defined ...
LEMMA AddsUnique ==
    ASSUME NEW f, NEW S, IsFiniteSet(S), NEW T \in SUBSET S,
           NEW g, Adds(g, f, S), NEW h, Adds(h, f, T)
    PROVE  \A U \in SUBSET T : g[U] = h[U]
<1> DEFINE Bad == {U \in SUBSET T : g[U] # h[U]}
<1> SUFFICES ASSUME Bad # {} PROVE FALSE
  OBVIOUS
<1>1. PICK U \in Bad : \A V \in Bad : V \subseteq U => V = U
  <2>1. IsFiniteSet(T) /\ Bad \subseteq SUBSET T
    BY FS_Subset
  <2> HIDE DEF Bad
  <2> QED
    BY <2>1, SmallestSubset
<1>2. CASE U = {}
  BY <1>2 DEF Adds
<1>3. CASE U # {}
  <2>1. Pick(U) \in U
    BY <1>3, PickIn
  <2>2. U \ {Pick(U)} \notin Bad
    BY <1>1, <2>1
  <2>3. g[U \ {Pick(U)}] = h[U \ {Pick(U)}]
    BY <2>2
  <2>4. g[U] = f[Pick(U)] + g[U \ {Pick(U)}]
    BY <1>3 DEF Adds
  <2>5. h[U] = f[Pick(U)] + h[U \ {Pick(U)}]
    BY <1>3 DEF Adds
  <2> QED
    BY <2>3, <2>4, <2>5
<1> QED
  BY <1>2, <1>3

\* ... and there is one for every finite set: the function on a set is put
\* together from the values of those on its subsets.
LEMMA AddsExists ==
    ASSUME NEW f, NEW S, IsFiniteSet(S)
    PROVE  \E g : Adds(g, f, S)
<1> DEFINE Bad == {T \in SUBSET S : ~ \E g : Adds(g, f, T)}
           G(T) == CHOOSE g : Adds(g, f, T)
<1> SUFFICES ASSUME Bad # {} PROVE FALSE
  <2>1. S \in SUBSET S /\ S \notin Bad => \E g : Adds(g, f, S)
    OBVIOUS
  <2> QED
    BY <2>1
<1>1. PICK T \in Bad : \A U \in Bad : U \subseteq T => U = T
  <2>1. Bad \subseteq SUBSET S
    OBVIOUS
  <2> HIDE DEF Bad
  <2> QED
    BY <2>1, SmallestSubset
<1>2. ASSUME NEW U \in SUBSET T, U # T PROVE Adds(G(U), f, U)
  <2>1. \E g : Adds(g, f, U)
    BY <1>1, <1>2
  <2> QED
    BY <2>1
<1> DEFINE h == [s \in SUBSET T |->
                    IF s = {} THEN 0
                    ELSE f[Pick(s)] + G(s \ {Pick(s)})[s \ {Pick(s)}]]
<1>3. ASSUME NEW U \in SUBSET T, U # T PROVE h[U] = G(U)[U]
  <2>1. CASE U = {}
    <3>1. Adds(G(U), f, U)
      BY <1>2, <1>3
    <3> HIDE DEF G
    <3> QED
      BY <2>1, <3>1 DEF Adds
  <2>2. CASE U # {}
    <3> DEFINE V == U \ {Pick(U)}
    <3>1. Pick(U) \in U
      BY <2>2, PickIn
    <3>2. V \in SUBSET U /\ V \in SUBSET T /\ V # T
      BY <1>3, <3>1
    <3>3. Adds(G(U), f, U) /\ Adds(G(V), f, V)
      BY <1>2, <1>3, <3>2
    <3>4. IsFiniteSet(U)
      BY FS_Subset
    <3>5. G(U)[V] = G(V)[V]
      <4> HIDE DEF V, G
      <4> QED
        BY <3>2, <3>3, <3>4, AddsUnique
    <3>6. G(U)[U] = f[Pick(U)] + G(U)[V]
      <4> HIDE DEF G
      <4> QED
        BY <2>2, <3>3 DEF Adds
    <3>7. h[U] = f[Pick(U)] + G(V)[V]
      <4> HIDE DEF G
      <4> QED
        BY <2>2
    <3> QED
      BY <3>5, <3>6, <3>7
  <2> QED
    BY <2>1, <2>2
<1>4. Adds(h, f, T)
  <2> HIDE DEF G
  <2>1. ASSUME NEW s \in SUBSET T, s # {} PROVE h[s \ {Pick(s)}] = G(s \ {Pick(s)})[s \ {Pick(s)}]
    <3>1. Pick(s) \in s
      BY <2>1, PickIn
    <3>2. s \ {Pick(s)} \in SUBSET T /\ s \ {Pick(s)} # T
      BY <3>1
    <3> QED
      BY <1>3, <3>2
  <2>2. h = [s \in SUBSET T |-> IF s = {} THEN 0 ELSE f[Pick(s)] + h[s \ {Pick(s)}]]
    BY <2>1
  <2> QED
    BY <2>2 DEF Adds
<1> QED
  BY <1>1, <1>4

\* So the sum obeys its recursion.
LEMMA SumStep ==
    ASSUME NEW f, NEW S, IsFiniteSet(S)
    PROVE  SumFunctionOnSet(f, S) =
              IF S = {} THEN 0 ELSE f[Pick(S)] + SumFunctionOnSet(f, S \ {Pick(S)})
<1> DEFINE G(T) == CHOOSE g : Adds(g, f, T)
<1>1. Adds(G(S), f, S)
  BY AddsExists
<1>2. SumFunctionOnSet(f, S) = G(S)[S]
  BY SumOf
<1>3. CASE S = {}
  <2> HIDE DEF G
  <2> QED
    BY <1>1, <1>2, <1>3 DEF Adds
<1>4. CASE S # {}
  <2> DEFINE V == S \ {Pick(S)}
  <2>1. IsFiniteSet(V) /\ V \in SUBSET S
    BY FS_Subset
  <2>2. Adds(G(V), f, V) /\ SumFunctionOnSet(f, V) = G(V)[V]
    BY <2>1, AddsExists, SumOf
  <2> HIDE DEF G
  <2>3. G(S)[V] = G(V)[V]
    <3> HIDE DEF V
    <3> QED
      BY <1>1, <2>1, <2>2, AddsUnique
  <2>4. G(S)[S] = f[Pick(S)] + G(S)[V]
    BY <1>1, <1>4 DEF Adds
  <2> QED
    BY <1>2, <1>4, <2>2, <2>3, <2>4
<1> QED
  BY <1>3, <1>4

-----------------------------------------------------------------------------
(* Sums                                                                    *)

\* The sum over nothing.
THEOREM SumEmpty == \A f : SumFunctionOnSet(f, {}) = 0
  BY SumStep, FS_EmptySet

\* The element Pick takes may be taken out first.
LEMMA SumPick ==
    ASSUME NEW f, NEW S, IsFiniteSet(S), S # {}
    PROVE  /\ Pick(S) \in S /\ IsFiniteSet(S \ {Pick(S)})
           /\ SumFunctionOnSet(f, S) = f[Pick(S)] + SumFunctionOnSet(f, S \ {Pick(S)})
  BY SumStep, PickIn, FS_RemoveElement

\* A sum of integers is an integer ...
THEOREM SumInt ==
    ASSUME NEW f, NEW S, IsFiniteSet(S), \A x \in S : f[x] \in Int
    PROVE  SumFunctionOnSet(f, S) \in Int
<1> DEFINE Bad == {T \in SUBSET S : SumFunctionOnSet(f, T) \notin Int}
<1> SUFFICES ASSUME Bad # {} PROVE FALSE
  OBVIOUS
<1>1. PICK T \in Bad : \A U \in Bad : U \subseteq T => U = T
  <2>1. Bad \subseteq SUBSET S
    OBVIOUS
  <2> HIDE DEF Bad
  <2> QED
    BY <2>1, SmallestSubset
<1>2. T # {} /\ IsFiniteSet(T)
  <2>1. ASSUME T = {} PROVE FALSE
    <3>1. SumFunctionOnSet(f, {}) = 0
      BY SumEmpty
    <3> QED
      BY <2>1, <3>1
  <2>2. IsFiniteSet(T)
    BY FS_Subset
  <2> QED
    BY <2>1, <2>2
<1>3. T \ {Pick(T)} \notin Bad
  BY <1>1, <1>2, SumPick
<1> QED
  BY <1>2, <1>3, SumPick

\* ... and of natural numbers a natural number.
THEOREM SumNat ==
    ASSUME NEW f, NEW S, IsFiniteSet(S), \A x \in S : f[x] \in Nat
    PROVE  SumFunctionOnSet(f, S) \in Nat
<1> DEFINE Bad == {T \in SUBSET S : SumFunctionOnSet(f, T) \notin Nat}
<1> SUFFICES ASSUME Bad # {} PROVE FALSE
  OBVIOUS
<1>1. PICK T \in Bad : \A U \in Bad : U \subseteq T => U = T
  <2>1. Bad \subseteq SUBSET S
    OBVIOUS
  <2> HIDE DEF Bad
  <2> QED
    BY <2>1, SmallestSubset
<1>2. T # {} /\ IsFiniteSet(T)
  <2>1. ASSUME T = {} PROVE FALSE
    <3>1. SumFunctionOnSet(f, {}) = 0
      BY SumEmpty
    <3> QED
      BY <2>1, <3>1
  <2>2. IsFiniteSet(T)
    BY FS_Subset
  <2> QED
    BY <2>1, <2>2
<1>3. T \ {Pick(T)} \notin Bad
  BY <1>1, <1>2, SumPick
<1> QED
  BY <1>2, <1>3, SumPick

\* A sum of zeros is zero.
THEOREM SumZero ==
    ASSUME NEW f, NEW S, IsFiniteSet(S), \A x \in S : f[x] = 0
    PROVE  SumFunctionOnSet(f, S) = 0
<1> DEFINE Bad == {T \in SUBSET S : SumFunctionOnSet(f, T) # 0}
<1> SUFFICES ASSUME Bad # {} PROVE FALSE
  OBVIOUS
<1>1. PICK T \in Bad : \A U \in Bad : U \subseteq T => U = T
  <2>1. Bad \subseteq SUBSET S
    OBVIOUS
  <2> HIDE DEF Bad
  <2> QED
    BY <2>1, SmallestSubset
<1>2. T # {} /\ IsFiniteSet(T)
  <2>1. ASSUME T = {} PROVE FALSE
    <3>1. SumFunctionOnSet(f, {}) = 0
      BY SumEmpty
    <3> QED
      BY <2>1, <3>1
  <2>2. IsFiniteSet(T)
    BY FS_Subset
  <2> QED
    BY <2>1, <2>2
<1>3. T \ {Pick(T)} \notin Bad
  BY <1>1, <1>2, SumPick
<1> QED
  BY <1>2, <1>3, SumPick

\* Any element may be taken out first.
THEOREM SumRemove ==
    ASSUME NEW f, NEW S, IsFiniteSet(S), \A x \in S : f[x] \in Int, NEW a \in S
    PROVE  SumFunctionOnSet(f, S) = f[a] + SumFunctionOnSet(f, S \ {a})
<1> DEFINE Bad == {T \in SUBSET S :
                     \E x \in T : SumFunctionOnSet(f, T) # f[x] + SumFunctionOnSet(f, T \ {x})}
<1> SUFFICES ASSUME Bad # {} PROVE FALSE
  OBVIOUS
<1>1. PICK T \in Bad : \A U \in Bad : U \subseteq T => U = T
  <2>1. Bad \subseteq SUBSET S
    OBVIOUS
  <2> HIDE DEF Bad
  <2> QED
    BY <2>1, SmallestSubset
<1>2. PICK x \in T : SumFunctionOnSet(f, T) # f[x] + SumFunctionOnSet(f, T \ {x})
  OBVIOUS
<1> DEFINE p == Pick(T)
<1>3. /\ IsFiniteSet(T) /\ p \in T
      /\ SumFunctionOnSet(f, T) = f[p] + SumFunctionOnSet(f, T \ {p})
  BY FS_Subset, SumPick
<1>4. x # p
  BY <1>2, <1>3
<1> HIDE DEF p
<1>5. T \ {p} \notin Bad /\ T \ {x} \notin Bad
  BY <1>1, <1>3
<1>6. SumFunctionOnSet(f, T \ {p}) = f[x] + SumFunctionOnSet(f, (T \ {p}) \ {x})
  BY <1>4, <1>5
<1>7. SumFunctionOnSet(f, T \ {x}) = f[p] + SumFunctionOnSet(f, (T \ {x}) \ {p})
  BY <1>3, <1>4, <1>5
<1>8. (T \ {p}) \ {x} = (T \ {x}) \ {p}
  OBVIOUS
<1>9. SumFunctionOnSet(f, (T \ {p}) \ {x}) \in Int /\ f[x] \in Int /\ f[p] \in Int
  <2>1. IsFiniteSet((T \ {p}) \ {x})
    BY <1>3, FS_RemoveElement
  <2> QED
    BY <1>3, <2>1, SumInt
<1>10. \A i, j, k \in Int : i + (j + k) = j + (i + k)
  OBVIOUS
<1> QED
  BY <1>2, <1>3, <1>6, <1>7, <1>8, <1>9, <1>10

\* A new element adds its term.
THEOREM SumAdd ==
    ASSUME NEW f, NEW S, IsFiniteSet(S), \A x \in S : f[x] \in Int,
           NEW a, a \notin S, f[a] \in Int
    PROVE  SumFunctionOnSet(f, S \cup {a}) = f[a] + SumFunctionOnSet(f, S)
<1>1. IsFiniteSet(S \cup {a}) /\ (S \cup {a}) \ {a} = S
  BY FS_AddElement
<1> QED
  BY <1>1, SumRemove

\* Only the terms of the elements count.
THEOREM SumAgrees ==
    ASSUME NEW f, NEW g, NEW S, IsFiniteSet(S), \A x \in S : f[x] = g[x]
    PROVE  SumFunctionOnSet(f, S) = SumFunctionOnSet(g, S)
<1> DEFINE Bad == {T \in SUBSET S : SumFunctionOnSet(f, T) # SumFunctionOnSet(g, T)}
<1> SUFFICES ASSUME Bad # {} PROVE FALSE
  OBVIOUS
<1>1. PICK T \in Bad : \A U \in Bad : U \subseteq T => U = T
  <2>1. Bad \subseteq SUBSET S
    OBVIOUS
  <2> HIDE DEF Bad
  <2> QED
    BY <2>1, SmallestSubset
<1>2. T # {} /\ IsFiniteSet(T)
  <2>1. ASSUME T = {} PROVE FALSE
    <3>1. SumFunctionOnSet(f, {}) = 0 /\ SumFunctionOnSet(g, {}) = 0
      BY SumEmpty
    <3> QED
      BY <2>1, <3>1
  <2>2. IsFiniteSet(T)
    BY FS_Subset
  <2> QED
    BY <2>1, <2>2
<1>3. T \ {Pick(T)} \notin Bad
  BY <1>1, <1>2, SumPick
<1> QED
  BY <1>2, <1>3, SumPick

\* When one term changes, the sum changes by as much.
THEOREM SumChanges ==
    ASSUME NEW f, NEW g, NEW S, IsFiniteSet(S), NEW a \in S,
           \A x \in S : f[x] \in Int /\ g[x] \in Int,
           \A x \in S \ {a} : f[x] = g[x]
    PROVE  SumFunctionOnSet(g, S) = SumFunctionOnSet(f, S) - f[a] + g[a]
<1>1. IsFiniteSet(S \ {a})
  BY FS_RemoveElement
<1>2. SumFunctionOnSet(f, S \ {a}) = SumFunctionOnSet(g, S \ {a})
  BY <1>1, SumAgrees
<1>3. /\ SumFunctionOnSet(f, S) = f[a] + SumFunctionOnSet(f, S \ {a})
      /\ SumFunctionOnSet(g, S) = g[a] + SumFunctionOnSet(g, S \ {a})
      /\ SumFunctionOnSet(g, S \ {a}) \in Int
  BY <1>1, SumRemove, SumInt
<1> QED
  BY <1>2, <1>3

\* The sum over a subset is not larger, if no term is negative.
THEOREM SumGrows ==
    ASSUME NEW f, NEW S, IsFiniteSet(S), \A x \in S : f[x] \in Nat, NEW R \in SUBSET S
    PROVE  SumFunctionOnSet(f, R) <= SumFunctionOnSet(f, S)
<1> DEFINE Bad == {T \in SUBSET S :
                     R \subseteq T /\ ~ (SumFunctionOnSet(f, R) <= SumFunctionOnSet(f, T))}
<1> SUFFICES ASSUME Bad # {} PROVE FALSE
  OBVIOUS
<1>1. PICK T \in Bad : \A U \in Bad : U \subseteq T => U = T
  <2>1. Bad \subseteq SUBSET S
    OBVIOUS
  <2> HIDE DEF Bad
  <2> QED
    BY <2>1, SmallestSubset
<1>2. SumFunctionOnSet(f, R) \in Nat /\ SumFunctionOnSet(f, T) \in Nat /\ IsFiniteSet(T)
  BY FS_Subset, SumNat
<1>3. PICK a \in T : a \notin R
  BY <1>2
<1>4. T \ {a} \notin Bad
  BY <1>3, <1>1
<1>5. SumFunctionOnSet(f, T) = f[a] + SumFunctionOnSet(f, T \ {a})
  BY <1>2, SumRemove
<1>6. SumFunctionOnSet(f, T \ {a}) \in Nat
  BY <1>2, FS_RemoveElement, SumNat
<1> QED
  BY <1>2, <1>3, <1>4, <1>5, <1>6

\* Smaller terms, smaller sum.
THEOREM SumBelow ==
    ASSUME NEW f, NEW g, NEW S, IsFiniteSet(S),
           \A x \in S : f[x] \in Int /\ g[x] \in Int /\ g[x] <= f[x]
    PROVE  SumFunctionOnSet(g, S) <= SumFunctionOnSet(f, S)
<1> DEFINE Bad == {T \in SUBSET S :
                     ~ (SumFunctionOnSet(g, T) <= SumFunctionOnSet(f, T))}
<1> SUFFICES ASSUME Bad # {} PROVE FALSE
  OBVIOUS
<1>1. PICK T \in Bad : \A U \in Bad : U \subseteq T => U = T
  <2>1. Bad \subseteq SUBSET S
    OBVIOUS
  <2> HIDE DEF Bad
  <2> QED
    BY <2>1, SmallestSubset
<1>2. T # {} /\ IsFiniteSet(T)
  <2>1. ASSUME T = {} PROVE FALSE
    <3>1. SumFunctionOnSet(f, {}) = 0 /\ SumFunctionOnSet(g, {}) = 0
      BY SumEmpty
    <3> QED
      BY <2>1, <3>1
  <2>2. IsFiniteSet(T)
    BY FS_Subset
  <2> QED
    BY <2>1, <2>2
<1> DEFINE p == Pick(T)
           R == T \ {p}
<1>3. /\ p \in T /\ IsFiniteSet(R)
      /\ SumFunctionOnSet(f, T) = f[p] + SumFunctionOnSet(f, R)
      /\ SumFunctionOnSet(g, T) = g[p] + SumFunctionOnSet(g, R)
  BY <1>2, SumPick
<1>4. SumFunctionOnSet(g, R) <= SumFunctionOnSet(f, R)
  <2>1. R \notin Bad /\ R \in SUBSET S
    BY <1>1, <1>3
  <2> QED
    BY <2>1
<1>5. SumFunctionOnSet(f, R) \in Int /\ SumFunctionOnSet(g, R) \in Int
  BY <1>3, SumInt
<1> HIDE DEF p, R
<1>6. f[p] \in Int /\ g[p] \in Int /\ g[p] <= f[p]
  BY <1>3
<1> QED
  BY <1>3, <1>4, <1>5, <1>6

\* When no term grows but one, and that by one at most, so does the sum.
THEOREM SumRises ==
    ASSUME NEW f, NEW g, NEW S, IsFiniteSet(S), NEW a \in S,
           \A x \in S : f[x] \in Int /\ g[x] \in Int,
           \A x \in S \ {a} : g[x] <= f[x],
           g[a] <= f[a] + 1
    PROVE  SumFunctionOnSet(g, S) <= SumFunctionOnSet(f, S) + 1
<1>1. IsFiniteSet(S \ {a})
  BY FS_RemoveElement
<1>2. SumFunctionOnSet(g, S \ {a}) <= SumFunctionOnSet(f, S \ {a})
  BY <1>1, SumBelow
<1>3. /\ SumFunctionOnSet(f, S) = f[a] + SumFunctionOnSet(f, S \ {a})
      /\ SumFunctionOnSet(g, S) = g[a] + SumFunctionOnSet(g, S \ {a})
      /\ SumFunctionOnSet(f, S \ {a}) \in Int
      /\ SumFunctionOnSet(g, S \ {a}) \in Int
  BY <1>1, SumRemove, SumInt
<1> QED
  BY <1>2, <1>3

\* A nonempty finite set of integers has a largest element.
THEOREM FiniteMaximum ==
    ASSUME NEW S, IsFiniteSet(S), S # {}
    PROVE  S \subseteq Int => \E m \in S : \A n \in S : m >= n
<1> DEFINE Bad == {T \in SUBSET S : T # {} /\ ~ \E m \in T : \A n \in T : m >= n}
<1> SUFFICES ASSUME Bad # {} PROVE ~ (S \subseteq Int)
  OBVIOUS
<1>1. PICK T \in Bad : \A U \in Bad : U \subseteq T => U = T
  <2>1. Bad \subseteq SUBSET S
    OBVIOUS
  <2> HIDE DEF Bad
  <2> QED
    BY <2>1, SmallestSubset
<1> SUFFICES ASSUME S \subseteq Int PROVE FALSE
  OBVIOUS
<1>2. PICK a \in T : TRUE
  OBVIOUS
<1>3. T \ {a} \notin Bad
  BY <1>1
<1>4. PICK m \in T \ {a} : \A n \in T \ {a} : m >= n
  <2>1. T # {a}
    OBVIOUS
  <2> QED
    BY <1>3, <2>1
<1>5. CASE m >= a
  BY <1>4, <1>5
<1>6. CASE ~ (m >= a)
  <2>1. \A n \in T : a >= n
    BY <1>4, <1>6
  <2> QED
    BY <1>2, <2>1
<1> QED
  BY <1>5, <1>6

\* ... and a smallest one.
THEOREM FiniteMinimum ==
    ASSUME NEW S, IsFiniteSet(S), S # {}
    PROVE  S \subseteq Int => \E m \in S : \A n \in S : m <= n
<1> DEFINE Bad == {T \in SUBSET S : T # {} /\ ~ \E m \in T : \A n \in T : m <= n}
<1> SUFFICES ASSUME Bad # {} PROVE ~ (S \subseteq Int)
  OBVIOUS
<1>1. PICK T \in Bad : \A U \in Bad : U \subseteq T => U = T
  <2>1. Bad \subseteq SUBSET S
    OBVIOUS
  <2> HIDE DEF Bad
  <2> QED
    BY <2>1, SmallestSubset
<1> SUFFICES ASSUME S \subseteq Int PROVE FALSE
  OBVIOUS
<1>2. PICK a \in T : TRUE
  OBVIOUS
<1>3. T \ {a} \notin Bad
  BY <1>1
<1>4. PICK m \in T \ {a} : \A n \in T \ {a} : m <= n
  <2>1. T # {a}
    OBVIOUS
  <2> QED
    BY <1>3, <2>1
<1>5. CASE m <= a
  BY <1>4, <1>5
<1>6. CASE ~ (m <= a)
  <2>1. \A n \in T : a <= n
    BY <1>4, <1>6
  <2> QED
    BY <1>2, <2>1
<1> QED
  BY <1>5, <1>6
=============================================================================
