-------------------------------- MODULE Sums --------------------------------
(***************************************************************************)
(* Sums over finite sets: SumFunctionOnSet of the community modules is     *)
(* defined by recursion over the subsets of the index set.  The lemmas say *)
(* that the recursion has a solution, that the order of the elements does  *)
(* not matter, and what a sum becomes when one summand changes.  An        *)
(* induction over a finite set is the existence of a smallest              *)
(* counterexample (WFMin).                                                 *)
(***************************************************************************)
EXTENDS Integers, FiniteSets, Functions, FiniteSetTheorems, TLAPS

Pick(s) == CHOOSE x \in s : TRUE

\* g is the recursion behind the sum of f over T.
Iterates(g, f, T) ==
  g = [s \in SUBSET T |-> IF s = {} THEN 0 ELSE f[Pick(s)] + g[s \ {Pick(s)}]]

\* The element that the recursion takes out of a set.
LEMMA PickIn == ASSUME NEW s, s # {} PROVE Pick(s) \in s
BY DEF Pick

\* A nonempty set of subsets of a finite set has a least element.
LEMMA Smallest ==
  ASSUME NEW S, IsFiniteSet(S), NEW Bad \in SUBSET (SUBSET S), Bad # {}
  PROVE  \E T \in Bad : \A U \in SUBSET T : U # T => U \notin Bad
<1>1. Bad \subseteq FiniteSubsetsOf(S)
  BY FS_FiniteSubsetsOfFinite
<1>2. PICK T \in Bad : \A U \in Bad : <<U, T>> \notin StrictSubsetOrdering(S)
  BY <1>1, FS_StrictSubsetOrderingWellFounded, WFMin, Zenon
<1>3. ASSUME NEW U \in SUBSET T, U # T
      PROVE  <<U, T>> \in StrictSubsetOrdering(S)
  BY <1>3, T \in SUBSET S DEF StrictSubsetOrdering
<1>4. \A U \in SUBSET T : U # T => U \notin Bad
  BY <1>2, <1>3, Zenon
<1>5. QED
  BY <1>4, Zenon

\* What the recursion gives for a set, it gives for its subsets.
LEMMA IteratesBelow ==
  ASSUME NEW f, NEW T, NEW g, Iterates(g, f, T), NEW U \in SUBSET T
  PROVE  Iterates([s \in SUBSET U |-> g[s]], f, U)
<1> DEFINE h == [s \in SUBSET U |-> g[s]]
<1>1. ASSUME NEW s \in SUBSET U
      PROVE  h[s] = IF s = {} THEN 0 ELSE f[Pick(s)] + h[s \ {Pick(s)}]
  <2>1. s \in SUBSET T /\ s \ {Pick(s)} \in SUBSET U
    OBVIOUS
  <2>2. g[s] = IF s = {} THEN 0 ELSE f[Pick(s)] + g[s \ {Pick(s)}]
    BY <2>1, Zenon DEF Iterates
  <2>3. h[s] = g[s] /\ h[s \ {Pick(s)}] = g[s \ {Pick(s)}]
    BY <2>1, Zenon
  <2>4. QED
    BY <2>2, <2>3, Zenon
<1>2. h = [s \in SUBSET U |-> h[s]]
  OBVIOUS
<1> HIDE DEF h
<1>3. Iterates(h, f, U)
  BY <1>1, <1>2, Zenon DEF Iterates
<1>4. QED
  BY <1>3 DEF h

\* The recursion has at most one solution.
LEMMA IteratesUnique ==
  ASSUME NEW f, NEW T, IsFiniteSet(T),
         NEW g, Iterates(g, f, T), NEW h, Iterates(h, f, T)
  PROVE  g = h
<1> DEFINE Bad == {s \in SUBSET T : g[s] # h[s]}
<1>1. CASE Bad = {}
  <2>1. \A s \in SUBSET T : g[s] = h[s]
    BY <1>1
  <2>2. g = [s \in SUBSET T |-> g[s]] /\ h = [s \in SUBSET T |-> h[s]]
    BY DEF Iterates
  <2>3. QED
    BY <2>1, <2>2, Zenon
<1>2. CASE Bad # {}
  <2>0. Bad \in SUBSET (SUBSET T)
    OBVIOUS
  <2>1. PICK s \in Bad : \A u \in SUBSET s : u # s => u \notin Bad
    <3> HIDE DEF Bad
    <3>1. QED
      BY <1>2, <2>0, Smallest, Zenon
  <2>2. /\ g[s] = IF s = {} THEN 0 ELSE f[Pick(s)] + g[s \ {Pick(s)}]
        /\ h[s] = IF s = {} THEN 0 ELSE f[Pick(s)] + h[s \ {Pick(s)}]
    BY Zenon DEF Iterates
  <2>3. s # {}
    BY <2>1, <2>2
  <2>4. s \ {Pick(s)} \in SUBSET s /\ s \ {Pick(s)} # s
    BY <2>3, PickIn
  <2>5. g[s \ {Pick(s)}] = h[s \ {Pick(s)}]
    BY <2>1, <2>4
  <2>6. QED
    BY <2>1, <2>2, <2>3, <2>5
<1>3. QED
  BY <1>1, <1>2

\* The recursion has a solution.
LEMMA IteratesExists ==
  ASSUME NEW f, NEW S, IsFiniteSet(S)
  PROVE  \E g : Iterates(g, f, S)
<1> DEFINE Bad == {T \in SUBSET S : ~ \E g : Iterates(g, f, T)}
           V(s) == (CHOOSE g : Iterates(g, f, s))[s]
<1>0. Bad \in SUBSET (SUBSET S)
  OBVIOUS
<1>1. SUFFICES ASSUME Bad # {} PROVE FALSE
  <2>1. S \in Bad \/ \E g : Iterates(g, f, S)
    OBVIOUS
  <2>2. QED
    BY <2>1, Zenon
<1>2. PICK T \in Bad : \A U \in SUBSET T : U # T => U \notin Bad
  <2> HIDE DEF Bad
  <2>1. QED
    BY <1>0, <1>1, Smallest, Zenon
<1>3. T \in SUBSET S /\ ~ \E g : Iterates(g, f, T)
  BY <1>2
<1>4. ASSUME NEW U \in SUBSET T, U # T
      PROVE  V(U) = IF U = {} THEN 0 ELSE f[Pick(U)] + V(U \ {Pick(U)})
  <2>1. U \in SUBSET S /\ U \notin Bad
    BY <1>2, <1>3, <1>4
  <2>2. PICK g : g = (CHOOSE h : Iterates(h, f, U))
    OBVIOUS
  <2>3. Iterates(g, f, U)
    BY <2>1, <2>2, Zenon
  <2>4. g[U] = IF U = {} THEN 0 ELSE f[Pick(U)] + g[U \ {Pick(U)}]
    BY <2>3, Zenon DEF Iterates
  <2>5. V(U) = g[U]
    BY <2>2, Zenon
  <2>6. CASE U = {}
    BY <2>4, <2>5, <2>6, Zenon
  <2>7. CASE U # {}
    <3> DEFINE D == U \ {Pick(U)}
    <3>1. D \in SUBSET U /\ D \in SUBSET S
      BY <2>1
    <3>2. IsFiniteSet(D)
      BY <3>1, FS_Subset, Zenon
    <3>3. Iterates([s \in SUBSET D |-> g[s]], f, D)
      BY <2>3, <3>1, IteratesBelow, Zenon
    <3>4. [s \in SUBSET D |-> g[s]] = (CHOOSE h : Iterates(h, f, D))
      <4>1. Iterates(CHOOSE h : Iterates(h, f, D), f, D)
        BY <3>3, Zenon
      <4>2. QED
        BY <3>2, <3>3, <4>1, IteratesUnique, Zenon
    <3>5. V(D) = [s \in SUBSET D |-> g[s]][D]
      BY <3>4, Zenon
    <3>6. [s \in SUBSET D |-> g[s]][D] = g[D]
      OBVIOUS
    <3>7. QED
      BY <2>4, <2>5, <2>7, <3>5, <3>6, Zenon
  <2>8. QED
    BY <2>6, <2>7
<1> DEFINE G == [s \in SUBSET T |-> IF s = {} THEN 0 ELSE f[Pick(s)] + V(s \ {Pick(s)})]
<1> HIDE DEF V
<1>5. ASSUME NEW s \in SUBSET T, s # {}
      PROVE  G[s \ {Pick(s)}] = V(s \ {Pick(s)})
  <2> DEFINE D == s \ {Pick(s)}
  <2>1. D \in SUBSET T /\ D # T
    BY <1>5, PickIn
  <2>2. G[D] = IF D = {} THEN 0 ELSE f[Pick(D)] + V(D \ {Pick(D)})
    BY <2>1, Zenon
  <2>3. QED
    BY <2>1, <2>2, <1>4, Zenon
<1>6. ASSUME NEW s \in SUBSET T
      PROVE  G[s] = IF s = {} THEN 0 ELSE f[Pick(s)] + G[s \ {Pick(s)}]
  <2>1. G[s] = IF s = {} THEN 0 ELSE f[Pick(s)] + V(s \ {Pick(s)})
    BY Zenon
  <2>2. QED
    BY <2>1, <1>5, Zenon
<1>7. G = [s \in SUBSET T |-> G[s]]
  OBVIOUS
<1> HIDE DEF G
<1>8. Iterates(G, f, T)
  BY <1>6, <1>7, Zenon DEF Iterates
<1>9. QED
  BY <1>3, <1>8
-----------------------------------------------------------------------------
\* The sum, one element at a time, in the order of the recursion.
LEMMA SumPicks ==
  ASSUME NEW f, NEW S, IsFiniteSet(S)
  PROVE  SumFunctionOnSet(f, S) =
           IF S = {} THEN 0 ELSE f[Pick(S)] + SumFunctionOnSet(f, S \ {Pick(S)})
<1> DEFINE D == S \ {Pick(S)}
<1>1. \A T : SumFunctionOnSet(f, T) = (CHOOSE h : Iterates(h, f, T))[T]
  BY DEF SumFunctionOnSet, FoldFunctionOnSet, MapThenFoldSet, Iterates, Pick
<1>2. PICK g : g = (CHOOSE h : Iterates(h, f, S))
  OBVIOUS
<1>3. Iterates(g, f, S)
  BY <1>2, IteratesExists, Zenon
<1>4. g[S] = IF S = {} THEN 0 ELSE f[Pick(S)] + g[D]
  BY <1>3, Zenon DEF Iterates
<1>5. D \in SUBSET S /\ IsFiniteSet(D)
  BY FS_Subset
<1>6. Iterates([s \in SUBSET D |-> g[s]], f, D)
  BY <1>3, <1>5, IteratesBelow, Zenon
<1>7. Iterates(CHOOSE h : Iterates(h, f, D), f, D)
  BY <1>6, Zenon
<1>8. [s \in SUBSET D |-> g[s]] = (CHOOSE h : Iterates(h, f, D))
  BY <1>5, <1>6, <1>7, IteratesUnique, Zenon
<1>9. SumFunctionOnSet(f, D) = [s \in SUBSET D |-> g[s]][D]
  BY <1>1, <1>8, Zenon
<1>10. [s \in SUBSET D |-> g[s]][D] = g[D]
  OBVIOUS
<1>11. SumFunctionOnSet(f, S) = g[S]
  BY <1>1, <1>2, Zenon
<1>12. QED
  BY <1>4, <1>9, <1>10, <1>11, Zenon

\* The sum over no elements.
LEMMA SumEmpty == \A f : SumFunctionOnSet(f, {}) = 0
BY SumPicks, FS_EmptySet, Zenon

\* A sum of integers is an integer.
LEMMA SumInt ==
  ASSUME NEW f, NEW S, IsFiniteSet(S), \A x \in S : f[x] \in Int
  PROVE  SumFunctionOnSet(f, S) \in Int
<1> DEFINE Bad == {T \in SUBSET S : SumFunctionOnSet(f, T) \notin Int}
<1>0. Bad \in SUBSET (SUBSET S)
  OBVIOUS
<1>1. SUFFICES ASSUME Bad # {} PROVE FALSE
  <2>1. S \in Bad \/ SumFunctionOnSet(f, S) \in Int
    BY Zenon
  <2>2. QED
    BY <2>1, Zenon
<1>2. PICK T \in Bad : \A U \in SUBSET T : U # T => U \notin Bad
  <2> HIDE DEF Bad
  <2>1. QED
    BY <1>0, <1>1, Smallest, Zenon
<1>3. T \in SUBSET S /\ IsFiniteSet(T) /\ SumFunctionOnSet(f, T) \notin Int
  BY <1>2, FS_Subset, Zenon
<1>4. T # {}
  BY <1>3, SumEmpty
<1> DEFINE D == T \ {Pick(T)}
<1>5. Pick(T) \in T /\ D \in SUBSET T /\ D # T
  BY <1>4, PickIn
<1>6. SumFunctionOnSet(f, D) \in Int /\ f[Pick(T)] \in Int
  BY <1>2, <1>3, <1>5
<1>7. SumFunctionOnSet(f, T) = f[Pick(T)] + SumFunctionOnSet(f, D)
  BY <1>3, <1>4, SumPicks, Zenon
<1>8. QED
  BY <1>3, <1>6, <1>7

\* Any element may be taken out first.
LEMMA SumTake ==
  ASSUME NEW f, NEW S, IsFiniteSet(S), \A x \in S : f[x] \in Int, NEW x \in S
  PROVE  SumFunctionOnSet(f, S) = f[x] + SumFunctionOnSet(f, S \ {x})
<1> DEFINE Sum(T) == SumFunctionOnSet(f, T)
           Bad == {T \in SUBSET S : \E y \in T : Sum(T) # f[y] + Sum(T \ {y})}
<1>0. Bad \in SUBSET (SUBSET S)
  OBVIOUS
<1>1. SUFFICES ASSUME Bad # {} PROVE FALSE
  <2>1. S \in Bad \/ Sum(S) = f[x] + Sum(S \ {x})
    OBVIOUS
  <2>2. QED
    BY <2>1, Zenon
<1>2. PICK T \in Bad : \A U \in SUBSET T : U # T => U \notin Bad
  <2> HIDE DEF Bad
  <2>1. QED
    BY <1>0, <1>1, Smallest, Zenon
<1>3. PICK y \in T : Sum(T) # f[y] + Sum(T \ {y})
  BY <1>2, Zenon
<1> DEFINE c == Pick(T)
<1>4. ASSUME NEW U \in SUBSET T
      PROVE  IsFiniteSet(U) /\ Sum(U) \in Int
  BY <1>2, FS_Subset, SumInt
<1>5. c \in T /\ Sum(T) = f[c] + Sum(T \ {c})
  BY <1>2, <1>3, <1>4, SumPicks, PickIn, Zenon
<1>6. c # y
  BY <1>3, <1>5, Zenon
<1>7. f[c] \in Int /\ f[y] \in Int
  BY <1>2, <1>3, <1>5
<1> HIDE DEF Sum, c
<1>8. Sum(T \ {c}) = f[y] + Sum((T \ {c}) \ {y})
  <2>1. T \ {c} \in SUBSET T /\ T \ {c} # T /\ y \in T \ {c} /\ T \ {c} \in SUBSET S
    BY <1>2, <1>5, <1>6
  <2>2. QED
    BY <1>2, <2>1, Zenon
<1>9. Sum(T \ {y}) = f[c] + Sum((T \ {y}) \ {c})
  <2>1. T \ {y} \in SUBSET T /\ T \ {y} # T /\ c \in T \ {y} /\ T \ {y} \in SUBSET S
    BY <1>2, <1>5, <1>6
  <2>2. QED
    BY <1>2, <2>1, Zenon
<1>10. (T \ {y}) \ {c} = (T \ {c}) \ {y} /\ Sum((T \ {c}) \ {y}) \in Int
  BY <1>4
<1>11. Sum(T \ {y}) = f[c] + Sum((T \ {c}) \ {y})
  BY <1>9, <1>10, Zenon
<1>12. PICK n \in Int : n = Sum((T \ {c}) \ {y})
  BY <1>10, Zenon
<1>13. Sum(T) = f[c] + (f[y] + n) /\ f[y] + Sum(T \ {y}) = f[y] + (f[c] + n)
  BY <1>5, <1>8, <1>11, <1>12, Zenon
<1>14. f[c] + (f[y] + n) = f[y] + (f[c] + n)
  BY <1>7
<1>15. QED
  BY <1>3, <1>13, <1>14, Zenon

\* The sum depends on the function on the set only.
LEMMA SumSame ==
  ASSUME NEW f, NEW g, NEW S, IsFiniteSet(S), \A x \in S : f[x] = g[x]
  PROVE  SumFunctionOnSet(f, S) = SumFunctionOnSet(g, S)
<1> DEFINE Bad == {T \in SUBSET S : SumFunctionOnSet(f, T) # SumFunctionOnSet(g, T)}
<1>0. Bad \in SUBSET (SUBSET S)
  OBVIOUS
<1>1. SUFFICES ASSUME Bad # {} PROVE FALSE
  <2>1. S \in Bad \/ SumFunctionOnSet(f, S) = SumFunctionOnSet(g, S)
    BY Zenon
  <2>2. QED
    BY <2>1, Zenon
<1>2. PICK T \in Bad : \A U \in SUBSET T : U # T => U \notin Bad
  <2> HIDE DEF Bad
  <2>1. QED
    BY <1>0, <1>1, Smallest, Zenon
<1>3. T \in SUBSET S /\ IsFiniteSet(T) /\ SumFunctionOnSet(f, T) # SumFunctionOnSet(g, T)
  BY <1>2, FS_Subset, Zenon
<1>4. T # {}
  BY <1>3, SumEmpty
<1> DEFINE D == T \ {Pick(T)}
<1>5. Pick(T) \in T /\ D \in SUBSET T /\ D # T
  BY <1>4, PickIn
<1>6. SumFunctionOnSet(f, D) = SumFunctionOnSet(g, D) /\ f[Pick(T)] = g[Pick(T)]
  BY <1>2, <1>3, <1>5
<1>7. /\ SumFunctionOnSet(f, T) = f[Pick(T)] + SumFunctionOnSet(f, D)
      /\ SumFunctionOnSet(g, T) = g[Pick(T)] + SumFunctionOnSet(g, D)
  BY <1>3, <1>4, SumPicks, Zenon
<1>8. QED
  BY <1>3, <1>6, <1>7, Zenon

\* A sum of natural numbers is one, and is no less than any of them.
LEMMA SumNat ==
  ASSUME NEW f, NEW S, IsFiniteSet(S), \A x \in S : f[x] \in Nat
  PROVE  /\ SumFunctionOnSet(f, S) \in Nat
         /\ \A x \in S : f[x] <= SumFunctionOnSet(f, S)
<1> DEFINE Sum(T) == SumFunctionOnSet(f, T)
           Bad == {T \in SUBSET S : Sum(T) \notin Nat}
<1>0. Bad \in SUBSET (SUBSET S)
  OBVIOUS
<1>1. Bad = {}
  <2>1. SUFFICES ASSUME Bad # {} PROVE FALSE
    OBVIOUS
  <2>2. PICK T \in Bad : \A U \in SUBSET T : U # T => U \notin Bad
    <3> HIDE DEF Bad
    <3>1. QED
      BY <1>0, <2>1, Smallest, Zenon
  <2>3. T \in SUBSET S /\ IsFiniteSet(T) /\ Sum(T) \notin Nat
    BY <2>2, FS_Subset, Zenon
  <2>4. T # {}
    BY <2>3, SumEmpty
  <2> DEFINE D == T \ {Pick(T)}
  <2>5. Pick(T) \in T /\ D \in SUBSET T /\ D # T
    BY <2>4, PickIn
  <2>6. Sum(D) \in Nat /\ f[Pick(T)] \in Nat
    BY <2>2, <2>3, <2>5
  <2>7. Sum(T) = f[Pick(T)] + Sum(D)
    BY <2>3, <2>4, SumPicks, Zenon
  <2> HIDE DEF Sum
  <2>8. QED
    BY <2>3, <2>6, <2>7
<1>2. \A T \in SUBSET S : Sum(T) \in Nat
  BY <1>1
<1>3. ASSUME NEW x \in S PROVE f[x] <= Sum(S)
  <2>1. \A y \in S : f[y] \in Int
    OBVIOUS
  <2>2. Sum(S) = f[x] + Sum(S \ {x})
    BY <2>1, SumTake, Zenon
  <2>3. Sum(S \ {x}) \in Nat /\ f[x] \in Nat
    <3>1. S \ {x} \in SUBSET S
      OBVIOUS
    <3>2. QED
      BY <3>1, <1>2
  <2> HIDE DEF Sum
  <2>4. QED
    BY <2>2, <2>3
<1>4. QED
  BY <1>2, <1>3, Zenon

\* An element more.
LEMMA SumAdd ==
  ASSUME NEW f, NEW S, IsFiniteSet(S), NEW x, x \notin S, \A y \in S \cup {x} : f[y] \in Int
  PROVE  SumFunctionOnSet(f, S \cup {x}) = SumFunctionOnSet(f, S) + f[x]
<1>1. PICK T : T = S \cup {x}
  OBVIOUS
<1>2. IsFiniteSet(T) /\ x \in T /\ T \ {x} = S /\ \A y \in T : f[y] \in Int
  BY <1>1, FS_AddElement
<1>3. SumFunctionOnSet(f, T) = f[x] + SumFunctionOnSet(f, S)
  BY <1>2, SumTake
<1>4. SumFunctionOnSet(f, S) \in Int /\ f[x] \in Int
  BY SumInt
<1>5. QED
  BY <1>1, <1>3, <1>4

\* The summand of x in the sum of f over T.
Part(f, T, x) == IF x \in T THEN f[x] ELSE 0

\* A sum without the summand of t.
LEMMA SumSplit ==
  ASSUME NEW f, NEW T, IsFiniteSet(T), \A x \in T : f[x] \in Int, NEW t
  PROVE  /\ SumFunctionOnSet(f, T) = Part(f, T, t) + SumFunctionOnSet(f, T \ {t})
         /\ SumFunctionOnSet(f, T \ {t}) \in Int /\ Part(f, T, t) \in Int
<1>1. IsFiniteSet(T \ {t}) /\ \A x \in T \ {t} : f[x] \in Int
  BY FS_RemoveElement
<1>2. SumFunctionOnSet(f, T) \in Int /\ SumFunctionOnSet(f, T \ {t}) \in Int
  BY <1>1, SumInt, Zenon
<1>3. CASE t \in T
  <2>1. Part(f, T, t) = f[t] /\ f[t] \in Int
    BY <1>3 DEF Part
  <2>2. SumFunctionOnSet(f, T) = f[t] + SumFunctionOnSet(f, T \ {t})
    BY <1>3, SumTake
  <2>3. QED
    BY <1>2, <2>1, <2>2, Zenon
<1>4. CASE t \notin T
  <2>1. T \ {t} = T /\ Part(f, T, t) = 0
    BY <1>4 DEF Part
  <2>2. 0 + SumFunctionOnSet(f, T) = SumFunctionOnSet(f, T)
    BY <1>2
  <2>3. QED
    BY <1>2, <2>1, <2>2
<1>5. QED
  BY <1>3, <1>4

\* Two sums that differ at one element at most.
LEMMA SumChange ==
  ASSUME NEW T, IsFiniteSet(T), NEW f, \A x \in T : f[x] \in Int,
         NEW U, IsFiniteSet(U), NEW g, \A x \in U : g[x] \in Int,
         NEW t, T \ {t} = U \ {t}, \A x \in T \ {t} : f[x] = g[x]
  PROVE  /\ SumFunctionOnSet(g, U) =
              SumFunctionOnSet(f, T) - Part(f, T, t) + Part(g, U, t)
         /\ Part(f, T, t) \in Int /\ Part(g, U, t) \in Int
<1>1. /\ SumFunctionOnSet(f, T) = Part(f, T, t) + SumFunctionOnSet(f, T \ {t})
      /\ SumFunctionOnSet(f, T \ {t}) \in Int /\ Part(f, T, t) \in Int
  BY SumSplit, Zenon
<1>6. /\ SumFunctionOnSet(g, U) = Part(g, U, t) + SumFunctionOnSet(g, U \ {t})
      /\ Part(g, U, t) \in Int
  BY SumSplit
<1>2. SumFunctionOnSet(f, T \ {t}) = SumFunctionOnSet(g, T \ {t})
  <2>1. IsFiniteSet(T \ {t})
    BY FS_RemoveElement
  <2>2. QED
    BY <2>1, SumSame, Zenon
<1>3. PICK n \in Int : n = SumFunctionOnSet(f, T \ {t})
  BY <1>1, Zenon
<1>4. /\ SumFunctionOnSet(f, T) = Part(f, T, t) + n
      /\ SumFunctionOnSet(g, U) = Part(g, U, t) + n
  BY <1>1, <1>6, <1>2, <1>3, Zenon
<1>5. QED
  BY <1>1, <1>6, <1>4

\* A sum of nothing but zeros.
LEMMA SumZero ==
  ASSUME NEW f, NEW S, IsFiniteSet(S), \A x \in S : f[x] = 0
  PROVE  SumFunctionOnSet(f, S) = 0
<1> DEFINE Bad == {T \in SUBSET S : SumFunctionOnSet(f, T) # 0}
<1>0. Bad \in SUBSET (SUBSET S)
  OBVIOUS
<1>1. SUFFICES ASSUME Bad # {} PROVE FALSE
  <2>1. S \in SUBSET S
    OBVIOUS
  <2>2. QED
    BY <1>1, <2>1, Zenon
<1>2. PICK T \in Bad : \A U \in SUBSET T : U # T => U \notin Bad
  <2> HIDE DEF Bad
  <2>1. QED
    BY <1>0, <1>1, Smallest, Zenon
<1>3. T \in SUBSET S /\ IsFiniteSet(T) /\ SumFunctionOnSet(f, T) # 0
  BY <1>2, FS_Subset, Zenon
<1>4. T # {}
  BY <1>3, SumEmpty, Zenon
<1>5. PICK x : x = Pick(T)
  OBVIOUS
<1>6. x \in T
  BY <1>4, <1>5, PickIn, Zenon
<1>7. T \ {x} \in SUBSET T /\ T \ {x} # T /\ T \ {x} \in SUBSET S
  BY <1>3, <1>6
<1>8. SumFunctionOnSet(f, T \ {x}) = 0
  BY <1>2, <1>7, Zenon
<1>9. SumFunctionOnSet(f, T) = f[x] + SumFunctionOnSet(f, T \ {x})
  BY <1>3, <1>4, <1>5, SumPicks, Zenon
<1>10. f[x] = 0
  BY <1>3, <1>6
<1>11. SumFunctionOnSet(f, T) = 0 + 0
  BY <1>8, <1>9, <1>10, Zenon
<1>12. QED
  BY <1>3, <1>11
=============================================================================
