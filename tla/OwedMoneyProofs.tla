--------------------------- MODULE OwedMoneyProofs ---------------------------
(***************************************************************************)
(* What holds of the amounts of OwedLedger (allocated, linked, remaining), *)
(* of the labels a payment leaves, and of the history OwedReplay rebuilds  *)
(* from the log, for every set of people, transactions and ids and every   *)
(* bound on amounts and dates; and then of TransactionLinks: the ledger    *)
(* invariant survives the commands that write transactions and owed rows   *)
(* together, no link dangles, and a deletion takes along what its preview  *)
(* showed.                                                                 *)
(***************************************************************************)
EXTENDS TransactionLinks, OwedReplay, OwedLedgerProofs, Functions, FiniteSetTheorems,
        WellFoundedInduction, TLAPS

-----------------------------------------------------------------------------
(* Sums                                                                    *)
(*                                                                         *)
(* The sum of the values of an integer function over a finite set is an    *)
(* integer, any element may be taken out first, and it depends on the      *)
(* values alone.  A recursive function is defined by CHOOSE, so its        *)
(* defining equation has to be proved.  The induction principles of the    *)
(* library take a predicate as a parameter; here a predicate on the        *)
(* subsets of S is the set of those that satisfy it.                       *)

\* Of some subsets of a finite set, one has no other below it.
LEMMA LeastSubset ==
    ASSUME NEW S, IsFiniteSet(S), NEW Bad \in SUBSET SUBSET S, Bad # {}
    PROVE  \E T \in Bad : \A U \in Bad : U \subseteq T => U = T
<1>1. IsWellFoundedOn(StrictSubsetOrdering(S), SUBSET S)
  BY FS_StrictSubsetOrderingWellFounded, FS_FiniteSubsetsOfFinite
<1>2. PICK T \in Bad : \A U \in Bad : ~(<<U, T>> \in StrictSubsetOrdering(S))
  BY <1>1, WFMin, Zenon
<1>3. QED
  BY <1>2 DEF StrictSubsetOrdering

\* A set of subsets of a finite set S that holds the empty set, and whenever it
\* holds T without some x of S, T with x too, holds S.
THEOREM SubsetInduction ==
    ASSUME NEW S, IsFiniteSet(S), NEW G, {} \in G,
           \A T \in SUBSET S : \A x \in S \ T : T \in G => T \cup {x} \in G
    PROVE  S \in G
<1> DEFINE Bad == {T \in SUBSET S : T \notin G}
<1> SUFFICES ASSUME Bad # {} PROVE FALSE
  OBVIOUS
<1>1. PICK T \in Bad : \A U \in Bad : U \subseteq T => U = T
  <2>1. Bad \in SUBSET SUBSET S
    OBVIOUS
  <2> HIDE DEF Bad
  <2>2. QED
    BY <2>1, LeastSubset
<1>2. PICK x \in T : TRUE
  OBVIOUS
<1>3. T \ {x} \in SUBSET S /\ x \in S \ (T \ {x}) /\ (T \ {x}) \cup {x} = T
  OBVIOUS
<1>4. T \ {x} \in G
  BY <1>1, <1>3
<1>5. QED
  BY <1>3, <1>4

-----------------------------------------------------------------------------
(* The defining equation of the sum                                        *)

Element(s) == CHOOSE x \in s : TRUE

\* g gives every subset of S the sum of f over it.
Sums(f, S, g) ==
    /\ g \in [SUBSET S -> Int]
    /\ \A s \in SUBSET S :
          g[s] = IF s = {} THEN 0 ELSE f[Element(s)] + g[s \ {Element(s)}]

\* Two such functions agree where both are defined.
LEMMA SumsUnique ==
    ASSUME NEW f, NEW S, NEW T, IsFiniteSet(S), S \subseteq T,
           NEW g, NEW h, Sums(f, S, g), Sums(f, T, h)
    PROVE  \A s \in SUBSET S : g[s] = h[s]
<1> DEFINE Bad == {s \in SUBSET S : g[s] # h[s]}
<1> SUFFICES ASSUME Bad # {} PROVE FALSE
  OBVIOUS
<1>1. PICK s \in Bad : \A u \in Bad : u \subseteq s => u = s
  <2>1. Bad \in SUBSET SUBSET S
    OBVIOUS
  <2> HIDE DEF Bad
  <2>2. QED
    BY <2>1, LeastSubset
<1>2. s # {} /\ s \in SUBSET T
  BY DEF Sums
<1>3. Element(s) \in s
  BY <1>2 DEF Element
<1>4. s \ {Element(s)} \in SUBSET S /\ s \ {Element(s)} \notin Bad
  BY <1>1, <1>3
<1>5. g[s \ {Element(s)}] = h[s \ {Element(s)}]
  BY <1>4
<1>6. QED
  BY <1>2, <1>5 DEF Sums

\* There is one: were T a least set without, the sums of its strict subsets
\* would make one for it.
LEMMA SumsExist ==
    ASSUME NEW S, IsFiniteSet(S), NEW f, \A x \in S : f[x] \in Int
    PROVE  \E g : Sums(f, S, g)
<1> DEFINE Bad == {T \in SUBSET S : ~ \E g : Sums(f, T, g)}
<1> SUFFICES ASSUME Bad # {} PROVE FALSE
  OBVIOUS
<1>1. PICK T \in Bad : \A U \in Bad : U \subseteq T => U = T
  <2>1. Bad \in SUBSET SUBSET S
    OBVIOUS
  <2> HIDE DEF Bad
  <2>2. QED
    BY <2>1, LeastSubset
<1> DEFINE Of(U) == CHOOSE g : Sums(f, U, g)
           Rest(s) == s \ {Element(s)}
           h == [s \in SUBSET T |-> IF s = {} THEN 0
                                    ELSE f[Element(s)] + Of(Rest(s))[Rest(s)]]
<1>2. ASSUME NEW s \in SUBSET T, s # {}
      PROVE  /\ Element(s) \in s /\ f[Element(s)] \in Int
             /\ Rest(s) \in SUBSET T /\ Rest(s) # T
  BY <1>2 DEF Element
<1>3. ASSUME NEW U \in SUBSET T, U # T
      PROVE  Sums(f, U, Of(U))
  <2>1. U \notin Bad
    BY <1>1, <1>3
  <2>2. QED
    BY <2>1
<1>4. ASSUME NEW v \in SUBSET T, v # T
      PROVE  h[v] = Of(v)[v]
  <2>1. Sums(f, v, Of(v))
    BY <1>3, <1>4
  <2>2. CASE v = {}
    BY <2>1, <2>2 DEF Sums
  <2>3. CASE v # {}
    <3>1. Sums(f, Rest(v), Of(Rest(v)))
      BY <1>2, <1>3, <2>3
    <3>2. Rest(v) \subseteq v /\ IsFiniteSet(Rest(v))
      BY FS_Subset
    <3> HIDE DEF Of, Rest
    <3>3. Of(Rest(v))[Rest(v)] = Of(v)[Rest(v)]
      BY <2>1, <3>1, <3>2, SumsUnique
    <3>4. Of(v)[v] = f[Element(v)] + Of(v)[Rest(v)]
      BY <2>1, <2>3 DEF Sums, Rest
    <3>5. QED
      BY <2>3, <3>3, <3>4
  <2>4. QED
    BY <2>2, <2>3
<1>5. ASSUME NEW s \in SUBSET T, s # {}
      PROVE  /\ h[s] = f[Element(s)] + h[Rest(s)]
             /\ h[s] \in Int
  <2>1. h[Rest(s)] = Of(Rest(s))[Rest(s)]
    BY <1>2, <1>4, <1>5
  <2>2. Of(Rest(s))[Rest(s)] \in Int
    <3>1. Sums(f, Rest(s), Of(Rest(s)))
      BY <1>2, <1>3, <1>5
    <3> HIDE DEF Of, Rest
    <3>2. QED
      BY <3>1 DEF Sums
  <2>3. QED
    BY <1>2, <1>5, <2>1, <2>2
<1>6. Sums(f, T, h)
  <2>1. h \in [SUBSET T -> Int]
    <3>1. ASSUME NEW s \in SUBSET T PROVE h[s] \in Int
      <4>1. CASE s = {}
        BY <4>1
      <4>2. CASE s # {}
        BY <1>5, <4>2
      <4>3. QED
        BY <4>1, <4>2
    <3>2. h = [s \in SUBSET T |-> h[s]]
      OBVIOUS
    <3> HIDE DEF h
    <3>3. QED
      BY <3>1, <3>2
  <2>2. h[{}] = 0
    OBVIOUS
  <2> HIDE DEF h
  <2>3. QED
    BY <1>5, <2>1, <2>2 DEF Sums
<1>7. QED
  BY <1>1, <1>6

\* The sum of f over S is what such a function gives S.
LEMMA SumIs ==
    ASSUME NEW S, IsFiniteSet(S), NEW f, \A x \in S : f[x] \in Int,
           NEW g, Sums(f, S, g)
    PROVE  SumFunctionOnSet(f, S) = g[S]
<1> DEFINE Body(h) == [s \in SUBSET S |->
                          IF s = {} THEN 0
                          ELSE LET x == CHOOSE x \in s : TRUE IN f[x] + h[s \ {x}]]
           iter == CHOOSE h : h = Body(h)
<1>1. SumFunctionOnSet(f, S) = iter[S]
  BY DEF SumFunctionOnSet, FoldFunctionOnSet, MapThenFoldSet
<1>2. g = Body(g)
  BY DEF Sums, Element
<1>3. iter = Body(iter)
  <2> HIDE DEF Body
  <2>1. QED
    BY <1>2
<1>4. ASSUME NEW s \in SUBSET S
      PROVE  iter[s] = IF s = {} THEN 0 ELSE f[Element(s)] + iter[s \ {Element(s)}]
  BY <1>3 DEF Element
<1> HIDE DEF iter
<1>5. \A s \in SUBSET S : iter[s] = g[s]
  <2> DEFINE Bad == {s \in SUBSET S : iter[s] # g[s]}
  <2> SUFFICES ASSUME Bad # {} PROVE FALSE
    OBVIOUS
  <2>1. PICK s \in Bad : \A u \in Bad : u \subseteq s => u = s
    <3>1. Bad \in SUBSET SUBSET S
      OBVIOUS
    <3> HIDE DEF Bad
    <3>2. QED
      BY <3>1, LeastSubset
  <2>2. s # {}
    BY <1>4 DEF Sums
  <2>3. Element(s) \in s
    BY <2>2 DEF Element
  <2>4. s \ {Element(s)} \in SUBSET S /\ s \ {Element(s)} \notin Bad
    BY <2>1, <2>3
  <2>5. QED
    BY <1>4, <2>2, <2>4 DEF Sums
<1>6. QED
  BY <1>1, <1>5

-----------------------------------------------------------------------------
(* What the models need of sums                                            *)

\* The sum is an integer; it is zero over the empty set, and any element may
\* be taken out first.
LEMMA SumUnfold ==
    ASSUME NEW S, IsFiniteSet(S), NEW f, \A x \in S : f[x] \in Int
    PROVE  /\ SumFunctionOnSet(f, S) \in Int
           /\ S = {} => SumFunctionOnSet(f, S) = 0
           /\ \A x \in S : SumFunctionOnSet(f, S) = f[x] + SumFunctionOnSet(f, S \ {x})
<1>1. PICK g : Sums(f, S, g)
  BY SumsExist
<1>2. ASSUME NEW T \in SUBSET S
      PROVE  SumFunctionOnSet(f, T) = g[T] /\ g[T] \in Int
  <2>1. IsFiniteSet(T) /\ \A x \in T : f[x] \in Int
    BY FS_Subset
  <2>2. PICK h : Sums(f, T, h)
    BY <2>1, SumsExist
  <2>3. SumFunctionOnSet(f, T) = h[T]
    BY <2>1, <2>2, SumIs
  <2>4. \A s \in SUBSET T : h[s] = g[s]
    <3>1. T \subseteq S /\ IsFiniteSet(T)
      BY <2>1
    <3>2. Sums(f, T, h) /\ Sums(f, S, g)
      BY <1>1, <2>2
    <3>3. QED
      BY <3>1, <3>2, SumsUnique
  <2>5. QED
    BY <1>1, <2>3, <2>4 DEF Sums
<1>3. S = {} => g[S] = 0
  BY <1>1 DEF Sums
<1> DEFINE Bad == {T \in SUBSET S : \E x \in T : g[T] # f[x] + g[T \ {x}]}
<1>4. Bad = {}
  <2> SUFFICES ASSUME Bad # {} PROVE FALSE
    OBVIOUS
  <2>1. PICK T \in Bad : \A U \in Bad : U \subseteq T => U = T
    <3>1. Bad \in SUBSET SUBSET S
      OBVIOUS
    <3> HIDE DEF Bad
    <3>2. QED
      BY <3>1, LeastSubset
  <2>2. PICK x \in T : g[T] # f[x] + g[T \ {x}]
    OBVIOUS
  <2> DEFINE y == Element(T)
  <2>3. y \in T
    BY DEF Element
  <2>4. g[T] = f[y] + g[T \ {y}]
    BY <1>1 DEF Sums
  <2>5. x # y
    BY <2>2, <2>4
  <2> HIDE DEF y
  <2>6. T \ {y} \in SUBSET S /\ T \ {y} \notin Bad
    BY <2>1, <2>3
  <2>7. T \ {x} \in SUBSET S /\ T \ {x} \notin Bad
    BY <2>1, <2>2
  <2>8. g[T \ {y}] = f[x] + g[(T \ {y}) \ {x}]
    BY <2>5, <2>6
  <2>9. g[T \ {x}] = f[y] + g[(T \ {x}) \ {y}]
    BY <2>3, <2>5, <2>7
  <2>10. (T \ {y}) \ {x} = (T \ {x}) \ {y} /\ (T \ {x}) \ {y} \in SUBSET S
    OBVIOUS
  <2>11. f[x] \in Int /\ f[y] \in Int /\ g[(T \ {x}) \ {y}] \in Int
    BY <1>2, <2>3, <2>10
  <2>12. g[T] = f[y] + (f[x] + g[(T \ {x}) \ {y}])
    BY <2>4, <2>8, <2>10
  <2>13. g[T] # f[x] + (f[y] + g[(T \ {x}) \ {y}])
    BY <2>2, <2>9
  <2> DEFINE r == g[(T \ {x}) \ {y}]
  <2>14. r \in Int /\ g[T] = f[y] + (f[x] + r) /\ g[T] # f[x] + (f[y] + r)
    BY <2>11, <2>12, <2>13
  <2> HIDE DEF r
  <2>15. QED
    BY <2>11, <2>14
<1>5. ASSUME NEW x \in S
      PROVE  SumFunctionOnSet(f, S) = f[x] + SumFunctionOnSet(f, S \ {x})
  <2>1. g[S] = f[x] + g[S \ {x}]
    BY <1>4
  <2>2. QED
    BY <1>2, <2>1
<1>6. QED
  BY <1>2, <1>3, <1>5

\* Values at most those of another function sum to at most its sum.
THEOREM SumMonotone ==
    ASSUME NEW S, IsFiniteSet(S), NEW f, NEW g,
           \A x \in S : f[x] \in Int /\ g[x] \in Int /\ f[x] <= g[x]
    PROVE  SumFunctionOnSet(f, S) <= SumFunctionOnSet(g, S)
<1> DEFINE G == {T \in SUBSET S : SumFunctionOnSet(f, T) <= SumFunctionOnSet(g, T)}
<1>1. \A T \in SUBSET S : IsFiniteSet(T)
  BY FS_Subset
<1>2. {} \in G
  BY <1>1, SumUnfold
<1>3. ASSUME NEW T \in SUBSET S, NEW x \in S \ T, T \in G
      PROVE  T \cup {x} \in G
  <2> DEFINE U == T \cup {x}
  <2>1. U \in SUBSET S /\ x \in U /\ U \ {x} = T
    OBVIOUS
  <2> HIDE DEF U
  <2>2. /\ SumFunctionOnSet(f, U) = f[x] + SumFunctionOnSet(f, T)
        /\ SumFunctionOnSet(g, U) = g[x] + SumFunctionOnSet(g, T)
    BY <1>1, <2>1, SumUnfold
  <2>3. SumFunctionOnSet(f, T) \in Int /\ SumFunctionOnSet(g, T) \in Int
    BY <1>1, SumUnfold
  <2>4. SumFunctionOnSet(f, U) <= SumFunctionOnSet(g, U)
    BY <1>3, <2>2, <2>3
  <2>5. QED
    BY <2>1, <2>4 DEF U
<1>4. S \in G
  <2> HIDE DEF G
  <2>1. QED
    BY <1>2, <1>3, SubsetInduction
<1>5. QED
  BY <1>4

\* Functions that agree on S have the same sum over it.
THEOREM SumCongruence ==
    ASSUME NEW S, IsFiniteSet(S), NEW f, NEW g,
           \A x \in S : f[x] \in Int /\ g[x] = f[x]
    PROVE  SumFunctionOnSet(g, S) = SumFunctionOnSet(f, S)
<1>1. /\ SumFunctionOnSet(f, S) <= SumFunctionOnSet(g, S)
      /\ SumFunctionOnSet(g, S) <= SumFunctionOnSet(f, S)
  BY SumMonotone
<1>2. SumFunctionOnSet(f, S) \in Int /\ SumFunctionOnSet(g, S) \in Int
  BY SumUnfold
<1>3. QED
  BY <1>1, <1>2

\* Without negative values, a part sums to at most the whole, and no sum is
\* negative.
THEOREM SumOfPart ==
    ASSUME NEW S, IsFiniteSet(S), NEW f, \A x \in S : f[x] \in Nat,
           NEW T \in SUBSET S
    PROVE  /\ 0 <= SumFunctionOnSet(f, T)
           /\ SumFunctionOnSet(f, T) <= SumFunctionOnSet(f, S)
<1> DEFINE Sum(U) == SumFunctionOnSet(f, U)
           G == {U \in SUBSET S : Sum(U \cap T) <= Sum(U) /\ 0 <= Sum(U \cap T)}
<1>1. \A U \in SUBSET S : IsFiniteSet(U)
  BY FS_Subset
<1>2. \A x \in S : f[x] \in Int
  OBVIOUS
<1>3. {} \in G
  <2>1. {} \cap T = {}
    OBVIOUS
  <2>2. Sum({}) = 0
    BY <1>1, SumUnfold
  <2>3. QED
    BY <2>1, <2>2
<1>4. \A U \in SUBSET S : Sum(U) \in Int /\ \A x \in U : Sum(U) = f[x] + Sum(U \ {x})
  BY <1>1, <1>2, SumUnfold
<1> HIDE DEF Sum
<1>5. ASSUME NEW U \in SUBSET S, NEW x \in S \ U, U \in G
      PROVE  U \cup {x} \in G
  <2> DEFINE V == U \cup {x}
  <2>1. V \in SUBSET S /\ x \in V /\ V \ {x} = U
    OBVIOUS
  <2>2. Sum(V) = f[x] + Sum(U) /\ Sum(U) \in Int
    BY <1>4, <2>1
  <2>3. CASE x \in T
    <3>1. V \cap T \in SUBSET S /\ x \in V \cap T /\ (V \cap T) \ {x} = U \cap T
      BY <2>3
    <3>2. Sum(V \cap T) = f[x] + Sum(U \cap T) /\ Sum(U \cap T) \in Int
      BY <1>4, <3>1
    <3>3. QED
      BY <1>5, <2>1, <2>2, <3>2
  <2>4. CASE x \notin T
    <3>1. V \cap T = U \cap T
      BY <2>4
    <3>2. Sum(U \cap T) \in Int
      BY <1>4
    <3>3. QED
      BY <1>5, <2>1, <2>2, <3>1, <3>2
  <2>5. QED
    BY <2>3, <2>4
<1>6. S \in G
  <2> HIDE DEF G
  <2>1. QED
    BY <1>3, <1>5, SubsetInduction
<1>7. S \cap T = T
  OBVIOUS
<1>8. QED
  BY <1>6, <1>7 DEF Sum

\* Without negative values, no value exceeds the sum.
THEOREM SumOfOne ==
    ASSUME NEW S, IsFiniteSet(S), NEW f, \A x \in S : f[x] \in Nat, NEW x \in S
    PROVE  f[x] <= SumFunctionOnSet(f, S)
<1>1. IsFiniteSet(S \ {x}) /\ \A y \in S : f[y] \in Int
  BY FS_Subset
<1>2. SumFunctionOnSet(f, S) = f[x] + SumFunctionOnSet(f, S \ {x})
  BY <1>1, SumUnfold
<1>3. SumFunctionOnSet(f, S \ {x}) \in Int /\ 0 <= SumFunctionOnSet(f, S \ {x})
  BY <1>1, SumUnfold, SumOfPart, S \ {x} \in SUBSET S
<1>4. QED
  BY <1>2, <1>3

\* Zeros sum to zero.
THEOREM SumOfZeros ==
    ASSUME NEW S, IsFiniteSet(S), NEW f, \A x \in S : f[x] = 0
    PROVE  SumFunctionOnSet(f, S) = 0
<1> DEFINE G == {T \in SUBSET S : SumFunctionOnSet(f, T) = 0}
<1>1. \A T \in SUBSET S : IsFiniteSet(T)
  BY FS_Subset
<1>2. {} \in G
  BY <1>1, SumUnfold
<1>3. ASSUME NEW T \in SUBSET S, NEW x \in S \ T, T \in G
      PROVE  T \cup {x} \in G
  <2> DEFINE U == T \cup {x}
  <2>1. U \in SUBSET S /\ x \in U /\ U \ {x} = T
    OBVIOUS
  <2> HIDE DEF U
  <2>2. SumFunctionOnSet(f, U) = f[x] + SumFunctionOnSet(f, T)
    BY <1>1, <2>1, SumUnfold, \A y \in S : f[y] \in Int
  <2>3. QED
    BY <1>3, <2>1, <2>2 DEF U
<1>4. S \in G
  <2> HIDE DEF G
  <2>1. QED
    BY <1>2, <1>3, SubsetInduction
<1>5. QED
  BY <1>4

\* Changing one value changes the sum by as much.
THEOREM SumOfChange ==
    ASSUME NEW S, IsFiniteSet(S), NEW f, NEW g, NEW x \in S,
           \A y \in S : f[y] \in Int /\ g[y] \in Int,
           \A y \in S \ {x} : g[y] = f[y]
    PROVE  SumFunctionOnSet(g, S) - SumFunctionOnSet(f, S) = g[x] - f[x]
<1>1. IsFiniteSet(S \ {x})
  BY FS_Subset
<1>2. SumFunctionOnSet(g, S \ {x}) = SumFunctionOnSet(f, S \ {x})
  BY <1>1, SumCongruence
<1>3. /\ SumFunctionOnSet(f, S) = f[x] + SumFunctionOnSet(f, S \ {x})
      /\ SumFunctionOnSet(g, S) = g[x] + SumFunctionOnSet(g, S \ {x})
      /\ SumFunctionOnSet(f, S \ {x}) \in Int
  BY <1>1, SumUnfold
<1>4. f[x] \in Int /\ g[x] \in Int
  OBVIOUS
<1>5. QED
  BY <1>2, <1>3, <1>4

\* One element more adds its value to the sum.
THEOREM SumOfOneMore ==
    ASSUME NEW S, IsFiniteSet(S), NEW p, p \notin S, NEW f, NEW g,
           \A q \in S : f[q] \in Int /\ g[q] = f[q], g[p] \in Int
    PROVE  SumFunctionOnSet(g, S \cup {p}) = SumFunctionOnSet(f, S) + g[p]
<1> DEFINE T == S \cup {p}
<1>1. IsFiniteSet(T) /\ p \in T /\ T \ {p} = S /\ \A q \in T : g[q] \in Int
  BY FS_AddElement
<1> HIDE DEF T
<1>2. SumFunctionOnSet(g, T) = g[p] + SumFunctionOnSet(g, S)
  BY <1>1, SumUnfold
<1>3. SumFunctionOnSet(g, S) = SumFunctionOnSet(f, S) /\ SumFunctionOnSet(f, S) \in Int
  BY SumCongruence, SumUnfold
<1>4. QED
  BY <1>2, <1>3 DEF T

\* What is kept of some natural numbers sums to at most what they summed to.
THEOREM SumOfKept ==
    ASSUME NEW S, IsFiniteSet(S), NEW f, \A x \in S : f[x] \in Nat,
           NEW T, T \subseteq S, NEW g, \A x \in T : g[x] = f[x]
    PROVE  SumFunctionOnSet(g, T) <= SumFunctionOnSet(f, S)
<1>1. T \in SUBSET S /\ IsFiniteSet(T) /\ \A x \in T : f[x] \in Int /\ g[x] = f[x]
  BY FS_Subset
<1>2. SumFunctionOnSet(g, T) = SumFunctionOnSet(f, T)
  BY <1>1, SumCongruence
<1>3. SumFunctionOnSet(f, T) <= SumFunctionOnSet(f, S)
  BY <1>1, SumOfPart
<1>4. QED
  BY <1>2, <1>3

\* Elements whose value is zero may be left out of a sum.
THEOREM SumOfSupport ==
    ASSUME NEW S, IsFiniteSet(S), NEW f, \A x \in S : f[x] \in Int,
           NEW Q, Q \subseteq S, \A x \in S \ Q : f[x] = 0
    PROVE  SumFunctionOnSet(f, S) = SumFunctionOnSet(f, Q)
<1> DEFINE Sum(U) == SumFunctionOnSet(f, U)
           G == {T \in SUBSET S : Sum(T) = Sum(T \cap Q)}
<1>1. \A T \in SUBSET S : IsFiniteSet(T)
  BY FS_Subset
<1>2. ASSUME NEW T \in SUBSET S
      PROVE  /\ Sum(T) \in Int
             /\ \A x \in T : Sum(T) = f[x] + Sum(T \ {x})
  <2>1. IsFiniteSet(T) /\ \A x \in T : f[x] \in Int
    BY <1>1
  <2>2. QED
    BY <2>1, SumUnfold
<1> HIDE DEF Sum
<1>3. {} \in G
  <2>1. {} \cap Q = {} /\ {} \in SUBSET S
    OBVIOUS
  <2>2. QED
    BY <2>1
<1>4. ASSUME NEW T \in SUBSET S, NEW x \in S \ T, T \in G
      PROVE  T \cup {x} \in G
  <2> DEFINE U == T \cup {x}
  <2>1. /\ U \in SUBSET S /\ x \in U /\ U \ {x} = T
        /\ T \cap Q \in SUBSET S /\ U \cap Q \in SUBSET S
    BY <1>4
  <2>2. Sum(T) = Sum(T \cap Q)
    BY <1>4
  <2>3. Sum(U) = f[x] + Sum(T)
    BY <1>2, <2>1
  <2>4. ASSUME x \in Q PROVE Sum(U \cap Q) = f[x] + Sum(T \cap Q)
    <3>1. x \in U \cap Q /\ (U \cap Q) \ {x} = T \cap Q
      BY <2>4, <1>4
    <3>2. QED
      BY <1>2, <2>1, <3>1
  <2>5. ASSUME x \notin Q PROVE Sum(U \cap Q) = Sum(T \cap Q) /\ f[x] = 0
    <3>1. U \cap Q = T \cap Q /\ f[x] = 0
      BY <2>5
    <3>2. QED
      BY <3>1
  <2>6. Sum(T) \in Int /\ Sum(T \cap Q) \in Int /\ f[x] \in Int
    BY <1>2, <2>1
  <2> HIDE DEF U
  <2>7. Sum(U) = Sum(U \cap Q)
    BY <2>2, <2>3, <2>4, <2>5, <2>6
  <2>8. QED
    BY <2>1, <2>7 DEF U
<1>5. S \in G
  <2> HIDE DEF G
  <2>1. QED
    BY <1>3, <1>4, SubsetInduction
<1>6. S \cap Q = Q
  OBVIOUS
<1>7. QED
  BY <1>5, <1>6 DEF Sum

-----------------------------------------------------------------------------
(* The automatic repayment                                                 *)

\* An open item has something left to pay.
OpenMeansOwing ==
    \A i \in DOMAIN items : items[i].status \in OpenStatuses => items[i].remaining # 0

\* The status computed from the amounts is open only if something remains.
LEMMA StatusOpen ==
    ASSUME NEW paid, NEW remaining, Status(paid, remaining) \in OpenStatuses
    PROVE  remaining # 0
BY DEF Status, OpenStatuses

\* Moving the amount paid of an item computes its status anew.
LEMMA AdjustedOpen ==
    ASSUME NEW item \in Item, NEW delta,
           Adjusted(item, delta).status \in OpenStatuses
    PROVE  Adjusted(item, delta).remaining # 0
<1> DEFINE paid == item.paid + delta
           remaining == item.total - paid
<1>1. Adjusted(item, delta) =
          [item EXCEPT !.paid = paid, !.remaining = remaining,
                       !.status = Status(paid, remaining), !.updated = today]
  BY DEF Adjusted
<1> HIDE DEF paid, remaining
<1>2. /\ Adjusted(item, delta).status = Status(paid, remaining)
      /\ Adjusted(item, delta).remaining = remaining
  BY <1>1 DEF Item
<1>3. QED
  BY <1>2, StatusOpen

\* When no request sends an open status, every step keeps open items owing.
LEMMA StepKeepsOwing ==
    ASSUME SentStatuses \cap OpenStatuses = {},
           LedgerInv, OpenMeansOwing, [Next]_vars
    PROVE  OpenMeansOwing'
<1> DEFINE Owing(row) == row.status \in OpenStatuses => row.remaining # 0
<1> SUFFICES ASSUME NEW i \in DOMAIN items'
             PROVE  Owing(items'[i])
  BY DEF OpenMeansOwing
<1>1. \A j \in DOMAIN items : items[j] \in Item /\ Owing(items[j])
  BY DEF LedgerInv, TypeOK, OpenMeansOwing
<1>2. CASE items' = items
  BY <1>1, <1>2
<1>3. ASSUME NEW asked \in Labels, NEW total \in Amounts, NEW paid \in 0..MaxAmount,
             NEW link \in TxIds \cup {None}, NEW due \in Dates \cup {None},
             CreateItem(asked, total, paid, link, due)
      PROVE  Owing(items'[i])
  <2>1. PICK j \in ItemIds \ DOMAIN items, label \in Labels :
           items' = [k \in DOMAIN items \cup {j} |->
                        IF k = j THEN NewItem(label, total, paid, link) ELSE items[k]]
    BY <1>3 DEF CreateItem
  <2>2. Owing(NewItem(label, total, paid, link))
    BY StatusOpen DEF NewItem
  <2>3. QED
    BY <1>1, <2>1, <2>2
<1>4. ASSUME NEW j \in ItemIds, NEW asked \in Labels, NEW total \in Amounts,
             NEW paid \in 0..MaxAmount, NEW status \in SentStatuses \cup {None},
             NEW link \in TxIds \cup {None},
             UpdateItem(j, asked, total, paid, status, link)
      PROVE  Owing(items'[i])
  <2>1. PICK label \in Labels :
           items' = [items EXCEPT ![j] =
                        EditedItem(items[j], label, total, paid, status, link)]
    BY <1>4 DEF UpdateItem
  <2> DEFINE row == EditedItem(items[j], label, total, paid, status, link)
  <2>2. j \in DOMAIN items /\ items[j] \in Item
    BY <1>1, <1>4 DEF UpdateItem
  <2>3. /\ row.remaining = total - paid
        /\ row.status = IF status = None THEN Status(paid, total - paid) ELSE status
    BY <2>2 DEF EditedItem, Item
  <2>4. Owing(row)
    <3>1. CASE status = None
      BY <2>3, <3>1, StatusOpen
    <3>2. CASE status # None
      BY <2>3, <3>2
    <3>3. QED
      BY <3>1, <3>2
  <2> HIDE DEF row
  <2>5. items' = [items EXCEPT ![j] = row]
    BY <2>1 DEF row
  <2>6. QED
    BY <1>1, <2>4, <2>5
<1>5. ASSUME NEW j \in ItemIds, DeleteItem(j)
      PROVE  Owing(items'[i])
  BY <1>1, <1>5 DEF DeleteItem, Item
<1>6. ASSUME NEW label \in Labels, NEW amount, NEW link, NEW date, NEW alloc,
             Settle(label, amount, link, date, alloc)
      PROVE  Owing(items'[i])
  <2>1. i \in DOMAIN items /\ items'[i] = SettledItem(label, alloc, i)
    BY <1>6 DEF Settle
  <2>2. Owing(NormalisedItems(label)[i]) /\ NormalisedItems(label)[i] \in Item
    BY <1>1, <2>1, NormalisedShape
  <2>3. QED
    BY <2>1, <2>2, AdjustedOpen DEF SettledItem
<1>7. ASSUME NEW p \in PaymentIds, DeletePayment(p)
      PROVE  Owing(items'[i])
  <2>1. i \in DOMAIN items /\ items'[i] = ReversedItem(payments[p].alloc, i)
    BY <1>7 DEF DeletePayment
  <2>2. QED
    BY <1>1, <2>1, AdjustedOpen DEF ReversedItem
<1>8. ASSUME NEW from \in Labels, NEW to \in Labels, RenamePerson(from, to)
      PROVE  Owing(items'[i])
  BY <1>1, <1>8 DEF RenamePerson, Item
<1>9. CASE UNCHANGED vars \/ Tick \/ RepairLog
  BY <1>2, <1>9 DEF vars, Tick, RepairLog
<1>10. QED
  BY <1>3, <1>4, <1>5, <1>6, <1>7, <1>8, <1>9, Zenon
     DEF Next, OwedStep, RecordPayment, RecordAllocatedPayment

\* When no request to edit an item sends an open status, an automatic repayment
\* is never refused for its amount.
THEOREM AutomaticPaymentsAccepted ==
    ASSUME SentStatuses \cap OpenStatuses = {}
    PROVE  Spec => []AutomaticPaymentAccepted
<1>1. Init => OpenMeansOwing
  BY DEF Init, NoRows, OpenMeansOwing
<1>2. OpenMeansOwing /\ LedgerInv /\ [Next]_vars => OpenMeansOwing'
  BY StepKeepsOwing
<1>3. OpenMeansOwing => AutomaticPaymentAccepted
  BY DEF OpenMeansOwing, AutomaticPaymentAccepted, AutoAllocationFails, Queue
<1>4. QED
  BY <1>1, <1>2, <1>3, LedgerInvariant, PTL DEF Spec
-----------------------------------------------------------------------------
(* What a step may do to the repayments                                    *)

\* The repayments that stay keep their amount, link and allocations.
PaymentsKept(S) ==
    \A q \in S : /\ payments'[q].amount = payments[q].amount
                 /\ payments'[q].link = payments[q].link
                 /\ payments'[q].alloc = payments[q].alloc

\* A repayment is recorded.
Repays(p, label, amount, link, date, alloc) ==
    /\ p \notin DOMAIN payments
    /\ DOMAIN payments' = DOMAIN payments \cup {p}
    /\ PaymentsKept(DOMAIN payments)
    /\ payments'[p] = [person |-> label, amount |-> amount, link |-> link,
                       date |-> date, alloc |-> alloc]
    /\ items' = [i \in DOMAIN items |-> SettledItem(label, alloc, i)]

\* The repayments of a step that records none and takes none back.
SamePayments == DOMAIN payments' = DOMAIN payments /\ PaymentsKept(DOMAIN payments)

\* A payment settles items by adding one payment with its allocations.
LEMMA SettleRepays ==
    ASSUME LedgerInv, NEW label \in Labels, NEW amount, NEW link, NEW date, NEW alloc,
           Settle(label, amount, link, date, alloc)
    PROVE  \E p \in PaymentIds : Repays(p, label, amount, link, date, alloc)
<1>1. PICK p \in PaymentIds \ DOMAIN payments :
         /\ items' = [i \in DOMAIN items |-> SettledItem(label, alloc, i)]
         /\ payments' = [q \in DOMAIN payments \cup {p} |->
                            IF q = p
                            THEN [person |-> label, amount |-> amount, link |-> link,
                                  date |-> date, alloc |-> alloc]
                            ELSE NormalisedPayments(label)[q]]
  BY DEF Settle
<1>2. ASSUME NEW q \in DOMAIN payments
      PROVE  /\ payments'[q].amount = payments[q].amount
             /\ payments'[q].link = payments[q].link
             /\ payments'[q].alloc = payments[q].alloc
  <2>1. payments[q] \in Payment
    BY DEF LedgerInv, TypeOK
  <2>2. \/ payments'[q] = payments[q]
        \/ payments'[q] = [payments[q] EXCEPT !.person = label]
    BY <1>1 DEF NormalisedPayments
  <2>3. QED
    BY <2>1, <2>2 DEF Payment
<1>3. QED
  BY <1>1, <1>2 DEF Repays, PaymentsKept

\* A step records one repayment that its transaction has room for, takes one
\* back, or leaves them be.
LEMMA StepPayments ==
    ASSUME LedgerInv, [Next]_vars
    PROVE  \/ SamePayments
           \/ \E p \in PaymentIds, label \in Labels, amount \in Amounts,
                 link \in TxIds \cup {None}, date \in Dates, alloc \in Allocations :
                    /\ CanLinkPayment(link, amount)
                    /\ Repays(p, label, amount, link, date, alloc)
           \/ \E p \in PaymentIds : DeletePayment(p)
<1> DEFINE Recording ==
        \E p \in PaymentIds, label \in Labels, amount \in Amounts,
           link \in TxIds \cup {None}, date \in Dates, alloc \in Allocations :
              /\ CanLinkPayment(link, amount)
              /\ Repays(p, label, amount, link, date, alloc)
<1>1. payments' = payments => SamePayments
  BY DEF SamePayments, PaymentsKept
<1>2. ASSUME NEW asked \in Labels, NEW total \in Amounts, NEW paid \in 0..MaxAmount,
             NEW link \in TxIds \cup {None}, NEW due \in Dates \cup {None},
             CreateItem(asked, total, paid, link, due)
      PROVE  SamePayments
  BY <1>1, <1>2 DEF CreateItem
<1>3. ASSUME NEW j \in ItemIds, NEW asked \in Labels, NEW total \in Amounts,
             NEW paid \in 0..MaxAmount, NEW status \in SentStatuses \cup {None},
             NEW link \in TxIds \cup {None},
             UpdateItem(j, asked, total, paid, status, link)
      PROVE  SamePayments
  BY <1>1, <1>3 DEF UpdateItem
<1>4. ASSUME NEW j \in ItemIds, DeleteItem(j)
      PROVE  SamePayments
  BY <1>1, <1>4 DEF DeleteItem
<1>5. ASSUME NEW asked \in Labels, NEW amount \in Amounts,
             NEW link \in TxIds \cup {None}, NEW date \in Dates,
             NEW stop \in ItemIds \cup {None},
             RecordPayment(asked, amount, link, date, stop)
      PROVE  Recording
  <2>1. PICK label \in Labels :
          /\ CanLinkPayment(link, amount)
          /\ Allocatable(AutoAllocation(label, amount, stop), amount)
          /\ Settle(label, amount, link, date, AutoAllocation(label, amount, stop))
    BY <1>5 DEF RecordPayment
  <2>2. AutoAllocation(label, amount, stop) \in Allocations
    BY <2>1 DEF Allocatable
  <2>3. QED
    BY <2>1, <2>2, SettleRepays
<1>6. ASSUME NEW asked \in Labels, NEW amount \in Amounts,
             NEW link \in TxIds \cup {None}, NEW date \in Dates,
             NEW alloc \in Allocations,
             RecordAllocatedPayment(asked, amount, link, date, alloc)
      PROVE  Recording
  <2>1. PICK label \in Labels :
          CanLinkPayment(link, amount) /\ Settle(label, amount, link, date, alloc)
    BY <1>6 DEF RecordAllocatedPayment
  <2>2. QED
    BY <2>1, SettleRepays
<1>7. ASSUME NEW from \in Labels, NEW to \in Labels, RenamePerson(from, to)
      PROVE  SamePayments
  <2>1. \A q \in DOMAIN payments : payments[q] \in Payment
    BY DEF LedgerInv, TypeOK
  <2>2. payments' = [p \in DOMAIN payments |->
                        IF payments[p].person = from
                        THEN [payments[p] EXCEPT !.person = to]
                        ELSE payments[p]]
    BY <1>7 DEF RenamePerson
  <2>3. QED
    BY <2>1, <2>2 DEF SamePayments, PaymentsKept, Payment
<1>8. ASSUME UNCHANGED vars \/ Tick \/ RepairLog
      PROVE  SamePayments
  BY <1>1, <1>8 DEF vars, Tick, RepairLog
<1> DEFINE TakingBack == \E p \in PaymentIds : DeletePayment(p)
<1>9. ASSUME NEW p \in PaymentIds, DeletePayment(p)
      PROVE  TakingBack
  BY <1>9
<1> HIDE DEF Recording, TakingBack
<1>10. SamePayments \/ Recording \/ TakingBack
  <2>1. CASE OwedStep
    BY <1>2, <1>3, <1>4, <1>5, <1>6, <1>7, <1>8, <1>9, <2>1, Zenon DEF OwedStep
  <2>2. QED
    BY <1>8, <2>1 DEF Next
<1>11. QED
  BY <1>10 DEF Recording, TakingBack

-----------------------------------------------------------------------------
(* Money moves between repayments and items in equal amounts               *)

\* What repayments give item i are natural numbers, over a finite set.
AllocationsSum(i) ==
    /\ IsFiniteSet(DOMAIN payments)
    /\ \A p \in DOMAIN payments : payments[p].alloc[i] \in Nat
    /\ AllocatedTo(i) =
         SumFunctionOnSet([p \in DOMAIN payments |-> payments[p].alloc[i]],
                          DOMAIN payments)
    /\ AllocatedTo(i) \in Int

\* What the payments allocate to an item adds up to an integer.
LEMMA AllocationsTo == LedgerInv => \A i \in ItemIds : AllocationsSum(i)
<1> SUFFICES ASSUME LedgerInv, NEW i \in ItemIds
             PROVE  AllocationsSum(i)
  OBVIOUS
<1>1. IsFiniteSet(DOMAIN payments)
  BY FS_Subset, PaymentIdsAssumption DEF LedgerInv, TypeOK
<1>2. ASSUME NEW p \in DOMAIN payments
      PROVE  payments[p].alloc[i] \in Nat
  <2>1. payments[p].alloc \in Allocations
    BY DEF LedgerInv, TypeOK, Payment
  <2>2. QED
    BY <2>1, BoundsAssumption DEF Allocations
<1> DEFINE f == [p \in DOMAIN payments |-> payments[p].alloc[i]]
<1>3. AllocatedTo(i) = SumFunctionOnSet(f, DOMAIN payments)
  BY DEF AllocatedTo, SumFunction
<1>4. \A p \in DOMAIN payments : f[p] \in Int
  BY <1>2
<1> HIDE DEF f
<1>5. SumFunctionOnSet(f, DOMAIN payments) \in Int
  BY <1>1, <1>4, SumUnfold
<1>6. QED
  BY <1>1, <1>2, <1>3, <1>5 DEF f, AllocationsSum

\* The same of the state a step leads to.
LEMMA AllocationsToNext == LedgerInv' => (\A i \in ItemIds : AllocationsSum(i))'
BY AllocationsTo, PTL

\* Whatever a step does to the repayments, the sum allocated to an item and its
\* amount paid move together.
LEMMA StepConserves ==
    ASSUME LedgerInv, LedgerInv', [Next]_vars, NEW i \in DOMAIN items,
           AllocatedTo(i)' # AllocatedTo(i)
    PROVE  items'[i].paid - items[i].paid = AllocatedTo(i)' - AllocatedTo(i)
<1> DEFINE f == [p \in DOMAIN payments |-> payments[p].alloc[i]]
           g == [p \in DOMAIN payments' |-> payments'[p].alloc[i]]
<1>1. i \in ItemIds /\ items[i] \in Item
  BY DEF LedgerInv, TypeOK
<1>2. /\ IsFiniteSet(DOMAIN payments)
      /\ \A p \in DOMAIN payments : f[p] \in Nat /\ f[p] = payments[p].alloc[i]
      /\ AllocatedTo(i) = SumFunctionOnSet(f, DOMAIN payments)
      /\ AllocatedTo(i) \in Int
  BY <1>1, AllocationsTo DEF AllocationsSum
<1>3. /\ IsFiniteSet(DOMAIN payments')
      /\ \A p \in DOMAIN payments' : g[p] \in Nat /\ g[p] = payments'[p].alloc[i]
      /\ AllocatedTo(i)' = SumFunctionOnSet(g, DOMAIN payments')
      /\ AllocatedTo(i)' \in Int
  <2>1. AllocationsSum(i)'
    BY <1>1, AllocationsToNext
  <2>2. QED
    BY <2>1 DEF AllocationsSum
<1> HIDE DEF f, g
<1>4. CASE SamePayments
  <2>1. \A q \in DOMAIN payments : f[q] \in Int /\ g[q] = f[q]
    BY <1>2, <1>3, <1>4 DEF SamePayments, PaymentsKept
  <2>2. SumFunctionOnSet(g, DOMAIN payments) = SumFunctionOnSet(f, DOMAIN payments)
    BY <1>2, <2>1, SumCongruence
  <2>3. QED
    BY <1>2, <1>3, <1>4, <2>2 DEF SamePayments
<1>5. ASSUME NEW p \in PaymentIds, NEW label \in Labels, NEW amount \in Amounts,
             NEW link \in TxIds \cup {None}, NEW date \in Dates, NEW alloc \in Allocations,
             Repays(p, label, amount, link, date, alloc)
      PROVE  items'[i].paid - items[i].paid = AllocatedTo(i)' - AllocatedTo(i)
  <2>1. g[p] = alloc[i] /\ alloc[i] \in Nat
    BY <1>1, <1>3, <1>5, BoundsAssumption DEF Repays, Allocations
  <2>2. AllocatedTo(i)' = AllocatedTo(i) + alloc[i]
    <3>1. /\ p \notin DOMAIN payments
          /\ DOMAIN payments' = DOMAIN payments \cup {p}
          /\ \A q \in DOMAIN payments : f[q] \in Int /\ g[q] = f[q]
      BY <1>2, <1>3, <1>5 DEF Repays, PaymentsKept
    <3>2. g[p] \in Int
      BY <2>1
    <3> DEFINE rest == DOMAIN payments
    <3>3. IsFiniteSet(rest) /\ p \notin rest /\ \A q \in rest : f[q] \in Int /\ g[q] = f[q]
      BY <1>2, <3>1
    <3> HIDE DEF rest
    <3>4. SumFunctionOnSet(g, rest \cup {p}) = SumFunctionOnSet(f, rest) + g[p]
      BY <3>2, <3>3, SumOfOneMore
    <3>5. QED
      BY <1>2, <1>3, <2>1, <3>1, <3>4 DEF rest
  <2>3. items'[i].paid = items[i].paid + alloc[i]
    <3>1. items'[i] = SettledItem(label, alloc, i)
      BY <1>5 DEF Repays
    <3>2. /\ NormalisedItems(label)[i] \in Item
          /\ NormalisedItems(label)[i].paid = items[i].paid
      BY NormalisedShape
    <3>3. items[i].paid \in Int
      BY <1>1 DEF Item
    <3>4. CASE alloc[i] > 0
      BY <3>1, <3>2, <3>4 DEF SettledItem, Adjusted, Item
    <3>5. CASE ~(alloc[i] > 0)
      BY <2>1, <3>1, <3>2, <3>3, <3>5 DEF SettledItem
    <3>6. QED
      BY <3>4, <3>5
  <2>4. items[i].paid \in Int
    BY <1>1 DEF Item
  <2>5. QED
    BY <1>2, <2>1, <2>2, <2>3, <2>4
<1>6. ASSUME NEW p \in PaymentIds, DeletePayment(p)
      PROVE  items'[i].paid - items[i].paid = AllocatedTo(i)' - AllocatedTo(i)
  <2> DEFINE alloc == payments[p].alloc
             rest == DOMAIN payments \ {p}
  <2>1. /\ p \in DOMAIN payments
        /\ DOMAIN payments' = rest
        /\ \A q \in rest : payments'[q] = payments[q]
        /\ items' = [j \in DOMAIN items |-> ReversedItem(alloc, j)]
    BY <1>6 DEF DeletePayment
  <2>2. f[p] = alloc[i] /\ alloc[i] \in Nat
    BY <1>2, <2>1
  <2>3. AllocatedTo(i) = AllocatedTo(i)' + alloc[i]
    <3>1. p \notin rest /\ rest \cup {p} = DOMAIN payments
      BY <2>1
    <3>2. IsFiniteSet(rest) /\ \A q \in rest : g[q] \in Int /\ f[q] = g[q]
      BY <1>2, <1>3, <2>1
    <3>3. f[p] \in Int
      BY <2>2
    <3> HIDE DEF rest
    <3>4. SumFunctionOnSet(f, rest \cup {p}) = SumFunctionOnSet(g, rest) + f[p]
      BY <3>1, <3>2, <3>3, SumOfOneMore
    <3>5. QED
      BY <1>2, <1>3, <2>1, <2>2, <3>1, <3>4
  <2>4. items[i].paid = items'[i].paid + alloc[i] /\ items[i].paid \in Int
                                                  /\ items'[i].paid \in Int
    <3>1. items'[i] = ReversedItem(alloc, i) /\ items[i].paid \in Int
      BY <1>1, <2>1 DEF Item
    <3> HIDE DEF alloc
    <3>2. CASE alloc[i] > 0
      BY <1>1, <2>2, <3>1, <3>2 DEF ReversedItem, Adjusted, Item
    <3>3. CASE ~(alloc[i] > 0)
      BY <2>2, <3>1, <3>3 DEF ReversedItem
    <3>4. QED
      BY <3>2, <3>3
  <2> HIDE DEF alloc
  <2>5. QED
    BY <1>2, <1>3, <2>2, <2>3, <2>4
<1>7. QED
  BY <1>4, <1>5, <1>6, StepPayments

\* Through repayments and their reversals, an item's amount paid moves by
\* exactly what is allocated to it or taken back.
THEOREM MoneyIsConserved == Spec => MoneyConserved
<1>1. LedgerInv /\ LedgerInv' /\ [Next]_vars =>
        [\A i \in DOMAIN items :
            AllocatedTo(i)' # AllocatedTo(i) =>
                items'[i].paid - items[i].paid = AllocatedTo(i)' - AllocatedTo(i)]_vars
  BY StepConserves
<1>2. QED
  BY <1>1, LedgerInvariant, PTL DEF Spec, MoneyConserved

-----------------------------------------------------------------------------
(* Linked repayments and items stay within their transaction               *)

\* No handler of the ledger touches a transaction.
LEMMA TransactionsStay ==
    ASSUME [Next]_vars
    PROVE  txs' = txs
<1>1. ASSUME NEW asked \in Labels, NEW total \in Amounts, NEW paid \in 0..MaxAmount,
             NEW link \in TxIds \cup {None}, NEW due \in Dates \cup {None},
             CreateItem(asked, total, paid, link, due)
      PROVE  txs' = txs
  BY <1>1 DEF CreateItem
<1>2. ASSUME NEW j \in ItemIds, NEW asked \in Labels, NEW total \in Amounts,
             NEW paid \in 0..MaxAmount, NEW status \in SentStatuses \cup {None},
             NEW link \in TxIds \cup {None},
             UpdateItem(j, asked, total, paid, status, link)
      PROVE  txs' = txs
  BY <1>2 DEF UpdateItem
<1>3. CASE \/ \E i \in ItemIds : DeleteItem(i)
           \/ \E p \in PaymentIds : DeletePayment(p)
           \/ \E from \in Labels, to \in Labels : RenamePerson(from, to)
           \/ RepairLog \/ Tick \/ UNCHANGED vars
  BY <1>3 DEF DeleteItem, DeletePayment, RenamePerson, RepairLog, Tick, vars
<1>4. ASSUME NEW asked \in Labels, NEW amount \in Amounts,
             NEW link \in TxIds \cup {None}, NEW date \in Dates,
             NEW stop \in ItemIds \cup {None},
             RecordPayment(asked, amount, link, date, stop)
      PROVE  txs' = txs
  BY <1>4 DEF RecordPayment
<1>5. ASSUME NEW asked \in Labels, NEW amount \in Amounts,
             NEW link \in TxIds \cup {None}, NEW date \in Dates,
             NEW alloc \in Allocations,
             RecordAllocatedPayment(asked, amount, link, date, alloc)
      PROVE  txs' = txs
  BY <1>5 DEF RecordAllocatedPayment
<1>6. QED
  BY <1>1, <1>2, <1>3, <1>4, <1>5, Zenon DEF Next, OwedStep

PaymentsOn(t) == {p \in DOMAIN payments : payments[p].link = t}

PaymentAmounts == [p \in DOMAIN payments |-> payments[p].amount]

\* The amounts of repayments are natural numbers, over a finite set.
PaymentAmountsSum ==
    /\ IsFiniteSet(DOMAIN payments)
    /\ \A p \in DOMAIN payments :
          PaymentAmounts[p] \in Nat /\ PaymentAmounts[p] = payments[p].amount

\* So do the payments linked to a transaction.
LEMMA PaymentAmountsShape == LedgerInv => PaymentAmountsSum
<1> SUFFICES ASSUME LedgerInv PROVE PaymentAmountsSum
  OBVIOUS
<1>1. IsFiniteSet(DOMAIN payments)
  BY FS_Subset, PaymentIdsAssumption DEF LedgerInv, TypeOK
<1>2. \A p \in DOMAIN payments : payments[p].amount \in Nat
  BY DEF LedgerInv, TypeOK, Payment, Amounts
<1>3. QED
  BY <1>1, <1>2 DEF PaymentAmounts, PaymentAmountsSum

\* The same after a step.
LEMMA PaymentAmountsNext == LedgerInv' => PaymentAmountsSum'
BY PaymentAmountsShape, PTL

\* A repayment is linked only if its transaction has room for it, and the room
\* of a transaction never shrinks.
LEMMA StepKeepsPaymentsWithin ==
    ASSUME LedgerInv, LedgerInv', PaymentsWithinTransaction, [Next]_vars
    PROVE  PaymentsWithinTransaction'
<1> DEFINE f == PaymentAmounts
           g == PaymentAmounts'
<1>1. /\ IsFiniteSet(DOMAIN payments)
      /\ \A p \in DOMAIN payments : f[p] \in Nat /\ f[p] = payments[p].amount
  BY PaymentAmountsShape DEF PaymentAmountsSum
<1>2. /\ IsFiniteSet(DOMAIN payments')
      /\ \A p \in DOMAIN payments' : g[p] \in Nat /\ g[p] = payments'[p].amount
  BY PaymentAmountsNext DEF PaymentAmountsSum
<1>3. txs' = txs /\ DOMAIN txs \subseteq TxIds /\ None \notin TxIds
      /\ \A t \in DOMAIN txs : txs[t].amount \in Int
  BY TransactionsStay, NoneAssumption DEF LedgerInv, TypeOK, Transaction, Amounts
<1> SUFFICES ASSUME NEW t \in DOMAIN txs, LinkedPayments(t)' > 0
             PROVE  txs[t].direction = "in" /\ LinkedPayments(t)' <= txs[t].amount
  BY <1>3 DEF PaymentsWithinTransaction
<1> DEFINE S == PaymentsOn(t)
           T == {p \in DOMAIN payments' : payments'[p].link = t}
           before == SumFunctionOnSet(f, S)
           after == SumFunctionOnSet(g, T)
<1>4. LinkedPayments(t) = before /\ LinkedPayments(t)' = after
  BY DEF LinkedPayments, PaymentsOn, PaymentAmounts
<1>5. /\ IsFiniteSet(S) /\ \A p \in S : f[p] \in Nat
      /\ IsFiniteSet(T) /\ \A p \in T : g[p] \in Nat
  BY <1>1, <1>2, FS_Subset DEF PaymentsOn
<1>6. before \in Int /\ after \in Int
  BY <1>5, SumUnfold
<1>7. before > 0 => txs[t].direction = "in" /\ before <= txs[t].amount
  BY <1>4 DEF PaymentsWithinTransaction
<1> HIDE DEF f, g
<1>8. ASSUME T \subseteq S, \A p \in T : g[p] = f[p]
      PROVE  after <= before
  BY <1>5, <1>8, SumOfKept
<1>9. after <= before => txs[t].direction = "in" /\ after <= txs[t].amount
  <2> HIDE DEF before, after
  <2>1. QED
    BY <1>3, <1>4, <1>6, <1>7
<1>10. CASE SamePayments
  BY <1>1, <1>2, <1>4, <1>8, <1>9, <1>10 DEF SamePayments, PaymentsKept, PaymentsOn
<1>11. ASSUME NEW p \in PaymentIds, NEW label \in Labels, NEW amount \in Amounts,
              NEW link \in TxIds \cup {None}, NEW date \in Dates,
              NEW alloc \in Allocations, CanLinkPayment(link, amount),
              Repays(p, label, amount, link, date, alloc)
       PROVE  txs[t].direction = "in" /\ after <= txs[t].amount
  <2>1. /\ p \notin DOMAIN payments /\ DOMAIN payments' = DOMAIN payments \cup {p}
        /\ payments'[p].link = link /\ g[p] = amount /\ g[p] \in Int
        /\ \A q \in DOMAIN payments :
              payments'[q].link = payments[q].link /\ g[q] = f[q]
    BY <1>1, <1>2, <1>11 DEF Repays, PaymentsKept
  <2>2. CASE link = t
    <3>1. p \notin S /\ T = S \cup {p} /\ \A q \in S : f[q] \in Int /\ g[q] = f[q]
      BY <1>5, <2>1, <2>2 DEF PaymentsOn
    <3>2. after = before + amount
      <4>1. /\ IsFiniteSet(S) /\ p \notin S /\ g[p] \in Int
            /\ \A q \in S : f[q] \in Int /\ g[q] = f[q]
        BY <1>5, <2>1, <3>1
      <4> HIDE DEF S, T
      <4>2. SumFunctionOnSet(g, S \cup {p}) = SumFunctionOnSet(f, S) + g[p]
        BY <4>1, SumOfOneMore
      <4>3. QED
        BY <2>1, <3>1, <4>2
    <3>3. txs[t].direction = "in" /\ before + amount <= txs[t].amount
      BY <1>3, <1>4, <1>11, <2>2 DEF CanLinkPayment
    <3>4. QED
      BY <3>2, <3>3
  <2>3. CASE link # t
    BY <1>4, <1>8, <1>9, <2>1, <2>3 DEF PaymentsOn
  <2>4. QED
    BY <2>2, <2>3
<1>12. ASSUME NEW p \in PaymentIds, DeletePayment(p)
       PROVE  txs[t].direction = "in" /\ after <= txs[t].amount
  <2>1. /\ DOMAIN payments' = DOMAIN payments \ {p}
        /\ \A q \in DOMAIN payments' : payments'[q] = payments[q]
    BY <1>12 DEF DeletePayment
  <2>2. T \subseteq S /\ \A q \in T : g[q] = f[q]
    BY <1>1, <1>2, <2>1 DEF PaymentsOn
  <2>3. QED
    BY <1>8, <1>9, <2>2
<1>13. QED
  <2> HIDE DEF after
  <2>1. QED
    BY <1>4, <1>10, <1>11, <1>12, StepPayments

\* Together the repayments linked to a transaction never exceed it, and none is
\* linked to a money-out transaction.
THEOREM PaymentsAlwaysWithin == Spec => []PaymentsWithinTransaction
<1>1. Init => PaymentsWithinTransaction
  <2> SUFFICES ASSUME Init PROVE \A t : LinkedPayments(t) = 0
    BY DEF PaymentsWithinTransaction
  <2> TAKE t
  <2>1. DOMAIN payments = {}
    BY DEF Init, NoRows
  <2>2. LinkedPayments(t) = SumFunctionOnSet(PaymentAmounts, {})
    BY <2>1 DEF LinkedPayments, PaymentAmounts
  <2>3. QED
    BY <2>2, FS_EmptySet, SumUnfold
<1>2. LedgerInv /\ LedgerInv' /\ PaymentsWithinTransaction /\ [Next]_vars
        => PaymentsWithinTransaction'
  BY StepKeepsPaymentsWithin
<1>3. QED
  BY <1>1, <1>2, LedgerInvariant, PTL DEF Spec

\* The items that count against transaction t: linked, live and not cancelled.
CountedItems(t) ==
    {i \in DOMAIN items : items[i].link = t /\ Live(i) /\ items[i].status # "cancelled"}

ItemTotals == [i \in DOMAIN items |-> items[i].total]

\* The totals of items are natural numbers, over a finite set.
ItemTotalsSum ==
    /\ IsFiniteSet(DOMAIN items)
    /\ \A i \in DOMAIN items : ItemTotals[i] \in Nat /\ ItemTotals[i] = items[i].total

\* So do the items linked to a transaction.
LEMMA ItemTotalsShape == LedgerInv => ItemTotalsSum
<1> SUFFICES ASSUME LedgerInv PROVE ItemTotalsSum
  OBVIOUS
<1>1. IsFiniteSet(DOMAIN items)
  BY FS_Subset, ItemIdsAssumption DEF LedgerInv, TypeOK
<1>2. \A i \in DOMAIN items : items[i].total \in Nat
  BY DEF LedgerInv, TypeOK, Item, Amounts
<1>3. QED
  BY <1>1, <1>2 DEF ItemTotals, ItemTotalsSum

\* The same after a step.
LEMMA ItemTotalsNext == LedgerInv' => ItemTotalsSum'
BY ItemTotalsShape, PTL

\* Unless a repayment is recorded or taken back, no step takes what is owed for
\* a transaction over it.
LEMMA StepKeepsItemsWithin ==
    ASSUME LedgerInv, LedgerInv', ItemsWithinTransaction, [Next]_vars,
           payments' = payments
    PROVE  ItemsWithinTransaction'
<1> DEFINE f == ItemTotals
           g == ItemTotals'
<1>1. /\ IsFiniteSet(DOMAIN items)
      /\ \A i \in DOMAIN items : f[i] \in Nat /\ f[i] = items[i].total
      /\ \A i \in DOMAIN items : items[i] \in Item
  BY ItemTotalsShape DEF ItemTotalsSum, LedgerInv, TypeOK
<1>2. /\ IsFiniteSet(DOMAIN items')
      /\ \A i \in DOMAIN items' : g[i] \in Nat /\ g[i] = items'[i].total
  BY ItemTotalsNext DEF ItemTotalsSum
<1>3. txs' = txs /\ DOMAIN txs \subseteq TxIds /\ None \notin TxIds
      /\ \A t \in DOMAIN txs : txs[t].amount \in Int
  BY TransactionsStay, NoneAssumption DEF LedgerInv, TypeOK, Transaction, Amounts
<1> SUFFICES ASSUME NEW t \in DOMAIN txs
             PROVE  LinkedTotal(t, {})' <= txs[t].amount
  BY <1>3 DEF ItemsWithinTransaction
<1> DEFINE S == CountedItems(t)
           T == {i \in DOMAIN items' : /\ items'[i].link = t /\ ~items'[i].deleted
                                       /\ items'[i].status # "cancelled"}
           before == SumFunctionOnSet(f, S)
           after == SumFunctionOnSet(g, T)
<1>4. /\ \A ex : LinkedTotal(t, ex) = SumFunctionOnSet(f, S \ ex)
      /\ LinkedTotal(t, {}) = before
      /\ LinkedTotal(t, {})' = after
  <2>1. ASSUME NEW ex
        PROVE  LinkedTotal(t, ex) = SumFunctionOnSet(f, S \ ex)
    <3>1. {i \in DOMAIN items \ ex : /\ items[i].link = t /\ Live(i)
                                     /\ items[i].status # "cancelled"} = S \ ex
      BY DEF CountedItems
    <3>2. QED
      BY <3>1 DEF LinkedTotal, ItemTotals
  <2>2. S \ {} = S
    OBVIOUS
  <2>3. T = {i \in DOMAIN items' \ {} : /\ items'[i].link = t /\ ~items'[i].deleted
                                        /\ items'[i].status # "cancelled"}
    OBVIOUS
  <2>4. LinkedTotal(t, {})' = after
    BY <2>3 DEF LinkedTotal, ItemTotals, Live
  <2>5. QED
    BY <2>1, <2>2, <2>4
<1>5. /\ IsFiniteSet(S) /\ \A i \in S : f[i] \in Nat
      /\ IsFiniteSet(T) /\ \A i \in T : g[i] \in Nat
  BY <1>1, <1>2, FS_Subset DEF CountedItems
<1>6. before \in Int /\ after \in Int /\ before <= txs[t].amount
  BY <1>4, <1>5, SumUnfold DEF ItemsWithinTransaction
<1> HIDE DEF f, g
<1>7. ASSUME T \subseteq S, \A i \in T : g[i] = f[i]
      PROVE  after <= txs[t].amount
  <2>1. after <= before
    BY <1>5, <1>7, SumOfKept
  <2> HIDE DEF before, after
  <2>2. QED
    BY <1>3, <1>6, <2>1
<1>8. ASSUME NEW j \in T, NEW total, g[j] = total,
             T \ {j} \subseteq S \ {j}, \A i \in T \ {j} : g[i] = f[i],
             SumFunctionOnSet(f, S \ {j}) + total <= txs[t].amount
      PROVE  after <= txs[t].amount
  <2> DEFINE U == S \ {j}
             V == T \ {j}
  <2>1. /\ IsFiniteSet(U) /\ \A i \in U : f[i] \in Nat
        /\ IsFiniteSet(V) /\ V \subseteq U /\ \A i \in V : g[i] = f[i] /\ g[i] \in Int
    BY <1>5, <1>8, FS_Subset
  <2>2. after = g[j] + SumFunctionOnSet(g, V) /\ g[j] \in Int
    BY <1>5, SumUnfold
  <2> HIDE DEF U, V, T, S, after, before
  <2>3. SumFunctionOnSet(g, V) <= SumFunctionOnSet(f, U)
    BY <2>1, SumOfKept
  <2>4. SumFunctionOnSet(f, U) \in Int
    BY <2>1, SumUnfold
  <2>5. SumFunctionOnSet(g, V) \in Int
    BY <2>1, SumUnfold
  <2>6. SumFunctionOnSet(f, U) + total <= txs[t].amount
    BY <1>8 DEF U
  <2>7. QED
    BY <1>3, <1>6, <1>8, <2>2, <2>3, <2>4, <2>5, <2>6
<1>9. ASSUME items' = items
      PROVE  after <= txs[t].amount
  <2>1. T \subseteq S /\ \A i \in T : g[i] = f[i]
    BY <1>1, <1>2, <1>9 DEF CountedItems, Live
  <2>2. QED
    BY <1>7, <2>1
<1>10. ASSUME NEW asked \in Labels, NEW total \in Amounts, NEW paid \in 0..MaxAmount,
              NEW link \in TxIds \cup {None}, NEW due \in Dates \cup {None},
              CreateItem(asked, total, paid, link, due)
       PROVE  after <= txs[t].amount
  <2>1. PICK j \in ItemIds \ DOMAIN items, label \in Labels :
           /\ CanLinkItem(link, total, NewItem(label, total, paid, link).status, {})
           /\ items' = [k \in DOMAIN items \cup {j} |->
                           IF k = j THEN NewItem(label, total, paid, link) ELSE items[k]]
    BY <1>10 DEF CreateItem
  <2> DEFINE row == NewItem(label, total, paid, link)
  <2>2. row.link = link /\ row.total = total /\ row.status # "cancelled" /\ ~row.deleted
    BY StatusShape DEF NewItem
  <2>3. CanLinkItem(link, total, row.status, {})
    BY <2>1
  <2>4. items' = [k \in DOMAIN items \cup {j} |-> IF k = j THEN row ELSE items[k]]
    BY <2>1
  <2> HIDE DEF row
  <2>5. /\ T \ {j} = S /\ S \ {j} = S
        /\ \A i \in S : g[i] = f[i]
        /\ j \in T <=> link = t
        /\ g[j] = total
    BY <1>1, <1>2, <2>2, <2>4 DEF CountedItems, Live
  <2>6. CASE link = t
    <3>1. LinkedTotal(t, {}) + total <= txs[t].amount
      BY <1>3, <2>2, <2>3, <2>6 DEF CanLinkItem
    <3>2. SumFunctionOnSet(f, S \ {j}) + total <= txs[t].amount
      BY <1>4, <2>5, <3>1
    <3>3. j \in T /\ T \ {j} \subseteq S \ {j} /\ \A i \in T \ {j} : g[i] = f[i]
      BY <2>5, <2>6
    <3>4. QED
      BY <1>8, <2>5, <3>2, <3>3
  <2>7. CASE link # t
    <3>1. T = S
      BY <2>5, <2>7
    <3>2. QED
      BY <1>7, <2>5, <3>1
  <2>8. QED
    BY <2>6, <2>7
<1>11. ASSUME NEW j \in ItemIds, NEW asked \in Labels, NEW total \in Amounts,
              NEW paid \in 0..MaxAmount, NEW status \in SentStatuses \cup {None},
              NEW link \in TxIds \cup {None},
              UpdateItem(j, asked, total, paid, status, link)
       PROVE  after <= txs[t].amount
  <2>1. PICK label \in Labels :
           LET new == EditedItem(items[j], label, total, paid, status, link)
           IN  /\ CanLinkItem(IF link = None THEN items[j].link ELSE link,
                              total, new.status, {j})
               /\ items' = [items EXCEPT ![j] = new]
    BY <1>11 DEF UpdateItem
  <2> DEFINE row == EditedItem(items[j], label, total, paid, status, link)
             linked == IF link = None THEN items[j].link ELSE link
  <2>2. j \in DOMAIN items /\ ~items[j].deleted
    BY <1>11 DEF UpdateItem, Live
  <2>3. row.link = link /\ row.total = total /\ ~row.deleted
    BY <1>1, <2>2 DEF EditedItem, Item
  <2>4. CanLinkItem(linked, total, row.status, {j}) /\ items' = [items EXCEPT ![j] = row]
    BY <2>1
  <2> HIDE DEF row
  <2>5. /\ \A i \in DOMAIN items : i # j => items'[i] = items[i] /\ g[i] = f[i]
        /\ items'[j] = row /\ DOMAIN items' = DOMAIN items
        /\ g[j] = total
    BY <1>1, <1>2, <2>2, <2>3, <2>4
  <2>6. T \ {j} \subseteq S \ {j} /\ \A i \in T \ {j} : g[i] = f[i]
    BY <2>5 DEF CountedItems, Live
  <2>7. CASE j \in T
    <3>1. link = t /\ linked = t /\ row.status # "cancelled"
      BY <1>3, <2>3, <2>5, <2>7
    <3>2. LinkedTotal(t, {j}) + total <= txs[t].amount
      BY <1>3, <2>4, <3>1 DEF CanLinkItem
    <3>3. SumFunctionOnSet(f, S \ {j}) + total <= txs[t].amount
      BY <1>4, <3>2
    <3>4. QED
      BY <1>8, <2>5, <2>6, <2>7, <3>3
  <2>8. CASE j \notin T
    BY <1>7, <2>6, <2>8
  <2>9. QED
    BY <2>7, <2>8
<1>12. ASSUME NEW j \in ItemIds, DeleteItem(j)
       PROVE  after <= txs[t].amount
  <2>1. /\ j \in DOMAIN items
        /\ items' = [items EXCEPT ![j] = [items[j] EXCEPT !.deleted = TRUE,
                                                          !.updated = today]]
    BY <1>12 DEF DeleteItem
  <2>2. items'[j].deleted
    BY <1>1, <2>1 DEF Item
  <2>3. T \subseteq S /\ \A i \in T : g[i] = f[i]
    BY <1>1, <1>2, <2>1, <2>2 DEF CountedItems, Live
  <2>4. QED
    BY <1>7, <2>3
<1>13. ASSUME NEW from \in Labels, NEW to \in Labels, RenamePerson(from, to)
       PROVE  after <= txs[t].amount
  <2>1. /\ DOMAIN items' = DOMAIN items
        /\ \A i \in DOMAIN items :
              \/ items'[i] = items[i]
              \/ items'[i] = [items[i] EXCEPT !.person = to, !.updated = today]
    BY <1>13 DEF RenamePerson
  <2>2. \A i \in DOMAIN items : /\ items'[i].link = items[i].link
                                /\ items'[i].deleted = items[i].deleted
                                /\ items'[i].status = items[i].status
                                /\ items'[i].total = items[i].total
    BY <1>1, <2>1 DEF Item
  <2>3. T \subseteq S /\ \A i \in T : g[i] = f[i]
    BY <1>1, <1>2, <2>1, <2>2 DEF CountedItems, Live
  <2>4. QED
    BY <1>7, <2>3
<1>14. ASSUME NEW label \in Labels, NEW amount, NEW link, NEW date, NEW alloc,
              Settle(label, amount, link, date, alloc)
       PROVE  FALSE
  <2>1. PICK p : p \notin DOMAIN payments /\ DOMAIN payments' = DOMAIN payments \cup {p}
    BY <1>14, SettleRepays DEF Repays
  <2>2. QED
    BY <2>1
<1>15. ASSUME NEW p \in PaymentIds, DeletePayment(p)
       PROVE  FALSE
  BY <1>15 DEF DeletePayment
<1>16. ASSUME UNCHANGED vars \/ Tick \/ RepairLog
       PROVE  items' = items
  BY <1>16 DEF vars, Tick, RepairLog
<1> HIDE DEF after
<1>17. after <= txs[t].amount
  <2>1. ASSUME NEW asked \in Labels, NEW amount \in Amounts,
               NEW link \in TxIds \cup {None}, NEW date \in Dates,
               NEW stop \in ItemIds \cup {None},
               RecordPayment(asked, amount, link, date, stop)
        PROVE  FALSE
    BY <1>14, <2>1 DEF RecordPayment
  <2>2. ASSUME NEW asked \in Labels, NEW amount \in Amounts,
               NEW link \in TxIds \cup {None}, NEW date \in Dates,
               NEW alloc \in Allocations,
               RecordAllocatedPayment(asked, amount, link, date, alloc)
        PROVE  FALSE
    BY <1>14, <2>2 DEF RecordAllocatedPayment
  <2>3. CASE OwedStep
    BY <1>9, <1>10, <1>11, <1>12, <1>13, <1>15, <1>16, <2>1, <2>2, <2>3, Zenon
       DEF OwedStep
  <2>4. QED
    BY <1>9, <1>16, <2>3 DEF Next
<1>18. QED
  BY <1>4, <1>17

\* Repayments linked to a transaction never exceed it together, and what is
\* owed for one comes to exceed it only when a repayment is made or taken back.
THEOREM LinksAlwaysStayWithin == Spec => LinksStayWithinTransaction
<1>1. LedgerInv /\ LedgerInv' /\ PaymentsWithinTransaction' /\ [Next]_vars =>
        [IF payments' = payments
         THEN ItemsWithinTransaction => ItemsWithinTransaction'
         ELSE PaymentsWithinTransaction']_vars
  BY StepKeepsItemsWithin
<1>2. QED
  BY <1>1, LedgerInvariant, PaymentsAlwaysWithin, PTL DEF Spec, LinksStayWithinTransaction

-----------------------------------------------------------------------------
(* The walk over the open items                                            *)

\* The least of two integers is one of them and at most both.
LEMMA MinOfTwo ==
    ASSUME NEW a \in Int, NEW b \in Int
    PROVE  Min({a, b}) \in {a, b} /\ Min({a, b}) <= a /\ Min({a, b}) <= b
<1>1. \E x \in {a, b} : \A y \in {a, b} : x <= y
  <2>1. CASE a <= b
    BY <2>1
  <2>2. CASE ~(a <= b)
    BY <2>2
  <2>3. QED
    BY <2>1, <2>2
<1>2. QED
  BY <1>1 DEF Min

\* A finite set of natural numbers that is not empty has a greatest one.
LEMMA GreatestOf ==
    ASSUME NEW S \in SUBSET Nat, IsFiniteSet(S), S # {}
    PROVE  \E m \in S : \A n \in S : n <= m
<1> DEFINE G == {T \in SUBSET S : T # {} => \E m \in T : \A n \in T : n <= m}
<1>1. {} \in G
  OBVIOUS
<1>2. ASSUME NEW T \in SUBSET S, NEW x \in S \ T, T \in G
      PROVE  T \cup {x} \in G
  <2>1. CASE T = {}
    BY <2>1
  <2>2. CASE T # {}
    <3>1. PICK m \in T : \A n \in T : n <= m
      BY <1>2, <2>2
    <3>2. CASE x <= m
      BY <3>1, <3>2
    <3>3. CASE ~(x <= m)
      <4>1. \A n \in T \cup {x} : n <= x
        BY <3>1, <3>3
      <4>2. QED
        BY <4>1
    <3>4. QED
      BY <3>2, <3>3
  <2>3. QED
    BY <2>1, <2>2
<1>3. S \in G
  <2> HIDE DEF G
  <2>1. QED
    BY <1>1, <1>2, SubsetInduction
<1>4. QED
  BY <1>3

\* Every element of Q is given what those below it left of the amount, up to
\* its claim.
WalkedInOrder(Q, amount, claim, given) ==
    \A i \in Q :
       given[i] =
           Max({0, Min({amount - SumFunctionOnSet(claim, {j \in Q : j < i}), claim[i]})})

\* The amount is given out whole while a claim is left, smallest element first.
SettledInOrder(Q, amount, claim, given) ==
    /\ \A i \in Q : given[i] \in Nat /\ given[i] <= claim[i]
    /\ SumFunctionOnSet(given, Q) = Min({amount, SumFunctionOnSet(claim, Q)})
    /\ \A i, j \in Q : i < j /\ given[j] > 0 => given[i] = claim[i]

\* The claims before an element get either everything they claim or everything
\* there is.
LEMMA OldestFirst ==
    ASSUME NEW Q, IsFiniteSet(Q), \A i \in Q : i \in Nat, NEW amount \in Nat,
           NEW claim, NEW given, \A i \in Q : claim[i] \in Nat,
           WalkedInOrder(Q, amount, claim, given)
    PROVE  SettledInOrder(Q, amount, claim, given)
<1> DEFINE Before(i) == {j \in Q : j < i}
           Claimed(T) == SumFunctionOnSet(claim, T)
           Given(T) == SumFunctionOnSet(given, T)
<1>1. \A T \in SUBSET Q : IsFiniteSet(T)
  BY FS_Subset
<1>2. ASSUME NEW T \in SUBSET Q
      PROVE  Claimed(T) \in Int /\ 0 <= Claimed(T)
  <2>1. IsFiniteSet(T) /\ \A x \in T : claim[x] \in Int
    BY <1>1
  <2>2. QED
    BY <2>1, SumUnfold, SumOfPart
<1> HIDE DEF Claimed
<1>3. ASSUME NEW i \in Q
      PROVE  /\ amount - Claimed(Before(i)) <= 0 => given[i] = 0
             /\ 0 <= amount - Claimed(Before(i)) /\ amount - Claimed(Before(i)) <= claim[i]
                   => given[i] = amount - Claimed(Before(i))
             /\ claim[i] <= amount - Claimed(Before(i)) => given[i] = claim[i]
             /\ given[i] \in Nat /\ given[i] <= claim[i]
  <2> DEFINE left == amount - Claimed(Before(i))
             asked == claim[i]
             least == Min({left, asked})
  <2>1. left \in Int /\ asked \in Nat /\ asked \in Int
    BY <1>2
  <2>2. given[i] = Max({0, least})
    BY DEF Claimed, WalkedInOrder
  <2> HIDE DEF left, asked
  <2>3. least \in {left, asked} /\ least <= left /\ least <= asked
    BY <2>1, MinOfTwo, Zenon
  <2>4. least \in Int /\ 0 \in Int
    BY <2>1, <2>3
  <2> HIDE DEF least
  <2>5. Max({0, least}) \in {0, least} /\ Max({0, least}) >= 0 /\ Max({0, least}) >= least
    BY <2>4, MaxOfTwo, Zenon
  <2>6. /\ left <= 0 => given[i] = 0
        /\ 0 <= left /\ left <= asked => given[i] = left
        /\ asked <= left => given[i] = asked
        /\ given[i] \in Nat /\ given[i] <= asked
    BY <2>1, <2>2, <2>3, <2>4, <2>5
  <2>7. QED
    BY <2>6 DEF left, asked
<1> HIDE DEF Before
<1>4. ASSUME NEW T \in SUBSET Q
      PROVE  Given(T) \in Int
  <2>1. IsFiniteSet(T) /\ \A x \in T : given[x] \in Int
    BY <1>1, <1>3
  <2>2. QED
    BY <2>1, SumUnfold
<1>5. ASSUME NEW T \in SUBSET Q, NEW i \in T
      PROVE  /\ Claimed(T) = claim[i] + Claimed(T \ {i})
             /\ Given(T) = given[i] + Given(T \ {i})
  <2>1. IsFiniteSet(T) /\ \A x \in T : claim[x] \in Int /\ given[x] \in Int
    BY <1>1, <1>3
  <2>2. QED
    BY <2>1, SumUnfold DEF Claimed
<1>6. Claimed({}) = 0 /\ Given({}) = 0
  BY FS_EmptySet, SumUnfold DEF Claimed
<1> HIDE DEF Given
<1> DEFINE Closed(T) == \A i \in T : \A j \in Q : j < i => j \in T
           Right(T) == \/ Claimed(T) <= amount /\ Given(T) = Claimed(T)
                       \/ amount <= Claimed(T) /\ Given(T) = amount
           Bad == {T \in SUBSET Q : Closed(T) /\ ~Right(T)}
<1>7. ASSUME Bad # {} PROVE FALSE
  <2> DEFINE F == Bad
  <2>1. F \in SUBSET SUBSET Q /\ F # {} /\ IsFiniteSet(Q)
    BY <1>7
  <2> HIDE DEF F
  <2>2. \E T \in F : \A U \in F : U \subseteq T => U = T
    BY <2>1, LeastSubset
  <2>3. PICK T \in F : \A U \in F : U \subseteq T => U = T
    BY <2>2
  <2>4. T \in SUBSET Q /\ Closed(T) /\ ~Right(T)
    BY DEF F
  <2>5. T # {}
    <3>1. Right({})
      BY <1>6
    <3> HIDE DEF Right
    <3>2. QED
      BY <2>4, <3>1
  <2>6. PICK i \in T : \A n \in T : n <= i
    <3>1. T \in SUBSET Nat /\ IsFiniteSet(T)
      BY <1>1, <2>4
    <3>2. QED
      BY <2>5, <3>1, GreatestOf
  <2> USE DEF Before
  <2>7. T \ {i} = Before(i)
    <3>1. T \subseteq Nat /\ Q \subseteq Nat /\ T \subseteq Q
      BY <2>4
    <3>2. ASSUME NEW n \in T, n # i PROVE n < i
      BY <2>6, <3>1, <3>2
    <3>3. ASSUME NEW n \in Q, n < i PROVE n \in T /\ n # i
      BY <2>4, <2>6, <3>1, <3>3
    <3>4. QED
      BY <3>1, <3>2, <3>3
  <2>8. Before(i) \in SUBSET Q /\ Closed(Before(i)) /\ Before(i) # T
    BY <2>4, <2>7
  <2>9. Right(Before(i))
    BY <2>3, <2>7, <2>8 DEF F
  <2>10. /\ Claimed(T) = claim[i] + Claimed(Before(i))
         /\ Given(T) = given[i] + Given(Before(i))
    BY <1>5, <2>4, <2>7
  <2>11. /\ Claimed(Before(i)) \in Int /\ Given(Before(i)) \in Int
         /\ claim[i] \in Nat /\ given[i] \in Nat
    BY <1>2, <1>3, <1>4, <2>4, <2>8
  <2>12. i \in Q
    BY <2>4
  <2> HIDE DEF Before, Closed, Bad
  <2>13. Right(T)
    BY <1>3, <2>9, <2>10, <2>11, <2>12
  <2>14. QED
    BY <2>4, <2>13
<1>8. Right(Q)
  BY <1>7
<1>9. Given(Q) = Min({amount, Claimed(Q)})
  <2> DEFINE all == Claimed(Q)
             least == Min({amount, all})
  <2>1. all \in Int /\ amount \in Int
    BY <1>2
  <2> HIDE DEF all
  <2>2. least \in {amount, all} /\ least <= amount /\ least <= all
    BY <2>1, MinOfTwo, Zenon
  <2> HIDE DEF least
  <2>3. Given(Q) = least
    BY <1>8, <2>1, <2>2 DEF all
  <2>4. QED
    BY <2>3 DEF least, all
<1>10. ASSUME NEW i \in Q, NEW j \in Q, i < j, given[j] > 0
       PROVE  given[i] = claim[i]
  <2> USE DEF Before
  <2>1. claim[i] + Claimed(Before(i)) <= Claimed(Before(j))
    <3> DEFINE T == Before(i) \cup {i}
    <3>1. T \in SUBSET Before(j) /\ Before(j) \in SUBSET Q /\ i \in T /\ T \ {i} = Before(i)
      <4>1. Q \subseteq Nat /\ i \in Nat /\ j \in Nat
        OBVIOUS
      <4>2. \A k \in Q : k < i => k < j /\ k # i
        BY <1>10, <4>1
      <4>3. QED
        BY <1>10, <4>2
    <3>2. T \in SUBSET Q /\ IsFiniteSet(Before(j)) /\ \A k \in Before(j) : claim[k] \in Nat
      BY <1>1, <3>1
    <3> HIDE DEF T, Before
    <3>3. Claimed(T) <= Claimed(Before(j))
      BY <3>1, <3>2, SumOfPart DEF Claimed
    <3>4. Claimed(T) = claim[i] + Claimed(Before(i))
      BY <1>5, <3>1, <3>2
    <3>5. QED
      BY <3>3, <3>4
  <2>2. amount - Claimed(Before(j)) > 0
    <3>1. Claimed(Before(j)) \in Int
      BY <1>2
    <3>2. amount - Claimed(Before(j)) <= 0 => given[j] = 0
      BY <1>3
    <3> HIDE DEF Before
    <3>3. QED
      BY <1>10, <3>1, <3>2
  <2>3. Claimed(Before(i)) \in Int /\ Claimed(Before(j)) \in Int /\ claim[i] \in Nat
    BY <1>2
  <2>4. claim[i] <= amount - Claimed(Before(i)) => given[i] = claim[i]
    BY <1>3
  <2> HIDE DEF Before
  <2>5. QED
    BY <2>1, <2>2, <2>3, <2>4
<1>11. QED
  BY <1>3, <1>9, <1>10 DEF Claimed, Given, SettledInOrder

\* Whoever pays however much, and wherever the walk over the open items stops.
LEMMA WalkOldestFirst ==
    ASSUME LedgerInv, NEW label, NEW amount \in Amounts, NEW stop
    PROVE  LET queue == Queue(label, stop)
               alloc == AutoAllocation(label, amount, stop)
           IN  /\ Allocatable(alloc, amount)
               /\ Allocated(alloc) = Min({amount, RemainingIn(queue)})
               /\ \A i, j \in queue :
                      i < j /\ alloc[j] > 0 => alloc[i] = items[i].remaining
<1> DEFINE queue == Queue(label, stop)
           alloc == AutoAllocation(label, amount, stop)
           claim == [i \in DOMAIN items |-> items[i].remaining]
<1>1. /\ queue \subseteq DOMAIN items /\ DOMAIN items \subseteq ItemIds
      /\ \A i \in DOMAIN items : items[i].remaining \in 0..MaxAmount
  BY DEF LedgerInv, TypeOK, Item, Queue
<1>2. IsFiniteSet(queue) /\ (\A i \in queue : i \in Nat) /\ IsFiniteSet(ItemIds)
      /\ queue \subseteq ItemIds
  BY <1>1, ItemIdsAssumption, FS_Subset
<1>3. amount \in Nat /\ MaxAmount \in Nat
  BY BoundsAssumption DEF Amounts
<1>4. \A i \in queue : claim[i] = items[i].remaining /\ claim[i] \in Nat
  BY <1>1, <1>3
<1>5. /\ DOMAIN alloc = ItemIds
      /\ alloc = [i \in ItemIds |-> alloc[i]]
      /\ \A i \in ItemIds \ queue : alloc[i] = 0
  BY DEF AutoAllocation
<1>6. WalkedInOrder(queue, amount, claim, alloc)
  BY <1>1, <1>2 DEF AutoAllocation, LeftAt, RemainingIn, WalkedInOrder
<1>7. RemainingIn(queue) = SumFunctionOnSet(claim, queue)
  BY DEF RemainingIn
<1> HIDE DEF queue, alloc, claim
<1>8. SettledInOrder(queue, amount, claim, alloc)
  <2>1. IsFiniteSet(queue)
    BY <1>2
  <2>2. \A i \in queue : i \in Nat
    BY <1>2
  <2>3. amount \in Nat
    BY <1>3
  <2>4. \A i \in queue : claim[i] \in Nat
    BY <1>4
  <2>5. QED
    BY ONLY <2>1, <2>2, <2>3, <2>4, <1>6, OldestFirst
<1>9. /\ \A i \in queue : alloc[i] \in Nat /\ alloc[i] <= claim[i]
      /\ SumFunctionOnSet(alloc, queue) = Min({amount, SumFunctionOnSet(claim, queue)})
      /\ \A i, j \in queue : i < j /\ alloc[j] > 0 => alloc[i] = claim[i]
  BY <1>8 DEF SettledInOrder
<1>10. \A i \in ItemIds : alloc[i] \in Int
  BY <1>2, <1>5, <1>9
<1>11. Allocated(alloc) = SumFunctionOnSet(alloc, queue)
  <2>1. SumFunctionOnSet(alloc, ItemIds) = SumFunctionOnSet(alloc, queue)
    BY <1>2, <1>5, <1>10, SumOfSupport
  <2>2. QED
    BY <2>1 DEF Allocated
<1>12. Allocated(alloc) <= amount
  <2> DEFINE all == SumFunctionOnSet(claim, queue)
             least == Min({amount, all})
  <2>1. all \in Int /\ amount \in Int
    <3>1. \A i \in queue : claim[i] \in Int
      BY <1>4
    <3>2. QED
      BY <1>2, <1>3, <3>1, SumUnfold
  <2>2. Allocated(alloc) = least
    BY <1>9, <1>11
  <2> HIDE DEF all
  <2>3. least <= amount
    BY <2>1, MinOfTwo, Zenon
  <2>4. QED
    BY <2>2, <2>3
<1>13. alloc \in Allocations
  <2>1. ASSUME NEW i \in ItemIds PROVE alloc[i] \in 0..MaxAmount
    <3>1. CASE i \in queue
      <4>1. alloc[i] \in Nat /\ alloc[i] <= claim[i] /\ claim[i] \in 0..MaxAmount
        BY <1>1, <1>4, <1>9, <3>1
      <4>2. QED
        BY <1>3, <4>1
    <3>2. CASE i \notin queue
      BY <1>3, <1>5, <3>2
    <3>3. QED
      BY <3>1, <3>2
  <2>2. QED
    BY <1>5, <2>1 DEF Allocations
<1>14. ASSUME NEW i \in ItemIds, alloc[i] > 0
       PROVE  i \in DOMAIN items /\ alloc[i] <= items[i].remaining
  <2>1. i \in queue
    BY <1>5, <1>14
  <2>2. QED
    BY <1>1, <1>4, <1>9, <2>1
<1>15. Allocatable(alloc, amount)
  BY <1>12, <1>13, <1>14 DEF Allocatable
<1>16. \A i, j \in queue : i < j /\ alloc[j] > 0 => alloc[i] = items[i].remaining
  BY <1>4, <1>9
<1>17. Allocated(alloc) = Min({amount, RemainingIn(queue)})
  BY <1>7, <1>9, <1>11
<1>18. QED
  BY <1>15, <1>16, <1>17 DEF queue, alloc

\* However many items a person owes and whatever was repaid before, an automatic
\* repayment is given out whole while anything is open, oldest item first: a
\* younger item gets money only once every older one in the walk is settled
\* (owed_service._auto_allocate_payment).
THEOREM OldestItemsPaidFirst == Spec => []AutoAllocationOldestFirst
<1>1. LedgerInv => AutoAllocationOldestFirst
  <2> SUFFICES ASSUME LedgerInv PROVE AutoAllocationOldestFirst
    OBVIOUS
  <2>1. ASSUME NEW label \in Labels, NEW amount \in Amounts,
               NEW stop \in Queue(label, None) \cup {None}
        PROVE  LET queue == Queue(label, stop)
                   alloc == AutoAllocation(label, amount, stop)
               IN  /\ Allocatable(alloc, amount)
                   /\ Allocated(alloc) = Min({amount, RemainingIn(queue)})
                   /\ \A i, j \in queue :
                          i < j /\ alloc[j] > 0 => alloc[i] = items[i].remaining
    BY WalkOldestFirst
  <2>2. QED
    BY <2>1 DEF AutoAllocationOldestFirst
<1>2. QED
  BY <1>1, LedgerInvariant, PTL

-----------------------------------------------------------------------------
(* The labels of a person                                                  *)

\* The rows a repayment writes carry one label for everybody it is about.
LEMMA SettleUnifies ==
    ASSUME LedgerInv, NEW label \in Labels, NEW amount, NEW link, NEW date, NEW alloc,
           Settle(label, amount, link, date, alloc),
           NEW p \in DOMAIN payments' \ DOMAIN payments,
           NEW used \in LabelsInUse', SamePerson(used, payments'[p].person)
    PROVE  used = payments'[p].person
<1>1. PICK q \in PaymentIds \ DOMAIN payments :
         /\ items' = [i \in DOMAIN items |-> SettledItem(label, alloc, i)]
         /\ payments' = [r \in DOMAIN payments \cup {q} |->
                            IF r = q
                            THEN [person |-> label, amount |-> amount, link |-> link,
                                  date |-> date, alloc |-> alloc]
                            ELSE NormalisedPayments(label)[r]]
  BY DEF Settle
<1>2. payments'[p].person = label
  BY <1>1
<1>3. ASSUME NEW i \in DOMAIN items, SamePerson(items'[i].person, label)
      PROVE  items'[i].person = label
  <2> DEFINE row == NormalisedItems(label)[i]
  <2>1. items[i] \in Item /\ row \in Item
    BY NormalisedShape DEF LedgerInv, TypeOK
  <2>2. row = IF SamePerson(items[i].person, label)
              THEN [items[i] EXCEPT !.person = label, !.updated = today]
              ELSE items[i]
    BY DEF NormalisedItems
  <2>3. SamePerson(row.person, label) => row.person = label
    BY <2>1, <2>2 DEF Item
  <2> HIDE DEF row
  <2>4. items'[i] = IF alloc[i] > 0 THEN Adjusted(row, alloc[i]) ELSE row
    BY <1>1 DEF SettledItem, row
  <2>5. Adjusted(row, alloc[i]).person = row.person
    BY <2>1 DEF Adjusted, Item
  <2>6. QED
    BY <1>3, <2>3, <2>4, <2>5
<1>4. ASSUME NEW r \in DOMAIN payments', SamePerson(payments'[r].person, label)
      PROVE  payments'[r].person = label
  <2>1. CASE r = q
    BY <1>1, <2>1
  <2>2. CASE r # q
    <3>1. r \in DOMAIN payments /\ payments'[r] = NormalisedPayments(label)[r]
      BY <1>1, <2>2
    <3>2. payments[r] \in Payment
      BY <3>1 DEF LedgerInv, TypeOK
    <3>3. payments'[r] = IF SamePerson(payments[r].person, label)
                         THEN [payments[r] EXCEPT !.person = label]
                         ELSE payments[r]
      BY <3>1 DEF NormalisedPayments
    <3>4. QED
      BY <1>4, <3>2, <3>3 DEF Payment
  <2>3. QED
    BY <2>1, <2>2
<1>5. \/ \E i \in DOMAIN items : used = items'[i].person
      \/ \E r \in DOMAIN payments' : used = payments'[r].person
  BY <1>1 DEF LabelsInUse
<1>6. QED
  BY <1>2, <1>3, <1>4, <1>5

\* A step either writes a repayment with Settle, or adds none.
LEMMA StepSettles ==
    ASSUME [Next]_vars
    PROVE  \/ DOMAIN payments' \subseteq DOMAIN payments
           \/ \E label \in Labels, amount \in Amounts, link \in TxIds \cup {None},
                 date \in Dates : \E alloc : Settle(label, amount, link, date, alloc)
<1> DEFINE NoneAdded == DOMAIN payments' \subseteq DOMAIN payments
           Settling == \E label \in Labels, amount \in Amounts, link \in TxIds \cup {None},
                          date \in Dates : \E alloc : Settle(label, amount, link, date, alloc)
<1>1. ASSUME NEW asked \in Labels, NEW total \in Amounts, NEW paid \in 0..MaxAmount,
             NEW link \in TxIds \cup {None}, NEW due \in Dates \cup {None},
             CreateItem(asked, total, paid, link, due)
      PROVE  NoneAdded
  BY <1>1 DEF CreateItem
<1>2. ASSUME NEW j \in ItemIds, NEW asked \in Labels, NEW total \in Amounts,
             NEW paid \in 0..MaxAmount, NEW status \in SentStatuses \cup {None},
             NEW link \in TxIds \cup {None},
             UpdateItem(j, asked, total, paid, status, link)
      PROVE  NoneAdded
  BY <1>2 DEF UpdateItem
<1>3. ASSUME NEW j \in ItemIds, DeleteItem(j)
      PROVE  NoneAdded
  BY <1>3 DEF DeleteItem
<1>4. ASSUME NEW asked \in Labels, NEW amount \in Amounts,
             NEW link \in TxIds \cup {None}, NEW date \in Dates,
             NEW stop \in ItemIds \cup {None},
             RecordPayment(asked, amount, link, date, stop)
      PROVE  Settling
  <2>1. PICK label \in Labels :
          Settle(label, amount, link, date, AutoAllocation(label, amount, stop))
    BY <1>4 DEF RecordPayment
  <2>2. QED
    BY <2>1
<1>5. ASSUME NEW asked \in Labels, NEW amount \in Amounts,
             NEW link \in TxIds \cup {None}, NEW date \in Dates,
             NEW alloc \in Allocations,
             RecordAllocatedPayment(asked, amount, link, date, alloc)
      PROVE  Settling
  <2>1. PICK label \in Labels : Settle(label, amount, link, date, alloc)
    BY <1>5 DEF RecordAllocatedPayment
  <2>2. QED
    BY <2>1
<1>6. ASSUME NEW p \in PaymentIds, DeletePayment(p)
      PROVE  NoneAdded
  BY <1>6 DEF DeletePayment
<1>7. ASSUME NEW from \in Labels, NEW to \in Labels, RenamePerson(from, to)
      PROVE  NoneAdded
  BY <1>7 DEF RenamePerson
<1>8. ASSUME UNCHANGED vars \/ Tick \/ RepairLog
      PROVE  NoneAdded
  BY <1>8 DEF vars, Tick, RepairLog
<1> HIDE DEF NoneAdded, Settling
<1>9. NoneAdded \/ Settling
  <2>1. CASE OwedStep
    BY <1>1, <1>2, <1>3, <1>4, <1>5, <1>6, <1>7, <1>8, <2>1, Zenon DEF OwedStep
  <2>2. QED
    BY <1>8, <2>1 DEF Next
<1>10. QED
  BY <1>9 DEF NoneAdded, Settling

\* After a repayment is recorded, no second spelling of its person is left on
\* any item or repayment, however many there were.
THEOREM PaymentsUnifyLabels == Spec => PaymentUnifiesLabels
<1>1. ASSUME LedgerInv, [Next]_vars, NEW p \in DOMAIN payments' \ DOMAIN payments,
             NEW used \in LabelsInUse', SamePerson(used, payments'[p].person)
      PROVE  used = payments'[p].person
  BY <1>1, StepSettles, SettleUnifies
<1>2. LedgerInv /\ [Next]_vars =>
        [\A p \in DOMAIN payments' \ DOMAIN payments :
            \A label \in LabelsInUse' :
                SamePerson(label, payments'[p].person)
                    => label = payments'[p].person]_vars
  BY <1>1
<1>3. QED
  BY <1>2, LedgerInvariant, PTL DEF Spec, PaymentUnifiesLabels

-----------------------------------------------------------------------------
(* The replay of the event log                                             *)

\* The events of a history dated before today are not touched.
PastKept(h, g) ==
    \A d \in Dates : d < today => /\ d \in DOMAIN g <=> d \in DOMAIN h
                                  /\ d \in DOMAIN h => g[d] = h[d]

\* An event of today does not change the days before.
LEMMA RecordedTodayKeepsPast ==
    ASSUME NEW h, NEW event
    PROVE  PastKept(h, Recorded(h, today, event))
<1>1. ASSUME NEW d \in Dates, d < today PROVE d # today
  BY <1>1, BoundsAssumption DEF Dates
<1>2. QED
  BY <1>1 DEF PastKept, Recorded

\* A step that changes an item, and adds neither an item nor a repayment, writes
\* nothing before today.
LEMMA StepKeepsPast ==
    ASSUME LedgerInv, [Next]_vars, items' # items, DOMAIN items' = DOMAIN items,
           DOMAIN payments' \subseteq DOMAIN payments
    PROVE  DOMAIN log' = DOMAIN log /\ \A i \in DOMAIN log : PastKept(log[i], log'[i])
<1> DEFINE Kept == DOMAIN log' = DOMAIN log /\ \A i \in DOMAIN log : PastKept(log[i], log'[i])
<1>1. \A h : PastKept(h, h)
  BY DEF PastKept
<1>2. log' = log => Kept
  BY <1>1
<1>3. \A h, event : PastKept(h, Recorded(h, today, event))
  BY RecordedTodayKeepsPast
<1>4. DOMAIN log = DOMAIN items
  BY DEF LedgerInv, TypeOK
<1>5. ASSUME NEW asked \in Labels, NEW total \in Amounts, NEW paid \in 0..MaxAmount,
             NEW link \in TxIds \cup {None}, NEW due \in Dates \cup {None},
             CreateItem(asked, total, paid, link, due)
      PROVE  FALSE
  <2>1. PICK i \in ItemIds \ DOMAIN items : DOMAIN items' = DOMAIN items \cup {i}
    BY <1>5 DEF CreateItem
  <2>2. QED
    BY <2>1
<1>6. ASSUME NEW j \in ItemIds, NEW asked \in Labels, NEW total \in Amounts,
             NEW paid \in 0..MaxAmount, NEW status \in SentStatuses \cup {None},
             NEW link \in TxIds \cup {None},
             UpdateItem(j, asked, total, paid, status, link)
      PROVE  Kept
  <2>1. j \in DOMAIN log
    BY <1>4, <1>6 DEF UpdateItem
  <2>2. \/ log' = log
        \/ \E event : log' = [log EXCEPT ![j] = Recorded(log[j], today, event)]
    BY <1>6 DEF UpdateItem
  <2>3. QED
    BY <1>1, <1>2, <1>3, <2>1, <2>2
<1>7. ASSUME NEW j \in ItemIds, DeleteItem(j)
      PROVE  Kept
  <2>1. log' = [log EXCEPT ![j] = Recorded(log[j], today, Snapshot("deleted", items[j]))]
    BY <1>7 DEF DeleteItem
  <2>2. QED
    BY <1>1, <1>3, <2>1
<1>8. ASSUME NEW label \in Labels, NEW amount, NEW link, NEW date, NEW alloc,
             Settle(label, amount, link, date, alloc)
      PROVE  FALSE
  <2>1. PICK p \in PaymentIds \ DOMAIN payments : DOMAIN payments' = DOMAIN payments \cup {p}
    BY <1>8 DEF Settle
  <2>2. QED
    BY <2>1
<1>9. ASSUME NEW p \in PaymentIds, DeletePayment(p)
      PROVE  Kept
  <2>1. log' = [i \in DOMAIN log |->
                   IF payments[p].alloc[i] > 0
                   THEN Recorded(log[i], today,
                            Snapshot("payment_reversed", ReversedItem(payments[p].alloc, i)))
                   ELSE log[i]]
    BY <1>9 DEF DeletePayment, ReversalDate
  <2>2. QED
    BY <1>1, <1>3, <2>1
<1>10. ASSUME NEW from \in Labels, NEW to \in Labels, RenamePerson(from, to)
       PROVE  Kept
  BY <1>2, <1>10 DEF RenamePerson
<1>11. ASSUME UNCHANGED vars \/ Tick \/ RepairLog
       PROVE  FALSE
  BY <1>11 DEF vars, Tick, RepairLog
<1> HIDE DEF Kept
<1>12. Kept
  BY <1>5, <1>6, <1>7, <1>8, <1>9, <1>10, <1>11, Zenon
     DEF Next, OwedStep, RecordPayment, RecordAllocatedPayment
<1>13. QED
  BY <1>12 DEF Kept

\* Edits, deletions, reversals and renames never change what the wealth chart
\* says of a date before today, whatever the log holds.
THEOREM PastAlwaysKept == Spec => PastKeepsValue
<1>1. ASSUME LedgerInv, [Next]_vars, items' # items, DOMAIN items' = DOMAIN items,
             DOMAIN payments' \subseteq DOMAIN payments,
             NEW d \in Dates, d < today
      PROVE  OwedOn(d)' = OwedOn(d)
  <2>1. DOMAIN log' = DOMAIN log /\ \A i \in DOMAIN log : PastKept(log[i], log'[i])
    BY <1>1, StepKeepsPast
  <2> DEFINE Upto(h) == {e \in DOMAIN h : e <= d}
  <2>2. /\ today \in Dates
        /\ \A i \in DOMAIN log : DOMAIN log[i] \subseteq Dates
    <3>1. \A i \in DOMAIN log : log[i] \in History
      BY <1>1 DEF LedgerInv, TypeOK
    <3>2. QED
      BY <1>1, <3>1, HistoryShape DEF LedgerInv, TypeOK
  <2>3. \A i \in DOMAIN log' : DOMAIN log'[i] \subseteq Dates
    <3>1. LedgerInv'
      BY <1>1, StepKeepsInv
    <3>2. \A i \in DOMAIN log' : log'[i] \in History
      BY <3>1 DEF LedgerInv, TypeOK
    <3>3. QED
      BY <3>2, HistoryShape
  <2>4. ASSUME NEW i \in DOMAIN log
        PROVE  /\ Upto(log'[i]) = Upto(log[i])
               /\ \A e \in Upto(log[i]) : log'[i][e] = log[i][e]
    <3>1. \A e \in Dates : e <= d => e < today
      BY <1>1, <2>2 DEF Dates
    <3>2. PastKept(log[i], log'[i])
      BY <2>1
    <3>3. QED
      BY <2>1, <2>2, <2>3, <3>1, <3>2 DEF PastKept
  <2>5. KnownOn(d) = {i \in DOMAIN log : Upto(log[i]) # {}}
    BY DEF KnownOn
  <2>6. KnownOn(d)' = KnownOn(d)
    BY <2>1, <2>4 DEF KnownOn
  <2>7. ASSUME NEW i \in KnownOn(d)
        PROVE  LastEventOn(i, d)' = LastEventOn(i, d)
    <3>1. i \in DOMAIN log /\ Upto(log[i]) \in SUBSET Dates /\ Upto(log[i]) # {}
      BY <2>2, <2>5
    <3>2. Max(Upto(log[i])) \in Upto(log[i])
      BY <3>1, MaxOfDates
    <3>3. log'[i][Max(Upto(log[i]))] = log[i][Max(Upto(log[i]))]
      BY <2>4, <3>1, <3>2
    <3>4. QED
      BY <2>4, <3>1, <3>3 DEF LastEventOn
  <2>8. CountedOn(d)' = CountedOn(d) /\ CountedOn(d) \subseteq KnownOn(d)
    BY <2>6, <2>7 DEF CountedOn
  <2>9. QED
    BY <2>7, <2>8 DEF OwedOn
<1>2. LedgerInv /\ [Next]_vars =>
        [items' # items /\ DOMAIN items' = DOMAIN items
             /\ DOMAIN payments' \subseteq DOMAIN payments =>
            \A d \in Dates : d < today => OwedOn(d)' = OwedOn(d)]_vars
  BY <1>1
<1>3. QED
  BY <1>2, LedgerInvariant, PTL DEF Spec, PastKeepsValue

\* When the check lists nothing and nothing was deleted, the last event of every
\* item holds its remaining amount and status, so that the replay of the whole
\* log is the total read from the rows.
THEOREM CleanLogAlwaysReplays == Spec => []CleanLogReplaysToday
<1>1. ASSUME LedgerInv, IntegrityIssues = {}, \A i \in DOMAIN items : Live(i)
      PROVE  OwedOn(MaxDate) = ActiveRemainingTotal
  <2>1. /\ DOMAIN log = DOMAIN items
        /\ IsFiniteSet(DOMAIN items)
        /\ \A i \in DOMAIN items : items[i].remaining \in Int
    <3>1. \A i \in DOMAIN items : items[i].remaining \in 0..MaxAmount
      BY <1>1 DEF LedgerInv, TypeOK, Item
    <3>2. QED
      BY <1>1, <3>1, ItemIdsAssumption, FS_Subset DEF LedgerInv, TypeOK
  <2>2. ASSUME NEW i \in DOMAIN items
        PROVE  /\ i \in KnownOn(MaxDate)
               /\ LastEventOn(i, MaxDate) = LatestEvent(log[i])
               /\ LatestEvent(log[i]).type # "deleted"
               /\ LatestEvent(log[i]).remaining = items[i].remaining
               /\ LatestEvent(log[i]).status = items[i].status
    <3>1. ~Unlogged(i) /\ ~LatestIsDelete(i) /\ ~Stale(log[i], items[i])
      BY <1>1 DEF IntegrityIssues
    <3>2. DOMAIN log[i] \subseteq Dates /\ DOMAIN log[i] # {}
      <4>1. log[i] \in History
        BY <1>1, <2>1 DEF LedgerInv, TypeOK
      <4>2. QED
        BY <3>1, <4>1, HistoryShape DEF Unlogged
    <3>3. {e \in DOMAIN log[i] : e <= MaxDate} = DOMAIN log[i]
      <4>1. \A e \in Dates : e <= MaxDate
        BY BoundsAssumption DEF Dates
      <4>2. QED
        BY <3>2, <4>1
    <3>4. i \in KnownOn(MaxDate)
      BY <2>1, <3>2, <3>3 DEF KnownOn
    <3>5. LastEventOn(i, MaxDate) = LatestEvent(log[i])
      BY <3>3 DEF LastEventOn, LatestEvent, LatestDate
    <3>6. QED
      BY <3>1, <3>4, <3>5 DEF LatestIsDelete, Stale
  <2>3. CountedOn(MaxDate) = ActiveItems
    BY <1>1, <2>1, <2>2 DEF CountedOn, KnownOn, ActiveItems
  <2> DEFINE f == [i \in ActiveItems |-> LastEventOn(i, MaxDate).remaining]
             g == [i \in DOMAIN items |-> items[i].remaining]
  <2>4. ActiveItems \subseteq DOMAIN items /\ IsFiniteSet(ActiveItems)
    BY <2>1, FS_Subset DEF ActiveItems
  <2>5. \A i \in ActiveItems : g[i] \in Int /\ f[i] = g[i]
    BY <2>1, <2>2, <2>4
  <2>6. OwedOn(MaxDate) = SumFunctionOnSet(f, ActiveItems)
    BY <2>3 DEF OwedOn, SumFunction
  <2>7. ActiveRemainingTotal = SumFunctionOnSet(g, ActiveItems)
    BY DEF ActiveRemainingTotal, RemainingIn
  <2> HIDE DEF f, g
  <2>8. SumFunctionOnSet(f, ActiveItems) = SumFunctionOnSet(g, ActiveItems)
    BY <2>4, <2>5, SumCongruence
  <2>9. QED
    BY <2>6, <2>7, <2>8
<1>2. LedgerInv => CleanLogReplaysToday
  BY <1>1 DEF CleanLogReplaysToday
<1>3. QED
  BY <1>2, LedgerInvariant, PTL


-----------------------------------------------------------------------------
(* Transactions and owed rows written together (TransactionLinks)          *)

-----------------------------------------------------------------------------
(* Rows and histories                                                      *)

\* A history that is one of an item of this deletion state.
HistoryOf(h, deleted) ==
    /\ h \in History
    /\ DOMAIN h # {}
    /\ \A d \in DOMAIN h : h[d].type = "deleted" => deleted

\* A balanced row with a history.
RowOK(row, h) ==
    row \in Item /\ row.paid + row.remaining = row.total /\ HistoryOf(h, row.deleted)

\* The invariant, row by row.
Tables ==
    /\ DOMAIN items \subseteq ItemIds /\ items = [i \in DOMAIN items |-> items[i]]
    /\ DOMAIN log = DOMAIN items /\ log = [i \in DOMAIN items |-> log[i]]
    /\ payments \in [DOMAIN payments -> Payment] /\ DOMAIN payments \subseteq PaymentIds
    /\ TxsShape
    /\ today \in Dates

\* The ledger's invariant, an item at a time.
LEMMA LedgerByRows ==
    LedgerInv <=> Tables /\ \A i \in DOMAIN items : RowOK(items[i], log[i])
<1>1. ASSUME LedgerInv
      PROVE  Tables /\ \A i \in DOMAIN items : RowOK(items[i], log[i])
  BY <1>1 DEF LedgerInv, TypeOK, Balanced, LogComplete, Tables, TxsShape, RowOK, HistoryOf
<1>2. ASSUME Tables, \A i \in DOMAIN items : RowOK(items[i], log[i])
      PROVE  LedgerInv
  <2>1. /\ items \in [DOMAIN items -> Item] /\ log \in [DOMAIN items -> History]
        /\ DOMAIN items \subseteq ItemIds /\ DOMAIN log = DOMAIN items
    BY <1>2 DEF Tables, RowOK, HistoryOf
  <2>2. TypeOK
    BY <1>2, <2>1 DEF Tables, TxsShape, TypeOK
  <2>3. QED
    BY <1>2, <2>2 DEF LedgerInv, Balanced, LogComplete, RowOK, HistoryOf
<1>3. QED
  BY <1>1, <1>2

\* The same of the state a step leads to.
LEMMA LedgerByRowsNext ==
    LedgerInv' <=> (Tables /\ \A i \in DOMAIN items : RowOK(items[i], log[i]))'
BY LedgerByRows, PTL

\* An event added to a history, or to none, leaves a history.
LEMMA RecordedHistory ==
    ASSUME NEW h \in History, NEW was, NEW is,
           h = NoRows \/ HistoryOf(h, was), was => is,
           NEW d \in Dates, NEW type \in EventTypes, NEW row \in Item,
           type = "deleted" => is
    PROVE  HistoryOf(Recorded(h, d, Snapshot(type, row)), is)
<1> DEFINE e == Snapshot(type, row)
<1>1. e \in Event /\ e.type = type
  BY SnapshotShape
<1> HIDE DEF e
<1>2. /\ Recorded(h, d, e) \in History
      /\ DOMAIN Recorded(h, d, e) = DOMAIN h \cup {d}
      /\ Recorded(h, d, e)[d] = e
      /\ \A c \in DOMAIN h : c # d => Recorded(h, d, e)[c] = h[c]
  BY <1>1, RecordedShape, Zenon
<1>3. \A c \in DOMAIN h : h[c].type = "deleted" => was
  BY NoRowsShape DEF HistoryOf
<1>4. ASSUME NEW c \in DOMAIN Recorded(h, d, e), Recorded(h, d, e)[c].type = "deleted"
      PROVE  is
  <2>1. CASE c = d
    BY <1>1, <1>2, <1>4, <2>1
  <2>2. CASE c # d
    BY <1>2, <1>3, <1>4, <2>2
  <2>3. QED
    BY <2>1, <2>2
<1>5. QED
  BY <1>2, <1>4 DEF HistoryOf, e

\* Any other event than a deletion leaves it a history of the same item.
LEMMA LaterEvent ==
    ASSUME NEW h, NEW deleted, HistoryOf(h, deleted),
           NEW d \in Dates, NEW type \in EventTypes, type # "deleted", NEW row \in Item
    PROVE  HistoryOf(Recorded(h, d, Snapshot(type, row)), deleted)
<1>1. h \in History
  BY DEF HistoryOf
<1>2. (h = NoRows \/ HistoryOf(h, deleted)) /\ (deleted => deleted)
      /\ (type = "deleted" => deleted)
  OBVIOUS
<1>3. QED
  BY <1>1, <1>2, RecordedHistory

FreshRow(row, total, paid, link) ==
    /\ row \in Item
    /\ row.paid + row.remaining = row.total
    /\ row.deleted = FALSE
    /\ row.total = total /\ row.paid = paid /\ row.link = link

\* A row a command adds is balanced, live and linked as asked.
LEMMA NewItemShape ==
    ASSUME NEW label \in Labels, NEW total \in Amounts, NEW paid \in 0..MaxAmount,
           paid <= total, NEW link \in TxIds \cup {None}, today \in Dates
    PROVE  FreshRow(NewItem(label, total, paid, link), total, paid, link)
<1> DEFINE row == NewItem(label, total, paid, link)
           hash == IF link = None THEN None ELSE <<link, label[1]>>
<1>1. total - paid \in 0..MaxAmount /\ paid + (total - paid) = total
  BY BoundsAssumption DEF Amounts
<1>2. Status(paid, total - paid) \in Statuses
  BY StatusShape
<1>3. hash \in (TxIds \X People) \cup {None}
  BY DEF Labels
<1>4. row = [person |-> label, total |-> total, paid |-> paid,
             remaining |-> total - paid, status |-> Status(paid, total - paid),
             link |-> link, hash |-> hash, deleted |-> FALSE, updated |-> today]
  BY DEF NewItem
<1> HIDE DEF hash, row
<1>5. QED
  BY <1>1, <1>2, <1>3, <1>4 DEF Item, row, FreshRow

-----------------------------------------------------------------------------
(* Commands that add owed rows                                             *)

\* The links of a state after a step that keeps the old rows' links, or gives a
\* row a link of L.
RelinkedTo(L) ==
    /\ \A i \in DOMAIN items' :
          \/ items'[i].link \in L
          \/ i \in DOMAIN items /\ items'[i].link = items[i].link
    /\ \A p \in DOMAIN payments' :
          \/ payments'[p].link \in L
          \/ p \in DOMAIN payments /\ payments'[p].link = payments[p].link

\* The rows of a command that links new items to t.
LEMMA AddItemsKeeps ==
    ASSUME LedgerInv, NEW t \in TxIds, NEW date \in Dates, NEW rows \in OwedRows,
           AddItems(t, date, rows), UNCHANGED <<payments, today>>, TxsShape'
    PROVE  LedgerInv' /\ RelinkedTo({t})
<1> DEFINE Row(l, i) == NewItem(l[i], rows[i].total, rows[i].paid, t)
           Created(l, i) == Recorded(NoRows, date, Snapshot("created", Row(l, i)))
<1>1. PICK labels \in [DOMAIN rows -> Labels] :
         /\ \A i \in DOMAIN rows :
               /\ \A j \in DOMAIN items : j < i /\ items[j].hash # Row(labels, i).hash
               /\ rows[i].paid <= rows[i].total
         /\ items' = [i \in DOMAIN items \cup DOMAIN rows |->
                         IF i \in DOMAIN rows THEN Row(labels, i) ELSE items[i]]
         /\ log' = [i \in DOMAIN log \cup DOMAIN rows |->
                       IF i \in DOMAIN rows THEN Created(labels, i) ELSE log[i]]
  BY DEF AddItems
<1>2. /\ DOMAIN rows \subseteq ItemIds
      /\ \A i \in DOMAIN rows : rows[i].total \in Amounts /\ rows[i].paid \in 0..MaxAmount
  BY DEF OwedRows, OwedRow
<1>3. /\ Tables /\ today \in Dates /\ DOMAIN log = DOMAIN items
      /\ \A i \in DOMAIN items : RowOK(items[i], log[i])
  BY LedgerByRows DEF Tables
<1>4. ASSUME NEW i \in DOMAIN rows
      PROVE  RowOK(Row(labels, i), Created(labels, i)) /\ Row(labels, i).link = t
  <2> DEFINE label == labels[i]
             total == rows[i].total
             paid == rows[i].paid
             row == NewItem(label, total, paid, t)
  <2>1. /\ label \in Labels /\ total \in Amounts
        /\ paid \in 0..MaxAmount /\ paid <= total
        /\ t \in TxIds \cup {None} /\ today \in Dates
    BY <1>1, <1>2, <1>3
  <2> HIDE DEF label, total, paid
  <2>2. FreshRow(row, total, paid, t)
    BY <2>1, NewItemShape
  <2> HIDE DEF row
  <2>3. HistoryOf(Recorded(NoRows, date, Snapshot("created", row)), FALSE)
    <3>1. NoRows \in History /\ "created" \in EventTypes /\ "created" # "deleted"
      BY NoRowsShape DEF EventTypes
    <3>2. QED
      BY <2>2, <3>1, RecordedHistory DEF FreshRow
  <2>4. QED
    BY <2>2, <2>3 DEF RowOK, FreshRow, row, label, total, paid
<1>5. DOMAIN rows \cap DOMAIN items = {}
  <2>1. \A i \in DOMAIN rows, j \in DOMAIN items : j < i /\ j \in Nat
    BY <1>1, <1>3, ItemIdsAssumption DEF Tables
  <2>2. QED
    BY <2>1
<1> HIDE DEF Row, Created
<1>6. \A i \in DOMAIN items' :
         \/ i \in DOMAIN rows /\ items'[i] = Row(labels, i) /\ log'[i] = Created(labels, i)
         \/ i \in DOMAIN items \ DOMAIN rows /\ items'[i] = items[i] /\ log'[i] = log[i]
  BY <1>1, <1>3
<1>7. LedgerInv'
  <2>1. \A i \in DOMAIN items' : RowOK(items'[i], log'[i])
    BY <1>3, <1>4, <1>6
  <2>2. Tables'
    <3>1. /\ DOMAIN items' = DOMAIN items \cup DOMAIN rows
          /\ DOMAIN log' = DOMAIN items \cup DOMAIN rows
          /\ items' = [i \in DOMAIN items' |-> items'[i]]
          /\ log' = [i \in DOMAIN items' |-> log'[i]]
      BY <1>1, <1>3
    <3>2. QED
      BY <1>2, <1>3, <3>1 DEF Tables
  <2>3. QED
    BY <2>1, <2>2, LedgerByRowsNext
<1>8. RelinkedTo({t})
  BY <1>4, <1>6 DEF RelinkedTo
<1>9. QED
  BY <1>7, <1>8

\* The rows of a repayment that is linked to t.
LEMMA SettleRelinks ==
    ASSUME LedgerInv, NEW label \in Labels, NEW amount \in Amounts,
           NEW link \in TxIds \cup {None}, NEW date \in Dates, NEW alloc,
           Allocatable(alloc, amount), Settle(label, amount, link, date, alloc)
    PROVE  RelinkedTo({link})
<1>1. PICK p \in PaymentIds : Repays(p, label, amount, link, date, alloc)
  BY SettleRepays
<1>2. /\ items' = [i \in DOMAIN items |-> SettledItem(label, alloc, i)]
      /\ DOMAIN payments' = DOMAIN payments \cup {p}
      /\ PaymentsKept(DOMAIN payments)
      /\ payments'[p].link = link
  BY <1>1 DEF Repays
<1>3. ASSUME NEW i \in DOMAIN items
      PROVE  items'[i].link = items[i].link
  <2>1. alloc \in Allocations /\ (alloc[i] > 0 => alloc[i] <= items[i].remaining)
    BY DEF Allocatable, LedgerInv, TypeOK
  <2>2. items'[i] = SettledItem(label, alloc, i)
    BY <1>2
  <2>3. QED
    BY <2>1, <2>2, SettledShape
<1>4. QED
  BY <1>2, <1>3 DEF RelinkedTo, PaymentsKept

\* The rows of a split that comes with its repayment: a new item, paid its share,
\* and the older items paid by what was left of the repayment.
LEMMA SplitPaidKeeps ==
    ASSUME LedgerInv, NEW t \in TxIds, NEW i \in ItemIds, NEW asked \in Labels,
           NEW total \in Amounts, NEW amount \in Amounts, NEW link \in TxIds,
           NEW date \in Dates, NEW extra \in Allocations,
           SplitTransactionPaid(t, i, asked, total, amount, link, date, extra)
    PROVE  LedgerInv' /\ RelinkedTo({t, link})
<1> DEFINE Fresh(l) == NewItem(l, total, 0, t)
           share == ShareOfRow(amount, total)
           alloc == SplitAllocation(i, share, extra)
<1>1. PICK label \in Labels, p \in PaymentIds \ DOMAIN payments :
         /\ \A j \in DOMAIN items : j < i
         /\ CanSplit(t, total)
         /\ Allocatable(extra, amount - share)
         /\ items' = [j \in DOMAIN items \cup {i} |->
                         IF j = i THEN Adjusted(Fresh(label), share)
                         ELSE SettledItem(label, alloc, j)]
         /\ payments' = [q \in DOMAIN payments \cup {p} |->
                            IF q = p
                            THEN [person |-> label, amount |-> amount, link |-> link,
                                  date |-> date, alloc |-> alloc]
                            ELSE NormalisedPayments(label)[q]]
         /\ log' = [j \in DOMAIN log \cup {i} |->
                       IF j = i THEN SplitHistory(i, label, total, t, date, share)
                       ELSE IF alloc[j] > 0
                       THEN Recorded(log[j], date,
                                Snapshot("payment", SettledItem(label, alloc, j)))
                       ELSE log[j]]
         /\ UNCHANGED <<txs, today>>
  BY DEF SplitTransactionPaid
<1>2. /\ Tables /\ TxsShape /\ today \in Dates /\ DOMAIN log = DOMAIN items
      /\ \A j \in DOMAIN items : RowOK(items[j], log[j])
      /\ DOMAIN items \subseteq ItemIds
      /\ payments \in [DOMAIN payments -> Payment] /\ DOMAIN payments \subseteq PaymentIds
  BY LedgerByRows DEF Tables
<1>3. share \in Nat /\ share <= total /\ share <= MaxAmount
  <2>1. amount \in Int /\ total \in Int
    BY DEF Amounts
  <2>2. share \in {amount, total} /\ share <= amount /\ share <= total
    BY <2>1, MinOfTwo DEF ShareOfRow
  <2>3. QED
    BY <2>2, BoundsAssumption DEF Amounts
<1> HIDE DEF share
<1>4. /\ alloc \in Allocations
      /\ alloc[i] = share
      /\ \A j \in ItemIds : j # i => alloc[j] = extra[j]
  BY <1>3, BoundsAssumption DEF SplitAllocation, Allocations
<1> HIDE DEF alloc
<1>5. i \notin DOMAIN items
  <2>1. \A j \in DOMAIN items : j < i /\ j \in Nat
    BY <1>1, <1>2, ItemIdsAssumption
  <2>2. QED
    BY <2>1
<1>6. ASSUME NEW j \in DOMAIN items
      PROVE  /\ RowOK(items'[j], log'[j])
             /\ items'[j].link = items[j].link
             /\ j \in DOMAIN items' /\ j \in DOMAIN log'
  <2> DEFINE row == SettledItem(label, alloc, j)
  <2>1. /\ items'[j] = row
        /\ log'[j] = IF alloc[j] > 0
                     THEN Recorded(log[j], date, Snapshot("payment", row))
                     ELSE log[j]
    BY <1>1, <1>2, <1>5
  <2>2. alloc[j] > 0 => alloc[j] <= items[j].remaining
    BY <1>1, <1>2, <1>4, <1>5 DEF Allocatable
  <2>3. /\ row \in Item /\ row.paid + row.remaining = row.total
        /\ row.deleted = items[j].deleted /\ row.link = items[j].link
    BY <1>4, <2>2, SettledShape
  <2> HIDE DEF row
  <2>4. log[j] \in History /\ HistoryOf(log[j], row.deleted)
    BY <1>2, <2>3 DEF RowOK, HistoryOf
  <2>5. HistoryOf(Recorded(log[j], date, Snapshot("payment", row)), row.deleted)
    <3>1. "payment" \in EventTypes /\ "payment" # "deleted"
      BY DEF EventTypes
    <3>2. QED
      BY <2>3, <2>4, <3>1, LaterEvent
  <2>6. HistoryOf(log'[j], row.deleted)
    BY <2>1, <2>4, <2>5
  <2>7. QED
    BY <1>1, <1>2, <2>1, <2>3, <2>6 DEF RowOK
<1>7. RowOK(items'[i], log'[i]) /\ items'[i].link = t
  <2> DEFINE item == NewItem(label, total, 0, t)
             row == Adjusted(item, share)
             h == Recorded(NoRows, txs[t].date, Snapshot("created", item))
  <2>1. items'[i] = row
    BY <1>1
  <2>2. log'[i] = Recorded(h, date, Snapshot("payment", row))
    BY <1>1 DEF SplitHistory
  <2>3. FreshRow(item, total, 0, t)
    <3>1. 0 \in 0..MaxAmount /\ 0 <= total /\ t \in TxIds \cup {None} /\ today \in Dates
      BY <1>2, BoundsAssumption DEF Amounts
    <3>2. QED
      BY <3>1, NewItemShape
  <2> HIDE DEF item
  <2>4. /\ item \in Item /\ item.paid + item.remaining = item.total
        /\ item.deleted = FALSE /\ item.link = t
        /\ share \in Int /\ 0 <= item.paid + share /\ item.paid + share <= item.total
        /\ today \in Dates
    BY <1>2, <1>3, <2>3 DEF FreshRow
  <2>5. /\ row \in Item /\ row.paid + row.remaining = row.total
        /\ row.deleted = item.deleted /\ row.link = item.link
    BY <2>4, AdjustedShape, Zenon
  <2> HIDE DEF row
  <2>6. txs[t].date \in Dates
    BY <1>1, <1>2 DEF CanSplit, TxsShape, Transaction
  <2>7. /\ NoRows \in History /\ "created" \in EventTypes /\ "created" # "deleted"
        /\ "payment" \in EventTypes /\ "payment" # "deleted"
    BY NoRowsShape DEF EventTypes
  <2>8. HistoryOf(h, FALSE)
    BY <2>4, <2>6, <2>7, RecordedHistory
  <2> HIDE DEF h
  <2>9. h \in History
    BY <2>8 DEF HistoryOf
  <2>10. HistoryOf(Recorded(h, date, Snapshot("payment", row)), FALSE)
    BY <2>5, <2>7, <2>8, <2>9, RecordedHistory
  <2>11. QED
    BY <2>1, <2>2, <2>4, <2>5, <2>10 DEF RowOK
<1>8. ASSUME NEW q \in DOMAIN payments'
      PROVE  /\ payments'[q] \in Payment /\ q \in PaymentIds
             /\ \/ payments'[q].link = link
                \/ q \in DOMAIN payments /\ payments'[q].link = payments[q].link
  <2>1. CASE q = p
    BY <1>1, <1>4, <2>1 DEF Payment
  <2>2. CASE q # p
    <3>1. q \in DOMAIN payments /\ payments[q] \in Payment
      BY <1>1, <1>2, <2>2
    <3>2. payments'[q] = payments[q] \/ payments'[q] = [payments[q] EXCEPT !.person = label]
      BY <1>1, <2>2, <3>1 DEF NormalisedPayments
    <3>3. QED
      BY <1>2, <3>1, <3>2 DEF Payment
  <2>3. QED
    BY <2>1, <2>2
<1>9. /\ DOMAIN items' = DOMAIN items \cup {i} /\ DOMAIN log' = DOMAIN items \cup {i}
      /\ items' = [j \in DOMAIN items' |-> items'[j]]
      /\ log' = [j \in DOMAIN items' |-> log'[j]]
      /\ payments' \in [DOMAIN payments' -> Payment] /\ DOMAIN payments' \subseteq PaymentIds
      /\ UNCHANGED <<txs, today>>
  BY <1>1, <1>2, <1>8
<1>10. LedgerInv'
  <2>1. Tables'
    <3>1. TxsShape'
      BY <1>2, <1>9 DEF TxsShape
    <3>2. QED
      BY <1>2, <1>9, <3>1 DEF Tables
  <2>2. \A j \in DOMAIN items' : RowOK(items'[j], log'[j])
    BY <1>6, <1>7, <1>9
  <2>3. QED
    BY <2>1, <2>2, LedgerByRowsNext
<1>11. QED
  BY <1>6, <1>7, <1>8, <1>9, <1>10 DEF RelinkedTo

-----------------------------------------------------------------------------
(* Deleting a transaction                                                  *)

\* The rows of a deletion that takes linked items along.
LEMMA UnlinkKeeps ==
    ASSUME LedgerInv, NEW t, NEW rows, NEW type \in EventTypes, Unlink(t, rows, type),
           DOMAIN rows \subseteq DOMAIN items,
           \A i \in DOMAIN rows :
              /\ rows[i] \in Item
              /\ rows[i].paid + rows[i].remaining = rows[i].total
              /\ items[i].deleted \/ type = "deleted" => rows[i].deleted
    PROVE  LedgerInv'
<1>1. /\ items' = [i \in DOMAIN items |-> IF i \in DOMAIN rows THEN rows[i] ELSE items[i]]
      /\ log' = [i \in DOMAIN log |->
                    IF i \in DOMAIN rows
                    THEN Recorded(log[i], today, Snapshot(type, rows[i]))
                    ELSE log[i]]
      /\ txs' = [u \in DOMAIN txs \ {t} |-> txs[u]]
      /\ UNCHANGED <<payments, today>>
  BY DEF Unlink, RemoveTx
<1>2. /\ Tables /\ today \in Dates /\ DOMAIN log = DOMAIN items
      /\ \A i \in DOMAIN items : RowOK(items[i], log[i])
  BY LedgerByRows DEF Tables
<1>3. ASSUME NEW i \in DOMAIN items
      PROVE  RowOK(items'[i], log'[i])
  <2>1. CASE i \in DOMAIN rows
    <3>1. items'[i] = rows[i] /\ log'[i] = Recorded(log[i], today, Snapshot(type, rows[i]))
      BY <1>1, <1>2, <2>1
    <3>2. /\ rows[i] \in Item /\ rows[i].paid + rows[i].remaining = rows[i].total
          /\ items[i].deleted => rows[i].deleted
          /\ type = "deleted" => rows[i].deleted
      BY <2>1
    <3> DEFINE was == items[i].deleted
               is == rows[i].deleted
    <3>3. log[i] \in History /\ (log[i] = NoRows \/ HistoryOf(log[i], was))
      BY <1>2 DEF RowOK, HistoryOf
    <3>4. (was => is) /\ (type = "deleted" => is) /\ rows[i] \in Item
      BY <3>2
    <3> HIDE DEF was, is
    <3>5. HistoryOf(Recorded(log[i], today, Snapshot(type, rows[i])), is)
      BY <1>2, <3>3, <3>4, RecordedHistory
    <3>6. QED
      BY <3>1, <3>2, <3>5 DEF RowOK, is
  <2>2. CASE i \notin DOMAIN rows
    BY <1>1, <1>2, <2>2
  <2>3. QED
    BY <2>1, <2>2
<1>4. Tables'
  <2>1. TxsShape'
    BY <1>1, <1>2 DEF Tables, TxsShape
  <2>2. QED
    BY <1>1, <1>2, <2>1 DEF Tables
<1>5. QED
  BY <1>1, <1>3, <1>4, LedgerByRowsNext

\* After it nothing is linked to t, and the other links are as they were.
LEMMA UnlinkResolves ==
    ASSUME LedgerInv, LinksResolve, NEW t \in TxIds, NEW rows, NEW type,
           Unlink(t, rows, type), DOMAIN rows = LinkedItems(t),
           LinkedPaymentRows(t) = {},
           \A i \in DOMAIN rows : rows[i].link = None
    PROVE  LinksResolve'
<1>1. /\ items' = [i \in DOMAIN items |-> IF i \in DOMAIN rows THEN rows[i] ELSE items[i]]
      /\ DOMAIN txs' = DOMAIN txs \ {t}
      /\ payments' = payments
  BY DEF Unlink, RemoveTx
<1>2. ASSUME NEW i \in DOMAIN items
      PROVE  items'[i].link \in DOMAIN txs' \cup {None}
  BY <1>1 DEF LinkedItems, LinksResolve
<1>3. ASSUME NEW p \in DOMAIN payments
      PROVE  payments[p].link \in DOMAIN txs' \cup {None}
  BY <1>1 DEF LinkedPaymentRows, LinksResolve
<1>4. QED
  BY <1>1, <1>2, <1>3 DEF LinksResolve

\* Deleting a transaction with what is owed for it.
LEMMA DeleteWithOwedKeeps ==
    ASSUME LedgerInv, LinksResolve, NEW t \in TxIds, DeleteWithOwed(t)
    PROVE  LedgerInv' /\ LinksResolve'
<1> DEFINE rows == [i \in LinkedItems(t) |-> DeletedRow(items[i])]
<1>1. Unlink(t, rows, "deleted") /\ LinkedPaymentRows(t) = {}
  BY DEF DeleteWithOwed, DeleteWithOwedAllowed
<1>2. today \in Dates /\ LinkedItems(t) \subseteq DOMAIN items
  BY DEF LedgerInv, TypeOK, LinkedItems
<1>3. ASSUME NEW i \in LinkedItems(t)
      PROVE  /\ DeletedRow(items[i]) \in Item
             /\ DeletedRow(items[i]).paid + DeletedRow(items[i]).remaining
                  = DeletedRow(items[i]).total
             /\ DeletedRow(items[i]).deleted
             /\ DeletedRow(items[i]).link = None
  <2>1. items[i] \in Item /\ items[i].paid + items[i].remaining = items[i].total
    BY <1>2 DEF LedgerInv, TypeOK, Balanced
  <2>2. QED
    BY <1>2, <2>1 DEF DeletedRow, Item
<1>4. "deleted" \in EventTypes
  BY DEF EventTypes
<1>5. /\ DOMAIN rows = LinkedItems(t)
      /\ \A i \in DOMAIN rows : rows[i] = DeletedRow(items[i])
  OBVIOUS
<1> HIDE DEF rows
<1>6. LedgerInv'
  BY <1>1, <1>2, <1>3, <1>4, <1>5, UnlinkKeeps
<1>7. LinksResolve'
  BY <1>1, <1>3, <1>5, UnlinkResolves
<1>8. QED
  BY <1>6, <1>7

\* Deleting a transaction and keeping what is owed for it.
LEMMA PreserveOwedKeeps ==
    ASSUME LedgerInv, LinksResolve, NEW t \in TxIds, NEW asked \in Labels,
           PreserveOwed(t, asked)
    PROVE  /\ LedgerInv' /\ LinksResolve'
           /\ \A i \in DOMAIN items : items'[i].deleted = items[i].deleted
<1> DEFINE Rows(l) == [i \in LinkedItems(t) |-> PreservedRow(items[i], l)]
<1>1. PICK label \in KnownPeople : Unlink(t, Rows(label), "adjusted")
  BY DEF PreserveOwed
<1>2. LinkedPaymentRows(t) = {} /\ today \in Dates /\ LinkedItems(t) \subseteq DOMAIN items
  BY DEF PreserveOwed, PreserveOwedAllowed, LedgerInv, TypeOK, LinkedItems
<1>3. label \in Labels
  BY DEF KnownPeople, LedgerInv, TypeOK, Item, Payment
<1>4. ASSUME NEW i \in LinkedItems(t)
      PROVE  /\ PreservedRow(items[i], label) \in Item
             /\ PreservedRow(items[i], label).paid + PreservedRow(items[i], label).remaining
                  = PreservedRow(items[i], label).total
             /\ PreservedRow(items[i], label).deleted = items[i].deleted
             /\ PreservedRow(items[i], label).link = None
  <2>1. items[i] \in Item /\ items[i].paid + items[i].remaining = items[i].total
    BY <1>2 DEF LedgerInv, TypeOK, Balanced
  <2>2. QED
    BY <1>2, <1>3, <2>1 DEF PreservedRow, Item
<1>5. "adjusted" \in EventTypes /\ "adjusted" # "deleted"
  BY DEF EventTypes
<1> DEFINE rows == Rows(label)
<1>6. /\ DOMAIN rows = LinkedItems(t)
      /\ \A i \in DOMAIN rows : rows[i] = PreservedRow(items[i], label)
      /\ Unlink(t, rows, "adjusted")
  BY <1>1
<1> HIDE DEF rows, Rows
<1>7. LedgerInv'
  BY <1>2, <1>4, <1>5, <1>6, UnlinkKeeps
<1>8. LinksResolve'
  BY <1>2, <1>4, <1>6, UnlinkResolves
<1>9. ASSUME NEW i \in DOMAIN items
      PROVE  items'[i].deleted = items[i].deleted
  <2>1. items'[i] = IF i \in DOMAIN rows THEN rows[i] ELSE items[i]
    BY <1>6 DEF Unlink
  <2>2. QED
    BY <1>4, <1>6, <2>1
<1>10. QED
  BY <1>7, <1>8, <1>9

-----------------------------------------------------------------------------
(* Every step                                                              *)

\* Links of old rows, or to transactions that are there, resolve if no
\* transaction goes.
LEMMA RelinkedResolves ==
    ASSUME LinksResolve, NEW L, RelinkedTo(L), L \subseteq DOMAIN txs' \cup {None},
           DOMAIN txs \subseteq DOMAIN txs'
    PROVE  LinksResolve'
BY DEF LinksResolve, RelinkedTo

\* The requests of the owed ledger link to transactions that are there.
LEMMA OwedStepRelinks ==
    ASSUME LedgerInv, [Next]_vars
    PROVE  RelinkedTo(DOMAIN txs \cup {None})
<1> DEFINE Relinked == RelinkedTo(DOMAIN txs \cup {None})
<1>1. /\ items \in [DOMAIN items -> Item]
      /\ \A p \in DOMAIN payments : payments[p] \in Payment
  BY DEF LedgerInv, TypeOK
<1>2. items' = items /\ payments' = payments => Relinked
  BY DEF RelinkedTo
<1>3. ASSUME NEW asked \in Labels, NEW total \in Amounts, NEW paid \in 0..MaxAmount,
             NEW link \in TxIds \cup {None}, NEW due \in Dates \cup {None},
             CreateItem(asked, total, paid, link, due)
      PROVE  Relinked
  <2>1. PICK i \in ItemIds \ DOMAIN items, label \in Labels :
           /\ CanLinkItem(link, total, NewItem(label, total, paid, link).status, {})
           /\ items' = [j \in DOMAIN items \cup {i} |->
                           IF j = i THEN NewItem(label, total, paid, link) ELSE items[j]]
           /\ payments' = payments
    BY <1>3 DEF CreateItem
  <2>2. NewItem(label, total, paid, link).status # "cancelled"
    BY StatusShape DEF NewItem
  <2>3. link \in DOMAIN txs \cup {None}
    BY <2>1, <2>2 DEF CanLinkItem
  <2>4. NewItem(label, total, paid, link).link = link
    BY DEF NewItem
  <2>5. QED
    BY <2>1, <2>3, <2>4 DEF RelinkedTo
<1>4. ASSUME NEW i \in ItemIds, NEW asked \in Labels, NEW total \in Amounts,
             NEW paid \in 0..MaxAmount, NEW status \in SentStatuses \cup {None},
             NEW link \in TxIds \cup {None},
             UpdateItem(i, asked, total, paid, status, link)
      PROVE  Relinked
  <2>1. PICK label \in Labels :
           items' = [items EXCEPT ![i] =
                        EditedItem(items[i], label, total, paid, status, link)]
    BY <1>4 DEF UpdateItem
  <2>2. /\ i \in DOMAIN items /\ link \in DOMAIN txs \cup {None} /\ payments' = payments
    BY <1>4 DEF UpdateItem
  <2>3. EditedItem(items[i], label, total, paid, status, link).link = link
    BY <1>1, <2>2 DEF EditedItem, Item
  <2>4. QED
    BY <1>1, <2>1, <2>2, <2>3 DEF RelinkedTo
<1>5. ASSUME NEW i \in ItemIds, DeleteItem(i)
      PROVE  Relinked
  BY <1>1, <1>5 DEF DeleteItem, RelinkedTo, Item
<1>6. ASSUME NEW label \in Labels, NEW amount \in Amounts,
             NEW link \in TxIds \cup {None}, NEW date \in Dates, NEW alloc,
             CanLinkPayment(link, amount), Allocatable(alloc, amount),
             Settle(label, amount, link, date, alloc)
      PROVE  Relinked
  <2>1. link \in DOMAIN txs \cup {None}
    BY <1>6 DEF CanLinkPayment
  <2>2. RelinkedTo({link})
    BY <1>6, SettleRelinks
  <2>3. QED
    BY <2>1, <2>2 DEF RelinkedTo
<1>7. ASSUME NEW p \in PaymentIds, DeletePayment(p)
      PROVE  Relinked
  <2>1. /\ items' = [i \in DOMAIN items |-> ReversedItem(payments[p].alloc, i)]
        /\ payments' = [q \in DOMAIN payments \ {p} |-> payments[q]]
    BY <1>7 DEF DeletePayment
  <2>2. \A i \in DOMAIN items : items'[i].link = items[i].link
    BY <1>1, <2>1 DEF ReversedItem, Adjusted, Item
  <2>3. QED
    BY <2>1, <2>2 DEF RelinkedTo
<1>8. ASSUME NEW from \in Labels, NEW to \in Labels, RenamePerson(from, to)
      PROVE  Relinked
  <2>1. \A i \in DOMAIN items : items'[i].link = items[i].link
    BY <1>1, <1>8 DEF RenamePerson, Item
  <2>2. \A p \in DOMAIN payments : payments'[p].link = payments[p].link
    BY <1>1, <1>8 DEF RenamePerson, Payment
  <2>3. DOMAIN items' = DOMAIN items /\ DOMAIN payments' = DOMAIN payments
    BY <1>8 DEF RenamePerson
  <2>4. QED
    BY <2>1, <2>2, <2>3 DEF RelinkedTo
<1>9. ASSUME UNCHANGED vars \/ Tick \/ RepairLog
      PROVE  Relinked
  BY <1>2, <1>9 DEF vars, Tick, RepairLog
<1> HIDE DEF Relinked
<1>10. Relinked
  <2>1. CASE OwedStep
    BY <1>3, <1>4, <1>5, <1>6, <1>7, <1>8, <1>9, <2>1, Zenon
       DEF OwedStep, RecordPayment, RecordAllocatedPayment
  <2>2. QED
    BY <1>9, <2>1 DEF Next
<1>11. QED
  BY <1>10 DEF Relinked

\* A new transaction makes the others no different.
LEMMA NewTxShape ==
    ASSUME LedgerInv, NEW t \in TxIds, NEW tx \in Transaction, NewTx(t, tx)
    PROVE  TxsShape' /\ DOMAIN txs' = DOMAIN txs \cup {t}
BY DEF LedgerInv, TypeOK, NewTx, WithTx, TxsShape

\* The commands that write a transaction or its owed rows keep the ledger's
\* invariant, and every link resolved.
LEMMA TransactionStepKeeps ==
    ASSUME LedgerInv, LinksResolve, TransactionStep
    PROVE  LedgerInv' /\ LinksResolve'
<1> DEFINE Goal == LedgerInv' /\ LinksResolve'
<1>1. /\ TxsShape /\ LedgerInv
      /\ \A t \in DOMAIN txs : txs[t].date \in Dates
  BY DEF LedgerInv, TypeOK, TxsShape, Transaction
<1>2. ASSUME NEW t \in TxIds, NEW tx \in Transaction, NEW rows \in OwedRows,
             CreateTransaction(t, tx, rows)
      PROVE  Goal
  <2>1. /\ AddItems(t, tx.date, rows) /\ NewTx(t, tx)
        /\ UNCHANGED <<payments, today>> /\ tx.date \in Dates
    BY <1>2 DEF CreateTransaction, Transaction
  <2>2. TxsShape' /\ DOMAIN txs' = DOMAIN txs \cup {t}
    BY <2>1, NewTxShape
  <2>3. LedgerInv' /\ RelinkedTo({t})
    BY <2>1, <2>2, AddItemsKeeps
  <2>4. QED
    BY <2>2, <2>3, RelinkedResolves
<1>3. ASSUME NEW t \in TxIds, NEW tx \in Transaction, NEW label \in Labels,
             NEW amount \in Amounts, NEW date \in Dates, NEW alloc, NewTx(t, tx),
             Allocatable(alloc, amount), Settle(label, amount, t, date, alloc),
             today' = today
      PROVE  Goal
  <2>1. TxsShape' /\ DOMAIN txs' = DOMAIN txs \cup {t}
    BY <1>3, NewTxShape
  <2> DEFINE link == t
  <2>2. link \in TxIds \cup {None} /\ Settle(label, amount, link, date, alloc)
    BY <1>3
  <2> HIDE DEF link
  <2>3. LedgerInv' /\ RelinkedTo({link})
    BY <1>3, <2>1, <2>2, SettleKeepsInv, SettleRelinks
  <2>4. QED
    BY <2>1, <2>3, RelinkedResolves DEF link
<1>4. ASSUME NEW t \in TxIds, NEW tx \in Transaction, NEW asked \in Labels,
             NEW amount \in Amounts, NEW date \in Dates, NEW stop \in ItemIds \cup {None},
             CreateTransactionWithPayment(t, tx, asked, amount, date, stop)
      PROVE  Goal
  <2>1. PICK label \in Labels :
          LET alloc == AutoAllocation(label, amount, stop)
          IN  Allocatable(alloc, amount) /\ Settle(label, amount, t, date, alloc)
    BY <1>4 DEF CreateTransactionWithPayment
  <2>2. NewTx(t, tx) /\ today' = today
    BY <1>4 DEF CreateTransactionWithPayment
  <2>3. QED
    BY <1>3, <2>1, <2>2
<1>5. ASSUME NEW t \in TxIds, NEW tx \in Transaction, NEW asked \in Labels,
             NEW amount \in Amounts, NEW date \in Dates, NEW alloc \in Allocations,
             CreateTransactionWithAllocatedPayment(t, tx, asked, amount, date, alloc)
      PROVE  Goal
  <2>1. PICK label \in Labels :
          Allocatable(alloc, amount) /\ Settle(label, amount, t, date, alloc)
    BY <1>5 DEF CreateTransactionWithAllocatedPayment
  <2>2. NewTx(t, tx) /\ today' = today
    BY <1>5 DEF CreateTransactionWithAllocatedPayment
  <2>3. QED
    BY <1>3, <2>1, <2>2
<1>6. ASSUME NEW t \in TxIds, NEW rows \in OwedRows, SplitTransaction(t, rows)
      PROVE  Goal
  <2>1. /\ t \in DOMAIN txs /\ AddItems(t, txs[t].date, rows)
        /\ UNCHANGED <<payments, txs, today>>
    BY <1>6 DEF SplitTransaction, CanSplit
  <2>2. TxsShape' /\ txs[t].date \in Dates
    BY <1>1, <2>1 DEF TxsShape
  <2>3. LedgerInv' /\ RelinkedTo({t})
    BY <2>1, <2>2, AddItemsKeeps
  <2>4. QED
    BY <2>1, <2>3, RelinkedResolves
<1>7. ASSUME NEW t \in TxIds, NEW i \in ItemIds, NEW asked \in Labels,
             NEW total \in Amounts, NEW amount \in Amounts, NEW link \in TxIds,
             NEW date \in Dates, NEW extra \in Allocations,
             SplitTransactionPaid(t, i, asked, total, amount, link, date, extra)
      PROVE  Goal
  <2>1. LedgerInv' /\ RelinkedTo({t, link})
    BY <1>7, SplitPaidKeeps
  <2>2. t \in DOMAIN txs /\ link \in DOMAIN txs /\ txs' = txs
    BY <1>7 DEF SplitTransactionPaid, CanSplit
  <2>3. QED
    BY <2>1, <2>2, RelinkedResolves
<1>8. ASSUME NEW t \in TxIds, NEW tx \in Transaction, UpdateTransaction(t, tx)
      PROVE  Goal
  <2>1. /\ txs' \in [DOMAIN txs -> Transaction] /\ DOMAIN txs' = DOMAIN txs
        /\ UNCHANGED <<items, payments, log, today>>
    BY <1>1, <1>8 DEF UpdateTransaction, TxsShape
  <2>2. LedgerInv'
    BY <2>1 DEF LedgerInv, TypeOK, Balanced, LogComplete
  <2>3. QED
    BY <2>1, <2>2 DEF LinksResolve
<1>9. ASSUME NEW t \in TxIds, DeleteTransaction(t)
      PROVE  Goal
  <2>1. /\ txs' = [u \in DOMAIN txs \ {t} |-> txs[u]]
        /\ UNCHANGED <<items, payments, log, today>>
        /\ LinkedItems(t) = {} /\ LinkedPaymentRows(t) = {}
    BY <1>9 DEF DeleteTransaction, RemoveTx, NormalDeleteAllowed
  <2>2. LedgerInv'
    BY <2>1 DEF LedgerInv, TypeOK, Balanced, LogComplete
  <2>3. QED
    BY <2>1, <2>2 DEF LinksResolve, LinkedItems, LinkedPaymentRows
<1>10. ASSUME NEW t \in TxIds, PreviewDeletion(t)
       PROVE  Goal
  BY <1>10 DEF PreviewDeletion, LedgerInv, TypeOK, Balanced, LogComplete, LinksResolve
<1>11. ASSUME NEW t \in TxIds, DeleteWithOwed(t)
       PROVE  Goal
  BY <1>11, DeleteWithOwedKeeps
<1>12. ASSUME NEW t \in TxIds, NEW asked \in Labels, PreserveOwed(t, asked)
       PROVE  Goal
  BY <1>12, PreserveOwedKeeps
<1> HIDE DEF Goal
<1>13. Goal
  BY <1>2, <1>4, <1>5, <1>6, <1>7, <1>8, <1>9, <1>10, <1>11, <1>12, Zenon
     DEF TransactionStep
<1>14. QED
  BY <1>13 DEF Goal

-----------------------------------------------------------------------------
(* The preview of a deletion                                               *)

\* What a version says of the item rows it hashes.
ReadsOf(version) ==
    [i \in DOMAIN version.items |->
        [person |-> version.items[i].person, total |-> version.items[i].total,
         paid |-> version.items[i].paid, remaining |-> version.items[i].remaining,
         status |-> version.items[i].status, deleted |-> version.items[i].deleted,
         allocations |->
             Cardinality({p \in DOMAIN version.payments : version.payments[p].alloc[i] > 0})]]

\* A version tells everything its preview shows: two states of one version show
\* the same rows, the repayments of each item included.
LEMMA VersionTellsReads ==
    ASSUME NEW t
    PROVE  ItemReads(t) = ReadsOf(RelationshipVersion(t))
<1> DEFINE version == RelationshipVersion(t)
           paying == LinkedPaymentRows(t) \cup PaymentsOf(t)
<1>1. /\ version.items = [i \in LinkedItems(t) |-> items[i]]
      /\ version.payments = [p \in paying |-> payments[p]]
  BY DEF RelationshipVersion
<1> HIDE DEF version
<1>2. /\ DOMAIN version.items = LinkedItems(t)
      /\ \A i \in LinkedItems(t) : version.items[i] = items[i]
      /\ DOMAIN version.payments = paying
      /\ \A p \in paying : version.payments[p] = payments[p]
  BY <1>1
<1>3. ASSUME NEW i \in LinkedItems(t)
      PROVE  {p \in DOMAIN version.payments : version.payments[p].alloc[i] > 0}
                = AllocatedPayments(i)
  <2>1. AllocatedPayments(i) \subseteq paying
    BY DEF PaymentsOf
  <2>2. paying \subseteq DOMAIN payments
    BY DEF PaymentsOf, LinkedPaymentRows, AllocatedPayments
  <2> HIDE DEF paying
  <2>3. QED
    BY <1>2, <2>1, <2>2 DEF AllocatedPayments
<1>4. QED
  BY <1>2, <1>3 DEF ItemReads, ReadsOf, version

\* The preview the client holds showed what its version says.
PreviewTold == preview # None => preview.shown = ReadsOf(preview.version)

\* A step leaves the preview alone, drops it or makes a new one.
LEMMA StepKeepsPreview ==
    ASSUME PreviewTold, [LinksNext]_linkVars
    PROVE  PreviewTold'
<1>1. preview' = preview => PreviewTold'
  BY DEF PreviewTold
<1>2. preview' = None => PreviewTold'
  BY DEF PreviewTold
<1>3. ASSUME NEW t \in TxIds, PreviewDeletion(t)
      PROVE  PreviewTold'
  <2> DEFINE version == RelationshipVersion(t)
             reads == ItemReads(t)
  <2>1. preview' = [tx |-> t, version |-> version, shown |-> reads]
    BY <1>3 DEF PreviewDeletion
  <2>2. reads = ReadsOf(version)
    BY VersionTellsReads
  <2> HIDE DEF version, reads
  <2>3. preview'.shown = reads /\ preview'.version = version
    BY <2>1
  <2>4. QED
    BY <2>2, <2>3 DEF PreviewTold
<1>4. CASE TransactionStep
  <2>1. ASSUME NEW t \in TxIds, NEW tx \in Transaction, NEW rows \in OwedRows,
                CreateTransaction(t, tx, rows)
        PROVE  PreviewTold'
    BY <1>1, <2>1 DEF CreateTransaction
  <2>2. ASSUME NEW t \in TxIds, NEW tx \in Transaction, NEW asked \in Labels,
                NEW amount \in Amounts, NEW date \in Dates, NEW stop \in ItemIds \cup {None},
                CreateTransactionWithPayment(t, tx, asked, amount, date, stop)
        PROVE  PreviewTold'
    BY <1>1, <2>2 DEF CreateTransactionWithPayment
  <2>3. ASSUME NEW t \in TxIds, NEW tx \in Transaction, NEW asked \in Labels,
                NEW amount \in Amounts, NEW date \in Dates, NEW alloc \in Allocations,
                CreateTransactionWithAllocatedPayment(t, tx, asked, amount, date, alloc)
        PROVE  PreviewTold'
    BY <1>1, <2>3 DEF CreateTransactionWithAllocatedPayment
  <2>4. ASSUME NEW t \in TxIds, NEW rows \in OwedRows,
                SplitTransaction(t, rows)
        PROVE  PreviewTold'
    BY <1>1, <2>4 DEF SplitTransaction
  <2>5. ASSUME NEW t \in TxIds, NEW i \in ItemIds, NEW asked \in Labels,
                NEW total \in Amounts, NEW amount \in Amounts, NEW link \in TxIds,
                NEW date \in Dates, NEW extra \in Allocations,
                SplitTransactionPaid(t, i, asked, total, amount, link, date, extra)
        PROVE  PreviewTold'
    BY <1>1, <2>5 DEF SplitTransactionPaid
  <2>6. ASSUME NEW t \in TxIds, NEW tx \in Transaction,
                UpdateTransaction(t, tx)
        PROVE  PreviewTold'
    BY <1>1, <2>6 DEF UpdateTransaction
  <2>7. ASSUME NEW t \in TxIds,
                DeleteTransaction(t)
        PROVE  PreviewTold'
    BY <1>1, <2>7 DEF DeleteTransaction
  <2>8. ASSUME NEW t \in TxIds,
                DeleteWithOwed(t)
        PROVE  PreviewTold'
    BY <1>2, <2>8 DEF DeleteWithOwed, Unlink
  <2>9. ASSUME NEW t \in TxIds, NEW asked \in Labels,
                PreserveOwed(t, asked)
        PROVE  PreviewTold'
    BY <1>2, <2>9 DEF PreserveOwed, Unlink
  <2>10. QED
    BY <1>3, <1>4, <2>1, <2>2, <2>3, <2>4, <2>5, <2>6, <2>7, <2>8, <2>9, Zenon DEF TransactionStep
<1>5. CASE UNCHANGED <<gone, preview>>
  BY <1>1, <1>5
<1>6. CASE UNCHANGED linkVars
  BY <1>1, <1>6 DEF linkVars
<1>7. QED
  BY <1>4, <1>5, <1>6 DEF LinksNext

-----------------------------------------------------------------------------
(* The invariant                                                           *)

\* The ledger's own invariant is what keeps a link a link through edits; the
\* preview's is what a later confirmation relies on.
LinksInv == LedgerInv /\ LinksResolve /\ PreviewTold

\* A step that is not one of the transaction's handlers is one of the ledger's.
LEMMA LinksStepIs ==
    ASSUME [LinksNext]_linkVars
    PROVE  TransactionStep \/ [Next]_vars
BY DEF LinksNext, linkVars, vars, Next

\* Every step keeps the invariant.
LEMMA StepKeepsLinksInv ==
    ASSUME LinksInv, [LinksNext]_linkVars
    PROVE  LinksInv'
<1>1. LedgerInv /\ LinksResolve /\ PreviewTold
  BY DEF LinksInv
<1>2. CASE TransactionStep
  BY <1>1, <1>2, TransactionStepKeeps, StepKeepsPreview DEF LinksInv
<1>3. CASE [Next]_vars
  <2>1. txs' = txs
    BY <1>3, TransactionsStay
  <2>2. LinksResolve'
    BY <1>1, <1>3, <2>1, OwedStepRelinks, RelinkedResolves
  <2>3. QED
    BY <1>1, <1>3, <2>2, StepKeepsInv, StepKeepsPreview DEF LinksInv
<1>4. QED
  BY <1>2, <1>3, LinksStepIs

\* The ledger's invariant holds with the commands that write transactions and
\* owed rows in one go among its requests, and every link resolves.
THEOREM LinksInvariant == LinksSpec => []LinksInv
<1>1. LinksInit => LinksInv
  <2> SUFFICES ASSUME LinksInit PROVE LinksInv
    OBVIOUS
  <2>1. /\ DOMAIN items = {} /\ DOMAIN payments = {} /\ DOMAIN log = {}
        /\ DOMAIN txs = {} /\ today = 1 /\ preview = None
        /\ items = NoRows /\ payments = NoRows /\ log = NoRows /\ txs = NoRows
    BY DEF LinksInit, NoRows
  <2>2. TypeOK
    BY <2>1, BoundsAssumption DEF TypeOK, NoRows, Dates
  <2>3. LedgerInv
    BY <2>1, <2>2 DEF LedgerInv, Balanced, LogComplete
  <2>4. QED
    BY <2>1, <2>3 DEF LinksInv, LinksResolve, PreviewTold
<1>2. LinksInv /\ [LinksNext]_linkVars => LinksInv'
  BY StepKeepsLinksInv
<1>3. QED
  BY <1>1, <1>2, PTL DEF LinksSpec

-----------------------------------------------------------------------------
(* Theorems                                                                *)

\* No owed item and no repayment ever points at a transaction that is gone,
\* whatever is created, split, edited and deleted in whatever order.
THEOREM LinksAlwaysResolve == LinksSpec => []LinksResolve
<1>1. LinksInv => LinksResolve
  BY DEF LinksInv
<1>2. QED
  BY <1>1, LinksInvariant, PTL

\* A transaction goes in one of three ways.
LEMMA OnlyDeletionsDrop ==
    ASSUME LedgerInv, [LinksNext]_linkVars, NEW t \in DOMAIN txs \ DOMAIN txs'
    PROVE  DeleteTransaction(t) \/ DeleteWithOwed(t) \/ \E l \in Labels : PreserveOwed(t, l)
<1> DEFINE Dropped(u) ==
        DeleteTransaction(u) \/ DeleteWithOwed(u) \/ \E l \in Labels : PreserveOwed(u, l)
<1>1. DOMAIN txs \subseteq DOMAIN txs' => FALSE
  OBVIOUS
<1>2. ASSUME NEW u \in TxIds, NEW tx, NewTx(u, tx) PROVE FALSE
  BY <1>1, <1>2 DEF NewTx, WithTx
<1>3. ASSUME NEW u \in TxIds, Dropped(u)
      PROVE  Dropped(t)
  <2>1. DOMAIN txs' = DOMAIN txs \ {u}
    BY <1>3 DEF DeleteTransaction, DeleteWithOwed, PreserveOwed, Unlink, RemoveTx
  <2>2. u = t
    BY <2>1
  <2>3. QED
    BY <1>3, <2>2
<1>4. ASSUME NEW u \in TxIds, NEW tx \in Transaction, UpdateTransaction(u, tx)
      PROVE  FALSE
  BY <1>1, <1>4 DEF UpdateTransaction
<1>5. txs' = txs => FALSE
  BY <1>1
<1> HIDE DEF Dropped
<1>6. CASE TransactionStep
  <2>1. ASSUME NEW u \in TxIds, NEW tx \in Transaction, NEW rows \in OwedRows,
                CreateTransaction(u, tx, rows)
        PROVE  Dropped(t)
    BY <1>2, <2>1 DEF CreateTransaction
  <2>2. ASSUME NEW u \in TxIds, NEW tx \in Transaction, NEW asked \in Labels,
                NEW amount \in Amounts, NEW date \in Dates, NEW stop \in ItemIds \cup {None},
                CreateTransactionWithPayment(u, tx, asked, amount, date, stop)
        PROVE  Dropped(t)
    BY <1>2, <2>2 DEF CreateTransactionWithPayment
  <2>3. ASSUME NEW u \in TxIds, NEW tx \in Transaction, NEW asked \in Labels,
                NEW amount \in Amounts, NEW date \in Dates, NEW alloc \in Allocations,
                CreateTransactionWithAllocatedPayment(u, tx, asked, amount, date, alloc)
        PROVE  Dropped(t)
    BY <1>2, <2>3 DEF CreateTransactionWithAllocatedPayment
  <2>4. ASSUME NEW u \in TxIds, NEW rows \in OwedRows,
                SplitTransaction(u, rows)
        PROVE  Dropped(t)
    BY <1>5, <2>4 DEF SplitTransaction
  <2>5. ASSUME NEW u \in TxIds, NEW i \in ItemIds, NEW asked \in Labels,
                NEW total \in Amounts, NEW amount \in Amounts, NEW link \in TxIds,
                NEW date \in Dates, NEW extra \in Allocations,
                SplitTransactionPaid(u, i, asked, total, amount, link, date, extra)
        PROVE  Dropped(t)
    BY <1>5, <2>5 DEF SplitTransactionPaid
  <2>6. ASSUME NEW u \in TxIds, NEW tx \in Transaction,
                UpdateTransaction(u, tx)
        PROVE  Dropped(t)
    BY <1>4, <2>6
  <2>7. ASSUME NEW u \in TxIds,
                DeleteTransaction(u)
        PROVE  Dropped(t)
    BY <1>3, <2>7, Zenon DEF Dropped
  <2>8. ASSUME NEW u \in TxIds,
                PreviewDeletion(u)
        PROVE  Dropped(t)
    BY <1>5, <2>8 DEF PreviewDeletion
  <2>9. ASSUME NEW u \in TxIds,
                DeleteWithOwed(u)
        PROVE  Dropped(t)
    BY <1>3, <2>9, Zenon DEF Dropped
  <2>10. ASSUME NEW u \in TxIds, NEW asked \in Labels,
                PreserveOwed(u, asked)
        PROVE  Dropped(t)
    BY <1>3, <2>10, Zenon DEF Dropped
  <2>11. Dropped(t)
    BY <1>6, <2>1, <2>2, <2>3, <2>4, <2>5, <2>6, <2>7, <2>8, <2>9, <2>10, Zenon DEF TransactionStep
  <2>12. QED
    BY <2>11 DEF Dropped
<1>7. CASE [Next]_vars
  BY <1>5, <1>7, TransactionsStay
<1>8. QED
  BY <1>6, <1>7, LinksStepIs

\* A deletion that takes linked items along acts on the rows its preview showed,
\* however many requests came between the preview and the confirmation.
THEOREM DeletionsMatchPreview == LinksSpec => DeletionMatchesPreview
<1>1. ASSUME LinksInv, [LinksNext]_linkVars, NEW t \in DOMAIN txs \ DOMAIN txs',
             LinkedItems(t) # {}
      PROVE  preview # None /\ preview.tx = t /\ preview.shown = ItemReads(t)
  <2>1. LedgerInv /\ PreviewTold
    BY <1>1 DEF LinksInv
  <2>2. Confirms(t)
    BY <1>1, <2>1, OnlyDeletionsDrop
       DEF DeleteTransaction, NormalDeleteAllowed, DeleteWithOwed, PreserveOwed
  <2>3. preview # None /\ preview.tx = t /\ preview.version = RelationshipVersion(t)
    BY <2>2 DEF Confirms
  <2>4. QED
    BY <2>1, <2>3, VersionTellsReads DEF PreviewTold
<1>2. LinksInv /\ [LinksNext]_linkVars =>
        [\A t \in DOMAIN txs \ DOMAIN txs' :
            LinkedItems(t) # {} =>
                /\ preview # None
                /\ preview.tx = t
                /\ preview.shown = ItemReads(t)]_linkVars
  BY <1>1
<1>3. QED
  BY <1>2, LinksInvariant, PTL DEF LinksSpec, DeletionMatchesPreview

-----------------------------------------------------------------------------
(* No paid item is swept away                                              *)

\* No repayment gives an item of t anything, so nothing is allocated to it.
LEMMA NothingAllocated ==
    ASSUME LedgerInv, NEW t, NEW i \in LinkedItems(t), PaymentsOf(t) = {}
    PROVE  AllocatedTo(i) = 0
<1> DEFINE f == [p \in DOMAIN payments |-> payments[p].alloc[i]]
<1>1. i \in ItemIds
  BY DEF LinkedItems, LedgerInv, TypeOK
<1>2. /\ IsFiniteSet(DOMAIN payments)
      /\ \A p \in DOMAIN payments : payments[p].alloc[i] \in Nat
      /\ AllocatedTo(i) = SumFunctionOnSet(f, DOMAIN payments)
  BY <1>1, AllocationsTo DEF AllocationsSum
<1>3. AllocatedPayments(i) = {}
  BY DEF PaymentsOf
<1>4. \A p \in DOMAIN payments : f[p] = 0
  BY <1>2, <1>3 DEF AllocatedPayments
<1> HIDE DEF f
<1>5. QED
  BY <1>2, <1>4, SumOfZeros

\* No deletion of a transaction takes along an item somebody paid for.
THEOREM PaidItemsNeverSwept == LinksSpec => NoPaidItemSwept
<1>1. ASSUME LinksInv, [LinksNext]_linkVars, NEW i \in DOMAIN items,
             Live(i), items'[i].deleted, items[i].link \notin DOMAIN txs' \cup {None}
      PROVE  items[i].paid = 0 /\ AllocatedTo(i) = 0
  <2> DEFINE t == items[i].link
  <2>1. LedgerInv /\ LinksResolve
    BY <1>1 DEF LinksInv
  <2>2. t \in DOMAIN txs \ DOMAIN txs' /\ t \in TxIds
    BY <1>1, <2>1 DEF LinksResolve, LedgerInv, TypeOK
  <2>3. i \in LinkedItems(t)
    BY DEF LinkedItems
  <2> HIDE DEF t
  <2>4. DeleteTransaction(t) \/ DeleteWithOwed(t) \/ \E l \in Labels : PreserveOwed(t, l)
    BY <1>1, <2>1, <2>2, OnlyDeletionsDrop
  <2>5. CASE DeleteTransaction(t)
    BY <2>3, <2>5 DEF DeleteTransaction, NormalDeleteAllowed
  <2>6. ASSUME NEW l \in Labels, PreserveOwed(t, l)
        PROVE  FALSE
    <3>1. items'[i].deleted = items[i].deleted
      BY <2>1, <2>2, <2>6, PreserveOwedKeeps
    <3>2. QED
      BY <1>1, <3>1 DEF Live
  <2>7. CASE DeleteWithOwed(t)
    <3>1. PaymentsOf(t) = {} /\ items[i].paid = 0
      BY <2>3, <2>7 DEF DeleteWithOwed, DeleteWithOwedAllowed
    <3>2. QED
      BY <2>1, <2>3, <3>1, NothingAllocated
  <2>8. QED
    BY <2>4, <2>5, <2>6, <2>7
<1>2. LinksInv /\ [LinksNext]_linkVars =>
        [\A i \in DOMAIN items :
            Live(i) /\ items'[i].deleted /\ items[i].link \notin DOMAIN txs' \cup {None}
                => items[i].paid = 0 /\ AllocatedTo(i) = 0]_linkVars
  BY <1>1
<1>3. QED
  BY <1>2, LinksInvariant, PTL DEF LinksSpec, NoPaidItemSwept

-----------------------------------------------------------------------------
(* Every change of an item is logged                                       *)

\* The item's amounts stay, or its history holds the new ones.
Traced(i) == LoggedNow(i) \/ (i \in DOMAIN items /\ SameAmounts(i))

\* A history that ends in a snapshot of the item's row logs its state.
LEMMA LastEventTraces ==
    ASSUME NEW i, NEW h, NEW d, NEW type,
           log'[i] = Recorded(h, d, Snapshot(type, items'[i]))
    PROVE  Traced(i)
<1>1. d \in DOMAIN log'[i] /\ log'[i][d] = Snapshot(type, items'[i])
  BY DEF Recorded
<1>2. log'[i][d].type = type
  BY <1>1 DEF Snapshot
<1>3. QED
  BY <1>1, <1>2 DEF Traced, LoggedNow

\* The items a command adds come with their first event.
LEMMA AddItemsTraces ==
    ASSUME LedgerInv, NEW t, NEW date, NEW rows, AddItems(t, date, rows),
           NEW i \in DOMAIN items'
    PROVE  Traced(i)
<1>1. PICK labels \in [DOMAIN rows -> Labels] :
         LET Row(j) == NewItem(labels[j], rows[j].total, rows[j].paid, t)
         IN  /\ items' = [j \in DOMAIN items \cup DOMAIN rows |->
                             IF j \in DOMAIN rows THEN Row(j) ELSE items[j]]
             /\ log' = [j \in DOMAIN log \cup DOMAIN rows |->
                           IF j \in DOMAIN rows
                           THEN Recorded(NoRows, date, Snapshot("created", Row(j)))
                           ELSE log[j]]
  BY DEF AddItems
<1>2. CASE i \in DOMAIN rows
  <2>1. log'[i] = Recorded(NoRows, date, Snapshot("created", items'[i]))
    BY <1>1, <1>2
  <2>2. QED
    BY <2>1, LastEventTraces
<1>3. CASE i \notin DOMAIN rows
  BY <1>1, <1>3 DEF Traced, SameAmounts
<1>4. QED
  BY <1>2, <1>3

\* What a repayment does to an item it finds.
LEMMA SettledTraces ==
    ASSUME LedgerInv, NEW label \in Labels, NEW alloc, NEW date, NEW i \in DOMAIN items,
           items'[i] = SettledItem(label, alloc, i),
           alloc[i] > 0 =>
               log'[i] = Recorded(log[i], date, Snapshot("payment", items'[i]))
    PROVE  Traced(i)
<1>1. CASE alloc[i] > 0
  BY <1>1, LastEventTraces
<1>2. CASE ~(alloc[i] > 0)
  <2>1. items'[i] = NormalisedItems(label)[i]
    BY <1>2 DEF SettledItem
  <2>2. /\ items'[i].total = items[i].total /\ items'[i].paid = items[i].paid
        /\ items'[i].remaining = items[i].remaining
        /\ items'[i].status = items[i].status
    BY <2>1 DEF NormalisedItems, LedgerInv, TypeOK, Item
  <2>3. QED
    BY <2>2 DEF Traced, SameAmounts, Snapshot
<1>3. QED
  BY <1>1, <1>2

\* A payment traces every item it changes.
LEMMA SettleTraces ==
    ASSUME LedgerInv, NEW label \in Labels, NEW amount, NEW link, NEW date, NEW alloc,
           Settle(label, amount, link, date, alloc), NEW i \in DOMAIN items'
    PROVE  Traced(i)
<1>1. /\ i \in DOMAIN items /\ items'[i] = SettledItem(label, alloc, i)
      /\ alloc[i] > 0 =>
             log'[i] = Recorded(log[i], date, Snapshot("payment", items'[i]))
  BY DEF Settle, LedgerInv, TypeOK
<1>2. QED
  BY <1>1, SettledTraces

\* A split that is paid at once traces every item it changes.
LEMMA SplitPaidTraces ==
    ASSUME LedgerInv, NEW t, NEW n, NEW asked, NEW total, NEW amount, NEW link,
           NEW date, NEW extra,
           SplitTransactionPaid(t, n, asked, total, amount, link, date, extra),
           NEW i \in DOMAIN items'
    PROVE  Traced(i)
<1> DEFINE share == ShareOfRow(amount, total)
           alloc == SplitAllocation(n, share, extra)
           Fresh(l) == NewItem(l, total, 0, t)
<1>1. PICK label \in Labels :
        /\ items' = [j \in DOMAIN items \cup {n} |->
                        IF j = n THEN Adjusted(Fresh(label), share)
                        ELSE SettledItem(label, alloc, j)]
        /\ log' = [j \in DOMAIN log \cup {n} |->
                      IF j = n THEN SplitHistory(n, label, total, t, date, share)
                      ELSE IF alloc[j] > 0
                      THEN Recorded(log[j], date,
                               Snapshot("payment", SettledItem(label, alloc, j)))
                      ELSE log[j]]
  BY DEF SplitTransactionPaid
<1> HIDE DEF share, alloc
<1>2. CASE i = n
  <2> DEFINE first == Recorded(NoRows, txs[t].date, Snapshot("created", Fresh(label)))
  <2>1. log'[i] = Recorded(first, date, Snapshot("payment", items'[i]))
    BY <1>1, <1>2 DEF SplitHistory
  <2> HIDE DEF first
  <2>2. QED
    BY <2>1, LastEventTraces
<1>3. CASE i # n
  <2>1. i \in DOMAIN items /\ i \in DOMAIN log
    BY <1>1, <1>3 DEF LedgerInv, TypeOK
  <2>2. /\ items'[i] = SettledItem(label, alloc, i)
        /\ alloc[i] > 0 =>
               log'[i] = Recorded(log[i], date, Snapshot("payment", items'[i]))
    BY <1>1, <1>3, <2>1
  <2>3. QED
    BY <2>1, <2>2, SettledTraces
<1>4. QED
  BY <1>2, <1>3

\* Removing the links to a transaction traces every item it changes.
LEMMA UnlinkTraces ==
    ASSUME LedgerInv, NEW t, NEW rows, NEW type, Unlink(t, rows, type),
           NEW i \in DOMAIN items'
    PROVE  Traced(i)
<1>1. /\ i \in DOMAIN items /\ i \in DOMAIN log
      /\ items'[i] = IF i \in DOMAIN rows THEN rows[i] ELSE items[i]
      /\ log'[i] = IF i \in DOMAIN rows
                   THEN Recorded(log[i], today, Snapshot(type, rows[i]))
                   ELSE log[i]
  BY DEF Unlink, LedgerInv, TypeOK
<1>2. CASE i \in DOMAIN rows
  <2>1. log'[i] = Recorded(log[i], today, Snapshot(type, items'[i]))
    BY <1>1, <1>2
  <2>2. QED
    BY <2>1, LastEventTraces
<1>3. CASE i \notin DOMAIN rows
  BY <1>1, <1>3 DEF Traced, SameAmounts
<1>4. QED
  BY <1>2, <1>3

\* Every command traces every item.
LEMMA TransactionStepTraces ==
    ASSUME LedgerInv, TransactionStep, NEW i \in DOMAIN items'
    PROVE  Traced(i)
<1>0. LedgerInv /\ i \in DOMAIN items'
  OBVIOUS
<1>1. items' = items => Traced(i)
  BY DEF Traced, SameAmounts
<1>2. ASSUME NEW t \in TxIds, NEW tx \in Transaction, NEW rows \in OwedRows,
             CreateTransaction(t, tx, rows)
      PROVE  Traced(i)
  BY <1>0, <1>2, AddItemsTraces DEF CreateTransaction
<1>3. ASSUME NEW t \in TxIds, NEW tx \in Transaction, NEW asked \in Labels,
             NEW amount \in Amounts, NEW date \in Dates, NEW stop \in ItemIds \cup {None},
             CreateTransactionWithPayment(t, tx, asked, amount, date, stop)
      PROVE  Traced(i)
  <2>1. PICK label \in Labels :
          LET alloc == AutoAllocation(label, amount, stop)
          IN  Settle(label, amount, t, date, alloc)
    BY <1>3 DEF CreateTransactionWithPayment
  <2>2. QED
    BY <1>0, <2>1, SettleTraces
<1>4. ASSUME NEW t \in TxIds, NEW tx \in Transaction, NEW asked \in Labels,
             NEW amount \in Amounts, NEW date \in Dates, NEW alloc \in Allocations,
             CreateTransactionWithAllocatedPayment(t, tx, asked, amount, date, alloc)
      PROVE  Traced(i)
  <2>1. PICK label \in Labels : Settle(label, amount, t, date, alloc)
    BY <1>4 DEF CreateTransactionWithAllocatedPayment
  <2>2. QED
    BY <1>0, <2>1, SettleTraces
<1>5. ASSUME NEW t \in TxIds, NEW rows \in OwedRows,
             SplitTransaction(t, rows)
      PROVE  Traced(i)
  BY <1>0, <1>5, AddItemsTraces DEF SplitTransaction
<1>6. ASSUME NEW t \in TxIds, NEW n \in ItemIds, NEW asked \in Labels,
             NEW total \in Amounts, NEW amount \in Amounts, NEW link \in TxIds,
             NEW date \in Dates, NEW extra \in Allocations,
             SplitTransactionPaid(t, n, asked, total, amount, link, date, extra)
      PROVE  Traced(i)
  BY <1>0, <1>6, SplitPaidTraces
<1>7. ASSUME NEW t \in TxIds, NEW tx \in Transaction,
             UpdateTransaction(t, tx)
      PROVE  Traced(i)
  BY <1>0, <1>7, <1>1 DEF UpdateTransaction
<1>8. ASSUME NEW t \in TxIds,
             DeleteTransaction(t)
      PROVE  Traced(i)
  BY <1>0, <1>8, <1>1 DEF DeleteTransaction
<1>9. ASSUME NEW t \in TxIds,
             PreviewDeletion(t)
      PROVE  Traced(i)
  BY <1>0, <1>9, <1>1 DEF PreviewDeletion
<1>10. ASSUME NEW t \in TxIds,
             DeleteWithOwed(t)
      PROVE  Traced(i)
  BY <1>0, <1>10, UnlinkTraces DEF DeleteWithOwed
<1>11. ASSUME NEW t \in TxIds, NEW asked \in Labels,
             PreserveOwed(t, asked)
      PROVE  Traced(i)
  BY <1>0, <1>11, UnlinkTraces DEF PreserveOwed
<1>12. QED
  BY <1>2, <1>3, <1>4, <1>5, <1>6, <1>7, <1>8, <1>9, <1>10, <1>11, Zenon DEF TransactionStep

\* With the commands that write transactions and owed rows together among the
\* requests, every change of an item's amounts or status is in its event log.
THEOREM EveryChangeLoggedWithLinks == LinksSpec => ChangesLogged
<1>1. ASSUME LinksInv, LinksInv', [LinksNext]_linkVars, NEW i \in DOMAIN items',
             i \in DOMAIN items =>
                 Snapshot("adjusted", items'[i]) # Snapshot("adjusted", items[i])
      PROVE  \E d \in DOMAIN log'[i] : log'[i][d] = Snapshot(log'[i][d].type, items'[i])
  <2>1. LedgerInv /\ LedgerInv'
    BY <1>1 DEF LinksInv
  <2>2. i \in DOMAIN items => ~SameAmounts(i)
    BY <1>1 DEF SameAmounts
  <2>3. TransactionStep => LoggedNow(i)
    BY <1>1, <2>1, <2>2, TransactionStepTraces DEF Traced
  <2>4. [Next]_vars => LoggedNow(i)
    BY <1>1, <2>1, <2>2, StepLogs
  <2>5. LoggedNow(i)
    BY <1>1, <2>3, <2>4, LinksStepIs
  <2>6. QED
    BY <2>5 DEF LoggedNow
<1>2. LinksInv /\ LinksInv' /\ [LinksNext]_linkVars =>
        [\A i \in DOMAIN items' :
            (i \in DOMAIN items =>
                Snapshot("adjusted", items'[i]) # Snapshot("adjusted", items[i]))
            => \E d \in DOMAIN log'[i] :
                   log'[i][d] = Snapshot(log'[i][d].type, items'[i])]_vars
  BY <1>1
<1>3. QED
  BY <1>2, LinksInvariant, PTL DEF LinksSpec, ChangesLogged

=============================================================================
