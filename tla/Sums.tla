--------------------------------- MODULE Sums ---------------------------------
(***************************************************************************)
(* Sums over finite sets, as the ledger, the drafts and the grades form    *)
(* them.  A sum takes its terms in the order CHOOSE gives, so that any term *)
(* may be taken first is the lemma the others rest on.  Each is proved by a *)
(* smallest set on which it would fail.  Also the least and the greatest of *)
(* a set of numbers.                                                       *)
(***************************************************************************)
EXTENDS Integers, FiniteSets, FiniteSetsExt, FiniteSetTheorems, WellFoundedInduction, TLAPS

SumOver(f, S) == MapThenSumSet(LAMBDA x : f[x], S)


\* Adds(f, S, g): g adds up f over every subset of S, the way SumOver does.
Adds(f, S, g) ==
    g = [T \in SUBSET S |-> IF T = {} THEN 0
                            ELSE LET x == CHOOSE x \in T : TRUE IN f[x] + g[T \ {x}]]

\* Of sets of elements of a finite set, one has none of the others inside it.
LEMMA MinimalSet ==
    ASSUME NEW S, IsFiniteSet(S), NEW F, F \subseteq SUBSET S, F # {}
    PROVE  \E T \in F : \A U \in F : U \subseteq T => U = T
<1>1. F \subseteq FiniteSubsetsOf(S)
  BY FS_Subset DEF FiniteSubsetsOf
<1>2. IsWellFoundedOn(StrictSubsetOrdering(S), FiniteSubsetsOf(S))
  BY FS_StrictSubsetOrderingWellFounded
<1>3. PICK T \in F : \A U \in F : <<U, T>> \notin StrictSubsetOrdering(S)
  BY <1>1, <1>2, WFMin
<1> QED  BY <1>3 DEF StrictSubsetOrdering

\* If anything adds up f over the subsets of S, SumOver does.
LEMMA SumOverIsFix ==
    ASSUME NEW f, NEW S, NEW g, Adds(f, S, g)
    PROVE  \E h : Adds(f, S, h) /\ SumOver(f, S) = h[S]
<1> DEFINE fix == CHOOSE h : h = [T \in SUBSET S |-> IF T = {} THEN 0
                                     ELSE LET x == CHOOSE x \in T : TRUE IN f[x] + h[T \ {x}]]
<1>1. SumOver(f, S) = fix[S]
  BY DEF SumOver, MapThenSumSet, MapThenFoldSet
<1>2. Adds(f, S, fix)
  BY DEF Adds
<1> QED  BY <1>1, <1>2

\* One unfolding of Adds.
LEMMA AddsAt ==
    ASSUME NEW f, NEW S, NEW g, Adds(f, S, g), NEW T \in SUBSET S
    PROVE  /\ T = {} => g[T] = 0
           /\ T # {} => g[T] = f[CHOOSE x \in T : TRUE] + g[T \ {CHOOSE x \in T : TRUE}]
BY DEF Adds

\* Two that add up f agree on a finite set both know.
LEMMA AddsAgree ==
    ASSUME NEW f, NEW S, NEW g, Adds(f, S, g), NEW U, NEW h, Adds(f, U, h),
           NEW T, T \subseteq S, T \subseteq U, IsFiniteSet(T)
    PROVE  g[T] = h[T]
<1> DEFINE F == {V \in SUBSET T : g[V] # h[V]}
<1>1. SUFFICES ASSUME F # {}  PROVE FALSE
  OBVIOUS
<1>2. PICK V \in F : \A W \in F : W \subseteq V => W = V
  <2>1. F \subseteq SUBSET T
    OBVIOUS
  <2> HIDE DEF F
  <2> QED  BY <1>1, <2>1, MinimalSet
<1>3. V \in SUBSET S /\ V \in SUBSET U
  OBVIOUS
<1>4. V # {}
  <2>1. V = {} => g[V] = 0
    BY <1>3, AddsAt
  <2>2. V = {} => h[V] = 0
    BY <1>3, AddsAt
  <2> QED  BY <2>1, <2>2
<1>5. PICK c : c = CHOOSE x \in V : TRUE
  OBVIOUS
<1>6. c \in V
  BY <1>4, <1>5
<1>7. g[V] = f[c] + g[V \ {c}] /\ h[V] = f[c] + h[V \ {c}]
  <2> HIDE DEF F
  <2>1. g[V] = f[CHOOSE x \in V : TRUE] + g[V \ {CHOOSE x \in V : TRUE}]
    BY <1>3, <1>4, AddsAt
  <2>2. h[V] = f[CHOOSE x \in V : TRUE] + h[V \ {CHOOSE x \in V : TRUE}]
    <3>1. \A W \in SUBSET U : W # {} => h[W] = f[CHOOSE x \in W : TRUE] + h[W \ {CHOOSE x \in W : TRUE}]
      BY AddsAt
    <3> QED  BY <1>3, <1>4, <3>1
  <2> QED  BY <1>5, <2>1, <2>2
<1>8. g[V \ {c}] = h[V \ {c}]
  BY <1>2, <1>6
<1> QED  BY <1>7, <1>8

\* Over a finite set, something does add up f: unfolding it.
LEMMA SumOverExists ==
    ASSUME NEW f, NEW S, IsFiniteSet(S)
    PROVE  \E g : Adds(f, S, g)
<1> DEFINE F == {T \in SUBSET S : ~ \E g : Adds(f, T, g)}
<1>1. SUFFICES ASSUME F # {}  PROVE FALSE
  OBVIOUS
<1>2. PICK T \in F : \A U \in F : U \subseteq T => U = T
  <2>1. F \subseteq SUBSET S
    OBVIOUS
  <2> HIDE DEF F
  <2> QED  BY <1>1, <2>1, MinimalSet
<1>3. \A U \in SUBSET T : U # T => (IsFiniteSet(U) /\ \E g : Adds(f, U, g))
  BY <1>2, FS_Subset
<1> DEFINE g == [U \in SUBSET T |-> IF U = {} THEN 0
                      ELSE LET x == CHOOSE x \in U : TRUE IN f[x] + SumOver(f, U \ {x})]
<1>4. ASSUME NEW U \in SUBSET T, U # T  PROVE g[U] = SumOver(f, U)
  <2>1. PICK h : Adds(f, U, h) /\ SumOver(f, U) = h[U]
    BY <1>3, <1>4, SumOverIsFix
  <2>2. CASE U = {}
    <3>1. h[U] = 0
      BY <2>1, <2>2, AddsAt
    <3> QED  BY <2>1, <2>2, <3>1
  <2>3. CASE U # {}
    <3>1. PICK c : c = CHOOSE x \in U : TRUE
      OBVIOUS
    <3>2. c \in U /\ U \ {c} \in SUBSET T /\ U \ {c} # T
      BY <2>3, <3>1
    <3>3. PICK k : Adds(f, U \ {c}, k) /\ SumOver(f, U \ {c}) = k[U \ {c}]
      BY <1>3, <3>2, SumOverIsFix
    <3>4. k[U \ {c}] = h[U \ {c}]
      BY <2>1, <3>2, <3>3, <1>3, AddsAgree
    <3>5. h[U] = f[c] + h[U \ {c}]
      <4>1. h[U] = f[CHOOSE x \in U : TRUE] + h[U \ {CHOOSE x \in U : TRUE}]
        BY <2>1, <2>3, AddsAt
      <4> QED  BY <3>1, <4>1
    <3>6. g[U] = f[c] + SumOver(f, U \ {c})
      BY <2>3, <3>1
    <3> QED  BY <2>1, <3>3, <3>4, <3>5, <3>6
  <2> QED  BY <2>2, <2>3
<1>5. ASSUME NEW U \in SUBSET T, U # {}
      PROVE  LET x == CHOOSE x \in U : TRUE IN SumOver(f, U \ {x}) = g[U \ {x}]
  <2>1. PICK c : c = CHOOSE x \in U : TRUE
    OBVIOUS
  <2>2. U \ {c} \in SUBSET T /\ U \ {c} # T
    BY <1>5, <2>1
  <2>3. SumOver(f, U \ {c}) = g[U \ {c}]
    <3> HIDE DEF g
    <3> QED  BY <1>4, <2>2
  <2> QED  BY <2>1, <2>3
<1>6. Adds(f, T, g)
  <2>1. ASSUME NEW U \in SUBSET T
        PROVE  (IF U = {} THEN 0 ELSE LET x == CHOOSE x \in U : TRUE IN f[x] + SumOver(f, U \ {x}))
               = (IF U = {} THEN 0 ELSE LET x == CHOOSE x \in U : TRUE IN f[x] + g[U \ {x}])
    <3> HIDE DEF g
    <3> QED  BY <1>5
  <2>2. g = [U \in SUBSET T |-> IF U = {} THEN 0
                      ELSE LET x == CHOOSE x \in U : TRUE IN f[x] + g[U \ {x}]]
    BY <2>1
  <2> QED BY <2>2 DEF Adds
<1> QED  BY <1>6

\* The sum of nothing, and the sum taking the chosen element first.
LEMMA SumOverStep ==
    ASSUME NEW f, NEW S, IsFiniteSet(S)
    PROVE  /\ S = {} => SumOver(f, S) = 0
           /\ S # {} => LET c == CHOOSE x \in S : TRUE IN SumOver(f, S) = f[c] + SumOver(f, S \ {c})
<1>1. PICK g : Adds(f, S, g) /\ SumOver(f, S) = g[S]
  BY SumOverExists, SumOverIsFix
<1>2. CASE S = {}
  <2>1. g[S] = 0
    <3>1. \A T \in SUBSET S : T = {} => g[T] = 0
      BY <1>1, AddsAt
    <3> QED  BY <1>2, <3>1
  <2> QED  BY <1>1, <1>2, <2>1
<1>3. CASE S # {}
  <2>1. PICK c : c = CHOOSE x \in S : TRUE
    OBVIOUS
  <2>2. g[S] = f[c] + g[S \ {c}]
    <3>1. g[S] = f[CHOOSE x \in S : TRUE] + g[S \ {CHOOSE x \in S : TRUE}]
      <4>1. \A T \in SUBSET S : T # {} => g[T] = f[CHOOSE x \in T : TRUE] + g[T \ {CHOOSE x \in T : TRUE}]
        BY <1>1, AddsAt
      <4> QED  BY <1>3, <4>1
    <3> QED  BY <2>1, <3>1
  <2>3. IsFiniteSet(S \ {c}) /\ S \ {c} \subseteq S
    BY FS_RemoveElement
  <2>4. PICK h : Adds(f, S \ {c}, h) /\ SumOver(f, S \ {c}) = h[S \ {c}]
    BY <2>3, SumOverExists, SumOverIsFix
  <2>5. g[S \ {c}] = h[S \ {c}]
    BY <1>1, <2>3, <2>4, AddsAgree
  <2> QED  BY <1>1, <1>3, <2>1, <2>2, <2>4, <2>5
<1> QED  BY <1>2, <1>3

\* Nothing adds up to 0.
LEMMA SumOverEmpty == ASSUME NEW f PROVE SumOver(f, {}) = 0
BY FS_EmptySet, SumOverStep

\* Integers add up to an integer.
LEMMA SumOverInt ==
    ASSUME NEW f, NEW S, IsFiniteSet(S), \A x \in S : f[x] \in Int
    PROVE  SumOver(f, S) \in Int
<1> DEFINE F == {T \in SUBSET S : SumOver(f, T) \notin Int}
<1>1. SUFFICES ASSUME F # {}  PROVE FALSE
  OBVIOUS
<1>2. PICK T \in F : \A U \in F : U \subseteq T => U = T
  <2>1. F \subseteq SUBSET S
    OBVIOUS
  <2> HIDE DEF F
  <2> QED  BY <1>1, <2>1, MinimalSet
<1>3. T # {} /\ IsFiniteSet(T)
  <2>1. IsFiniteSet(T)
    BY FS_Subset
  <2>2. T # {}
    BY SumOverEmpty
  <2> QED  BY <2>1, <2>2
<1>4. PICK c \in T : SumOver(f, T) = f[c] + SumOver(f, T \ {c})
  BY <1>3, SumOverStep
<1>5. SumOver(f, T \ {c}) \in Int
  BY <1>2
<1> QED  BY <1>4, <1>5

\* Any element may be taken first.
LEMMA SumOverTake ==
    ASSUME NEW f, NEW S, IsFiniteSet(S), \A x \in S : f[x] \in Int, NEW d \in S
    PROVE  SumOver(f, S) = f[d] + SumOver(f, S \ {d})
<1> DEFINE F == {T \in SUBSET S : \E x \in T : SumOver(f, T) # f[x] + SumOver(f, T \ {x})}
<1>1. SUFFICES ASSUME F # {}  PROVE FALSE
  OBVIOUS
<1>2. PICK T \in F : \A U \in F : U \subseteq T => U = T
  <2>1. F \subseteq SUBSET S
    OBVIOUS
  <2> HIDE DEF F
  <2> QED  BY <1>1, <2>1, MinimalSet
<1>3. PICK x \in T : SumOver(f, T) # f[x] + SumOver(f, T \ {x})
  OBVIOUS
<1>4. IsFiniteSet(T)
  BY FS_Subset
<1>5. PICK c \in T : SumOver(f, T) = f[c] + SumOver(f, T \ {c})
  BY <1>4, SumOverStep
<1>6. c # x
  BY <1>3, <1>5
<1> DEFINE smaller == \A U \in SUBSET T : U # T => \A y \in U : SumOver(f, U) = f[y] + SumOver(f, U \ {y})
<1>0. smaller
  BY <1>2
<1>7. SumOver(f, T \ {c}) = f[x] + SumOver(f, (T \ {c}) \ {x})
  <2> HIDE DEF F
  <2>1. T \ {c} \in SUBSET T /\ T \ {c} # T /\ x \in T \ {c}
    BY <1>6
  <2> QED  BY <1>0, <2>1
<1>8. SumOver(f, T \ {x}) = f[c] + SumOver(f, (T \ {x}) \ {c})
  <2> HIDE DEF F
  <2>1. T \ {x} \in SUBSET T /\ T \ {x} # T /\ c \in T \ {x}
    BY <1>6
  <2> QED  BY <1>0, <2>1
<1>9. (T \ {c}) \ {x} = (T \ {x}) \ {c}
  OBVIOUS
<1>10. SumOver(f, (T \ {c}) \ {x}) \in Int /\ f[c] \in Int /\ f[x] \in Int
  <2>1. IsFiniteSet((T \ {c}) \ {x}) /\ \A y \in (T \ {c}) \ {x} : f[y] \in Int
    BY <1>4, FS_RemoveElement
  <2> QED  BY <2>1, SumOverInt
<1>11. \A a, b, r \in Int : a + (b + r) = b + (a + r)
  OBVIOUS
<1>12. f[c] + (f[x] + SumOver(f, (T \ {c}) \ {x})) = f[x] + (f[c] + SumOver(f, (T \ {c}) \ {x}))
  <2> HIDE DEF F, smaller
  <2> QED  BY <1>10, <1>11
<1>13. SumOver(f, T) = f[x] + SumOver(f, T \ {x})
  <2> HIDE DEF F, smaller
  <2> QED  BY <1>5, <1>7, <1>8, <1>9, <1>12
<1> QED  BY <1>3, <1>13

\* A sum grows with its terms.
LEMMA SumOverMonotone ==
    ASSUME NEW f, NEW g, NEW S, IsFiniteSet(S),
           \A x \in S : f[x] \in Int /\ g[x] \in Int /\ f[x] <= g[x]
    PROVE  SumOver(f, S) <= SumOver(g, S)
<1> DEFINE F == {T \in SUBSET S : ~(SumOver(f, T) <= SumOver(g, T))}
<1>1. SUFFICES ASSUME F # {}  PROVE FALSE
  OBVIOUS
<1>2. PICK T \in F : \A U \in F : U \subseteq T => U = T
  <2>1. F \subseteq SUBSET S
    OBVIOUS
  <2> HIDE DEF F
  <2> QED  BY <1>1, <2>1, MinimalSet
<1>3. T # {} /\ IsFiniteSet(T)
  <2>1. IsFiniteSet(T)
    BY FS_Subset
  <2>2. T # {}
    BY SumOverEmpty
  <2> QED  BY <2>1, <2>2
<1>4. PICK c \in T : SumOver(f, T) = f[c] + SumOver(f, T \ {c})
  BY <1>3, SumOverStep
<1>5. SumOver(g, T) = g[c] + SumOver(g, T \ {c})
  BY <1>3, SumOverTake
<1>6. SumOver(f, T \ {c}) <= SumOver(g, T \ {c})
  BY <1>2
<1>7. SumOver(f, T \ {c}) \in Int /\ SumOver(g, T \ {c}) \in Int
  <2>1. IsFiniteSet(T \ {c}) /\ \A y \in T \ {c} : f[y] \in Int /\ g[y] \in Int
    BY <1>3, FS_RemoveElement
  <2> QED  BY <2>1, SumOverInt
<1> QED  BY <1>4, <1>5, <1>6, <1>7

\* Equal terms, equal sums.
LEMMA SumOverSame ==
    ASSUME NEW f, NEW g, NEW S, IsFiniteSet(S), \A x \in S : f[x] \in Int /\ f[x] = g[x]
    PROVE  SumOver(f, S) = SumOver(g, S)
<1>1. SumOver(f, S) <= SumOver(g, S) /\ SumOver(g, S) <= SumOver(f, S)
  BY SumOverMonotone
<1>2. SumOver(f, S) \in Int /\ SumOver(g, S) \in Int
  BY SumOverInt
<1> QED  BY <1>1, <1>2

\* Sums add up term by term.
LEMMA SumOverPlus ==
    ASSUME NEW f, NEW g, NEW h, NEW S, IsFiniteSet(S),
           \A x \in S : f[x] \in Int /\ g[x] \in Int /\ h[x] = f[x] + g[x]
    PROVE  SumOver(h, S) = SumOver(f, S) + SumOver(g, S)
<1> DEFINE F == {T \in SUBSET S : SumOver(h, T) # SumOver(f, T) + SumOver(g, T)}
<1>1. SUFFICES ASSUME F # {}  PROVE FALSE
  OBVIOUS
<1>2. PICK T \in F : \A U \in F : U \subseteq T => U = T
  <2>1. F \subseteq SUBSET S
    OBVIOUS
  <2> HIDE DEF F
  <2> QED  BY <1>1, <2>1, MinimalSet
<1>3. T # {} /\ IsFiniteSet(T)
  <2>1. IsFiniteSet(T)
    BY FS_Subset
  <2>2. T # {}
    <3>1. SumOver(h, {}) = 0 /\ SumOver(f, {}) = 0 /\ SumOver(g, {}) = 0
      BY SumOverEmpty
    <3>2. SumOver(h, {}) = SumOver(f, {}) + SumOver(g, {})
      BY <3>1
    <3> QED  BY <3>2
  <2> QED  BY <2>1, <2>2
<1>4. PICK c \in T : SumOver(h, T) = h[c] + SumOver(h, T \ {c})
  BY <1>3, SumOverStep
<1>5. SumOver(g, T) = g[c] + SumOver(g, T \ {c}) /\ SumOver(f, T) = f[c] + SumOver(f, T \ {c})
  BY <1>3, SumOverTake
<1>6. SumOver(h, T \ {c}) = SumOver(f, T \ {c}) + SumOver(g, T \ {c})
  BY <1>2
<1>7. SumOver(f, T \ {c}) \in Int /\ SumOver(g, T \ {c}) \in Int
  <2>1. IsFiniteSet(T \ {c}) /\ \A y \in T \ {c} : f[y] \in Int /\ g[y] \in Int
    BY <1>3, FS_RemoveElement
  <2> QED  BY <2>1, SumOverInt
<1> QED  BY <1>4, <1>5, <1>6, <1>7

\* One term changes, and the sum by as much.
LEMMA SumOverChange ==
    ASSUME NEW f, NEW g, NEW S, IsFiniteSet(S), NEW d \in S,
           \A x \in S : f[x] \in Int /\ g[x] \in Int,
           \A x \in S : x # d => f[x] = g[x]
    PROVE  SumOver(g, S) = SumOver(f, S) - f[d] + g[d]
<1>1. SumOver(f, S) = f[d] + SumOver(f, S \ {d}) /\ SumOver(g, S) = g[d] + SumOver(g, S \ {d})
  BY SumOverTake
<1>2. IsFiniteSet(S \ {d})
  BY FS_RemoveElement
<1>3. SumOver(f, S \ {d}) = SumOver(g, S \ {d}) /\ SumOver(f, S \ {d}) \in Int
  BY <1>2, SumOverSame, SumOverInt
<1> QED  BY <1>1, <1>3

\* Terms that are not negative add up to at least each of them.
LEMMA SumOverNonNegative ==
    ASSUME NEW f, NEW S, IsFiniteSet(S), \A x \in S : f[x] \in Nat
    PROVE  SumOver(f, S) \in Nat /\ \A x \in S : f[x] <= SumOver(f, S)
<1> DEFINE F == {T \in SUBSET S : SumOver(f, T) \notin Nat}
<1>1. F = {}
  <2>1. SUFFICES ASSUME F # {}  PROVE FALSE
    OBVIOUS
  <2>2. PICK T \in F : \A U \in F : U \subseteq T => U = T
    <3>1. F \subseteq SUBSET S
      OBVIOUS
    <3> HIDE DEF F
    <3> QED  BY <2>1, <3>1, MinimalSet
  <2>3. T # {} /\ IsFiniteSet(T)
    <3>1. IsFiniteSet(T)
      BY FS_Subset
    <3>2. T # {}
      BY SumOverEmpty
    <3> QED  BY <3>1, <3>2
  <2>4. PICK c \in T : SumOver(f, T) = f[c] + SumOver(f, T \ {c})
    BY <2>3, SumOverStep
  <2>5. SumOver(f, T \ {c}) \in Nat
    BY <2>2
  <2> QED  BY <2>4, <2>5
<1>2. \A T \in SUBSET S : SumOver(f, T) \in Nat
  BY <1>1
<1>3. ASSUME NEW d \in S  PROVE f[d] <= SumOver(f, S)
  <2>1. SumOver(f, S) = f[d] + SumOver(f, S \ {d})
    BY SumOverTake
  <2> QED  BY <1>2, <2>1
<1> QED  BY <1>2, <1>3

\* Fewer and smaller terms add up to less.
LEMMA SumOverShrinks ==
    ASSUME NEW f, NEW g, NEW S, NEW T, IsFiniteSet(S), T \subseteq S,
           \A x \in S : f[x] \in Nat,
           \A x \in T : g[x] \in Int /\ g[x] <= f[x]
    PROVE  SumOver(g, T) <= SumOver(f, S)
<1> DEFINE F == {U \in SUBSET S : ~(SumOver(g, T \cap U) <= SumOver(f, U))}
<1>1. F = {}
  <2>1. SUFFICES ASSUME F # {}  PROVE FALSE
    OBVIOUS
  <2>2. PICK U \in F : \A V \in F : V \subseteq U => V = U
    <3>1. F \subseteq SUBSET S
      OBVIOUS
    <3> HIDE DEF F
    <3> QED  BY <2>1, <3>1, MinimalSet
  <2>3. U \subseteq S /\ IsFiniteSet(U) /\ IsFiniteSet(T \cap U)
    BY FS_Subset
  <2>4. U # {}
    <3>1. SumOver(g, {}) = 0 /\ SumOver(f, {}) = 0
      BY SumOverEmpty
    <3>2. U = {} => T \cap U = {}
      OBVIOUS
    <3> QED  BY <3>1, <3>2
  <2>5. PICK c \in U : SumOver(f, U) = f[c] + SumOver(f, U \ {c})
    BY <2>3, <2>4, SumOverStep
  <2>6. SumOver(g, T \cap (U \ {c})) <= SumOver(f, U \ {c})
    BY <2>2
  <2>7. /\ IsFiniteSet(U \ {c}) /\ \A x \in U \ {c} : f[x] \in Int
        /\ IsFiniteSet(T \cap (U \ {c})) /\ \A x \in T \cap (U \ {c}) : g[x] \in Int
    BY <2>3, FS_Subset
  <2>8. SumOver(f, U \ {c}) \in Int /\ SumOver(g, T \cap (U \ {c})) \in Int
    BY <2>7, SumOverInt
  <2>9. CASE c \in T
    <3>1. SumOver(g, T \cap U) = g[c] + SumOver(g, (T \cap U) \ {c})
      <4>1. \A x \in T \cap U : g[x] \in Int
        OBVIOUS
      <4> QED  BY <2>3, <2>9, <4>1, SumOverTake
    <3>2. (T \cap U) \ {c} = T \cap (U \ {c})
      OBVIOUS
    <3> QED  BY <2>3, <2>5, <2>6, <2>8, <2>9, <3>1, <3>2
  <2>10. CASE c \notin T
    <3>1. T \cap U = T \cap (U \ {c}) /\ f[c] \in Nat
      BY <2>3, <2>10
    <3> QED  BY <2>5, <2>6, <2>8, <3>1
  <2> QED  BY <2>9, <2>10
<1>2. T \cap S = T /\ S \in SUBSET S
  OBVIOUS
<1> QED  BY <1>1, <1>2

\* Terms of 0 may be left out.
LEMMA SumOverIgnore ==
    ASSUME NEW f, NEW g, NEW S, NEW T, IsFiniteSet(S), T \subseteq S,
           \A x \in S : f[x] \in Int,
           \A x \in T : g[x] = f[x],
           \A x \in S \ T : f[x] = 0
    PROVE  SumOver(f, S) = SumOver(g, T)
<1> DEFINE F == {U \in SUBSET S : SumOver(f, U) # SumOver(g, T \cap U)}
<1>1. F = {}
  <2>1. SUFFICES ASSUME F # {}  PROVE FALSE
    OBVIOUS
  <2>2. PICK U \in F : \A V \in F : V \subseteq U => V = U
    <3>1. F \subseteq SUBSET S
      OBVIOUS
    <3> HIDE DEF F
    <3> QED  BY <2>1, <3>1, MinimalSet
  <2>3. U \subseteq S /\ IsFiniteSet(U) /\ IsFiniteSet(T \cap U)
    BY FS_Subset
  <2>4. U # {}
    <3>1. SumOver(g, {}) = 0 /\ SumOver(f, {}) = 0
      BY SumOverEmpty
    <3>2. U = {} => T \cap U = {}
      OBVIOUS
    <3> QED  BY <3>1, <3>2
  <2>5. PICK c \in U : SumOver(f, U) = f[c] + SumOver(f, U \ {c})
    BY <2>3, <2>4, SumOverStep
  <2>6. SumOver(f, U \ {c}) = SumOver(g, T \cap (U \ {c}))
    BY <2>2
  <2>7. SumOver(f, U \ {c}) \in Int
    <3>1. IsFiniteSet(U \ {c}) /\ \A x \in U \ {c} : f[x] \in Int
      BY <2>3, FS_Subset
    <3> QED  BY <3>1, SumOverInt
  <2>8. CASE c \in T
    <3>1. SumOver(g, T \cap U) = g[c] + SumOver(g, (T \cap U) \ {c})
      <4>1. \A x \in T \cap U : g[x] \in Int
        OBVIOUS
      <4> QED  BY <2>3, <2>8, <4>1, SumOverTake
    <3>2. (T \cap U) \ {c} = T \cap (U \ {c})
      OBVIOUS
    <3> QED  BY <2>3, <2>5, <2>6, <2>8, <3>1, <3>2
  <2>9. CASE c \notin T
    <3>1. T \cap U = T \cap (U \ {c}) /\ f[c] = 0
      BY <2>3, <2>9
    <3>2. SumOver(f, U) = SumOver(f, U \ {c})
      BY <2>5, <2>7, <3>1
    <3> QED  BY <2>6, <3>1, <3>2
  <2> QED  BY <2>8, <2>9
<1>2. T \cap S = T /\ S \in SUBSET S
  OBVIOUS
<1> QED  BY <1>1, <1>2

\* What f adds up to over the parts of S, part telling where an element belongs.
PartSums(f, S, part, M) == [m \in M |-> SumOver(f, {x \in S : part[x] = m})]

\* A sum is that of its parts.
LEMMA SumOverParts ==
    ASSUME NEW f, NEW S, NEW part, NEW M, IsFiniteSet(S), IsFiniteSet(M),
           \A x \in S : f[x] \in Int /\ part[x] \in M
    PROVE  SumOver(PartSums(f, S, part, M), M) = SumOver(f, S)
<1> DEFINE F == {T \in SUBSET S : SumOver(PartSums(f, T, part, M), M) # SumOver(f, T)}
<1>1. SUFFICES ASSUME F # {}  PROVE FALSE
  OBVIOUS
<1>2. PICK T \in F : \A U \in F : U \subseteq T => U = T
  <2>1. F \subseteq SUBSET S
    OBVIOUS
  <2> HIDE DEF F
  <2> QED  BY <1>1, <2>1, MinimalSet
<1>3. T \subseteq S /\ IsFiniteSet(T)
  BY FS_Subset
<1>4. ASSUME NEW U \in SUBSET T, NEW m \in M
      PROVE  /\ PartSums(f, U, part, M)[m] = SumOver(f, {x \in U : part[x] = m})
             /\ PartSums(f, U, part, M)[m] \in Int
  <2>1. IsFiniteSet({x \in U : part[x] = m}) /\ \A x \in {x \in U : part[x] = m} : f[x] \in Int
    BY <1>3, FS_Subset
  <2>2. SumOver(f, {x \in U : part[x] = m}) \in Int
    BY <2>1, SumOverInt
  <2> QED  BY <2>2 DEF PartSums
<1>5. T # {}
  <2>1. CASE T = {}
    <3> DEFINE none == PartSums(f, {}, part, M)
    <3>1. \A m \in M : none[m] = 0
      <4>1. \A m \in M : {x \in {} : part[x] = m} = {}
        OBVIOUS
      <4> QED  BY <4>1, SumOverEmpty DEF PartSums
    <3>2. SumOver(none, M) = SumOver(none, {})
      <4>1. \A m \in M : none[m] \in Int
        BY <3>1
      <4> HIDE DEF none
      <4> QED  BY <3>1, <4>1, SumOverIgnore
    <3>3. SumOver(none, M) = SumOver(f, {})
      <4> HIDE DEF none
      <4> QED  BY <3>2, SumOverEmpty
    <3> QED  BY <2>1, <3>3
  <2> QED  BY <2>1
<1>6. PICK c \in T : TRUE
  BY <1>5
<1> DEFINE U == T \ {c}
           d == part[c]
           g == PartSums(f, U, part, M)
           h == PartSums(f, T, part, M)
<1>7. SumOver(g, M) = SumOver(f, U)
  <2>1. U \in SUBSET S /\ U \subseteq T /\ U # T
    BY <1>6
  <2> QED  BY <1>2, <2>1
<1>8. SumOver(f, T) = f[c] + SumOver(f, U)
  BY <1>3, SumOverTake
<1>9. d \in M /\ f[c] \in Int
  BY <1>3, <1>6
<1>10. \A m \in M : m # d => g[m] = h[m]
  <2>1. \A m \in M : m # d => {x \in U : part[x] = m} = {x \in T : part[x] = m}
    OBVIOUS
  <2> QED  BY <2>1 DEF PartSums
<1>11. h[d] = f[c] + g[d]
  <2> DEFINE P == {x \in T : part[x] = d}
  <2>1. P \ {c} = {x \in U : part[x] = d} /\ c \in P
    OBVIOUS
  <2>2. IsFiniteSet(P) /\ \A x \in P : f[x] \in Int
    BY <1>3, FS_Subset
  <2>3. SumOver(f, P) = f[c] + SumOver(f, P \ {c})
    <3> HIDE DEF P, d
    <3> QED  BY <2>1, <2>2, SumOverTake
  <2>4. h[d] = SumOver(f, P) /\ g[d] = SumOver(f, {x \in U : part[x] = d})
    BY <1>9 DEF PartSums
  <2> QED  BY <2>1, <2>3, <2>4
<1>12. \A m \in M : g[m] \in Int /\ h[m] \in Int
  BY <1>4
<1>13. SumOver(h, M) = SumOver(g, M) - g[d] + h[d]
  <2> HIDE DEF g, h, d
  <2> QED  BY <1>9, <1>10, <1>12, SumOverChange
<1>14. SumOver(f, U) \in Int
  <2>1. IsFiniteSet(U) /\ \A x \in U : f[x] \in Int
    BY <1>3, FS_RemoveElement
  <2> QED  BY <2>1, SumOverInt
<1>15. SumOver(h, M) = SumOver(f, T)
  <2>1. g[d] \in Int
    BY <1>9, <1>12
  <2> HIDE DEF g, h, d, U, F
  <2> QED  BY <1>7, <1>8, <1>9, <1>11, <1>13, <1>14, <2>1
<1> QED  BY <1>15

\* The images of a set under a function that keeps its elements apart.
Images(h, S) == {h[x] : x \in S}

\* A sum may run over other names of the same terms.
LEMMA SumOverNames ==
    ASSUME NEW f, NEW g, NEW S, NEW h, IsFiniteSet(S),
           \A x, y \in S : h[x] = h[y] => x = y,
           \A x \in S : g[x] \in Int /\ f[h[x]] = g[x]
    PROVE  SumOver(f, Images(h, S)) = SumOver(g, S)
<1> DEFINE F == {T \in SUBSET S : SumOver(f, Images(h, T)) # SumOver(g, T)}
<1>1. SUFFICES ASSUME F # {}  PROVE FALSE
  OBVIOUS
<1>2. PICK T \in F : \A U \in F : U \subseteq T => U = T
  <2>1. F \subseteq SUBSET S
    OBVIOUS
  <2> HIDE DEF F
  <2> QED  BY <1>1, <2>1, MinimalSet
<1>3. T \subseteq S /\ IsFiniteSet(T)
  BY FS_Subset
<1>4. T # {}
  <2>1. Images(h, {}) = {}
    BY DEF Images
  <2>2. SumOver(f, {}) = 0 /\ SumOver(g, {}) = 0
    BY SumOverEmpty
  <2>3. T = {} => SumOver(f, Images(h, T)) = SumOver(g, T)
    BY <2>1, <2>2
  <2> QED  BY <2>3
<1>5. PICK c \in T : TRUE
  BY <1>4
<1> DEFINE U == T \ {c}
<1>6. SumOver(f, Images(h, U)) = SumOver(g, U)
  <2>1. U \in SUBSET S /\ U \subseteq T /\ U # T
    BY <1>5
  <2> QED  BY <1>2, <2>1
<1>7. SumOver(g, T) = g[c] + SumOver(g, U)
  BY <1>3, SumOverTake
<1>8. /\ IsFiniteSet(Images(h, T)) /\ \A y \in Images(h, T) : f[y] \in Int
      /\ h[c] \in Images(h, T) /\ Images(h, T) \ {h[c]} = Images(h, U)
  <2>1. IsFiniteSet(Images(h, T))
    <3>1. [x \in T |-> h[x]] \in Surjection(T, Images(h, T))
      BY DEF Surjection, Images
    <3> QED  BY <1>3, <3>1, FS_Surjection
  <2> QED  BY <1>3, <1>5, <2>1 DEF Images
<1>9. SumOver(f, Images(h, T)) = f[h[c]] + SumOver(f, Images(h, T) \ {h[c]})
  BY <1>8, SumOverTake
<1>10. SumOver(f, Images(h, T)) = SumOver(g, T)
  BY <1>3, <1>6, <1>7, <1>8, <1>9
<1> QED  BY <1>10

-----------------------------------------------------------------------------
(* Extremes *)

\* Of naturals, one is the least.
LEMMA Least ==
    ASSUME NEW ns \in SUBSET Nat, ns # {}
    PROVE  \E x \in ns : \A n \in ns : x <= n
<1> DEFINE R == {ss \in Nat \X Nat : ss[1] < ss[2]}
<1>1. IsWellFoundedOn(R, Nat)
  BY NatLessThanWellFounded, Z3 DEF OpToRel
<1>2. \A x, y \in Nat : x < y => <<x, y>> \in R
  OBVIOUS
<1> HIDE DEF R
<1>3. PICK x \in ns : \A y \in ns : <<y, x>> \notin R
  BY <1>1, WFMin
<1>4. ASSUME NEW y \in ns  PROVE x <= y
  <2>1. x \in Nat /\ y \in Nat /\ ~(y < x)
    BY <1>2, <1>3
  <2> QED  BY <2>1
<1> QED  BY <1>3, <1>4

\* Of numbers up to n, one is the greatest.
LEMMA Greatest ==
    ASSUME NEW n \in Nat, NEW es \in SUBSET (1..n), es # {}
    PROVE  \E e \in es : \A f \in es : e >= f
<1> DEFINE R == {ss \in Nat \X Nat : ss[1] < ss[2]}
           T == {n - e : e \in es}
<1>1. IsWellFoundedOn(R, Nat)
  BY NatLessThanWellFounded, Z3 DEF OpToRel
<1>2. \A x, y \in Nat : x < y => <<x, y>> \in R
  OBVIOUS
<1>3. T \subseteq Nat /\ T # {}
  <2>1. PICK e \in es : TRUE
    OBVIOUS
  <2>2. n - e \in T
    BY <2>1
  <2> QED  BY <2>2
<1> HIDE DEF R
<1>4. PICK x \in T : \A y \in T : <<y, x>> \notin R
  BY <1>1, <1>3, WFMin
<1>5. PICK e \in es : x = n - e
  BY <1>4
<1>6. ASSUME NEW f \in es  PROVE e >= f
  <2>1. n - f \in T
    OBVIOUS
  <2>2. ~(n - f < n - e)
    BY <1>2, <1>3, <1>4, <1>5, <2>1
  <2>3. e \in Nat /\ f \in Nat
    BY <1>5
  <2> QED  BY <2>2, <2>3
<1> QED  BY <1>5, <1>6

===============================================================================
