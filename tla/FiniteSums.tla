------------------------------ MODULE FiniteSums ------------------------------
(***************************************************************************)
(* Sums over finite sets, for the modules that prove something about       *)
(* amounts.  SumFunction recurs through CHOOSE, and an induction over sets *)
(* takes a predicate.  Instead, of the subsets for which something fails   *)
(* there is a least one: from that follow that there is one such recursion *)
(* and that what it adds up does not depend on what was chosen.            *)
(***************************************************************************)
EXTENDS Integers, Functions, FiniteSetTheorems, WellFoundedInduction, TLAPS

Over(S, f) == SumFunction([x \in S |-> f[x]])

Chosen(s) == CHOOSE x \in s : TRUE

\* g adds up f, element by element, on the subsets of S.
AddsUp(g, S, f) ==
  g = [s \in SUBSET S |-> IF s = {} THEN 0 ELSE f[Chosen(s)] + g[s \ {Chosen(s)}]]

\* There is nothing wrong with a set whose strict subsets are all right.
LEMMA LeastBad ==
  ASSUME NEW S, IsFiniteSet(S), NEW Bad \in SUBSET (SUBSET S), Bad # {}
  PROVE  \E T \in Bad : \A U \in SUBSET T : U # T => U \notin Bad
<1>1. IsWellFoundedOn(StrictSubsetOrdering(S), FiniteSubsetsOf(S))
  BY FS_StrictSubsetOrderingWellFounded
<1>2. FiniteSubsetsOf(S) = SUBSET S
  BY FS_FiniteSubsetsOfFinite
<1>3. PICK T \in Bad : \A U \in Bad : ~(<<U, T>> \in StrictSubsetOrdering(S))
  BY <1>1, <1>2, WFMin
<1>4. ASSUME NEW U \in SUBSET T, U # T, U \in Bad
      PROVE  FALSE
  BY <1>3, <1>4 DEF StrictSubsetOrdering
<1>. QED  BY <1>3, <1>4

\* A recursion that SumFunction may choose is what it sums by.
LEMMA SumIsOne ==
  ASSUME NEW S, NEW f, NEW g, AddsUp(g, S, f)
  PROVE  \E h : AddsUp(h, S, f) /\ Over(S, f) = h[S]
<1>. DEFINE F == [x \in S |-> f[x]]
<1>1. \A h : h = [s \in SUBSET S |-> IF s = {} THEN 0 ELSE F[Chosen(s)] + h[s \ {Chosen(s)}]]
             <=> AddsUp(h, S, f)
  <2>1. \A s \in SUBSET S : s # {} => Chosen(s) \in S
    BY DEF Chosen
  <2>2. \A h : [s \in SUBSET S |-> IF s = {} THEN 0 ELSE F[Chosen(s)] + h[s \ {Chosen(s)}]]
               = [s \in SUBSET S |-> IF s = {} THEN 0 ELSE f[Chosen(s)] + h[s \ {Chosen(s)}]]
    BY <2>1
  <2>. QED  BY <2>2 DEF AddsUp
<1>2. DOMAIN F = S
  OBVIOUS
<1>. HIDE DEF F
<1>3. \E h : h = [s \in SUBSET DOMAIN F |->
                    IF s = {} THEN 0 ELSE F[Chosen(s)] + h[s \ {Chosen(s)}]]
  BY <1>1, <1>2
<1>4. \E h : /\ h = [s \in SUBSET DOMAIN F |->
                      IF s = {} THEN 0 ELSE F[Chosen(s)] + h[s \ {Chosen(s)}]]
             /\ SumFunction(F) = h[DOMAIN F]
  BY <1>3 DEF SumFunction, SumFunctionOnSet, FoldFunctionOnSet, MapThenFoldSet, Chosen
<1>. QED  BY <1>1, <1>2, <1>4 DEF Over, F

\* It is the only one.
LEMMA AddsUpOnce ==
  ASSUME NEW S, IsFiniteSet(S), NEW f, NEW T \in SUBSET S, NEW g, NEW h,
         NEW V \in SUBSET S, AddsUp(g, T, f), AddsUp(h, V, f)
  PROVE  \A U \in SUBSET (T \cap V) : g[U] = h[U]
<1>. DEFINE Bad == {U \in SUBSET (T \cap V) : g[U] # h[U]}
<1>. SUFFICES ASSUME Bad # {} PROVE FALSE
  OBVIOUS
<1>1. PICK U \in Bad : \A W \in SUBSET U : W # U => W \notin Bad
  <2>. HIDE DEF Bad
  <2>1. Bad \in SUBSET (SUBSET S)
    BY DEF Bad
  <2>. QED  BY <2>1, LeastBad
<1>2. U # {}
  BY DEF AddsUp
<1>3. Chosen(U) \in U
  BY <1>2 DEF Chosen
<1>4. g[U \ {Chosen(U)}] = h[U \ {Chosen(U)}]
  BY <1>1, <1>3
<1>5. g[U] = f[Chosen(U)] + g[U \ {Chosen(U)}] /\ h[U] = f[Chosen(U)] + h[U \ {Chosen(U)}]
  BY <1>2 DEF AddsUp
<1>. QED  BY <1>4, <1>5

\* There is one.
LEMMA SumExists ==
  ASSUME NEW S, IsFiniteSet(S), NEW f
  PROVE  \E g : AddsUp(g, S, f)
<1>. DEFINE Bad == {T \in SUBSET S : ~\E g : AddsUp(g, T, f)}
<1>. SUFFICES ASSUME Bad # {} PROVE FALSE
  OBVIOUS
<1>1. PICK T \in Bad : \A U \in SUBSET T : U # T => U \notin Bad
  <2>. HIDE DEF Bad
  <2>1. Bad \in SUBSET (SUBSET S)
    BY DEF Bad
  <2>. QED  BY <2>1, LeastBad
<1>. DEFINE H(U) == CHOOSE h : AddsUp(h, U, f)
            rest(s) == s \ {Chosen(s)}
            g == [s \in SUBSET T |-> IF s = {} THEN 0 ELSE f[Chosen(s)] + H(rest(s))[rest(s)]]
<1>2. \A U \in SUBSET T : U # T => AddsUp(H(U), U, f)
  BY <1>1
<1>3. \A s \in SUBSET T : s # {} => Chosen(s) \in s /\ rest(s) \in SUBSET T /\ rest(s) # T
                                    /\ rest(s) \in SUBSET s
  BY DEF Chosen
<1>4. ASSUME NEW u \in SUBSET T, u # T
      PROVE  g[u] = H(u)[u]
  <2>1. AddsUp(H(u), u, f)
    BY <1>2, <1>4
  <2>2. CASE u = {}
    BY <2>1, <2>2 DEF AddsUp
  <2>3. CASE u # {}
    <3>1. H(u)[u] = f[Chosen(u)] + H(u)[rest(u)]
      <4>. HIDE DEF H
      <4>. QED  BY <2>1, <2>3 DEF AddsUp
    <3>2. AddsUp(H(rest(u)), rest(u), f)
      BY <1>2, <1>3, <2>3
    <3>3. H(u)[rest(u)] = H(rest(u))[rest(u)]
      <4>. HIDE DEF H
      <4>1. rest(u) \in SUBSET (u \cap rest(u)) /\ u \in SUBSET S /\ rest(u) \in SUBSET S
        OBVIOUS
      <4>. HIDE DEF rest
      <4>. QED  BY <2>1, <3>2, <4>1, AddsUpOnce
    <3>4. g[u] = f[Chosen(u)] + H(rest(u))[rest(u)]
      <4>. HIDE DEF H, rest
      <4>. QED  BY <2>3
    <3>. QED  BY <3>1, <3>3, <3>4
  <2>. QED  BY <2>2, <2>3
<1>5. \A s \in SUBSET T : s # {} => g[rest(s)] = H(rest(s))[rest(s)]
  <2>. HIDE DEF g, H, rest
  <2>. QED  BY <1>3, <1>4
<1>6. AddsUp(g, T, f)
  <2>. HIDE DEF H
  <2>1. g = [s \in SUBSET T |-> IF s = {} THEN 0 ELSE f[Chosen(s)] + g[rest(s)]]
    <3>1. \A s \in SUBSET T : g[s] = IF s = {} THEN 0 ELSE f[Chosen(s)] + g[rest(s)]
      <4>1. \A s \in SUBSET T : g[s] = IF s = {} THEN 0 ELSE f[Chosen(s)] + H(rest(s))[rest(s)]
        OBVIOUS
      <4>. HIDE DEF g, rest
      <4>. QED  BY <1>5, <4>1
    <3>2. g = [s \in SUBSET T |-> g[s]]
      OBVIOUS
    <3>. HIDE DEF g, rest
    <3>. QED  BY <3>1, <3>2
  <2>. HIDE DEF g
  <2>. QED  BY <2>1 DEF AddsUp
<1>. QED  BY <1>1, <1>6

IntOn(S, f) == \A x \in S : f[x] \in Int

\* It sums the subsets, too.
LEMMA SumOfSubset ==
  ASSUME NEW S, IsFiniteSet(S), NEW f, NEW g, AddsUp(g, S, f), NEW T \in SUBSET S
  PROVE  Over(T, f) = g[T]
<1>1. IsFiniteSet(T)
  BY FS_Subset
<1>2. PICK h : AddsUp(h, T, f)
  BY <1>1, SumExists
<1>3. PICK k : AddsUp(k, T, f) /\ Over(T, f) = k[T]
  BY <1>2, SumIsOne
<1>4. k[T] = g[T]
  <2>1. T \in SUBSET (T \cap S) /\ S \in SUBSET S
    OBVIOUS
  <2>. QED  BY <1>3, <2>1, AddsUpOnce
<1>. QED  BY <1>3, <1>4

LEMMA SumNone == ASSUME NEW f PROVE Over({}, f) = 0
<1>1. IsFiniteSet({})
  BY FS_EmptySet
<1>2. PICK g : AddsUp(g, {}, f)
  BY <1>1, SumExists
<1>3. Over({}, f) = g[{}]
  BY <1>1, <1>2, SumOfSubset
<1>4. g[{}] = 0
  BY <1>2 DEF AddsUp
<1>. QED  BY <1>3, <1>4

\* Sums are numbers, and any element may be counted first.
LEMMA SumParts ==
  ASSUME NEW S, IsFiniteSet(S), NEW f, IntOn(S, f)
  PROVE  /\ Over(S, f) \in Int
         /\ \A x \in S : Over(S, f) = f[x] + Over(S \ {x}, f)
<1>1. PICK g : AddsUp(g, S, f)
  BY SumExists
<1>2. \A T \in SUBSET S : Over(T, f) = g[T]
  BY <1>1, SumOfSubset
<1>3. \A T \in SUBSET S : g[T] = IF T = {} THEN 0 ELSE f[Chosen(T)] + g[T \ {Chosen(T)}]
  BY <1>1 DEF AddsUp
<1>4. \A T \in SUBSET S : T # {} => Chosen(T) \in T
  BY DEF Chosen
<1>. DEFINE Right(T) == /\ g[T] \in Int
                        /\ \A x \in T : g[T] = f[x] + g[T \ {x}]
            Bad == {T \in SUBSET S : ~Right(T)}
<1>5. Bad = {}
  <2>. SUFFICES ASSUME Bad # {} PROVE FALSE
    OBVIOUS
  <2>1. PICK T \in Bad : \A U \in SUBSET T : U # T => U \notin Bad
    <3>1. Bad \in SUBSET (SUBSET S)
      OBVIOUS
    <3>. HIDE DEF Bad
    <3>. QED  BY <3>1, LeastBad
  <2>2. \A U \in SUBSET T : U # T => Right(U)
    BY <2>1
  <2>3. g[{}] = 0
    BY <1>3
  <2>4. CASE T = {}
    BY <2>1, <2>3, <2>4
  <2>5. CASE T # {}
    <3>. DEFINE c == Chosen(T)
    <3>1. c \in T
      BY <1>4, <2>5
    <3>. HIDE DEF c
    <3>2. g[T] = f[c] + g[T \ {c}]
      BY <1>3, <2>5 DEF c
    <3>3. f[c] \in Int /\ T \in SUBSET S
      BY <3>1 DEF IntOn
    <3>4. \A x \in T : Right(T \ {x})
      BY <2>2
    <3>5. g[T] \in Int
      <4>1. g[T \ {c}] \in Int
        BY <3>1, <3>4
      <4>. HIDE DEF Right, Bad
      <4>. QED  BY <3>2, <3>3, <4>1
    <3>6. ASSUME NEW x \in T, x # c
          PROVE  g[T] = f[x] + g[T \ {x}]
      <4>1. g[T \ {c}] = f[x] + g[(T \ {c}) \ {x}]
        BY <3>1, <3>4, <3>6
      <4>2. g[T \ {x}] = f[c] + g[(T \ {x}) \ {c}]
        BY <3>1, <3>4, <3>6
      <4>3. (T \ {c}) \ {x} = (T \ {x}) \ {c}
        OBVIOUS
      <4>4. f[x] \in Int /\ g[(T \ {c}) \ {x}] \in Int
        <5>1. (T \ {c}) \ {x} \in SUBSET T /\ (T \ {c}) \ {x} # T
          BY <3>1
        <5>. QED  BY <2>2, <3>3, <5>1 DEF IntOn
      <4>. DEFINE v == g[(T \ {c}) \ {x}]
      <4>5. g[T \ {c}] = f[x] + v /\ g[T \ {x}] = f[c] + v /\ v \in Int
        BY <4>1, <4>2, <4>3, <4>4
      <4>. HIDE DEF Right, Bad, v
      <4>. QED  BY <3>2, <3>3, <4>4, <4>5
    <3>. QED  BY <2>1, <3>2, <3>5, <3>6
  <2>. QED  BY <2>4, <2>5
<1>6. Right(S)
  BY <1>5
<1>. HIDE DEF Bad
<1>7. \A x \in S : S \ {x} \in SUBSET S
  OBVIOUS
<1>. QED  BY <1>2, <1>6, <1>7

\* An element that is added.
LEMMA SumWith ==
  ASSUME NEW S, IsFiniteSet(S), NEW f, IntOn(S, f), NEW x, x \notin S, f[x] \in Int
  PROVE  /\ IsFiniteSet(S \cup {x})
         /\ Over(S \cup {x}, f) = Over(S, f) + f[x]
<1>1. IsFiniteSet(S \cup {x})
  BY FS_AddElement
<1>2. IntOn(S \cup {x}, f) /\ (S \cup {x}) \ {x} = S /\ x \in S \cup {x}
  BY DEF IntOn
<1>3. Over(S \cup {x}, f) = f[x] + Over(S, f)
  BY <1>1, <1>2, SumParts
<1>4. Over(S, f) \in Int
  BY SumParts
<1>. QED  BY <1>1, <1>3, <1>4

\* Only the values that are summed matter.
LEMMA SumSame ==
  ASSUME NEW S, NEW f, NEW g, \A x \in S : f[x] = g[x]
  PROVE  Over(S, f) = Over(S, g)
<1>1. [x \in S |-> f[x]] = [x \in S |-> g[x]]
  OBVIOUS
<1>. QED  BY <1>1 DEF Over

\* A sum is split into two.
LEMMA SumSplit ==
  ASSUME NEW S, IsFiniteSet(S), NEW f, IntOn(S, f), NEW T \in SUBSET S
  PROVE  Over(S, f) = Over(T, f) + Over(S \ T, f)
<1>. DEFINE Bad == {U \in SUBSET S : Over(U, f) # Over(U \cap T, f) + Over(U \ T, f)}
<1>1. Bad = {}
  <2>. SUFFICES ASSUME Bad # {} PROVE FALSE
    OBVIOUS
  <2>1. PICK U \in Bad : \A V \in SUBSET U : V # U => V \notin Bad
    <3>1. Bad \in SUBSET (SUBSET S)
      OBVIOUS
    <3>. HIDE DEF Bad
    <3>. QED  BY <3>1, LeastBad
  <2>2. \A V \in SUBSET S : IsFiniteSet(V) /\ IntOn(V, f) /\ Over(V, f) \in Int
    BY FS_Subset, SumParts DEF IntOn
  <2>3. CASE U = {}
    <3>1. U \cap T = {} /\ U \ T = {} /\ 0 + 0 = 0
      BY <2>3
    <3>. QED  BY <2>1, <2>3, <3>1, SumNone
  <2>4. CASE U # {}
    <3>1. PICK x \in U : TRUE
      BY <2>4
    <3>. DEFINE V == U \ {x}
    <3>2. Over(V, f) = Over(V \cap T, f) + Over(V \ T, f)
      BY <2>1, <3>1
    <3>3. Over(U, f) = f[x] + Over(V, f)
      BY <2>2, <3>1, SumParts
    <3>4. /\ Over(V \cap T, f) \in Int /\ Over(V \ T, f) \in Int /\ f[x] \in Int
          /\ Over(U \cap T, f) \in Int /\ Over(U \ T, f) \in Int
      BY <2>2, <3>1 DEF IntOn
    <3>5. CASE x \in T
      <4>1. V \cap T = (U \cap T) \ {x} /\ V \ T = U \ T /\ x \in U \cap T
        BY <3>1, <3>5
      <4>2. Over(U \cap T, f) = f[x] + Over(V \cap T, f)
        BY <2>2, <4>1, SumParts
      <4>. HIDE DEF V
      <4>. QED  BY SMTT(20), <2>1, <3>2, <3>3, <3>4, <4>1, <4>2
    <3>6. CASE x \notin T
      <4>1. V \ T = (U \ T) \ {x} /\ V \cap T = U \cap T /\ x \in U \ T
        BY <3>1, <3>6
      <4>2. Over(U \ T, f) = f[x] + Over(V \ T, f)
        BY <2>2, <4>1, SumParts
      <4>. HIDE DEF V
      <4>. QED  BY <2>1, <3>2, <3>3, <3>4, <4>1, <4>2
    <3>. QED  BY <3>5, <3>6
  <2>. QED  BY <2>3, <2>4
<1>2. S \notin Bad
  BY <1>1
<1>3. S \cap T = T
  OBVIOUS
<1>. QED  BY <1>2, <1>3

\* Zeros, and sums of sums.
LEMMA SumZero ==
  ASSUME NEW S, IsFiniteSet(S), NEW f, \A x \in S : f[x] = 0
  PROVE  Over(S, f) = 0
<1>. DEFINE Bad == {U \in SUBSET S : Over(U, f) # 0}
<1>1. Bad = {}
  <2>. SUFFICES ASSUME Bad # {} PROVE FALSE
    OBVIOUS
  <2>1. PICK U \in Bad : \A V \in SUBSET U : V # U => V \notin Bad
    <3>1. Bad \in SUBSET (SUBSET S)
      OBVIOUS
    <3>. HIDE DEF Bad
    <3>. QED  BY <3>1, LeastBad
  <2>2. U # {}
    BY <2>1, SumNone
  <2>3. PICK x \in U : TRUE
    BY <2>2
  <2>4. IsFiniteSet(U) /\ IntOn(U, f)
    BY FS_Subset DEF IntOn
  <2>5. Over(U, f) = f[x] + Over(U \ {x}, f)
    BY <2>3, <2>4, SumParts
  <2>6. Over(U \ {x}, f) = 0
    BY <2>1, <2>3
  <2>. QED  BY <2>1, <2>3, <2>5, <2>6
<1>. QED  BY <1>1

\* A set that is not empty has an element whose f is least.
LEMMA HasLeast ==
  ASSUME NEW S, IsFiniteSet(S), S # {}, NEW f, IntOn(S, f)
  PROVE  \E x \in S : \A y \in S : f[x] <= f[y]
<1>. DEFINE Low(U) == \E x \in U : \A y \in U : f[x] <= f[y]
            Bad == {U \in SUBSET S : U # {} /\ ~Low(U)}
<1>1. Bad = {}
  <2>. SUFFICES ASSUME Bad # {} PROVE FALSE
    OBVIOUS
  <2>1. PICK U \in Bad : \A V \in SUBSET U : V # U => V \notin Bad
    <3>1. Bad \in SUBSET (SUBSET S)
      OBVIOUS
    <3>. HIDE DEF Bad
    <3>. QED  BY <3>1, LeastBad
  <2>2. U \in SUBSET S /\ U # {} /\ ~Low(U)
    BY <2>1
  <2>3. PICK x \in U : TRUE
    BY <2>2
  <2>4. \A y \in U : f[y] \in Int
    BY <2>2 DEF IntOn
  <2>5. CASE U = {x}
    BY <2>2, <2>3, <2>4, <2>5
  <2>6. CASE U # {x}
    <3>1. U \ {x} # {} /\ U \ {x} \in SUBSET U /\ U \ {x} # U
      BY <2>3, <2>6
    <3>2. U \ {x} \notin Bad /\ U \ {x} \in SUBSET S
      BY <2>1, <2>2, <3>1
    <3>3. PICK z \in U \ {x} : \A y \in U \ {x} : f[z] <= f[y]
      BY <3>1, <3>2
    <3>4. CASE f[x] <= f[z]
      <4>1. \A y \in U : f[x] <= f[y]
        BY <2>3, <2>4, <3>3, <3>4
      <4>. QED  BY <2>2, <2>3, <4>1
    <3>5. CASE ~(f[x] <= f[z])
      <4>1. \A y \in U : f[z] <= f[y]
        BY <2>3, <2>4, <3>3, <3>5
      <4>. QED  BY <2>2, <3>3, <4>1
    <3>. QED  BY <3>4, <3>5
  <2>. QED  BY <2>5, <2>6
<1>. QED  BY <1>1

\* A set has as many elements as one for each of them is.
LEMMA CountIsSum ==
  ASSUME NEW S, IsFiniteSet(S), NEW f, \A x \in S : f[x] = 1
  PROVE  Over(S, f) = Cardinality(S)
<1>. DEFINE Bad == {U \in SUBSET S : Over(U, f) # Cardinality(U)}
<1>1. Bad = {}
  <2>. SUFFICES ASSUME Bad # {} PROVE FALSE
    OBVIOUS
  <2>1. PICK U \in Bad : \A V \in SUBSET U : V # U => V \notin Bad
    <3>1. Bad \in SUBSET (SUBSET S)
      OBVIOUS
    <3>. HIDE DEF Bad
    <3>. QED  BY <3>1, LeastBad
  <2>2. U # {}
    BY <2>1, SumNone, FS_EmptySet
  <2>3. PICK x \in U : TRUE
    BY <2>2
  <2>4. IsFiniteSet(U) /\ IntOn(U, f) /\ IsFiniteSet(U \ {x})
    BY FS_Subset DEF IntOn
  <2>5. Over(U, f) = f[x] + Over(U \ {x}, f)
    BY <2>3, <2>4, SumParts
  <2>6. Over(U \ {x}, f) = Cardinality(U \ {x})
    BY <2>1, <2>3
  <2>7. Cardinality(U \ {x}) = Cardinality(U) - 1 /\ Cardinality(U) \in Nat
    BY <2>3, <2>4, FS_RemoveElement, FS_CardinalityType
  <2>8. Over(U, f) = Cardinality(U)
    BY <2>1, <2>3, <2>5, <2>6, <2>7
  <2>. QED  BY <2>1, <2>8
<1>. QED  BY <1>1

\* A sum of amounts is an amount, and none of them is more.
LEMMA SumNat ==
  ASSUME NEW S, IsFiniteSet(S), NEW f, \A x \in S : f[x] \in Nat
  PROVE  /\ Over(S, f) \in Nat
         /\ \A x \in S : f[x] <= Over(S, f)
<1>. DEFINE Bad == {U \in SUBSET S : Over(U, f) \notin Nat}
<1>1. Bad = {}
  <2>. SUFFICES ASSUME Bad # {} PROVE FALSE
    OBVIOUS
  <2>1. PICK U \in Bad : \A V \in SUBSET U : V # U => V \notin Bad
    <3>1. Bad \in SUBSET (SUBSET S)
      OBVIOUS
    <3>. HIDE DEF Bad
    <3>. QED  BY <3>1, LeastBad
  <2>2. U # {}
    <3>1. 0 \in Nat
      OBVIOUS
    <3>. QED  BY <2>1, <3>1, SumNone
  <2>3. PICK x \in U : TRUE
    BY <2>2
  <2>4. IsFiniteSet(U) /\ IntOn(U, f)
    BY FS_Subset DEF IntOn
  <2>5. Over(U, f) = f[x] + Over(U \ {x}, f)
    BY <2>3, <2>4, SumParts
  <2>6. Over(U \ {x}, f) \in Nat
    BY <2>1, <2>3
  <2>. QED  BY <2>1, <2>3, <2>5, <2>6
<1>2. \A U \in SUBSET S : Over(U, f) \in Nat
  BY <1>1
<1>3. IntOn(S, f)
  BY DEF IntOn
<1>4. ASSUME NEW x \in S
      PROVE  f[x] <= Over(S, f)
  <2>1. Over(S, f) = f[x] + Over(S \ {x}, f)
    BY <1>3, SumParts
  <2>2. Over(S \ {x}, f) \in Nat /\ f[x] \in Nat
    BY <1>2
  <2>. QED  BY <2>1, <2>2
<1>. QED  BY <1>2, <1>4

\* So many times a sum.
LEMMA SumTimes ==
  ASSUME NEW S, IsFiniteSet(S), NEW f, IntOn(S, f), NEW k \in Int, NEW h,
         \A x \in S : h[x] = k * f[x]
  PROVE  Over(S, h) = k * Over(S, f)
<1>. DEFINE Bad == {U \in SUBSET S : Over(U, h) # k * Over(U, f)}
<1>1. IntOn(S, h)
  BY DEF IntOn
<1>2. Bad = {}
  <2>. SUFFICES ASSUME Bad # {} PROVE FALSE
    OBVIOUS
  <2>1. PICK U \in Bad : \A V \in SUBSET U : V # U => V \notin Bad
    <3>1. Bad \in SUBSET (SUBSET S)
      OBVIOUS
    <3>. HIDE DEF Bad
    <3>. QED  BY <3>1, LeastBad
  <2>2. U # {}
    <3>1. Over({}, h) = 0 /\ Over({}, f) = 0 /\ k * 0 = 0
      BY SumNone
    <3>. QED  BY <2>1, <3>1
  <2>3. PICK x \in U : TRUE
    BY <2>2
  <2>4. IsFiniteSet(U) /\ IntOn(U, f) /\ IntOn(U, h) /\ IntOn(U \ {x}, f) /\ IsFiniteSet(U \ {x})
    BY <1>1, FS_Subset DEF IntOn
  <2>5. Over(U, f) = f[x] + Over(U \ {x}, f) /\ Over(U, h) = h[x] + Over(U \ {x}, h)
    BY <2>3, <2>4, SumParts
  <2>6. Over(U \ {x}, h) = k * Over(U \ {x}, f)
    BY <2>1, <2>3
  <2>7. Over(U \ {x}, f) \in Int /\ f[x] \in Int /\ h[x] = k * f[x]
    BY <2>1, <2>3, <2>4, SumParts DEF IntOn
  <2>8. \A a, b \in Int : k * (a + b) = k * a + k * b
    OBVIOUS
  <2>. QED  BY <2>1, <2>5, <2>6, <2>7, <2>8
<1>. QED  BY <1>2

\* Of two functions, element by element.
LEMMA SumDifference ==
  ASSUME NEW S, IsFiniteSet(S), NEW f, NEW g, NEW h, IntOn(S, f), IntOn(S, g),
         \A x \in S : h[x] = f[x] - g[x]
  PROVE  Over(S, h) = Over(S, f) - Over(S, g)
<1>. DEFINE Bad == {U \in SUBSET S : Over(U, h) # Over(U, f) - Over(U, g)}
<1>0. IntOn(S, h)
  BY DEF IntOn
<1>1. Bad = {}
  <2>. SUFFICES ASSUME Bad # {} PROVE FALSE
    OBVIOUS
  <2>1. PICK U \in Bad : \A V \in SUBSET U : V # U => V \notin Bad
    <3>1. Bad \in SUBSET (SUBSET S)
      OBVIOUS
    <3>. HIDE DEF Bad
    <3>. QED  BY <3>1, LeastBad
  <2>2. U # {}
    <3>1. 0 - 0 = 0
      OBVIOUS
    <3>. QED  BY <2>1, <3>1, SumNone
  <2>3. PICK x \in U : TRUE
    BY <2>2
  <2>4. \A V \in SUBSET S : IsFiniteSet(V) /\ IntOn(V, f) /\ IntOn(V, g) /\ IntOn(V, h)
    BY <1>0, FS_Subset DEF IntOn
  <2>5. /\ Over(U, f) = f[x] + Over(U \ {x}, f)
        /\ Over(U, g) = g[x] + Over(U \ {x}, g)
        /\ Over(U, h) = h[x] + Over(U \ {x}, h)
    BY <2>3, <2>4, SumParts
  <2>6. Over(U \ {x}, h) = Over(U \ {x}, f) - Over(U \ {x}, g)
    BY <2>1, <2>3
  <2>7. /\ Over(U \ {x}, f) \in Int /\ Over(U \ {x}, g) \in Int
        /\ f[x] \in Int /\ g[x] \in Int /\ h[x] = f[x] - g[x]
    BY <2>3, <2>4, SumParts DEF IntOn
  <2>. QED  BY <2>1, <2>5, <2>6, <2>7
<1>. QED  BY <1>1

\* With and without one element.
LEMMA SumBut ==
  ASSUME NEW S, IsFiniteSet(S), NEW f, IntOn(S, f), NEW x
  PROVE  /\ x \in S => Over(S, f) = Over(S \ {x}, f) + f[x]
         /\ x \notin S => Over(S, f) = Over(S \ {x}, f)
         /\ Over(S \ {x}, f) \in Int
<1>1. Over(S \ {x}, f) \in Int
  <2>1. IsFiniteSet(S \ {x}) /\ IntOn(S \ {x}, f)
    BY FS_Subset DEF IntOn
  <2>. QED  BY <2>1, SumParts
<1>2. CASE x \in S
  <2>1. Over(S, f) = f[x] + Over(S \ {x}, f)
    BY <1>2, SumParts
  <2>. QED  BY <1>1, <1>2, <2>1 DEF IntOn
<1>3. CASE x \notin S
  <2>1. S \ {x} = S
    BY <1>3
  <2>. QED  BY <1>1, <1>3, <2>1
<1>. QED  BY <1>2, <1>3

\* Elements counted group by group are counted once.
LEMMA SumGroups ==
  ASSUME NEW D, IsFiniteSet(D), NEW A, IsFiniteSet(A), NEW f, IntOn(A, f),
         NEW key, \A a \in A : key[a] \in D,
         NEW group, \A i \in D : \A a : a \in group[i] <=> a \in A /\ key[a] = i,
         NEW sums, \A i \in D : sums[i] = Over(group[i], f)
  PROVE  Over(D, sums) = Over(A, f)
<1>. DEFINE In(U) == {a \in A : key[a] \in U}
            Bad   == {U \in SUBSET D : Over(U, sums) # Over(In(U), f)}
<1>0. \A B \in SUBSET A : IsFiniteSet(B) /\ IntOn(B, f) /\ Over(B, f) \in Int
  BY FS_Subset, SumParts DEF IntOn
<1>1. Bad = {}
  <2>. SUFFICES ASSUME Bad # {} PROVE FALSE
    OBVIOUS
  <2>1. PICK U \in Bad : \A V \in SUBSET U : V # U => V \notin Bad
    <3>1. Bad \in SUBSET (SUBSET D)
      OBVIOUS
    <3>. HIDE DEF Bad
    <3>. QED  BY <3>1, LeastBad
  <2>2. CASE U = {}
    <3>1. In(U) = {}
      BY <2>2
    <3>. QED  BY <2>1, <2>2, <3>1, SumNone
  <2>3. CASE U # {}
    <3>1. PICK i \in U : TRUE
      BY <2>3
    <3>. DEFINE V == U \ {i}
                B == group[i]
    <3>2. Over(V, sums) = Over(In(V), f)
      BY <2>1, <3>1
    <3>3. B \in SUBSET In(U) /\ In(U) \ B = In(V) /\ In(U) \in SUBSET A
      BY <3>1
    <3>4. sums[i] = Over(B, f)
      BY <3>1
    <3>5. IsFiniteSet(U) /\ IntOn(U, sums)
      <4>1. \A j \in D : group[j] \in SUBSET A
        OBVIOUS
      <4>. QED  BY <1>0, <4>1, FS_Subset DEF IntOn
    <3>. HIDE DEF In, B
    <3>6. Over(In(U), f) = Over(B, f) + Over(In(V), f)
      <4>1. IsFiniteSet(In(U)) /\ IntOn(In(U), f)
        BY <1>0, <3>3
      <4>2. Over(In(U), f) = Over(B, f) + Over(In(U) \ B, f)
        BY <3>3, <4>1, SumSplit
      <4>. QED  BY <3>3, <4>2
    <3>7. Over(U, sums) = sums[i] + Over(V, sums)
      BY <3>1, <3>5, SumParts
    <3>. QED  BY <2>1, <3>2, <3>4, <3>6, <3>7
  <2>. QED  BY <2>2, <2>3
<1>2. Over(D, sums) = Over(In(D), f)
  BY <1>1
<1>3. In(D) = A
  OBVIOUS
<1>. QED  BY <1>2, <1>3

\* A table, its transpose, and what its rows and its columns add up to.
IsTable(S, T, F, G, rows, columns) ==
  /\ IsFiniteSet(S) /\ IsFiniteSet(T)
  /\ \A x \in S : IntOn(T, F[x]) /\ rows[x] = Over(T, F[x])
  /\ \A y \in T : columns[y] = Over(S, G[y])
  /\ \A x \in S, y \in T : G[y][x] = F[x][y]

\* Rows first or columns first.
LEMMA SumSwap ==
  ASSUME NEW S, NEW T, NEW F, NEW G, NEW rows, NEW columns, IsTable(S, T, F, G, rows, columns)
  PROVE  Over(S, rows) = Over(T, columns)
<1>. USE DEF IsTable
<1>. DEFINE C(U) == [y \in T |-> Over(U, G[y])]
            Bad  == {U \in SUBSET S : Over(U, rows) # Over(T, C(U))}
<1>0. \A U \in SUBSET S : IsFiniteSet(U) /\ IntOn(U, rows) /\ \A y \in T : IntOn(U, G[y])
  BY FS_Subset, SumParts DEF IntOn
<1>1. \A U \in SUBSET S : IntOn(T, C(U)) /\ \A y \in T : C(U)[y] = Over(U, G[y])
  BY <1>0, SumParts DEF IntOn
<1>2. Bad = {}
  <2>. SUFFICES ASSUME Bad # {} PROVE FALSE
    OBVIOUS
  <2>1. PICK U \in Bad : \A V \in SUBSET U : V # U => V \notin Bad
    <3>1. Bad \in SUBSET (SUBSET S)
      OBVIOUS
    <3>. HIDE DEF Bad
    <3>. QED  BY <3>1, LeastBad
  <2>. HIDE DEF C
  <2>2. CASE U = {}
    <3>1. \A y \in T : C(U)[y] = 0
      BY <1>1, <2>2, SumNone
    <3>. QED  BY <2>1, <2>2, <3>1, SumNone, SumZero
  <2>3. CASE U # {}
    <3>1. PICK x \in U : TRUE
      BY <2>3
    <3>. DEFINE V == U \ {x}
    <3>2. Over(V, rows) = Over(T, C(V))
      BY <2>1, <3>1
    <3>3. U \in SUBSET S /\ V \in SUBSET S /\ x \in S
      BY <3>1
    <3>4. \A y \in T : C(V)[y] = C(U)[y] - F[x][y]
      <4>1. SUFFICES ASSUME NEW y \in T PROVE C(V)[y] = C(U)[y] - F[x][y]
        OBVIOUS
      <4>2. Over(U, G[y]) = G[y][x] + Over(V, G[y])
        <5>1. IsFiniteSet(U) /\ IntOn(U, G[y]) /\ x \in U
          BY <1>0, <3>1, <3>3
        <5>2. \A z \in U : Over(U, G[y]) = G[y][z] + Over(U \ {z}, G[y])
          BY <5>1, SumParts
        <5>. QED  BY <5>1, <5>2
      <4>3. G[y][x] = F[x][y] /\ F[x][y] \in Int /\ Over(V, G[y]) \in Int
        BY <1>0, <3>3, SumParts DEF IntOn
      <4>4. C(V)[y] = Over(V, G[y]) /\ C(U)[y] = Over(U, G[y])
        BY <1>1, <3>3
      <4>. HIDE DEF V
      <4>. QED  BY <4>2, <4>3, <4>4
    <3>. HIDE DEF V
    <3>5. Over(T, C(V)) = Over(T, C(U)) - Over(T, F[x])
      BY <1>1, <3>3, <3>4, SumDifference
    <3>6. Over(U, rows) = rows[x] + Over(V, rows) /\ rows[x] = Over(T, F[x])
      BY ZenonT(40), <1>0, <3>1, <3>3, SumParts DEF V
    <3>7. Over(T, C(V)) \in Int /\ Over(T, C(U)) \in Int /\ Over(T, F[x]) \in Int
      BY <1>1, <3>3, SumParts
    <3>. QED  BY <2>1, <3>2, <3>5, <3>6, <3>7
  <2>. QED  BY <2>2, <2>3
<1>3. Over(S, rows) = Over(T, C(S))
  BY <1>2
<1>4. \A y \in T : C(S)[y] = columns[y]
  BY <1>1
<1>. QED  BY <1>3, <1>4, SumSame
=============================================================================
