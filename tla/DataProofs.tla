------------------------------- MODULE DataProofs -------------------------------
(***************************************************************************)
(* What the proofs of several components need of their data.               *)
(*                                                                         *)
(* Sums over finite sets: the community modules fold a set by taking out   *)
(* one element after the other, with a recursive function; what the models *)
(* add up (tokens, bytes, blocks) is reasoned about with the lemmas here.  *)
(* Functions that are defined value by value, on 0 .. n or from the top of *)
(* a tree down.  Sequences: an element taken out or added, the elements of *)
(* a set, and sequences one after the other.                               *)
(***************************************************************************)
EXTENDS Integers, FiniteSets, FiniteSetsExt, SequencesExt, FiniteSetTheorems, FunctionTheorems,
        SequenceTheorems, WellFoundedInduction, TLAPS

(* The sum of f[x] for x in S.                                             *)
SumOver(f, S) == MapThenSumSet(LAMBDA x : f[x], S)

-----------------------------------------------------------------------------
(* Induction over the subsets of a finite set.                             *)

(* A family of subsets of a finite set has a minimal member.               *)
LEMMA MinimalSubset ==
    ASSUME NEW S, IsFiniteSet(S), NEW F \in SUBSET SUBSET S, F # {}
    PROVE  \E T \in F : \A U \in F : U \subseteq T => U = T
<1>1. IsWellFoundedOn(StrictSubsetOrdering(S), SUBSET S)
  BY FS_StrictSubsetOrderingWellFounded, FS_FiniteSubsetsOfFinite
<1>2. PICK T \in F : \A U \in F : ~(<<U, T>> \in StrictSubsetOrdering(S))
  <2> HIDE DEF StrictSubsetOrdering
  <2> QED
    BY <1>1, WFMin
<1>3. \A U \in F : U \subseteq T => U = T
  BY <1>2 DEF StrictSubsetOrdering
<1> QED
  BY <1>3

-----------------------------------------------------------------------------
(* The recursive function of the fold.                                     *)

Pick(T) == CHOOSE x \in T : TRUE

(* g adds up f on the members of D, a family closed under Pick.            *)
Adds(g, f, D) ==
    g = [T \in D |-> IF T = {} THEN 0 ELSE f[Pick(T)] + g[T \ {Pick(T)}]]

Adder(f, S) == CHOOSE g : Adds(g, f, SUBSET S)

LEMMA SumOverDef ==
    ASSUME NEW f, NEW S
    PROVE  SumOver(f, S) = Adder(f, S)[S]
BY Zenon DEF SumOver, MapThenSumSet, MapThenFoldSet, Adder, Adds, Pick

LEMMA PickIn == ASSUME NEW T, T # {} PROVE Pick(T) \in T
BY DEF Pick

(* Two functions that add up f agree where both are defined.               *)
LEMMA AddsUnique ==
    ASSUME NEW f, NEW S, IsFiniteSet(S), NEW T \in SUBSET S, NEW g, NEW h,
           Adds(g, f, SUBSET S), Adds(h, f, SUBSET T)
    PROVE  g[T] = h[T]
<1> DEFINE F == {U \in SUBSET T : g[U] # h[U]}
<1>1. SUFFICES ASSUME F # {} PROVE FALSE
  OBVIOUS
<1>2. IsFiniteSet(T)
  BY FS_Subset
<1>3. PICK U \in F : \A V \in F : V \subseteq U => V = U
  <2>1. F \in SUBSET SUBSET T
    OBVIOUS
  <2> HIDE DEF F
  <2> QED
    BY <1>1, <1>2, <2>1, MinimalSubset
<1>4. U # {}
  BY <1>3 DEF Adds
<1>5. Pick(U) \in U
  BY <1>4, PickIn
<1>6. U \ {Pick(U)} \notin F
  BY <1>3, <1>5
<1>7. g[U \ {Pick(U)}] = h[U \ {Pick(U)}]
  BY <1>3, <1>6
<1>8. g[U] = f[Pick(U)] + g[U \ {Pick(U)}] /\ h[U] = f[Pick(U)] + h[U \ {Pick(U)}]
  BY <1>3, <1>4 DEF Adds
<1> QED
  BY <1>3, <1>7, <1>8

(* There is such a function.                                               *)
LEMMA AdderExists ==
    ASSUME NEW f, NEW S, IsFiniteSet(S)
    PROVE  \E g : Adds(g, f, SUBSET S)
<1> DEFINE Level(n) == {T \in SUBSET S : Cardinality(T) <= n}
           Bad == {n \in Nat : ~ \E g : Adds(g, f, Level(n))}
<1>1. \A T \in SUBSET S : IsFiniteSet(T) /\ Cardinality(T) \in Nat
                          /\ Cardinality(T) <= Cardinality(S)
  BY FS_Subset, FS_CardinalityType
<1>2. \E g : Adds(g, f, Level(0))
  <2> DEFINE z == [T \in Level(0) |-> 0]
  <2>1. \A T \in Level(0) : T = {}
    BY <1>1, FS_EmptySet
  <2>2. Adds(z, f, Level(0))
    BY <2>1 DEF Adds
  <2> QED
    BY <2>2
<1>3. ASSUME NEW n \in Nat, \E g : Adds(g, f, Level(n))
      PROVE  \E g : Adds(g, f, Level(n + 1))
  <2>1. PICK g : Adds(g, f, Level(n))
    BY <1>3
  <2> DEFINE Next(k) == [T \in Level(n + 1) |->
                           IF T = {} THEN 0 ELSE f[Pick(T)] + k[T \ {Pick(T)}]]
             h == Next(g)
  <2>2. ASSUME NEW T \in Level(n + 1), T # {}
        PROVE  g[T \ {Pick(T)}] = h[T \ {Pick(T)}]
    <3> DEFINE U == T \ {Pick(T)}
    <3>1. U \in SUBSET S /\ Cardinality(U) = Cardinality(T) - 1
      BY <2>2, <1>1, PickIn, FS_RemoveElement
    <3>2. U \in Level(n) /\ U \in Level(n + 1)
      BY <3>1, <1>1, <2>2
    <3>3. g[U] = IF U = {} THEN 0 ELSE f[Pick(U)] + g[U \ {Pick(U)}]
      BY <3>2, <2>1 DEF Adds
    <3> QED
      BY <3>2, <3>3
  <2>3. h = Next(h)
    BY <2>2
  <2> QED
    BY <2>3 DEF Adds
<1> HIDE DEF Level
<1>4. Bad = {}
  <2>1. SUFFICES ASSUME Bad # {} PROVE FALSE
    OBVIOUS
  <2>2. \E m \in Bad : \A k \in Bad : ~(<<k, m>> \in OpToRel(<, Nat))
    BY <2>1, WFMin, NatLessThanWellFounded
  <2>3. PICK m \in Bad : \A k \in Bad : ~(k < m)
    BY <2>2 DEF OpToRel
  <2>4. m # 0
    BY <1>2, <2>3
  <2>5. m - 1 \in Nat /\ m - 1 \notin Bad
    BY <2>3, <2>4
  <2>6. \E g : Adds(g, f, Level(m - 1))
    BY <2>5
  <2>7. \E g : Adds(g, f, Level((m - 1) + 1))
    BY <2>5, <2>6, <1>3
  <2>8. (m - 1) + 1 = m
    BY <2>3
  <2> QED
    BY <2>3, <2>7, <2>8
<1>5. Level(Cardinality(S)) = SUBSET S
  BY <1>1 DEF Level
<1>6. Cardinality(S) \in Nat
  BY FS_CardinalityType
<1>7. \E g : Adds(g, f, Level(Cardinality(S)))
  BY <1>4, <1>6
<1> QED
  BY <1>5, <1>7

LEMMA AdderAdds ==
    ASSUME NEW f, NEW S, IsFiniteSet(S)
    PROVE  Adds(Adder(f, S), f, SUBSET S)
BY AdderExists DEF Adder

-----------------------------------------------------------------------------
(* What the models use.                                                    *)

LEMMA SumEmpty == ASSUME NEW f PROVE SumOver(f, {}) = 0
<1>1. Adds(Adder(f, {}), f, SUBSET {})
  BY AdderAdds, FS_EmptySet
<1>2. Adder(f, {})[{}] = 0
  BY <1>1 DEF Adds
<1> QED
  BY <1>2, SumOverDef

(* The first element taken out.                                            *)
LEMMA SumPick ==
    ASSUME NEW f, NEW S, IsFiniteSet(S), S # {}
    PROVE  SumOver(f, S) = f[Pick(S)] + SumOver(f, S \ {Pick(S)})
<1> DEFINE T == S \ {Pick(S)}
<1>1. IsFiniteSet(T) /\ T \in SUBSET S
  BY FS_Subset
<1>2. Adds(Adder(f, S), f, SUBSET S) /\ Adds(Adder(f, T), f, SUBSET T)
  BY <1>1, AdderAdds
<1>3. Adder(f, S)[T] = Adder(f, T)[T]
  BY <1>1, <1>2, AddsUnique
<1>4. Adder(f, S)[S] = f[Pick(S)] + Adder(f, S)[T]
  BY <1>2 DEF Adds
<1> QED
  BY <1>3, <1>4, SumOverDef

(* A sum of integers is an integer, a sum of naturals a natural.           *)
LEMMA SumInt ==
    ASSUME NEW f, NEW S, IsFiniteSet(S), \A x \in S : f[x] \in Int
    PROVE  SumOver(f, S) \in Int
<1> DEFINE F == {T \in SUBSET S : SumOver(f, T) \notin Int}
<1>1. SUFFICES ASSUME F # {} PROVE FALSE
  OBVIOUS
<1>2. PICK T \in F : \A U \in F : U \subseteq T => U = T
  <2>1. F \in SUBSET SUBSET S
    OBVIOUS
  <2> HIDE DEF F
  <2> QED
    BY <1>1, <2>1, MinimalSubset
<1>3. IsFiniteSet(T) /\ T # {}
  <2>1. SumOver(f, {}) \in Int
    BY SumEmpty
  <2> QED
    BY <1>2, <2>1, FS_Subset
<1>4. Pick(T) \in T /\ T \ {Pick(T)} \notin F
  BY <1>2, <1>3, PickIn
<1>5. SumOver(f, T) = f[Pick(T)] + SumOver(f, T \ {Pick(T)})
  BY <1>3, SumPick
<1> QED
  BY <1>2, <1>4, <1>5

(* Any element may be taken out, not only the one the fold picks.          *)
LEMMA SumRemove ==
    ASSUME NEW f, NEW S, IsFiniteSet(S), \A x \in S : f[x] \in Int, NEW x \in S
    PROVE  SumOver(f, S) = f[x] + SumOver(f, S \ {x})
<1> DEFINE F == {T \in SUBSET S : \E y \in T : SumOver(f, T) # f[y] + SumOver(f, T \ {y})}
<1>1. SUFFICES ASSUME F # {} PROVE FALSE
  OBVIOUS
<1>2. PICK T \in F : \A U \in F : U \subseteq T => U = T
  <2>1. F \in SUBSET SUBSET S
    OBVIOUS
  <2> HIDE DEF F
  <2> QED
    BY <1>1, <2>1, MinimalSubset
<1>3. T \in SUBSET S /\ IsFiniteSet(T)
  BY <1>2, FS_Subset
<1>4. PICK y \in T : SumOver(f, T) # f[y] + SumOver(f, T \ {y})
  BY <1>2
<1> DEFINE p == Pick(T)
           U == T \ {p, y}
<1>5. p \in T /\ SumOver(f, T) = f[p] + SumOver(f, T \ {p})
  BY <1>3, <1>4, PickIn, SumPick
<1>6. p # y
  BY <1>4, <1>5
<1>7. SumOver(f, T \ {p}) = f[y] + SumOver(f, U)
  <2>1. T \ {p} \notin F /\ y \in T \ {p} /\ (T \ {p}) \ {y} = U
    BY <1>2, <1>4, <1>5, <1>6
  <2> QED
    BY <1>3, <2>1
<1>8. SumOver(f, T \ {y}) = f[p] + SumOver(f, U)
  <2>1. T \ {y} \notin F /\ p \in T \ {y} /\ (T \ {y}) \ {p} = U
    BY <1>2, <1>4, <1>5, <1>6
  <2> QED
    BY <1>3, <2>1
<1>9. SumOver(f, U) \in Int /\ f[p] \in Int /\ f[y] \in Int
  <2>1. IsFiniteSet(U) /\ \A z \in U : f[z] \in Int
    BY <1>3, FS_Subset
  <2> QED
    BY <1>3, <1>4, <1>5, <2>1, SumInt
<1> QED
  BY <1>4, <1>5, <1>7, <1>8, <1>9

LEMMA SumAdd ==
    ASSUME NEW f, NEW S, IsFiniteSet(S), \A y \in S : f[y] \in Int,
           NEW x, x \notin S, f[x] \in Int
    PROVE  SumOver(f, S \cup {x}) = f[x] + SumOver(f, S)
<1>1. IsFiniteSet(S \cup {x}) /\ (S \cup {x}) \ {x} = S
  BY FS_AddElement
<1> QED
  BY <1>1, SumRemove

(* Sums are compared element by element.                                   *)
LEMMA SumMonotonic ==
    ASSUME NEW S, IsFiniteSet(S), NEW f, NEW g,
           \A x \in S : f[x] \in Int /\ g[x] \in Int /\ f[x] <= g[x]
    PROVE  SumOver(f, S) <= SumOver(g, S)
<1> DEFINE F == {T \in SUBSET S : ~(SumOver(f, T) <= SumOver(g, T))}
<1>1. SUFFICES ASSUME F # {} PROVE FALSE
  OBVIOUS
<1>2. PICK T \in F : \A U \in F : U \subseteq T => U = T
  <2>1. F \in SUBSET SUBSET S
    OBVIOUS
  <2> HIDE DEF F
  <2> QED
    BY <1>1, <2>1, MinimalSubset
<1>3. T \in SUBSET S /\ IsFiniteSet(T)
  BY <1>2, FS_Subset
<1>4. T # {}
  <2>1. SumOver(f, {}) <= SumOver(g, {})
    BY SumEmpty
  <2> QED
    BY <1>2, <2>1
<1> DEFINE p == Pick(T)
           U == T \ {p}
<1>5. p \in T /\ U \notin F /\ U \in SUBSET S /\ IsFiniteSet(U)
  BY <1>2, <1>3, <1>4, PickIn, FS_Subset
<1>6. SumOver(f, T) = f[p] + SumOver(f, U) /\ SumOver(g, T) = g[p] + SumOver(g, U)
  BY <1>3, <1>4, SumPick
<1>7. SumOver(f, U) \in Int /\ SumOver(g, U) \in Int /\ f[p] \in Int /\ g[p] \in Int
      /\ f[p] <= g[p]
  BY <1>3, <1>5, SumInt
<1>8. SumOver(f, U) <= SumOver(g, U)
  BY <1>5
<1> QED
  BY <1>2, <1>6, <1>7, <1>8

LEMMA SumSame ==
    ASSUME NEW S, IsFiniteSet(S), NEW f, NEW g,
           \A x \in S : f[x] \in Int /\ f[x] = g[x]
    PROVE  SumOver(f, S) = SumOver(g, S)
<1>1. SumOver(f, S) \in Int /\ SumOver(g, S) \in Int
  BY SumInt
<1>2. SumOver(f, S) <= SumOver(g, S) /\ SumOver(g, S) <= SumOver(f, S)
  BY SumMonotonic
<1> QED
  BY <1>1, <1>2

LEMMA SumZero ==
    ASSUME NEW S, IsFiniteSet(S), NEW f, \A x \in S : f[x] = 0
    PROVE  SumOver(f, S) = 0
<1> DEFINE F == {T \in SUBSET S : SumOver(f, T) # 0}
<1>1. SUFFICES ASSUME F # {} PROVE FALSE
  OBVIOUS
<1>2. PICK T \in F : \A U \in F : U \subseteq T => U = T
  <2>1. F \in SUBSET SUBSET S
    OBVIOUS
  <2> HIDE DEF F
  <2> QED
    BY <1>1, <2>1, MinimalSubset
<1>3. T \in SUBSET S /\ IsFiniteSet(T) /\ T # {}
  BY <1>2, FS_Subset, SumEmpty
<1>4. Pick(T) \in T /\ T \ {Pick(T)} \notin F
  BY <1>2, <1>3, PickIn
<1>5. SumOver(f, T) = f[Pick(T)] + SumOver(f, T \ {Pick(T)})
  BY <1>3, SumPick
<1> QED
  BY <1>2, <1>3, <1>4, <1>5

(* A sum of naturals is a natural, and no less than that of a part.        *)
LEMMA SumNat ==
    ASSUME NEW f, NEW S, IsFiniteSet(S), \A x \in S : f[x] \in Nat
    PROVE  SumOver(f, S) \in Nat
<1> DEFINE z == [x \in S |-> 0]
<1>1. SumOver(z, S) = 0
  BY SumZero
<1>2. SumOver(z, S) <= SumOver(f, S)
  <2>1. \A x \in S : z[x] \in Int /\ f[x] \in Int /\ z[x] <= f[x]
    OBVIOUS
  <2> HIDE DEF z
  <2> QED
    BY <2>1, SumMonotonic
<1>3. SumOver(f, S) \in Int
  BY SumInt
<1> QED
  BY <1>1, <1>2, <1>3

(* One value of the function is changed.                                   *)
LEMMA SumChange ==
    ASSUME NEW S, IsFiniteSet(S), NEW f, NEW g, NEW x \in S,
           \A y \in S : f[y] \in Int /\ g[y] \in Int,
           \A y \in S \ {x} : f[y] = g[y]
    PROVE  SumOver(g, S) = SumOver(f, S) + (g[x] - f[x])
<1> DEFINE T == S \ {x}
<1>1. IsFiniteSet(T)
  BY FS_Subset
<1>2. SumOver(f, T) = SumOver(g, T) /\ SumOver(f, T) \in Int
  BY <1>1, SumSame, SumInt
<1>3. SumOver(f, S) = f[x] + SumOver(f, T) /\ SumOver(g, S) = g[x] + SumOver(g, T)
  BY SumRemove
<1> QED
  BY <1>2, <1>3

LEMMA SumExcept ==
    ASSUME NEW S, IsFiniteSet(S), NEW f \in [S -> Int], NEW x \in S, NEW v \in Int
    PROVE  SumOver([f EXCEPT ![x] = v], S) = SumOver(f, S) + (v - f[x])
<1> DEFINE g == [f EXCEPT ![x] = v]
<1>1. /\ \A y \in S : f[y] \in Int /\ g[y] \in Int
      /\ \A y \in S \ {x} : f[y] = g[y]
      /\ g[x] = v
  OBVIOUS
<1> HIDE DEF g
<1>2. SumOver(g, S) = SumOver(f, S) + (g[x] - f[x])
  BY <1>1, SumChange
<1> QED
  BY <1>1, <1>2 DEF g

(* Two functions added up together.                                        *)
LEMMA SumPlus ==
    ASSUME NEW S, IsFiniteSet(S), NEW f, NEW g, NEW h,
           \A x \in S : f[x] \in Int /\ g[x] \in Int /\ h[x] = f[x] + g[x]
    PROVE  SumOver(h, S) = SumOver(f, S) + SumOver(g, S)
<1> DEFINE F == {T \in SUBSET S : SumOver(h, T) # SumOver(f, T) + SumOver(g, T)}
<1>1. SUFFICES ASSUME F # {} PROVE FALSE
  OBVIOUS
<1>2. PICK T \in F : \A U \in F : U \subseteq T => U = T
  <2>1. F \in SUBSET SUBSET S
    OBVIOUS
  <2> HIDE DEF F
  <2> QED
    BY <1>1, <2>1, MinimalSubset
<1>3. T \in SUBSET S /\ IsFiniteSet(T) /\ T # {}
  <2>1. SumOver(h, {}) = SumOver(f, {}) + SumOver(g, {})
    BY SumEmpty
  <2> QED
    BY <1>2, <2>1, FS_Subset
<1> DEFINE p == Pick(T)
           U == T \ {p}
<1>4. p \in T /\ U \notin F /\ U \in SUBSET S /\ IsFiniteSet(U)
  BY <1>2, <1>3, PickIn, FS_Subset
<1>5. /\ SumOver(f, T) = f[p] + SumOver(f, U)
      /\ SumOver(g, T) = g[p] + SumOver(g, U)
      /\ SumOver(h, T) = h[p] + SumOver(h, U)
  BY <1>3, SumPick
<1>6. SumOver(h, U) = SumOver(f, U) + SumOver(g, U)
  BY <1>4
<1>7. f[p] \in Int /\ g[p] \in Int /\ h[p] = f[p] + g[p]
      /\ SumOver(f, U) \in Int /\ SumOver(g, U) \in Int
  BY <1>3, <1>4, SumInt
<1>8. SumOver(h, T) = SumOver(f, T) + SumOver(g, T)
  <2> HIDE DEF F, p, U
  <2> QED
    BY <1>5, <1>6, <1>7
<1> QED
  BY <1>2, <1>8

(* The sum over a part of the set.                                         *)
LEMMA SumSubset ==
    ASSUME NEW S, IsFiniteSet(S), NEW T \in SUBSET S, NEW f, \A x \in S : f[x] \in Nat
    PROVE  SumOver(f, T) <= SumOver(f, S)
<1> DEFINE F == {U \in SUBSET S : T \subseteq U /\ ~(SumOver(f, T) <= SumOver(f, U))}
<1>1. SUFFICES ASSUME F # {} PROVE FALSE
  OBVIOUS
<1>2. PICK U \in F : \A V \in F : V \subseteq U => V = U
  <2>1. F \in SUBSET SUBSET S
    OBVIOUS
  <2> HIDE DEF F
  <2> QED
    BY <1>1, <2>1, MinimalSubset
<1>3. SumOver(f, T) \in Int /\ IsFiniteSet(U) /\ U \in SUBSET S
  BY <1>2, FS_Subset, SumInt
<1>4. PICK x \in U : x \notin T
  <2>1. U # T
    BY <1>2, <1>3
  <2>2. T \subseteq U
    BY <1>2
  <2> QED
    BY <2>1, <2>2
<1> DEFINE V == U \ {x}
<1>5. V \notin F /\ T \subseteq V /\ V \in SUBSET S /\ IsFiniteSet(V)
  BY <1>2, <1>3, <1>4, FS_Subset
<1>6. SumOver(f, T) <= SumOver(f, V)
  BY <1>5
<1>7. SumOver(f, U) = f[x] + SumOver(f, V)
  BY <1>3, <1>4, SumRemove
<1>8. SumOver(f, V) \in Nat /\ f[x] \in Nat
  BY <1>3, <1>4, <1>5, SumNat
<1> QED
  BY <1>2, <1>3, <1>6, <1>7, <1>8

(* The sum over two sets that have nothing in common.                      *)
LEMMA SumDisjoint ==
    ASSUME NEW S, IsFiniteSet(S), NEW R, IsFiniteSet(R), S \cap R = {},
           NEW f, \A x \in S \cup R : f[x] \in Int
    PROVE  SumOver(f, S \cup R) = SumOver(f, S) + SumOver(f, R)
<1> DEFINE F == {T \in SUBSET R : SumOver(f, S \cup T) # SumOver(f, S) + SumOver(f, T)}
<1>1. SUFFICES ASSUME F # {} PROVE FALSE
  OBVIOUS
<1>2. PICK T \in F : \A U \in F : U \subseteq T => U = T
  <2>1. F \in SUBSET SUBSET R
    OBVIOUS
  <2> HIDE DEF F
  <2> QED
    BY <1>1, <2>1, MinimalSubset
<1>3. SumOver(f, S) \in Int
  BY SumInt
<1>4. T # {}
  <2>1. S \cup {} = S /\ SumOver(f, S) = SumOver(f, S) + SumOver(f, {})
    BY <1>3, SumEmpty
  <2> QED
    BY <1>2, <2>1
<1>5. PICK x : x \in T
  BY <1>4
<1> DEFINE U == T \ {x}
<1>6. T \in SUBSET R /\ IsFiniteSet(T) /\ IsFiniteSet(U) /\ U \notin F
      /\ x \notin S /\ x \notin U /\ T = U \cup {x}
  BY <1>2, <1>5, FS_Subset
<1>7. SumOver(f, S \cup U) = SumOver(f, S) + SumOver(f, U)
  BY <1>6
<1>8. SumOver(f, T) = f[x] + SumOver(f, U)
  BY <1>5, <1>6, SumRemove
<1>9. SumOver(f, (S \cup U) \cup {x}) = f[x] + SumOver(f, S \cup U)
  <2>1. IsFiniteSet(S \cup U)
    BY <1>6, FS_Union
  <2> QED
    BY <1>5, <1>6, <2>1, SumAdd
<1>10. SumOver(f, U) \in Int /\ f[x] \in Int
  BY <1>5, <1>6, SumInt
<1>11. (S \cup U) \cup {x} = S \cup T
  BY <1>6
<1>12. SumOver(f, S \cup T) = f[x] + (SumOver(f, S) + SumOver(f, U))
  BY <1>7, <1>9, <1>11
<1>13. SumOver(f, S \cup T) = SumOver(f, S) + SumOver(f, T)
  <2> HIDE DEF F, U
  <2> QED
    BY <1>3, <1>8, <1>10, <1>12
<1> QED
  BY <1>2, <1>13

(* A sum of ones counts.                                                   *)
LEMMA SumOnes ==
    ASSUME NEW S, IsFiniteSet(S), NEW f, \A x \in S : f[x] = 1
    PROVE  SumOver(f, S) = Cardinality(S)
<1> DEFINE F == {T \in SUBSET S : SumOver(f, T) # Cardinality(T)}
<1>1. SUFFICES ASSUME F # {} PROVE FALSE
  OBVIOUS
<1>2. PICK T \in F : \A U \in F : U \subseteq T => U = T
  <2>1. F \in SUBSET SUBSET S
    OBVIOUS
  <2> HIDE DEF F
  <2> QED
    BY <1>1, <2>1, MinimalSubset
<1>3. T \in SUBSET S /\ IsFiniteSet(T) /\ T # {}
  BY <1>2, FS_Subset, FS_EmptySet, SumEmpty
<1>4. Pick(T) \in T /\ T \ {Pick(T)} \notin F
  BY <1>2, <1>3, PickIn
<1>5. SumOver(f, T) = f[Pick(T)] + SumOver(f, T \ {Pick(T)})
  BY <1>3, SumPick
<1>6. Cardinality(T \ {Pick(T)}) = Cardinality(T) - 1 /\ Cardinality(T) \in Nat
  BY <1>3, <1>4, FS_RemoveElement, FS_CardinalityType
<1> QED
  BY <1>2, <1>3, <1>4, <1>5, <1>6

-----------------------------------------------------------------------------
(* Functions that are defined value by value.                              *)

(* Induction up to n.                                                      *)
LEMMA UpTo ==
    ASSUME NEW n \in Nat, NEW B \in SUBSET (0..n), 0 \in B,
           \A i \in 1..n : i - 1 \in B => i \in B
    PROVE  B = 0..n
<1> DEFINE Bad == (0..n) \ B
<1>1. SUFFICES ASSUME Bad # {} PROVE FALSE
  OBVIOUS
<1>2. PICK m \in Bad : \A k \in Bad : ~(k < m)
  <2>1. Bad \subseteq Nat
    OBVIOUS
  <2>2. \E m \in Bad : \A k \in Bad : ~(<<k, m>> \in OpToRel(<, Nat))
    <3> HIDE DEF Bad
    <3> QED
      BY <1>1, <2>1, WFMin, NatLessThanWellFounded
  <2> QED
    BY <2>1, <2>2 DEF OpToRel
<1>3. m \in 1..n /\ m - 1 \in 0..n /\ m - 1 \notin Bad
  BY <1>2
<1> QED
  BY <1>2, <1>3

(* f starts from base and follows the rule h.                              *)
Follows(f, n, R, base, h) ==
    f \in [0..n -> R] /\ f[0] = base /\ \A i \in 1..n : f[i] = h[i][f[i-1]]

Rules(n, R) == [1..n -> [R -> R]]

(* A rule for each value in terms of the one before it has a function.     *)
LEMMA RecursionExists ==
    ASSUME NEW n \in Nat, NEW R, NEW base \in R, NEW h \in Rules(n, R)
    PROVE  \E f : Follows(f, n, R, base, h)
<1> USE DEF Rules
<1> DEFINE Good(m, f) == f[0] = base /\ \A i \in 1..m : f[i] = h[i][f[i-1]]
           B == {m \in 0..n : \E f \in [0..m -> R] : Good(m, f)}
<1>1. 0 \in B
  <2> DEFINE z == [i \in 0..0 |-> base]
  <2>1. z \in [0..0 -> R] /\ z[0] = base /\ 1..0 = {}
    OBVIOUS
  <2> HIDE DEF z
  <2> QED
    BY <2>1
<1>2. ASSUME NEW m \in 1..n, m - 1 \in B PROVE m \in B
  <2>1. PICK f \in [0..(m-1) -> R] : Good(m - 1, f)
    BY <1>2
  <2> DEFINE g == [i \in 0..m |-> IF i < m THEN f[i] ELSE h[m][f[m-1]]]
  <2>2. m - 1 \in 0..(m-1) /\ f[m-1] \in R /\ h[m][f[m-1]] \in R
    OBVIOUS
  <2>3. g \in [0..m -> R]
    BY <2>2
  <2>4. g[0] = base
    BY <2>1
  <2>5. \A i \in 1..m : g[i] = h[i][g[i-1]]
    <3> TAKE i \in 1..m
    <3>1. g[i-1] = f[i-1]
      OBVIOUS
    <3>2. CASE i < m
      BY <2>1, <3>1, <3>2
    <3>3. CASE i = m
      BY <3>1, <3>3
    <3> QED
      BY <3>2, <3>3
  <2>6. m \in 0..n
    OBVIOUS
  <2> HIDE DEF g
  <2> QED
    BY <2>3, <2>4, <2>5, <2>6
<1>3. B = 0..n
  <2>1. B \in SUBSET (0..n)
    OBVIOUS
  <2> HIDE DEF B
  <2> QED
    BY <1>1, <1>2, <2>1, UpTo
<1>4. PICK f \in [0..n -> R] : Good(n, f)
  BY <1>3
<1> QED
  BY <1>4 DEF Follows

-----------------------------------------------------------------------------
(* Functions that are defined from the top of a tree down.                 *)

(* No cycles: every nonempty set of nodes has one whose node above is not in *)
(* it.                                                                       *)
NoCycles(D, Over) == \A nodes \in SUBSET D : nodes # {} => \E n \in nodes : Over[n] \notin nodes

(* What is so for a node when it is so for the node above it, is so for all. *)
LEMMA FromTheTop ==
    ASSUME NEW D, NEW Over, NoCycles(D, Over), NEW B,
           \A n \in D : (Over[n] \in D => Over[n] \in B) => n \in B
    PROVE  D \subseteq B
<1> DEFINE Bad == D \ B
<1>1. SUFFICES ASSUME Bad # {} PROVE FALSE
    OBVIOUS
<1>2. PICK n \in Bad : Over[n] \notin Bad
    BY <1>1 DEF NoCycles
<1>3. QED
    BY <1>2

(* The functions f whose value at a node follows by a rule from that at the  *)
(* node above it.                                                            *)
FollowsUp(f, D, Over, V, base, rule) ==
    /\ f \in [D -> V]
    /\ \A n \in D : f[n] = IF Over[n] \in D THEN rule[n][f[Over[n]]] ELSE base[n]

UpRules(D, V) == [D -> [V -> V]]

(* Of the values computed in k rounds those of a node near the top do not    *)
(* change any more; they are the values of the function.                     *)
Rounds(h, D, Over, V, base, rule) ==
    /\ h \in [Nat -> [D -> V]]
    /\ \A k \in Nat : h[k + 1] = [n \in D |-> IF Over[n] \in D THEN rule[n][h[k][Over[n]]] ELSE base[n]]

LEMMA RoundsExist ==
    ASSUME NEW D, NEW Over, NEW V, NEW base \in [D -> V], NEW rule \in UpRules(D, V)
    PROVE  \E h : Rounds(h, D, Over, V, base, rule)
<1> DEFINE R == [D -> V]
           next == [r \in R |-> [n \in D |-> IF Over[n] \in D THEN rule[n][r[Over[n]]] ELSE base[n]]]
<1>1. next \in [R -> R]
  <2>1. \A r \in R : [n \in D |-> IF Over[n] \in D THEN rule[n][r[Over[n]]] ELSE base[n]] \in R
      BY DEF UpRules
  <2>2. QED
      BY <2>1
<1>2. base \in R
    OBVIOUS
<1>3. \A r \in R : next[r] = [n \in D |-> IF Over[n] \in D THEN rule[n][r[Over[n]]] ELSE base[n]]
    OBVIOUS
<1> HIDE DEF R, next
<1> DEFINE Good(m, f) == f \in [0 .. m -> R] /\ f[0] = base /\ \A i \in 1 .. m : f[i] = next[f[i - 1]]
<1>4. \A m \in Nat : \E f : Good(m, f)
  <2> TAKE m \in Nat
  <2> DEFINE g == [i \in 1 .. m |-> next]
  <2>1. g \in Rules(m, R)
      BY <1>1 DEF Rules
  <2>2. PICK f : Follows(f, m, R, base, g)
      BY <2>1, <1>2, RecursionExists
  <2>3. Good(m, f)
      BY <2>2 DEF Follows
  <2>4. QED
      BY <2>3
<1> DEFINE F == [m \in Nat |-> CHOOSE f : Good(m, f)]
           h == [m \in Nat |-> F[m][m]]
<1>5. \A m \in Nat : Good(m, F[m])
  <2> HIDE DEF Good
  <2>1. QED
      BY Zenon, <1>4
<1> HIDE DEF F
<1>6. \A m \in Nat, i \in Nat : i <= m => F[m + 1][i] = F[m][i]
  <2> TAKE m \in Nat
  <2> DEFINE B == {i \in 0 .. m : F[m + 1][i] = F[m][i]}
  <2>1. Good(m, F[m]) /\ Good(m + 1, F[m + 1])
      BY <1>5
  <2>2. 0 \in B
      BY <2>1
  <2>3. \A i \in 1 .. m : i - 1 \in B => i \in B
    <3> TAKE i \in 1 .. m
    <3>1. F[m + 1][i] = next[F[m + 1][i - 1]] /\ F[m][i] = next[F[m][i - 1]]
        BY <2>1
    <3>2. QED
        BY <3>1
  <2>4. B \in SUBSET (0 .. m)
      OBVIOUS
  <2> HIDE DEF B, Good
  <2>5. B = 0 .. m
      BY <2>2, <2>3, <2>4, UpTo
  <2>6. QED
      BY <2>5 DEF B
<1>7. h \in [Nat -> R]
  <2>1. \A m \in Nat : F[m][m] \in R
    <3> TAKE m \in Nat
    <3>1. F[m] \in [0 .. m -> R] /\ m \in 0 .. m
        BY <1>5
    <3>2. QED
        BY <3>1
  <2>2. QED
      BY <2>1
<1>8. \A k \in Nat : h[k + 1] = next[h[k]]
  <2> TAKE k \in Nat
  <2>1. F[k + 1][k + 1] = next[F[k + 1][k]]
    <3>1. Good(k + 1, F[k + 1]) /\ k + 1 \in 1 .. k + 1 /\ (k + 1) - 1 = k
        BY <1>5
    <3>2. QED
        BY <3>1
  <2>2. F[k + 1][k] = F[k][k]
      BY <1>6
  <2>3. QED
      BY <2>1, <2>2
<1> HIDE DEF h
<1>9. \A k \in Nat : h[k] \in R
    BY <1>7
<1>10. \A k \in Nat : h[k + 1] = [n \in D |-> IF Over[n] \in D THEN rule[n][h[k][Over[n]]] ELSE base[n]]
    BY Zenon, <1>3, <1>8, <1>9
<1>11. QED
    BY Zenon, <1>7, <1>10 DEF Rounds, R

LEMMA UpwardRecursionExists ==
    ASSUME NEW D, NEW Over, NoCycles(D, Over), NEW V,
           NEW base \in [D -> V], NEW rule \in UpRules(D, V)
    PROVE  \E f : FollowsUp(f, D, Over, V, base, rule)
<1>1. PICK h : Rounds(h, D, Over, V, base, rule)
    BY RoundsExist
<1> DEFINE Settled(k, n) == \A j \in Nat : j >= k => h[j][n] = h[k][n]
           B == {n \in D : \E k \in Nat : Settled(k, n)}
<1>2. \A j \in Nat, n \in D : j >= 1 =>
        h[j][n] = IF Over[n] \in D THEN rule[n][h[j - 1][Over[n]]] ELSE base[n]
  <2> TAKE j \in Nat, n \in D
  <2> HAVE j >= 1
  <2>1. j - 1 \in Nat /\ (j - 1) + 1 = j
      OBVIOUS
  <2>2. h[(j - 1) + 1] = [m \in D |-> IF Over[m] \in D THEN rule[m][h[j - 1][Over[m]]] ELSE base[m]]
      BY Zenon, <1>1, <2>1 DEF Rounds
  <2>3. QED
      BY <2>1, <2>2
<1>3. \A n \in D : (Over[n] \in D => Over[n] \in B) => n \in B
  <2> TAKE n \in D
  <2>1. CASE Over[n] \notin D
    <3>1. Settled(1, n)
        BY <1>2, <2>1
    <3>2. QED
        BY <3>1
  <2>2. CASE Over[n] \in B
    <3>1. PICK k \in Nat : Settled(k, Over[n])
        BY <2>2
    <3>2. \A j \in Nat : j >= k + 1 => h[j][n] = h[k + 1][n]
      <4> TAKE j \in Nat
      <4> HAVE j >= k + 1
      <4>1. j - 1 \in Nat /\ j - 1 >= k /\ k + 1 \in Nat /\ (k + 1) - 1 = k
          OBVIOUS
      <4>2. h[j - 1][Over[n]] = h[k][Over[n]]
          BY <3>1, <4>1
      <4>3. h[j][n] = rule[n][h[j - 1][Over[n]]] /\ h[k + 1][n] = rule[n][h[k][Over[n]]]
          BY <1>2, <2>2, <4>1
      <4>4. QED
          BY <4>2, <4>3
    <3>3. k + 1 \in Nat
        OBVIOUS
    <3>4. QED
        BY <3>2, <3>3
  <2>3. QED
      BY <2>1, <2>2
<1>4. D \subseteq B
  <2> HIDE DEF B
  <2>1. QED
      BY <1>3, FromTheTop
<1> DEFINE far == [n \in D |-> CHOOSE k \in Nat : Settled(k, n)]
           f == [n \in D |-> h[far[n]][n]]
<1>5. \A n \in D : far[n] \in Nat /\ Settled(far[n], n)
  <2> HIDE DEF Settled
  <2>1. QED
      BY <1>4
<1> HIDE DEF far
<1>6. f \in [D -> V]
    BY <1>1, <1>5 DEF Rounds
<1>7. \A n \in D : f[n] = IF Over[n] \in D THEN rule[n][f[Over[n]]] ELSE base[n]
  <2> TAKE n \in D
  <2>1. CASE Over[n] \notin D
    <3>0. far[n] + 1 \in Nat /\ far[n] + 1 >= far[n] /\ far[n] + 1 >= 1
        BY <1>5
    <3>1. h[far[n] + 1][n] = h[far[n]][n]
        BY <1>5, <3>0
    <3>2. h[far[n] + 1][n] = base[n]
        BY <1>2, <2>1, <3>0
    <3>3. QED
        BY <3>1, <3>2, <2>1
  <2>2. CASE Over[n] \in D
    <3> DEFINE m == far[n] + far[Over[n]]
    <3>1. m \in Nat /\ m >= far[n] /\ m >= far[Over[n]] /\ m + 1 \in Nat /\ m + 1 >= far[n] /\ (m + 1) - 1 = m /\ m + 1 >= 1
        BY <1>5, <2>2
    <3> HIDE DEF m
    <3>2. h[m + 1][n] = f[n] /\ h[m][Over[n]] = f[Over[n]]
        BY <1>5, <2>2, <3>1
    <3>3. h[m + 1][n] = rule[n][h[m][Over[n]]]
        BY <1>2, <2>2, <3>1
    <3>4. QED
        BY <3>2, <3>3, <2>2
  <2>3. QED
      BY <2>1, <2>2
<1>8. QED
    BY Zenon, <1>6, <1>7 DEF FollowsUp

-----------------------------------------------------------------------------
(* The least and the greatest of some numbers.                              *)

LEMMA LeastOfNats ==
    ASSUME NEW S \in SUBSET Nat, S # {}
    PROVE  \E n \in S : \A m \in S : n <= m
<1>1. PICK n \in S : \A m \in S : ~(<<m, n>> \in OpToRel(<, Nat))
    BY WFMin, NatLessThanWellFounded
<1>2. \A m \in S : m \in Nat /\ n \in Nat /\ ~(m < n)
    BY <1>1 DEF OpToRel
<1>3. \A m \in S : n <= m
    BY <1>2
<1>4. QED
    BY <1>1, <1>3

(* The greatest of some places.                                              *)
LEMMA MaxIs ==
    ASSUME NEW S, S \subseteq Int, NEW i \in S, \A j \in S : j <= i
    PROVE  Max(S) = i
<1>1. \A x \in S : (\A y \in S : x >= y) => x = i
    OBVIOUS
<1>2. \A y \in S : i >= y
    OBVIOUS
<1>3. QED
    BY <1>1, <1>2 DEF Max

LEMMA MaxOfPlaces ==
    ASSUME NEW n \in Nat, NEW S, S \subseteq 1 .. n, S # {}
    PROVE  Max(S) \in S /\ \A j \in S : j <= Max(S)
<1> DEFINE Free == {k \in Nat : \A j \in S : j <= k}
<1>1. n \in Free /\ Free \subseteq Nat
    OBVIOUS
<1>2. PICK k \in Free : \A j \in Free : k <= j
    BY <1>1, LeastOfNats
<1>3. k \in S
  <2>1. ASSUME k \notin S PROVE FALSE
    <3>1. k # 0
      <4>1. PICK j \in S : j \in 1 .. n /\ j <= k
        BY <1>2
      <4>2. QED
        BY <4>1
    <3>2. \A j \in S : j \in Nat /\ j <= k /\ j # k
      BY <1>2, <2>1
    <3>3. k - 1 \in Nat /\ \A j \in S : j <= k - 1
      BY <1>2, <3>1, <3>2
    <3>4. k - 1 \in Free
      BY <3>3
    <3>5. QED
      BY <1>2, <3>1, <3>4
  <2>2. QED
    BY <2>1
<1>4. Max(S) = k
  <2>1. S \subseteq Int
    OBVIOUS
  <2>2. \A j \in S : j <= k
    BY <1>2
  <2>3. QED
    BY <1>3, <2>1, <2>2, MaxIs
<1>5. QED
    BY <1>2, <1>3, <1>4

-----------------------------------------------------------------------------
(* Sequences.                                                              *)

(* The last element of a sequence.                                           *)
LEMMA LastOfAppend ==
    ASSUME NEW S, NEW s \in Seq(S), NEW x \in S
    PROVE  /\ Append(s, x) \in Seq(S)
           /\ Append(s, x) # <<>>
           /\ Append(s, x)[Len(Append(s, x))] = x
OBVIOUS

LEMMA LastOfTail ==
    ASSUME NEW S, NEW s \in Seq(S), s # <<>>
    PROVE  /\ Tail(s) \in Seq(S)
           /\ Head(s) \in S
           /\ Tail(s) = <<>> => s[Len(s)] = Head(s)
           /\ Tail(s) # <<>> => Tail(s)[Len(Tail(s))] = s[Len(s)]
<1> DEFINE t == Tail(s)
<1>1. t \in Seq(S) /\ Head(s) \in S /\ Head(s) = s[1]
  <2>1. t \in Seq(S) /\ Head(s) \in S
    BY HeadTailProperties
  <2>2. Head(s) = s[1]
    OBVIOUS
  <2>3. QED
    BY <2>1, <2>2
<1>2. Len(t) = Len(s) - 1 /\ Len(s) \in Nat \ {0} /\ \A i \in 1 .. Len(s) - 1 : t[i] = s[i + 1]
  <2>1. Len(t) = Len(s) - 1
    BY HeadTailProperties
  <2>2. Len(s) \in Nat \ {0}
    BY EmptySeq
  <2>3. \A i \in 1 .. Len(t) : t[i] = s[i + 1]
    BY HeadTailProperties
  <2>4. QED
    BY <2>1, <2>2, <2>3
<1>3. (t = <<>>) <=> (Len(t) = 0)
  <2>1. Len(t) = 0 => t = <<>>
    BY <1>1, EmptySeq
  <2>2. Len(<<>>) = 0
    OBVIOUS
  <2> HIDE DEF t
  <2>3. QED
    BY <2>1, <2>2
<1> HIDE DEF t
<1>4. t = <<>> => Len(s) = 1
    BY <1>2, <1>3
<1>4a. t = <<>> => s[Len(s)] = Head(s)
    BY <1>1, <1>4
<1>4b. t # <<>> => Len(t) \in 1 .. Len(s) - 1 /\ Len(t) + 1 = Len(s)
    BY <1>2, <1>3
<1>4c. t # <<>> => t[Len(t)] = s[Len(s)]
    BY <1>2, <1>4b
<1>5. QED
    BY <1>1, <1>4a, <1>4c DEF t

(* s without its i-th element.                                             *)
LEMMA Removed ==
    ASSUME NEW S, NEW s \in Seq(S), NEW i \in DOMAIN s
    PROVE  /\ RemoveAt(s, i) \in Seq(S) /\ Len(RemoveAt(s, i)) = Len(s) - 1
           /\ \A k \in 1..(Len(s) - 1) :
                  RemoveAt(s, i)[k] = IF k < i THEN s[k] ELSE s[k + 1]
<1> DEFINE a == SubSeq(s, 1, i - 1)
           b == SubSeq(s, i + 1, Len(s))
<1>1. i \in Nat /\ i >= 1 /\ i <= Len(s) /\ Len(s) \in Nat
  OBVIOUS
<1>2. /\ a \in Seq(S) /\ Len(a) = i - 1
      /\ \A k \in 1..(i - 1) : a[k] = s[k]
  <2>1. \A k \in 1..(i - 1) : s[k] \in S
    BY <1>1, ElementOfSeq
  <2>2. /\ a \in Seq(S) /\ Len(a) = (IF 1 <= i - 1 THEN i - 1 - 1 + 1 ELSE 0)
        /\ \A k \in 1..(i - 1 - 1 + 1) : a[k] = s[1 + k - 1]
    BY <1>1, <2>1, SubSeqProperties
  <2> HIDE DEF a
  <2> QED
    BY <1>1, <2>2
<1>3. /\ b \in Seq(S) /\ Len(b) = Len(s) - i
      /\ \A k \in 1..(Len(s) - i) : b[k] = s[i + k]
  <2>1. \A k \in (i + 1)..Len(s) : s[k] \in S
    BY <1>1, ElementOfSeq
  <2>2. /\ b \in Seq(S)
        /\ Len(b) = (IF i + 1 <= Len(s) THEN Len(s) - (i + 1) + 1 ELSE 0)
        /\ \A k \in 1..(Len(s) - (i + 1) + 1) : b[k] = s[i + 1 + k - 1]
    BY <1>1, <2>1, SubSeqProperties
  <2> HIDE DEF b
  <2> QED
    BY <1>1, <2>2
<1> HIDE DEF a, b
<1>4. /\ a \o b \in Seq(S) /\ Len(a \o b) = Len(a) + Len(b)
      /\ \A k \in 1..(Len(a) + Len(b)) :
             (a \o b)[k] = IF k <= Len(a) THEN a[k] ELSE b[k - Len(a)]
  BY <1>2, <1>3, ConcatProperties
<1>5. RemoveAt(s, i) = a \o b
  BY DEF RemoveAt, a, b
<1>6. ASSUME NEW k \in 1..(Len(s) - 1)
      PROVE  (a \o b)[k] = IF k < i THEN s[k] ELSE s[k + 1]
  <2>1. CASE k < i
    BY <1>1, <1>2, <1>3, <1>4, <2>1
  <2>2. CASE k >= i
    <3>1. (a \o b)[k] = b[k - (i - 1)]
      <4>1. Len(a) = i - 1 /\ k \in 1..(Len(a) + Len(b)) /\ ~(k <= Len(a))
        BY <1>1, <1>2, <1>3, <2>2
      <4> QED
        BY <1>4, <4>1
    <3>2. b[k - (i - 1)] = s[i + (k - (i - 1))] /\ i + (k - (i - 1)) = k + 1
      BY <1>1, <1>3, <2>2
    <3> QED
      BY <1>1, <2>2, <3>1, <3>2
  <2>3. k < i \/ k >= i
    BY <1>1
  <2> QED
    BY <1>1, <2>1, <2>2, <2>3
<1>7. Len(a \o b) = Len(s) - 1
  BY <1>1, <1>2, <1>3, <1>4
<1> QED
  BY <1>4, <1>5, <1>6, <1>7

LEMMA SetInSequence ==
    ASSUME NEW S, IsFiniteSet(S)
    PROVE  /\ SetToSeq(S) \in Seq(S) /\ IsInjective(SetToSeq(S))
           /\ ToSet(SetToSeq(S)) = S /\ Len(SetToSeq(S)) = Cardinality(S)
<1> DEFINE n == Cardinality(S)
           s == SetToSeq(S)
<1>1. n \in Nat
    BY FS_CardinalityType
<1>2. \E f \in [1 .. n -> S] : IsInjective(f)
  <2>1. ExistsBijection(1 .. n, S)
      BY FS_CardinalityType
  <2>2. QED
      BY <2>1 DEF ExistsBijection, Bijection, Injection
<1>3. s \in [1 .. n -> S] /\ IsInjective(s)
    BY Zenon, <1>2 DEF SetToSeq
<1> HIDE DEF s
<1>4. s \in Seq(S) /\ Len(s) = n /\ DOMAIN s = 1 .. n
    BY <1>1, <1>3
<1>5. ToSet(s) = S
  <2> DEFINE T == ToSet(s)
             g == [k \in 1 .. n |-> s[k]]
  <2>1. T \subseteq S
      BY <1>3, <1>4 DEF ToSet
  <2>2. ExistsBijection(1 .. n, T)
    <3>1. g \in [1 .. n -> T] /\ \A k, l \in 1 .. n : g[k] = g[l] => k = l
        BY <1>3, <1>4 DEF ToSet, IsInjective
    <3>2. \A t \in T : \E k \in 1 .. n : g[k] = t
        BY <1>4 DEF ToSet
    <3> HIDE DEF T, g
    <3>3. g \in Bijection(1 .. n, T)
        BY <3>1, <3>2, DOMAIN g = 1 .. n DEF Bijection, Injection, Surjection, IsInjective
    <3>4. QED
        BY <3>3 DEF ExistsBijection
  <2> HIDE DEF T
  <2>3. Cardinality(T) = n /\ T \in SUBSET S
      BY <1>1, <2>1, <2>2, FS_CountingElements
  <2>4. T = S
      BY <2>3, FS_Subset
  <2>5. QED
      BY <2>4 DEF T
<1>6. QED
    BY Zenon, <1>3, <1>4, <1>5 DEF s, n

(* The chips s without the k-th.                                             *)
LEMMA OneRemoved ==
    ASSUME NEW S, NEW s \in Seq(S), IsInjective(s), NEW k \in DOMAIN s
    PROVE  /\ RemoveAt(s, k) \in Seq(S) /\ IsInjective(RemoveAt(s, k))
           /\ Len(RemoveAt(s, k)) = Len(s) - 1 /\ ToSet(RemoveAt(s, k)) = ToSet(s) \ {s[k]}
<1> DEFINE r == RemoveAt(s, k)
<1>1. /\ r \in Seq(S) /\ Len(r) = Len(s) - 1 /\ Len(s) \in Nat /\ DOMAIN s = 1 .. Len(s)
      /\ \A i \in 1 .. Len(s) - 1 : r[i] = IF i < k THEN s[i] ELSE s[i + 1]
    BY Removed
<1> HIDE DEF r
<1> DEFINE at(i) == IF i < k THEN i ELSE i + 1
           n == Len(s)
<1>2. n \in Nat /\ k \in 1 .. n /\ DOMAIN r = 1 .. n - 1
    BY <1>1
<1> HIDE DEF n
<1>3. \A i \in 1 .. n - 1 : at(i) \in 1 .. n /\ at(i) # k
    BY <1>2
<1>4. \A i, j \in 1 .. n - 1 : at(i) = at(j) => i = j
    BY <1>2
<1>5. \A j \in 1 .. n : j # k => \E i \in 1 .. n - 1 : at(i) = j
  <2> TAKE j \in 1 .. n
  <2>1. CASE j < k
    <3>1. j \in 1 .. n - 1 /\ at(j) = j
        BY <1>2, <2>1
    <3>2. QED
        BY <3>1
  <2>2. CASE j > k
    <3>1. j - 1 \in 1 .. n - 1 /\ at(j - 1) = j
        BY <1>2, <2>2
    <3>2. QED
        BY <3>1
  <2>3. QED
      BY <1>2, <2>1, <2>2
<1>6. \A i \in 1 .. n - 1 : r[i] = s[at(i)]
    BY <1>1 DEF n
<1> HIDE DEF at
<1>7. \A i, j \in 1 .. n : s[i] = s[j] => i = j
    BY <1>1 DEF IsInjective, n
<1>8. IsInjective(r)
    BY <1>2, <1>3, <1>4, <1>6, <1>7 DEF IsInjective
<1>9. ToSet(r) = {s[at(i)] : i \in 1 .. n - 1}
    BY <1>2, <1>6 DEF ToSet
<1>10. ToSet(s) = {s[j] : j \in 1 .. n}
    BY <1>1 DEF ToSet, n
<1>11. ToSet(r) = ToSet(s) \ {s[k]}
    BY <1>2, <1>3, <1>5, <1>7, <1>9, <1>10
<1>12. QED
    BY <1>1, <1>8, <1>11 DEF r

LEMMA OneAdded ==
    ASSUME NEW S, NEW s \in Seq(S), IsInjective(s), NEW x \in S, x \notin ToSet(s)
    PROVE  /\ Append(s, x) \in Seq(S) /\ IsInjective(Append(s, x))
           /\ Len(Append(s, x)) = Len(s) + 1 /\ ToSet(Append(s, x)) = ToSet(s) \union {x}
<1> DEFINE r == Append(s, x)
           n == Len(s)
<1>1. /\ n \in Nat /\ DOMAIN s = 1 .. n /\ r \in Seq(S) /\ Len(r) = n + 1 /\ DOMAIN r = 1 .. n + 1
      /\ r[n + 1] = x /\ \A k \in 1 .. n : r[k] = s[k]
    BY AppendProperties
<1> HIDE DEF r, n
<1>2. \A k \in 1 .. n + 1 : k = n + 1 \/ k \in 1 .. n
    BY <1>1
<1>3. n + 1 \in 1 .. n + 1 /\ \A k \in 1 .. n : k \in 1 .. n + 1
    BY <1>1
<1>4. ToSet(r) = ToSet(s) \union {x}
    BY <1>1, <1>2, <1>3 DEF ToSet
<1>5. \A k \in 1 .. n : s[k] # x
    BY <1>1 DEF ToSet
<1>6. IsInjective(r)
    BY <1>1, <1>2, <1>5 DEF IsInjective
<1>7. QED
    BY <1>1, <1>4, <1>6 DEF r, n

(* What FlattenSeq makes of a sequence of sequences, longer by one at a      *)
(* time.                                                                     *)
Flattens(f, s) == f = [i \in 1 .. Len(s) |-> IF i = 1 THEN s[i] ELSE f[i-1] \o s[i]]

Flattener(s) == CHOOSE f : Flattens(f, s)

LEMMA FlattenIs ==
    ASSUME NEW s PROVE FlattenSeq(s) = IF Len(s) = 0 THEN s ELSE Flattener(s)[Len(s)]
BY Zenon DEF FlattenSeq, Flattener, Flattens

LEMMA FlattenRuns ==
    ASSUME NEW S, NEW s \in Seq(Seq(S)), s # <<>>
    PROVE  /\ Len(s) \in Nat \ {0} /\ FlattenSeq(s) = Flattener(s)[Len(s)]
           /\ Flattener(s) \in [1 .. Len(s) -> Seq(S)] /\ Flattener(s)[1] = s[1]
           /\ \A i \in 2 .. Len(s) : Flattener(s)[i] = Flattener(s)[i-1] \o s[i]
<1> DEFINE n == Len(s)
           R == Seq(S)
           h == [i \in 1 .. n |-> [r \in R |-> r \o s[i]]]
<1>1. n \in Nat \ {0} /\ \A i \in 1 .. n : s[i] \in R
    BY EmptySeq
<1>2. <<>> \in R /\ \A r \in R : <<>> \o r = r
    BY ConcatEmptySeq
<1>3. \A i \in 1 .. n, r \in R : r \o s[i] \in R
    BY <1>1, ConcatProperties
<1> HIDE DEF n, R
<1>4. h \in Rules(n, R) /\ \A i \in 1 .. n, r \in R : h[i][r] = r \o s[i]
  <2>1. \A i \in 1 .. n : [r \in R |-> r \o s[i]] \in [R -> R]
      BY <1>3
  <2>2. QED
      BY Zenon, <2>1 DEF Rules
<1> HIDE DEF h
<1>5. PICK f : Follows(f, n, R, <<>>, h)
    BY <1>1, <1>2, <1>4, RecursionExists
<1>6. f \in [0 .. n -> R] /\ f[0] = <<>> /\ \A i \in 1 .. n : f[i] = f[i-1] \o s[i]
  <2>1. \A i \in 1 .. n : i - 1 \in 0 .. n
      BY <1>1
  <2>2. QED
      BY <1>4, <1>5, <2>1 DEF Follows
<1> DEFINE g == [i \in 1 .. n |-> f[i]]
<1>7. \A i \in 1 .. n : g[i] = IF i = 1 THEN s[i] ELSE g[i-1] \o s[i]
  <2> TAKE i \in 1 .. n
  <2>1. CASE i = 1
    <3>1. f[1] = f[0] \o s[1]
      <4>1. 1 \in 1 .. n /\ 1 - 1 = 0
          BY <1>1
      <4>2. QED
          BY <1>6, <4>1
    <3>2. QED
        BY <1>1, <1>2, <1>6, <2>1, <3>1
  <2>2. CASE i # 1
    <3>1. i - 1 \in 1 .. n
        BY <1>1, <2>2
    <3>2. QED
        BY <1>6, <2>2, <3>1
  <2>3. QED
      BY <2>1, <2>2
<1>8. g = [i \in 1 .. n |-> g[i]]
    OBVIOUS
<1> HIDE DEF g
<1>9. Flattens(g, s)
    BY Zenon, <1>7, <1>8 DEF Flattens, n
<1>10. Flattens(Flattener(s), s)
    BY Zenon, <1>9 DEF Flattener
<1> DEFINE e == Flattener(s)
<1> HIDE DEF e
<1>11. e = [i \in 1 .. n |-> IF i = 1 THEN s[i] ELSE e[i-1] \o s[i]]
    BY Zenon, <1>10 DEF Flattens, e, n
<1>12. \A i \in 1 .. n : e[i] = IF i = 1 THEN s[i] ELSE e[i-1] \o s[i]
    BY <1>11
<1>13. e[1] = s[1] /\ \A i \in 2 .. n : e[i] = e[i-1] \o s[i]
  <2>1. 1 \in 1 .. n /\ \A i \in 2 .. n : i \in 1 .. n /\ i # 1
      BY <1>1
  <2>2. QED
      BY Zenon, <1>12, <2>1
<1> DEFINE B == {k \in 0 .. n : k # 0 => e[k] \in R}
<1>14. B = 0 .. n
  <2>1. 0 \in B /\ B \in SUBSET (0 .. n)
      BY <1>1
  <2>2. ASSUME NEW i \in 1 .. n, i - 1 \in B PROVE i \in B
    <3>1. CASE i = 1
        BY <1>1, <1>13, <3>1
    <3>2. CASE i # 1
      <4>1. i \in 2 .. n /\ i - 1 # 0
          BY <1>1, <3>2
      <4>2. e[i-1] \in R
          BY <2>2, <4>1
      <4>3. e[i] = e[i-1] \o s[i]
          BY Zenon, <1>13, <4>1
      <4>4. e[i-1] \o s[i] \in R
          BY Zenon, <1>3, <4>2
      <4>5. i \in 0 .. n
          BY <1>1
      <4>6. QED
          BY <4>3, <4>4, <4>5
    <3>3. QED
        BY <3>1, <3>2
  <2> HIDE DEF B
  <2>3. QED
      BY <1>1, <2>1, <2>2, UpTo
<1>15. \A k \in 1 .. n : e[k] \in R
  <2>1. \A k \in 1 .. n : k \in 0 .. n /\ k # 0
      BY <1>1
  <2>2. QED
      BY <1>14, <2>1
<1>16. e \in [1 .. n -> R]
    BY <1>11, <1>15
<1>17. FlattenSeq(s) = e[n]
  <2>1. n # 0
      BY <1>1
  <2>2. QED
      BY Zenon, <2>1, FlattenIs DEF e, n
<1>18. QED
    BY Zenon, <1>1, <1>13, <1>16, <1>17 DEF e, n, R

LEMMA FlattenOne == ASSUME NEW S, NEW x \in Seq(S) PROVE FlattenSeq(<<x>>) = x
<1>1. <<x>> \in Seq(Seq(S)) /\ <<x>> # <<>> /\ Len(<<x>>) = 1 /\ <<x>>[1] = x
    OBVIOUS
<1>2. QED
    BY <1>1, FlattenRuns

LEMMA FlattenNone == FlattenSeq(<<>>) = <<>>
<1>1. Len(<<>>) = 0
    OBVIOUS
<1>2. QED
    BY Zenon, <1>1, FlattenIs

LEMMA FlattenAppend ==
    ASSUME NEW S, NEW s \in Seq(Seq(S)), NEW x \in Seq(S)
    PROVE  FlattenSeq(Append(s, x)) = FlattenSeq(s) \o x /\ FlattenSeq(s) \in Seq(S)
<1> DEFINE t == Append(s, x)
<1>1. t \in Seq(Seq(S)) /\ t # <<>> /\ Len(t) = Len(s) + 1 /\ t[Len(s) + 1] = x
      /\ Len(s) \in Nat /\ \A i \in 1 .. Len(s) : t[i] = s[i]
    BY AppendProperties
<1> HIDE DEF t
<1>2. CASE s = <<>>
  <2>1. t = <<x>> /\ <<>> \in Seq(S)
      BY <1>2 DEF t
  <2>2. <<>> \o x = x
      BY ConcatEmptySeq
  <2>3. QED
      BY Zenon, <1>2, <2>1, <2>2, FlattenOne, FlattenNone DEF t
<1>3. CASE s # <<>>
  <2> DEFINE f == Flattener(s)
             g == Flattener(t)
             n == Len(s)
  <2>1. /\ n \in Nat \ {0} /\ FlattenSeq(s) = f[n] /\ f \in [1 .. n -> Seq(S)] /\ f[1] = s[1]
        /\ \A i \in 2 .. n : f[i] = f[i-1] \o s[i]
      BY <1>3, FlattenRuns
  <2>2. /\ FlattenSeq(t) = g[n + 1] /\ g[1] = t[1]
        /\ \A i \in 2 .. n + 1 : g[i] = g[i-1] \o t[i]
    <3>1. /\ FlattenSeq(t) = g[Len(t)] /\ g[1] = t[1]
          /\ \A i \in 2 .. Len(t) : g[i] = g[i-1] \o t[i]
        BY <1>1, FlattenRuns
    <3>2. QED
        BY <1>1, <3>1
  <2>3. \A i \in 1 .. n : t[i] = s[i]
      BY <1>1
  <2>4. t[n + 1] = x
      BY <1>1
  <2> HIDE DEF f, g, n
  <2> DEFINE B == {k \in 0 .. n : k # 0 => g[k] = f[k]}
  <2>5. B = 0 .. n
    <3>1. 0 \in B /\ B \in SUBSET (0 .. n)
        BY <2>1
    <3>2. ASSUME NEW i \in 1 .. n, i - 1 \in B PROVE i \in B
      <4>1. CASE i = 1
          BY <2>1, <2>2, <2>3, <4>1
      <4>2. CASE i # 1
        <5>1. i \in 2 .. n /\ i - 1 # 0 /\ i \in 2 .. n + 1
            BY <2>1, <4>2
        <5>2. g[i-1] = f[i-1]
            BY <3>2, <5>1
        <5>3. g[i] = g[i-1] \o t[i] /\ f[i] = f[i-1] \o s[i] /\ t[i] = s[i]
            BY Zenon, <2>1, <2>2, <2>3, <5>1
        <5>4. i \in 0 .. n /\ g[i] = f[i]
          <6>1. g[i] = f[i]
              BY Zenon, <5>2, <5>3
          <6>2. QED
              BY <2>1, <6>1
        <5>5. QED
            BY <5>4
      <4>3. QED
          BY <4>1, <4>2
    <3> HIDE DEF B
    <3>3. QED
        BY <2>1, <3>1, <3>2, UpTo
  <2>6. g[n] = f[n]
    <3>1. n \in 0 .. n /\ n # 0
        BY <2>1
    <3>2. n \in B
        BY Zenon, <2>5, <3>1
    <3>3. QED
        BY <3>1, <3>2
  <2>7. n + 1 \in 2 .. n + 1 /\ (n + 1) - 1 = n /\ n \in 1 .. n
      BY <2>1
  <2>8. g[n + 1] = g[n] \o t[n + 1]
      BY <2>2, <2>7
  <2>9. QED
      BY <2>1, <2>2, <2>4, <2>6, <2>7, <2>8 DEF t
<1>4. QED
    BY <1>2, <1>3

LEMMA FlattenIsSeq == ASSUME NEW S, NEW s \in Seq(Seq(S)) PROVE FlattenSeq(s) \in Seq(S)
<1>1. <<>> \in Seq(S)
    OBVIOUS
<1>2. QED
    BY <1>1, FlattenAppend

LEMMA ConcatThree ==
    ASSUME NEW S, NEW a \in Seq(S), NEW b \in Seq(S), NEW c \in Seq(S)
    PROVE  (a \o b) \o c = a \o (b \o c)
BY ConcatAssociative

LEMMA AppendToConcat ==
    ASSUME NEW S, NEW a \in Seq(S), NEW b \in Seq(S), NEW x \in S
    PROVE  a \o Append(b, x) = Append(a \o b, x) /\ a \o b \in Seq(S)
<1>1. Append(b, x) = b \o <<x>> /\ <<x>> \in Seq(S) /\ a \o b \in Seq(S)
    BY ConcatProperties, AppendIsConcat
<1>2. Append(a \o b, x) = (a \o b) \o <<x>>
    BY <1>1, AppendIsConcat
<1> DEFINE c == <<x>>
<1>3. c \in Seq(S)
    BY <1>1
<1> HIDE DEF c
<1>4. (a \o b) \o c = a \o (b \o c)
    BY <1>3, ConcatThree
<1>5. QED
    BY <1>1, <1>2, <1>4 DEF c

LEMMA FlattensJoin ==
    ASSUME NEW S, NEW s \in Seq(Seq(S)), NEW v \in Seq(Seq(S)), NEW x \in Seq(S),
           FlattenSeq(s \o v) = FlattenSeq(s) \o FlattenSeq(v)
    PROVE  FlattenSeq(s \o Append(v, x)) = FlattenSeq(s) \o FlattenSeq(Append(v, x))
<1> DEFINE a == FlattenSeq(s)
           b == FlattenSeq(v)
<1>1. a \in Seq(S) /\ b \in Seq(S)
    BY FlattenIsSeq
<1>2. s \o Append(v, x) = Append(s \o v, x) /\ s \o v \in Seq(Seq(S))
    BY AppendToConcat
<1>3. FlattenSeq(Append(s \o v, x)) = FlattenSeq(s \o v) \o x /\ FlattenSeq(Append(v, x)) = b \o x
    BY <1>2, FlattenAppend
<1> HIDE DEF a, b
<1>4. (a \o b) \o x = a \o (b \o x)
    BY <1>1, ConcatThree
<1>5. FlattenSeq(s \o v) = a \o b
    BY DEF a, b
<1>6. FlattenSeq(s \o Append(v, x)) = a \o (b \o x)
    BY <1>2, <1>3, <1>4, <1>5
<1>7. QED
    BY <1>3, <1>6 DEF a

LEMMA FlattenConcat ==
    ASSUME NEW S, NEW s \in Seq(Seq(S)), NEW t \in Seq(Seq(S))
    PROVE  FlattenSeq(s \o t) = FlattenSeq(s) \o FlattenSeq(t)
<1> DEFINE Q == Seq(S)
           Holds(u) == FlattenSeq(s \o u) = FlattenSeq(s) \o FlattenSeq(u)
           n == Len(t)
           B == {k \in 0 .. n : \A u \in Seq(Q) : Len(u) = k => Holds(u)}
<1>1. n \in Nat /\ t \in Seq(Q)
    OBVIOUS
<1>2. 0 \in B
  <2>1. ASSUME NEW u \in Seq(Q), Len(u) = 0 PROVE Holds(u)
    <3>1. u = <<>>
        BY <2>1, EmptySeq
    <3>2. s \o <<>> = s /\ FlattenSeq(s) \o <<>> = FlattenSeq(s)
        BY FlattenIsSeq, ConcatEmptySeq
    <3>3. QED
        BY Zenon, <3>1, <3>2, FlattenNone
  <2> HIDE DEF Holds
  <2>2. QED
      BY <1>1, <2>1
<1>3. ASSUME NEW k \in 1 .. n, k - 1 \in B PROVE k \in B
  <2>1. ASSUME NEW u \in Seq(Q), Len(u) = k PROVE Holds(u)
    <3>1. u # <<>>
        BY <1>1, <2>1
    <3>2. PICK v \in Seq(Q), x \in Q : u = Append(v, x)
        BY <3>1, SequenceEmptyOrAppend
    <3>3. Len(v) = k - 1
        BY <1>1, <2>1, <3>2
    <3>4. Holds(v)
      <4> HIDE DEF Holds
      <4>1. QED
          BY <1>3, <3>3
    <3>5. QED
        BY <3>2, <3>4, FlattensJoin
  <2> HIDE DEF Holds
  <2>2. QED
      BY <1>1, <2>1
<1>4. B = 0 .. n
  <2>1. B \in SUBSET (0 .. n)
      OBVIOUS
  <2> HIDE DEF B
  <2>2. QED
      BY <1>1, <1>2, <1>3, <2>1, UpTo
<1>5. n \in 0 .. n
    BY <1>1
<1> HIDE DEF Holds
<1>6. Holds(t)
    BY Zenon, <1>1, <1>4, <1>5
<1>7. QED
    BY <1>6 DEF Holds


(* One after the other: what there is after each of the sequences.           *)
Joins(e, g, n, S) ==
    /\ e \in [0 .. n -> Seq(S)] /\ e[0] = <<>> /\ FlattenSeq(g) = e[n]
    /\ \A k \in 1 .. n : e[k] = e[k-1] \o g[k]

LEMMA FlattenSteps ==
    ASSUME NEW S, NEW n \in Nat, NEW g \in [1 .. n -> Seq(S)]
    PROVE  \E e : Joins(e, g, n, S)
<1>1. g \in Seq(Seq(S)) /\ Len(g) = n /\ <<>> \in Seq(S)
    OBVIOUS
<1>2. CASE n = 0
  <2> DEFINE e == [k \in 0 .. n |-> <<>>]
  <2>1. g = <<>>
      BY <1>1, <1>2, EmptySeq
  <2>2. e \in [0 .. n -> Seq(S)] /\ e[0] = <<>> /\ e[n] = <<>>
      BY <1>1
  <2> HIDE DEF e
  <2>3. FlattenSeq(g) = e[n]
      BY Zenon, <2>1, <2>2, FlattenNone
  <2>4. 1 .. n = {}
      BY <1>2
  <2>5. Joins(e, g, n, S)
      BY Zenon, <2>2, <2>3, <2>4 DEF Joins
  <2>6. QED
      BY <2>5
<1>3. CASE n # 0
  <2> DEFINE f == Flattener(g)
             e == [k \in 0 .. n |-> IF k = 0 THEN <<>> ELSE f[k]]
  <2>1. g # <<>>
      BY <1>1, <1>3
  <2>2. /\ FlattenSeq(g) = f[n] /\ f \in [1 .. n -> Seq(S)] /\ f[1] = g[1]
        /\ \A i \in 2 .. n : f[i] = f[i-1] \o g[i]
      BY <1>1, <2>1, FlattenRuns
  <2> HIDE DEF f
  <2>3. e \in [0 .. n -> Seq(S)] /\ e[0] = <<>> /\ e[n] = f[n] /\ \A k \in 1 .. n : e[k] = f[k]
      BY <1>1, <1>3, <2>2
  <2>4. ASSUME NEW k \in 1 .. n PROVE e[k] = e[k-1] \o g[k]
    <3>1. CASE k = 1
      <4>1. e[k-1] = <<>> /\ e[k] = g[1] /\ g[1] \in Seq(S)
          BY <2>2, <2>3, <3>1
      <4>2. <<>> \o g[1] = g[1]
          BY <4>1, ConcatEmptySeq
      <4>3. QED
          BY <3>1, <4>1, <4>2
    <3>2. CASE k # 1
      <4>1. k - 1 \in 1 .. n /\ k \in 2 .. n
          BY <3>2
      <4>2. e[k] = f[k] /\ e[k-1] = f[k-1]
          BY <2>3, <4>1
      <4>3. QED
          BY <2>2, <4>1, <4>2
    <3>3. QED
        BY <3>1, <3>2
  <2> HIDE DEF e
  <2>5. Joins(e, g, n, S)
      BY Zenon, <2>2, <2>3, <2>4 DEF Joins
  <2>6. QED
      BY <2>5
<1>4. QED
    BY <1>2, <1>3

(* The numbers from a + 1 to b.                                              *)
Numbered(from, to) == [k \in 1 .. to - from |-> from + k]

LEMMA NumberedIs ==
    ASSUME NEW a \in Nat, NEW b \in Nat, a <= b
    PROVE  Numbered(a, b) \in Seq(Nat) /\ Len(Numbered(a, b)) = b - a
           /\ \A k \in 1 .. b - a : Numbered(a, b)[k] = a + k
BY DEF Numbered

LEMMA NumbersJoin ==
    ASSUME NEW a \in Nat, NEW b \in Nat, NEW c \in Nat, a <= b, b <= c
    PROVE  Numbered(a, b) \o Numbered(b, c) = Numbered(a, c)
<1> DEFINE s == Numbered(a, b)
           t == Numbered(b, c)
           r == Numbered(a, c)
           m == b - a
           n == c - a
<1>1. s \in Seq(Nat) /\ Len(s) = m /\ \A k \in 1 .. m : s[k] = a + k
    BY NumberedIs
<1>2. t \in Seq(Nat) /\ Len(t) = n - m /\ \A k \in 1 .. n - m : t[k] = a + m + k
  <2>1. c - b = n - m /\ a + m = b
      OBVIOUS
  <2>2. t \in Seq(Nat) /\ Len(t) = c - b /\ \A k \in 1 .. c - b : t[k] = b + k
      BY NumberedIs
  <2>3. QED
      BY <2>1, <2>2
<1>3. r \in Seq(Nat) /\ Len(r) = n /\ \A k \in 1 .. n : r[k] = a + k
    BY NumberedIs
<1>4. m \in Nat /\ n \in Nat /\ m <= n
    OBVIOUS
<1> HIDE DEF s, t, r, m, n
<1>5. s \o t \in Seq(Nat) /\ Len(s \o t) = n
  <2>1. s \o t \in Seq(Nat) /\ Len(s \o t) = Len(s) + Len(t)
      BY <1>1, <1>2, ConcatProperties
  <2>2. QED
      BY <1>1, <1>2, <1>4, <2>1
<1>6. ASSUME NEW k \in 1 .. n PROVE (s \o t)[k] = a + k
  <2>1. (s \o t)[k] = IF k <= Len(s) THEN s[k] ELSE t[k - Len(s)]
      BY <1>1, <1>2, <1>4, ConcatProperties
  <2>2. CASE k <= m
      BY <1>1, <1>4, <2>1, <2>2
  <2>3. CASE ~(k <= m)
    <3>1. k - m \in 1 .. n - m /\ a + m + (k - m) = a + k
        BY <1>4, <2>3
    <3>2. QED
        BY <1>1, <1>2, <1>4, <2>1, <2>3, <3>1
  <2>4. QED
      BY <2>2, <2>3
<1>7. s \o t = r
    BY <1>3, <1>5, <1>6, SeqEqual
<1>8. QED
    BY <1>7 DEF s, t, r

(* The numbers of a set, one by one.                                         *)
LEMMA OneByOne ==
    ASSUME NEW n \in Nat, NEW a \in 0 .. n, NEW b \in a .. n
    PROVE  FlattenSeq([k \in 1 .. n |-> IF k \in a + 1 .. b THEN <<k>> ELSE <<>>]) = Numbered(a, b)
<1> DEFINE g == [k \in 1 .. n |-> IF k \in a + 1 .. b THEN <<k>> ELSE <<>>]
           m(k) == IF k < a THEN a ELSE IF k > b THEN b ELSE k
<1>1. g \in [1 .. n -> Seq(Nat)] /\ \A k \in 1 .. n : g[k] = IF k \in a + 1 .. b THEN <<k>> ELSE <<>>
    OBVIOUS
<1> HIDE DEF g
<1>2. PICK e : Joins(e, g, n, Nat)
    BY <1>1, FlattenSteps
<1>3. /\ e \in [0 .. n -> Seq(Nat)] /\ e[0] = <<>> /\ FlattenSeq(g) = e[n]
      /\ \A k \in 1 .. n : e[k] = e[k-1] \o g[k]
    BY Zenon, <1>2 DEF Joins
<1>0. a \in Nat /\ b \in Nat /\ a <= b /\ b <= n
    OBVIOUS
<1> DEFINE B == {k \in 0 .. n : e[k] = Numbered(a, m(k))}
<1>4. B = 0 .. n
  <2>1. 0 \in B
    <3>1. m(0) = a
        OBVIOUS
    <3>2. Numbered(a, a) = <<>>
      <4>1. Len(Numbered(a, a)) = 0 /\ Numbered(a, a) \in Seq(Nat)
          BY <1>0, NumberedIs
      <4>2. QED
          BY <4>1, EmptySeq
    <3>3. QED
        BY <1>3, <3>1, <3>2
  <2>2. ASSUME NEW k \in 1 .. n, k - 1 \in B PROVE k \in B
    <3>1. e[k-1] = Numbered(a, m(k - 1)) /\ e[k] = e[k-1] \o g[k]
        BY <1>3, <2>2
    <3>2. CASE k \in a + 1 .. b
      <4>1. m(k - 1) = k - 1 /\ m(k) = k /\ k - 1 \in Nat /\ a <= k - 1
          BY <3>2
      <4>2. g[k] = <<k>>
          BY <1>1, <3>2
      <4>3. Numbered(k - 1, k) = <<k>>
          BY <4>1 DEF Numbered
      <4>4. Numbered(a, k - 1) \o Numbered(k - 1, k) = Numbered(a, k)
        <5>1. k \in Nat /\ k - 1 <= k
            BY <4>1
        <5>2. QED
            BY Zenon, <1>0, <4>1, <5>1, NumbersJoin
      <4> HIDE DEF m
      <4>5. e[k] = Numbered(a, m(k))
          BY Zenon, <3>1, <4>1, <4>2, <4>3, <4>4
      <4>6. QED
          BY <4>5
    <3>3. CASE k \notin a + 1 .. b
      <4>1. m(k - 1) = m(k) /\ m(k) \in Nat /\ a <= m(k)
          BY <3>3
      <4>2. g[k] = <<>>
          BY <1>1, <3>3
      <4>3. Numbered(a, m(k)) \o <<>> = Numbered(a, m(k))
        <5> HIDE DEF m
        <5>1. Numbered(a, m(k)) \in Seq(Nat)
            BY <4>1, NumberedIs
        <5>2. QED
            BY <5>1, ConcatEmptySeq
      <4> HIDE DEF m
      <4>4. e[k] = Numbered(a, m(k))
          BY Zenon, <3>1, <4>1, <4>2, <4>3
      <4>5. QED
          BY <4>4
    <3>4. QED
        BY <3>2, <3>3
  <2>3. B \in SUBSET (0 .. n)
      OBVIOUS
  <2> HIDE DEF B
  <2>4. QED
      BY <2>1, <2>2, <2>3, UpTo
<1>5. e[n] = Numbered(a, b)
  <2>1. n \in 0 .. n /\ m(n) = b
      BY <1>0
  <2>2. n \in B
      BY Zenon, <1>4, <2>1
  <2>3. QED
      BY <2>1, <2>2
<1>6. QED
    BY <1>3, <1>5 DEF g
=================================================================================
