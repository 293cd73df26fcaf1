----------------------------- MODULE SumProofs -----------------------------
(***************************************************************************)
(* What SumFunctionOnSet and SumFunction compute, for every finite set.    *)
(*                                                                         *)
(* Both are folds, that is recursive functions over the subsets of a set.  *)
(* Induction over those subsets comes from the fact that the strict subset *)
(* relation is well-founded on the subsets of a finite set: a collection   *)
(* of counterexamples, if there were one, would have a smallest member.    *)
(***************************************************************************)
EXTENDS FiniteSetsExt, FiniteSetTheorems, TLAPS

\* The element the fold takes out of a set.
Pick(s) == CHOOSE x \in s : TRUE

\* g gives the sum of f over each of the sets in D.
Adds(g, f, D) == g = [s \in D |-> IF s = {} THEN 0 ELSE f[Pick(s)] + g[s \ {Pick(s)}]]

\* SumFunctionOnSet is defined by a recursive function over the subsets.
LEMMA SumDef ==
  ASSUME NEW f, NEW S
  PROVE  SumFunctionOnSet(f, S) = (CHOOSE g : Adds(g, f, SUBSET S))[S]
BY DEF SumFunctionOnSet, FoldFunctionOnSet, MapThenFoldSet, Adds, Pick

\* A collection of subsets of a finite set has a member no other member is in.
LEMMA SmallestSubset ==
  ASSUME NEW S, IsFiniteSet(S), NEW B, B \subseteq SUBSET S, B # {}
  PROVE  \E T \in B : \A U \in SUBSET T : U # T => U \notin B
<1>1. IsWellFoundedOn(StrictSubsetOrdering(S), SUBSET S)
  BY FS_StrictSubsetOrderingWellFounded, FS_FiniteSubsetsOfFinite
<1>. DEFINE R == StrictSubsetOrdering(S)
<1>2. \E T \in B : \A U \in B : <<U, T>> \notin R
  <2>. HIDE DEF R
  <2>1. IsWellFoundedOn(R, SUBSET S) BY <1>1 DEF R
  <2>. QED BY <2>1, WFMin
<1>3. PICK T \in B : \A U \in B : <<U, T>> \notin R BY <1>2
<1>4. ASSUME NEW U \in SUBSET T, U # T, U \in B PROVE FALSE
  <2>1. U \in SUBSET S /\ T \in SUBSET S OBVIOUS
  <2>2. <<U, T>> \in R BY <1>4, <2>1 DEF StrictSubsetOrdering
  <2>. QED BY <1>3, <1>4, <2>2
<1>. QED BY <1>3, <1>4

\* The element that is taken out next.
LEMMA PickIn == ASSUME NEW s, s # {} PROVE Pick(s) \in s
BY DEF Pick

\* There is one such function ...
LEMMA AddsUnique ==
  ASSUME NEW S, IsFiniteSet(S), NEW f, NEW g, NEW h, Adds(g, f, SUBSET S), Adds(h, f, SUBSET S)
  PROVE  \A s \in SUBSET S : g[s] = h[s]
<1>. DEFINE B == {s \in SUBSET S : g[s] # h[s]}
<1>1. SUFFICES ASSUME B # {} PROVE FALSE OBVIOUS
<1>2. PICK T \in B : \A U \in SUBSET T : U # T => U \notin B
  <2>1. B \subseteq SUBSET S OBVIOUS
  <2>. HIDE DEF B
  <2>. QED BY <1>1, <2>1, SmallestSubset
<1>3. T # {} BY <1>2 DEF Adds
<1>4. DEFINE U == T \ {Pick(T)}
<1>5. U \in SUBSET T /\ U # T /\ U \in SUBSET S BY <1>3, PickIn
<1>6. g[U] = h[U] BY <1>2, <1>5
<1>7. g[T] = f[Pick(T)] + g[U] BY <1>3 DEF Adds
<1>8. h[T] = f[Pick(T)] + h[U] BY <1>3 DEF Adds
<1>. QED BY <1>6, <1>7, <1>8

\* ... so the sum is computed as it is defined.
LEMMA SumStep ==
  ASSUME NEW S, IsFiniteSet(S), NEW f
  PROVE  SumFunctionOnSet(f, S) = IF S = {} THEN 0 ELSE f[Pick(S)] + SumFunctionOnSet(f, S \ {Pick(S)})
<1>. DEFINE Value(s) == IF s = {} THEN 0 ELSE f[Pick(s)] + SumFunctionOnSet(f, s \ {Pick(s)})
            B == {s \in SUBSET S : SumFunctionOnSet(f, s) # Value(s)}
<1>. SUFFICES ASSUME B # {} PROVE FALSE OBVIOUS
<1>1. PICK T \in B : \A U \in SUBSET T : U # T => U \notin B
  <2>1. B \subseteq SUBSET S OBVIOUS
  <2>. HIDE DEF B
  <2>. QED BY <2>1, SmallestSubset
<1>2. IsFiniteSet(T) BY FS_Subset
<1>. DEFINE G == [s \in SUBSET T |-> Value(s)]
<1>3. ASSUME NEW s \in SUBSET T, s # {}
      PROVE  G[s \ {Pick(s)}] = SumFunctionOnSet(f, s \ {Pick(s)})
  <2>. DEFINE U == s \ {Pick(s)}
  <2>1. U \in SUBSET T /\ U # T /\ U \in SUBSET S BY <1>3, PickIn
  <2>2. U \notin B BY <1>1, <2>1
  <2>. QED BY <2>1, <2>2
<1>4. Adds(G, f, SUBSET T) 
  <2>1. \A s \in SUBSET T : G[s] = IF s = {} THEN 0 ELSE f[Pick(s)] + G[s \ {Pick(s)}] BY <1>3
  <2>. HIDE DEF G
  <2>2. G = [s \in SUBSET T |-> G[s]] BY DEF G
  <2>. QED BY <2>1, <2>2 DEF Adds
<1>5. SumFunctionOnSet(f, T) = (CHOOSE g : Adds(g, f, SUBSET T))[T] BY SumDef
<1>. DEFINE h == CHOOSE g : Adds(g, f, SUBSET T)
<1>. HIDE DEF G
<1>6. Adds(h, f, SUBSET T) BY <1>4
<1>. HIDE DEF h
<1>7. h[T] = G[T] BY <1>2, <1>4, <1>6, AddsUnique
<1>8. SumFunctionOnSet(f, T) = Value(T) BY <1>5, <1>7 DEF h, G
<1>. QED BY <1>8, <1>1

-----------------------------------------------------------------------------
\* Nothing adds up to 0.
LEMMA SumEmpty == ASSUME NEW f PROVE SumFunctionOnSet(f, {}) = 0
BY SumStep, FS_EmptySet

\* A sum of integers is an integer.
LEMMA SumInt ==
  ASSUME NEW S, IsFiniteSet(S), NEW f, \A x \in S : f[x] \in Int
  PROVE  SumFunctionOnSet(f, S) \in Int
<1>. DEFINE B == {T \in SUBSET S : SumFunctionOnSet(f, T) \notin Int}
<1>. SUFFICES ASSUME B # {} PROVE FALSE OBVIOUS
<1>1. PICK T \in B : \A U \in SUBSET T : U # T => U \notin B
  <2>1. B \subseteq SUBSET S OBVIOUS
  <2>. HIDE DEF B
  <2>. QED BY <2>1, SmallestSubset
<1>2. IsFiniteSet(T) BY FS_Subset
<1>3. T # {} BY SumEmpty
<1>. DEFINE U == T \ {Pick(T)}
<1>4. Pick(T) \in S /\ U \in SUBSET T /\ U # T /\ U \in SUBSET S BY <1>3, PickIn
<1>5. SumFunctionOnSet(f, U) \in Int BY <1>1, <1>4
<1>6. SumFunctionOnSet(f, T) = f[Pick(T)] + SumFunctionOnSet(f, U) BY <1>2, <1>3, SumStep
<1>. QED BY <1>4, <1>5, <1>6

\* Any element can be taken out, not just the one the definition takes.
LEMMA SumWithout ==
  ASSUME NEW S, IsFiniteSet(S), NEW f, \A x \in S : f[x] \in Int, NEW y \in S
  PROVE  SumFunctionOnSet(f, S) = f[y] + SumFunctionOnSet(f, S \ {y})
<1>. DEFINE Sum(T) == SumFunctionOnSet(f, T)
            B == {T \in SUBSET S : \E z \in T : Sum(T) # f[z] + Sum(T \ {z})}
<1>. SUFFICES ASSUME B # {} PROVE FALSE OBVIOUS
<1>1. PICK T \in B : \A U \in SUBSET T : U # T => U \notin B
  <2>1. B \subseteq SUBSET S OBVIOUS
  <2>. HIDE DEF B
  <2>. QED BY <2>1, SmallestSubset
<1>2. IsFiniteSet(T) /\ T \in SUBSET S BY FS_Subset
<1>3. PICK z \in T : Sum(T) # f[z] + Sum(T \ {z}) BY <1>1
<1>. DEFINE x == Pick(T)
<1>4. x \in T BY <1>3, PickIn
<1>5. Sum(T) = f[x] + Sum(T \ {x}) BY <1>2, <1>3, SumStep
<1>6. x # z BY <1>3, <1>5
<1>. DEFINE U == T \ {x, z}
<1>7. Sum(T \ {x}) = f[z] + Sum(U)
  <2>1. T \ {x} \notin B /\ T \ {x} \in SUBSET S /\ z \in T \ {x} BY <1>1, <1>2, <1>4, <1>6
  <2>2. (T \ {x}) \ {z} = U OBVIOUS
  <2>. QED BY <2>1, <2>2
<1>8. Sum(T \ {z}) = f[x] + Sum(U)
  <2>1. T \ {z} \notin B /\ T \ {z} \in SUBSET S /\ x \in T \ {z} BY <1>1, <1>2, <1>4, <1>6
  <2>2. (T \ {z}) \ {x} = U OBVIOUS
  <2>. QED BY <2>1, <2>2
<1>9. Sum(U) \in Int /\ f[x] \in Int /\ f[z] \in Int
  <2>1. IsFiniteSet(U) BY <1>2, FS_Subset
  <2>2. \A v \in U : f[v] \in Int BY <1>2
  <2>. HIDE DEF U
  <2>3. Sum(U) \in Int BY <2>1, <2>2, SumInt
  <2>. QED BY <1>2, <1>4, <2>3
<1>. HIDE DEF x, U, Sum
<1>. QED BY <1>3, <1>5, <1>7, <1>8, <1>9

\* An element can be put in.
LEMMA SumWith ==
  ASSUME NEW S, IsFiniteSet(S), NEW f, NEW y, \A x \in S \cup {y} : f[x] \in Int, y \notin S
  PROVE  SumFunctionOnSet(f, S \cup {y}) = f[y] + SumFunctionOnSet(f, S)
<1>1. IsFiniteSet(S \cup {y}) BY FS_AddElement
<1>2. (S \cup {y}) \ {y} = S OBVIOUS
<1>. QED BY <1>1, <1>2, SumWithout

-----------------------------------------------------------------------------
\* What holds of the empty set, and goes on holding when an element is put in,
\* holds of every subset of a finite set.
LEMMA SubsetInduction ==
  ASSUME NEW S, IsFiniteSet(S), NEW G,
         {} \in G, \A T \in G : \A x \in S \ T : T \in SUBSET S => T \cup {x} \in G
  PROVE  \A T \in SUBSET S : T \in G
<1>. DEFINE B == {T \in SUBSET S : T \notin G}
<1>. SUFFICES ASSUME B # {} PROVE FALSE OBVIOUS
<1>1. PICK T \in B : \A U \in SUBSET T : U # T => U \notin B
  <2>1. B \subseteq SUBSET S OBVIOUS
  <2>. HIDE DEF B
  <2>. QED BY <2>1, SmallestSubset
<1>2. PICK x \in T : TRUE OBVIOUS
<1>3. T \ {x} \in G /\ x \in S \ (T \ {x}) /\ T \ {x} \in SUBSET S BY <1>1, <1>2
<1>4. T = (T \ {x}) \cup {x} BY <1>2
<1>. QED BY <1>3, <1>4

\* The sum depends on the values at the set alone.
LEMMA SumSame ==
  ASSUME NEW S, IsFiniteSet(S), NEW f, NEW g, \A x \in S : f[x] \in Int /\ g[x] = f[x]
  PROVE  SumFunctionOnSet(g, S) = SumFunctionOnSet(f, S)
<1>. DEFINE G == {T \in SUBSET S : SumFunctionOnSet(g, T) = SumFunctionOnSet(f, T)}
<1>1. {} \in G BY SumEmpty
<1>2. ASSUME NEW T \in G, NEW x \in S \ T PROVE T \cup {x} \in G
  <2>1. IsFiniteSet(T) BY FS_Subset
  <2>2. SumFunctionOnSet(f, T \cup {x}) = f[x] + SumFunctionOnSet(f, T) BY <2>1, SumWith
  <2>3. SumFunctionOnSet(g, T \cup {x}) = g[x] + SumFunctionOnSet(g, T) BY <2>1, SumWith
  <2>. QED BY <2>2, <2>3
<1>. HIDE DEF G
<1>3. S \in G BY <1>1, <1>2, SubsetInduction
<1>. QED BY <1>3 DEF G

\* The sum of sums.
LEMMA SumPlus ==
  ASSUME NEW S, IsFiniteSet(S), NEW f, NEW g, NEW h,
         \A x \in S : f[x] \in Int /\ g[x] \in Int /\ h[x] = f[x] + g[x]
  PROVE  SumFunctionOnSet(h, S) = SumFunctionOnSet(f, S) + SumFunctionOnSet(g, S)
<1>. DEFINE G == {T \in SUBSET S : SumFunctionOnSet(h, T) = SumFunctionOnSet(f, T) + SumFunctionOnSet(g, T)}
<1>1. {} \in G BY SumEmpty
<1>2. ASSUME NEW T \in G, NEW x \in S \ T PROVE T \cup {x} \in G
  <2>1. IsFiniteSet(T) BY FS_Subset
  <2>2. SumFunctionOnSet(f, T \cup {x}) = f[x] + SumFunctionOnSet(f, T) BY <2>1, SumWith
  <2>3. SumFunctionOnSet(g, T \cup {x}) = g[x] + SumFunctionOnSet(g, T) BY <2>1, SumWith
  <2>4. SumFunctionOnSet(h, T \cup {x}) = h[x] + SumFunctionOnSet(h, T)
    <3>1. \A y \in T \cup {x} : h[y] \in Int OBVIOUS
    <3>. QED BY <2>1, <3>1, SumWith
  <2>5. SumFunctionOnSet(f, T) \in Int /\ SumFunctionOnSet(g, T) \in Int BY <2>1, SumInt
  <2>. QED BY <2>2, <2>3, <2>4, <2>5
<1>. HIDE DEF G
<1>3. S \in G BY <1>1, <1>2, SubsetInduction
<1>. QED BY <1>3 DEF G

\* A factor comes out of a sum.
LEMMA SumTimes ==
  ASSUME NEW S, IsFiniteSet(S), NEW c \in Int, NEW f, NEW g,
         \A x \in S : f[x] \in Int /\ g[x] = c * f[x]
  PROVE  SumFunctionOnSet(g, S) = c * SumFunctionOnSet(f, S)
<1>. DEFINE G == {T \in SUBSET S : SumFunctionOnSet(g, T) = c * SumFunctionOnSet(f, T)}
<1>1. {} \in G BY SumEmpty
<1>2. ASSUME NEW T \in G, NEW x \in S \ T PROVE T \cup {x} \in G
  <2>1. IsFiniteSet(T) BY FS_Subset
  <2>2. \A y \in T \cup {x} : f[y] \in Int /\ g[y] = c * f[y] OBVIOUS
  <2>3. \A y \in T \cup {x} : g[y] \in Int BY <2>2
  <2>4. SumFunctionOnSet(f, T \cup {x}) = f[x] + SumFunctionOnSet(f, T) BY <2>1, <2>2, SumWith
  <2>5. SumFunctionOnSet(g, T \cup {x}) = g[x] + SumFunctionOnSet(g, T) BY <2>1, <2>3, SumWith
  <2>6. SumFunctionOnSet(f, T) \in Int BY <2>1, <2>2, SumInt
  <2>7. SumFunctionOnSet(g, T) = c * SumFunctionOnSet(f, T) /\ f[x] \in Int /\ g[x] = c * f[x]
    OBVIOUS
  <2>8. SumFunctionOnSet(g, T \cup {x}) = c * SumFunctionOnSet(f, T \cup {x})
    BY <2>4, <2>5, <2>6, <2>7
  <2>. QED BY <2>8
<1>. HIDE DEF G
<1>3. S \in G BY <1>1, <1>2, SubsetInduction
<1>. QED BY <1>3 DEF G

\* A sum of smaller values is smaller.
LEMMA SumAtMost ==
  ASSUME NEW S, IsFiniteSet(S), NEW f, NEW g,
         \A x \in S : f[x] \in Int /\ g[x] \in Int /\ f[x] <= g[x]
  PROVE  SumFunctionOnSet(f, S) <= SumFunctionOnSet(g, S)
<1>. DEFINE G == {T \in SUBSET S : SumFunctionOnSet(f, T) <= SumFunctionOnSet(g, T)}
<1>1. {} \in G BY SumEmpty
<1>2. ASSUME NEW T \in G, NEW x \in S \ T PROVE T \cup {x} \in G
  <2>1. IsFiniteSet(T) BY FS_Subset
  <2>2. SumFunctionOnSet(f, T \cup {x}) = f[x] + SumFunctionOnSet(f, T) BY <2>1, SumWith
  <2>3. SumFunctionOnSet(g, T \cup {x}) = g[x] + SumFunctionOnSet(g, T) BY <2>1, SumWith
  <2>4. SumFunctionOnSet(f, T) \in Int /\ SumFunctionOnSet(g, T) \in Int BY <2>1, SumInt
  <2>. QED BY <2>2, <2>3, <2>4
<1>. HIDE DEF G
<1>3. S \in G BY <1>1, <1>2, SubsetInduction
<1>. QED BY <1>3 DEF G

\* Ones add up to how many there are,
LEMMA SumOnes ==
  ASSUME NEW S, IsFiniteSet(S), NEW f, \A x \in S : f[x] = 1
  PROVE  SumFunctionOnSet(f, S) = Cardinality(S)
<1>. DEFINE G == {T \in SUBSET S : SumFunctionOnSet(f, T) = Cardinality(T)}
<1>1. {} \in G BY SumEmpty, FS_EmptySet
<1>2. ASSUME NEW T \in G, NEW x \in S \ T PROVE T \cup {x} \in G
  <2>1. IsFiniteSet(T) BY FS_Subset
  <2>2. SumFunctionOnSet(f, T \cup {x}) = f[x] + SumFunctionOnSet(f, T)
    <3>1. \A y \in T \cup {x} : f[y] \in Int OBVIOUS
    <3>. QED BY <2>1, <3>1, SumWith
  <2>3. Cardinality(T \cup {x}) = Cardinality(T) + 1 /\ Cardinality(T) \in Nat
    BY <2>1, FS_AddElement, FS_CardinalityType
  <2>. QED BY <2>2, <2>3
<1>. HIDE DEF G
<1>3. S \in G BY <1>1, <1>2, SubsetInduction
<1>. QED BY <1>3 DEF G

\* and zeros to 0.
LEMMA SumZero ==
  ASSUME NEW S, IsFiniteSet(S), NEW f, \A x \in S : f[x] = 0
  PROVE  SumFunctionOnSet(f, S) = 0
<1>. DEFINE G == {T \in SUBSET S : SumFunctionOnSet(f, T) = 0}
<1>1. {} \in G BY SumEmpty
<1>2. ASSUME NEW T \in G, NEW x \in S \ T PROVE T \cup {x} \in G
  <2>1. IsFiniteSet(T) BY FS_Subset
  <2>2. SumFunctionOnSet(f, T \cup {x}) = f[x] + SumFunctionOnSet(f, T)
    <3>1. \A y \in T \cup {x} : f[y] \in Int OBVIOUS
    <3>. QED BY <2>1, <3>1, SumWith
  <2>. QED BY <2>2
<1>. HIDE DEF G
<1>3. S \in G BY <1>1, <1>2, SubsetInduction
<1>. QED BY <1>3 DEF G

\* A sum of natural numbers is one.
LEMMA SumNat ==
  ASSUME NEW S, IsFiniteSet(S), NEW f, \A x \in S : f[x] \in Nat
  PROVE  SumFunctionOnSet(f, S) \in Nat
<1>. DEFINE z == [x \in S |-> 0]
<1>1. SumFunctionOnSet(z, S) = 0 BY SumZero
<1>2. \A x \in S : z[x] \in Int /\ z[x] <= f[x] OBVIOUS
<1>. HIDE DEF z
<1>3. SumFunctionOnSet(z, S) <= SumFunctionOnSet(f, S) BY <1>2, SumAtMost
<1>4. SumFunctionOnSet(f, S) \in Int BY SumInt
<1>. QED BY <1>1, <1>3, <1>4

\* The sum over two sets that share nothing.
LEMMA SumUnion ==
  ASSUME NEW S, NEW T, IsFiniteSet(S), IsFiniteSet(T), S \cap T = {},
         NEW f, \A x \in S \cup T : f[x] \in Int
  PROVE  SumFunctionOnSet(f, S \cup T) = SumFunctionOnSet(f, S) + SumFunctionOnSet(f, T)
<1>. DEFINE G == {U \in SUBSET T : SumFunctionOnSet(f, S \cup U)
                                   = SumFunctionOnSet(f, S) + SumFunctionOnSet(f, U)}
<1>1. {} \in G
  <2>1. S \cup {} = S /\ SumFunctionOnSet(f, S) \in Int BY SumInt
  <2>. QED BY <2>1, SumEmpty
<1>2. ASSUME NEW U \in G, NEW x \in T \ U PROVE U \cup {x} \in G
  <2>1. IsFiniteSet(U) /\ IsFiniteSet(S \cup U) BY FS_Subset, FS_Union
  <2>2. SumFunctionOnSet(f, U \cup {x}) = f[x] + SumFunctionOnSet(f, U) BY <2>1, SumWith
  <2>3. SumFunctionOnSet(f, S \cup (U \cup {x})) = f[x] + SumFunctionOnSet(f, S \cup U)
    <3>1. SumFunctionOnSet(f, (S \cup U) \cup {x}) = f[x] + SumFunctionOnSet(f, S \cup U)
      BY <2>1, SumWith
    <3>2. (S \cup U) \cup {x} = S \cup (U \cup {x}) OBVIOUS
    <3>. QED BY <3>1, <3>2
  <2>4. SumFunctionOnSet(f, S) \in Int BY SumInt
  <2>5. SumFunctionOnSet(f, U) \in Int BY <2>1, SumInt
  <2>6. SumFunctionOnSet(f, S \cup U) = SumFunctionOnSet(f, S) + SumFunctionOnSet(f, U) OBVIOUS
  <2>7. f[x] \in Int OBVIOUS
  <2>8. SumFunctionOnSet(f, S \cup (U \cup {x}))
          = SumFunctionOnSet(f, S) + SumFunctionOnSet(f, U \cup {x})
    BY <2>2, <2>3, <2>4, <2>5, <2>6, <2>7
  <2>9. U \cup {x} \in SUBSET T OBVIOUS
  <2>. QED BY <2>8, <2>9
<1>. HIDE DEF G
<1>3. T \in G BY <1>1, <1>2, SubsetInduction
<1>. QED BY <1>3 DEF G

\* h[d] is the sum of f over the members of S with key d.
ByKey(S, f, D, key, h) ==
  /\ \A x \in S : key[x] \in D
  /\ \A d \in D : h[d] = SumFunctionOnSet(f, {x \in S : key[x] = d})

\* Summing key by key gives the same sum.
LEMMA SumByKey ==
  ASSUME NEW S, IsFiniteSet(S), NEW f, \A x \in S : f[x] \in Int,
         NEW D, IsFiniteSet(D), NEW key, NEW h, ByKey(S, f, D, key, h)
  PROVE  SumFunctionOnSet(f, S) = SumFunctionOnSet(h, D)
<1>. USE DEF ByKey
<1>. DEFINE Over(E) == {x \in S : key[x] \in E}
            G == {E \in SUBSET D : SumFunctionOnSet(f, Over(E)) = SumFunctionOnSet(h, E)}
<1>1. {} \in G
  <2>1. Over({}) = {} OBVIOUS
  <2>. QED BY <2>1, SumEmpty
<1>2. ASSUME NEW E \in G, NEW d \in D \ E PROVE E \cup {d} \in G
  <2>. DEFINE At == {x \in S : key[x] = d}
  <2>1. Over(E \cup {d}) = Over(E) \cup At /\ Over(E) \cap At = {} OBVIOUS
  <2>2. IsFiniteSet(Over(E)) /\ IsFiniteSet(At) /\ IsFiniteSet(E)
    <3>1. Over(E) \in SUBSET S /\ At \in SUBSET S /\ E \in SUBSET D OBVIOUS
    <3>. QED BY <3>1, FS_Subset
  <2>3. \A x \in Over(E) \cup At : f[x] \in Int OBVIOUS
  <2>4. \A e \in E \cup {d} : h[e] \in Int
    <3>1. ASSUME NEW e \in D PROVE SumFunctionOnSet(f, {x \in S : key[x] = e}) \in Int
      <4>. DEFINE W == {x \in S : key[x] = e}
      <4>1. W \in SUBSET S /\ \A x \in W : f[x] \in Int OBVIOUS
      <4>2. IsFiniteSet(W) BY <4>1, FS_Subset
      <4>. HIDE DEF W
      <4>3. SumFunctionOnSet(f, W) \in Int BY <4>1, <4>2, SumInt
      <4>. QED BY <4>3 DEF W
    <3>. QED BY <3>1
  <2>5. SumFunctionOnSet(h, E \cup {d}) = h[d] + SumFunctionOnSet(h, E) BY <2>2, <2>4, SumWith
  <2>6. h[d] = SumFunctionOnSet(f, At) OBVIOUS
  <2>7. SumFunctionOnSet(f, Over(E)) = SumFunctionOnSet(h, E) OBVIOUS
  <2>. HIDE DEF At, Over
  <2>8. SumFunctionOnSet(f, Over(E) \cup At)
          = SumFunctionOnSet(f, Over(E)) + SumFunctionOnSet(f, At)
    BY <2>1, <2>2, <2>3, SumUnion
  <2>9. SumFunctionOnSet(f, Over(E)) \in Int /\ SumFunctionOnSet(f, At) \in Int
    BY <2>2, <2>3, SumInt
  <2>10. SumFunctionOnSet(f, Over(E \cup {d})) = SumFunctionOnSet(h, E \cup {d})
    BY <2>1, <2>5, <2>6, <2>7, <2>8, <2>9
  <2>. QED BY <2>10
<1>. HIDE DEF G
<1>3. D \in G BY <1>1, <1>2, SubsetInduction
<1>4. Over(D) = S OBVIOUS
<1>. QED BY <1>3, <1>4 DEF G

\* to maps S one to one onto W, and g to f.
Renames(S, W, f, g, to, back) ==
  /\ \A x \in S : to[x] \in W /\ back[to[x]] = x /\ g[x] \in Int /\ f[to[x]] = g[x]
  /\ \A w \in W : back[w] \in S /\ to[back[w]] = w

\* A sum does not depend on what its places are called.
LEMMA SumRenamed ==
  ASSUME NEW S, IsFiniteSet(S), NEW W, IsFiniteSet(W), NEW f, NEW g, NEW to, NEW back,
         Renames(S, W, f, g, to, back)
  PROVE  SumFunctionOnSet(f, W) = SumFunctionOnSet(g, S)
<1>. DEFINE At(T) == {w \in W : \E x \in T : to[x] = w}
            G == {T \in SUBSET S : SumFunctionOnSet(f, At(T)) = SumFunctionOnSet(g, T)}
<1>. USE DEF Renames
<1>1. {} \in G
  <2>1. At({}) = {} OBVIOUS
  <2>. QED BY <2>1, SumEmpty
<1>2. ASSUME NEW T \in G, NEW x \in S \ T PROVE T \cup {x} \in G
  <2>1. IsFiniteSet(T) BY FS_Subset
  <2>2. At(T \cup {x}) = At(T) \cup {to[x]} /\ to[x] \notin At(T) OBVIOUS
  <2>3. IsFiniteSet(At(T)) BY FS_Subset
  <2>4. \A y \in At(T) \cup {to[x]} : f[y] \in Int OBVIOUS
  <2>5. SumFunctionOnSet(g, T \cup {x}) = g[x] + SumFunctionOnSet(g, T) BY <2>1, SumWith
  <2>6. f[to[x]] = g[x] /\ SumFunctionOnSet(f, At(T)) = SumFunctionOnSet(g, T) OBVIOUS
  <2>. HIDE DEF At
  <2>7. SumFunctionOnSet(f, At(T) \cup {to[x]}) = f[to[x]] + SumFunctionOnSet(f, At(T))
    BY <2>2, <2>3, <2>4, SumWith
  <2>8. SumFunctionOnSet(f, At(T \cup {x})) = SumFunctionOnSet(g, T \cup {x})
    BY <2>2, <2>5, <2>6, <2>7
  <2>. QED BY <2>8
<1>. HIDE DEF G
<1>3. S \in G BY <1>1, <1>2, SubsetInduction
<1>4. At(S) = W OBVIOUS
<1>. QED BY <1>3, <1>4 DEF G

\* A sequence with one value more,
LEMMA SumAppend ==
  ASSUME NEW n \in Nat, NEW f, NEW g, DOMAIN f = 1..n, DOMAIN g = 1..(n + 1),
         \A k \in 1..n : f[k] \in Int /\ g[k] = f[k], g[n + 1] \in Int
  PROVE  SumFunction(g) = SumFunction(f) + g[n + 1]
<1>1. IsFiniteSet(1..n) BY FS_Interval
<1>2. 1..(n + 1) = (1..n) \cup {n + 1} /\ n + 1 \notin 1..n OBVIOUS
<1>3. SumFunctionOnSet(g, (1..n) \cup {n + 1}) = g[n + 1] + SumFunctionOnSet(g, 1..n)
  <2>1. \A k \in (1..n) \cup {n + 1} : g[k] \in Int OBVIOUS
  <2>. QED BY <1>1, <1>2, <2>1, SumWith
<1>4. SumFunctionOnSet(g, 1..n) = SumFunctionOnSet(f, 1..n) BY <1>1, SumSame
<1>5. SumFunctionOnSet(f, 1..n) \in Int BY <1>1, SumInt
<1>6. SumFunction(g) = SumFunctionOnSet(g, (1..n) \cup {n + 1}) BY <1>2 DEF SumFunction
<1>7. SumFunction(f) = SumFunctionOnSet(f, 1..n) BY DEF SumFunction
<1>. QED BY <1>3, <1>4, <1>5, <1>6, <1>7

\* and one without its first.
LEMMA SumTail ==
  ASSUME NEW n \in Nat, NEW f, NEW g, DOMAIN f = 1..(n + 1), DOMAIN g = 1..n,
         \A k \in 1..(n + 1) : f[k] \in Int, \A k \in 1..n : g[k] = f[k + 1]
  PROVE  SumFunction(f) = f[1] + SumFunction(g)
<1>. DEFINE to   == [k \in 1..n |-> k + 1]
            W    == (1..(n + 1)) \ {1}
            back == [w \in W |-> w - 1]
<1>1. IsFiniteSet(1..n) /\ IsFiniteSet(1..(n + 1)) BY FS_Interval
<1>2. IsFiniteSet(W) BY <1>1, FS_Subset
<1>3. SumFunctionOnSet(f, 1..(n + 1)) = f[1] + SumFunctionOnSet(f, W)
  BY <1>1, SumWithout
<1>4. Renames(1..n, W, f, g, to, back) BY DEF Renames
<1>. HIDE DEF to, back, W
<1>5. SumFunctionOnSet(f, W) = SumFunctionOnSet(g, 1..n) BY <1>1, <1>2, <1>4, SumRenamed
<1>. QED BY <1>3, <1>5 DEF SumFunction

\* One summand is changed; one of natural numbers is above zero.
LEMMA SumChange ==
  ASSUME NEW S, IsFiniteSet(S), NEW z \in S, NEW f, NEW g,
         \A x \in S : f[x] \in Int /\ g[x] \in Int, \A x \in S \ {z} : g[x] = f[x]
  PROVE  SumFunctionOnSet(g, S) = SumFunctionOnSet(f, S) + g[z] - f[z]
<1>. DEFINE U == S \ {z}
<1>1. IsFiniteSet(U) BY FS_Subset
<1>2. SumFunctionOnSet(g, S) = g[z] + SumFunctionOnSet(g, U) BY SumWithout
<1>3. SumFunctionOnSet(f, S) = f[z] + SumFunctionOnSet(f, U) BY SumWithout
<1>4. SumFunctionOnSet(g, U) = SumFunctionOnSet(f, U) BY <1>1, SumSame
<1>5. SumFunctionOnSet(f, U) \in Int BY <1>1, SumInt
<1>. QED BY <1>2, <1>3, <1>4, <1>5

LEMMA SumPositive ==
  ASSUME NEW S, IsFiniteSet(S), NEW z \in S, NEW f, \A x \in S : f[x] \in Nat, f[z] > 0
  PROVE  SumFunctionOnSet(f, S) > 0
<1>. DEFINE U == S \ {z}
<1>1. IsFiniteSet(U) BY FS_Subset
<1>2. SumFunctionOnSet(f, S) = f[z] + SumFunctionOnSet(f, U) BY SumWithout
<1>3. SumFunctionOnSet(f, U) \in Nat BY <1>1, SumNat
<1>. QED BY <1>2, <1>3
=============================================================================
