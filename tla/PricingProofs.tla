--------------------------- MODULE PricingProofs ---------------------------
(***************************************************************************)
(* Theorems about OrderPricing, for carts and lists of adjustments of any  *)
(* length: the loop of createOrder adds up, so that a subtotal is a sum;   *)
(* the one of calculateTotalAmount comes to within what its steps are off  *)
(* of a sum, which the column rounds; and what is known of sums, which do  *)
(* not know an order, bounds what the order of a list can do to a total.   *)
(***************************************************************************)
EXTENDS MCOrderPricing, SumProofs

(***************************************************************************)
(* A loop that adds.                                                       *)
(***************************************************************************)

\* The place FoldLeft comes to last.
LEMMA LastPlace ==
  ASSUME NEW n \in Nat, NEW s \in SUBSET (1..n), s # {}
  PROVE  Max(s) \in s
<1>. DEFINE G == {T \in SUBSET (1..n) : T # {} => \E x \in T : \A y \in T : x >= y}
<1>1. {} \in G OBVIOUS
<1>2. ASSUME NEW T \in G, NEW x \in (1..n) \ T PROVE T \cup {x} \in G
  <2>1. CASE T = {} BY <2>1
  <2>2. CASE T # {}
    <3>1. PICK m \in T : \A y \in T : m >= y BY <2>2
    <3>2. m \in 1..n /\ x \in 1..n /\ T \subseteq 1..n OBVIOUS
    <3>3. CASE x >= m
      <4>1. \A y \in T \cup {x} : x >= y BY <3>1, <3>2, <3>3
      <4>. QED BY <4>1
    <3>4. CASE ~(x >= m)
      <4>1. \A y \in T \cup {x} : m >= y BY <3>1, <3>2, <3>4
      <4>. QED BY <4>1, <3>1
    <3>. QED BY <3>3, <3>4
  <2>. QED BY <2>1, <2>2
<1>3. IsFiniteSet(1..n) BY FS_Interval
<1>. HIDE DEF G
<1>4. s \in G BY <1>1, <1>2, <1>3, SubsetInduction
<1>5. \E x \in s : \A y \in s : x >= y BY <1>4 DEF G
<1>. QED BY <1>5 DEF Max

\* g goes from place to place and adds the values of f to base.
Loops(g, f, base, n) ==
  g = [s \in SUBSET (1..n) |-> IF s = {} THEN base ELSE g[s \ {Max(s)}] + f[Max(s)]]

\* Such a loop gives the sum.
LEMMA LoopAdds ==
  ASSUME NEW n \in Nat, NEW base \in Int, NEW f, \A k \in 1..n : f[k] \in Int,
         NEW g, Loops(g, f, base, n)
  PROVE  g[1..n] = base + SumFunctionOnSet(f, 1..n)
<1>. DEFINE D == 1..n
            B == {s \in SUBSET D : g[s] # base + SumFunctionOnSet(f, s)}
<1>. SUFFICES ASSUME B # {} PROVE FALSE
  <2>. HIDE DEF D
  <2>1. D \in B \/ g[D] = base + SumFunctionOnSet(f, D) OBVIOUS
  <2>. HIDE DEF B
  <2>. QED BY <2>1 DEF D
<1>0. IsFiniteSet(1..n) BY FS_Interval
<1>1. PICK T \in B : \A U \in SUBSET T : U # T => U \notin B
  <2>1. B \subseteq SUBSET (1..n) OBVIOUS
  <2>. HIDE DEF B
  <2>. QED BY <1>0, <2>1, SmallestSubset
<1>2. T # {}
  <2>1. g[{}] = base BY DEF Loops
  <2>2. SumFunctionOnSet(f, {}) = 0 BY SumEmpty
  <2>. QED BY <2>1, <2>2
<1>. DEFINE m == Max(T)
            U == T \ {m}
<1>3. m \in T BY <1>2, LastPlace
<1>4. U \in SUBSET T /\ U # T /\ U \in SUBSET (1..n) /\ m \in 1..n BY <1>3
<1>5. g[U] = base + SumFunctionOnSet(f, U) BY <1>1, <1>4
<1>6. IsFiniteSet(T) /\ IsFiniteSet(U) BY <1>0, <1>4, FS_Subset
<1>7. SumFunctionOnSet(f, T) = f[m] + SumFunctionOnSet(f, U) BY <1>3, <1>6, SumWithout
<1>8. SumFunctionOnSet(f, U) \in Int /\ f[m] \in Int BY <1>4, <1>6, SumInt
<1>9. g[T] = g[U] + f[m] BY <1>2 DEF Loops
<1>10. g[T] = base + SumFunctionOnSet(f, T) BY <1>5, <1>7, <1>8, <1>9
<1>. QED BY <1>10

\* There is such a loop.
LEMMA LoopExists ==
  ASSUME NEW n \in Nat, NEW base \in Int, NEW f, \A k \in 1..n : f[k] \in Int
  PROVE  \E g : Loops(g, f, base, n)
<1>. DEFINE G == [s \in SUBSET (1..n) |-> base + SumFunctionOnSet(f, s)]
<1>1. ASSUME NEW s \in SUBSET (1..n)
      PROVE  G[s] = IF s = {} THEN base ELSE G[s \ {Max(s)}] + f[Max(s)]
  <2>1. CASE s = {}
    <3>1. G[s] = base + SumFunctionOnSet(f, s) OBVIOUS
    <3>2. SumFunctionOnSet(f, s) = 0 BY <2>1, SumEmpty
    <3>. HIDE DEF G
    <3>. QED BY <2>1, <3>1, <3>2
  <2>2. CASE s # {}
    <3>. DEFINE m == Max(s)
                U == s \ {m}
    <3>1. m \in s BY <2>2, LastPlace
    <3>0. IsFiniteSet(1..n) BY FS_Interval
    <3>2. IsFiniteSet(s) /\ IsFiniteSet(U) BY <3>0, FS_Subset
    <3>3. SumFunctionOnSet(f, s) = f[m] + SumFunctionOnSet(f, U) BY <3>1, <3>2, SumWithout
    <3>4. SumFunctionOnSet(f, U) \in Int /\ f[m] \in Int BY <3>1, <3>2, SumInt
    <3>5. G[s] = base + SumFunctionOnSet(f, s) /\ G[U] = base + SumFunctionOnSet(f, U) OBVIOUS
    <3>6. G[s] = G[U] + f[m] BY <3>3, <3>4, <3>5
    <3>. QED BY <2>2, <3>6
  <2>. QED BY <2>1, <2>2
<1>. HIDE DEF G
<1>2. G = [s \in SUBSET (1..n) |-> G[s]] BY DEF G
<1>3. G = [s \in SUBSET (1..n) |-> IF s = {} THEN base ELSE G[s \ {Max(s)}] + f[Max(s)]]
  BY <1>1, <1>2
<1>4. Loops(G, f, base, n) BY <1>3 DEF Loops
<1>. QED BY <1>4

-----------------------------------------------------------------------------
(***************************************************************************)
(* A loop on doubles.                                                      *)
(***************************************************************************)

\* What a sum can be that is within w of x.
Within(x, w) == (x - w)..(x + w)

\* g goes from place to place: what it has at one place it adds the values of f to, off by
\* what a step on doubles can be off.
Drifts(g, f, base, n) ==
  g = [s \in SUBSET (1..n) |->
         IF s = {} THEN Near(base) ELSE UNION {Near(x + f[Max(s)]) : x \in g[s \ {Max(s)}]}]

\* What the steps at the places s are off in all, with the one that began.
Drift(s) == (Cardinality(s) + 1) * Err

LEMMA DriftNat == ASSUME NEW s, IsFiniteSet(s) PROVE Drift(s) \in Nat
<1>1. Cardinality(s) \in Nat /\ Err \in Nat BY FS_CardinalityType, PricingAssumption
<1>2. (Cardinality(s) + 1) * Err \in Nat BY <1>1
<1>. QED BY <1>2 DEF Drift

LEMMA DriftGrows ==
  ASSUME NEW s, IsFiniteSet(s), NEW m \in s
  PROVE  Drift(s) = Drift(s \ {m}) + Err
<1>. DEFINE c == Cardinality(s \ {m})
<1>1. Cardinality(s) \in Nat /\ c = Cardinality(s) - 1 /\ Cardinality(s) # 0
  BY FS_RemoveElement, FS_CardinalityType, FS_EmptySet
<1>2. Err \in Nat BY PricingAssumption
<1>3. c \in Nat /\ Cardinality(s) = c + 1 BY <1>1
<1>. HIDE DEF c
<1>4. (c + 1 + 1) * Err = (c + 1) * Err + Err BY <1>2, <1>3
<1>. QED BY <1>3, <1>4 DEF Drift, c

\* One more step widens what the sum can be.
LEMMA Widened ==
  ASSUME NEW x \in Int, NEW w \in Nat, NEW v \in Int
  PROVE  UNION {Near(y + v) : y \in Within(x, w)} = Within(x + v, w + Err)
<1>. DEFINE W == Within(x, w)
            U == UNION {Near(y + v) : y \in W}
<1>1. Err \in Nat BY PricingAssumption
<1>2. ASSUME NEW z \in U PROVE z \in Within(x + v, w + Err)
  <2>1. PICK y \in W : z \in Near(y + v) OBVIOUS
  <2>2. y \in Int /\ x - w <= y /\ y <= x + w BY DEF Within
  <2>3. z \in Int /\ (y + v) - Err <= z /\ z <= (y + v) + Err BY <1>1, <2>1, <2>2 DEF Near
  <2>. QED BY <1>1, <2>2, <2>3 DEF Within
<1>3. ASSUME NEW z \in Within(x + v, w + Err) PROVE z \in U
  <2>1. z \in Int /\ (x + v) - (w + Err) <= z /\ z <= (x + v) + (w + Err)
    BY <1>1 DEF Within
  <2>. DEFINE y == IF z - v < x - w THEN x - w ELSE IF z - v > x + w THEN x + w ELSE z - v
  <2>2. y \in Int /\ x - w <= y /\ y <= x + w BY <2>1
  <2>3. (y + v) - Err <= z /\ z <= (y + v) + Err BY <1>1, <2>1
  <2>. HIDE DEF y
  <2>4. y \in W BY <2>2 DEF Within
  <2>5. z \in Near(y + v) BY <1>1, <2>1, <2>2, <2>3 DEF Near
  <2>. QED BY <2>4, <2>5
<1>. HIDE DEF U
<1>4. U \subseteq Within(x + v, w + Err) /\ Within(x + v, w + Err) \subseteq U BY <1>2, <1>3
<1>5. U = Within(x + v, w + Err) BY <1>4
<1>. QED BY <1>5 DEF U

\* Such a loop gives what is within the drift of the sum.
LEMMA DriftAdds ==
  ASSUME NEW n \in Nat, NEW base \in Int, NEW f, \A k \in 1..n : f[k] \in Int,
         NEW g, Drifts(g, f, base, n)
  PROVE  g[1..n] = Within(base + SumFunctionOnSet(f, 1..n), Drift(1..n))
<1>0. IsFiniteSet(1..n) BY FS_Interval
<1>. DEFINE D == 1..n
            W(s) == Within(base + SumFunctionOnSet(f, s), Drift(s))
            B == {s \in SUBSET D : g[s] # W(s)}
<1>. SUFFICES ASSUME B # {} PROVE FALSE
  <2>. HIDE DEF D, W
  <2>1. D \in B \/ g[D] = W(D) OBVIOUS
  <2>. HIDE DEF B
  <2>2. g[D] = W(D) BY <2>1
  <2>. QED BY <2>2 DEF D, W
<1>1. PICK T \in B : \A U \in SUBSET T : U # T => U \notin B
  <2>1. B \subseteq SUBSET (1..n) OBVIOUS
  <2>. HIDE DEF B
  <2>. QED BY <1>0, <2>1, SmallestSubset
<1>2. T # {}
  <2>1. g[{}] = Near(base) BY DEF Drifts
  <2>2. W({}) = Near(base)
    <3>1. SumFunctionOnSet(f, {}) = 0 /\ Cardinality({}) = 0 BY SumEmpty, FS_EmptySet
    <3>2. Drift({}) = Err BY <3>1, PricingAssumption DEF Drift
    <3>. QED BY <3>1, <3>2 DEF Within, Near
  <2>3. g[T] # W(T) OBVIOUS
  <2>. HIDE DEF W
  <2>. QED BY <2>1, <2>2, <2>3
<1>. DEFINE m == Max(T)
            U == T \ {m}
<1>3. m \in T BY <1>2, LastPlace
<1>4. U \in SUBSET T /\ U # T /\ U \in SUBSET (1..n) /\ m \in 1..n BY <1>3
<1>5. g[U] = W(U) BY <1>1, <1>4
<1>6. IsFiniteSet(T) /\ IsFiniteSet(U) BY <1>0, <1>4, FS_Subset
<1>7. SumFunctionOnSet(f, T) = f[m] + SumFunctionOnSet(f, U) BY <1>3, <1>6, SumWithout
<1>8. SumFunctionOnSet(f, U) \in Int /\ f[m] \in Int BY <1>4, <1>6, SumInt
<1>9. g[T] = UNION {Near(x + f[m]) : x \in g[U]} BY <1>2 DEF Drifts
<1>10. g[T] = W(T)
  <2>1. Drift(T) = Drift(U) + Err /\ Drift(U) \in Nat BY <1>3, <1>6, DriftGrows, DriftNat
  <2>. DEFINE x == base + SumFunctionOnSet(f, U)
  <2>2. x \in Int /\ base + SumFunctionOnSet(f, T) = x + f[m] BY <1>7, <1>8
  <2>3. g[U] = Within(x, Drift(U)) BY <1>5
  <2>. HIDE DEF x, U, m
  <2>4. g[T] = Within(x + f[m], Drift(U) + Err) BY <1>8, <1>9, <2>1, <2>2, <2>3, Widened
  <2>. QED BY <2>1, <2>2, <2>4
<1>11. g[T] # W(T) OBVIOUS
<1>. QED BY <1>10, <1>11

\* There is such a loop.
LEMMA DriftExists ==
  ASSUME NEW n \in Nat, NEW base \in Int, NEW f, \A k \in 1..n : f[k] \in Int
  PROVE  \E g : Drifts(g, f, base, n)
<1>. DEFINE G == [s \in SUBSET (1..n) |-> Within(base + SumFunctionOnSet(f, s), Drift(s))]
            Wider(s) == UNION {Near(x + f[Max(s)]) : x \in G[s \ {Max(s)}]}
<1>1. ASSUME NEW s \in SUBSET (1..n)
      PROVE  G[s] = IF s = {} THEN Near(base) ELSE Wider(s)
  <2>0. G[s] = Within(base + SumFunctionOnSet(f, s), Drift(s)) OBVIOUS
  <2>1. CASE s = {}
    <3>1. SumFunctionOnSet(f, {}) = 0 /\ Cardinality({}) = 0 BY SumEmpty, FS_EmptySet
    <3>2. Drift({}) = Err BY <3>1, PricingAssumption DEF Drift
    <3>3. Within(base + SumFunctionOnSet(f, {}), Drift({})) = Near(base)
      BY <3>1, <3>2 DEF Within, Near
    <3>. HIDE DEF G
    <3>. QED BY <2>0, <2>1, <3>3
  <2>2. CASE s # {}
    <3>. DEFINE m == Max(s)
                U == s \ {m}
                x == base + SumFunctionOnSet(f, U)
    <3>1. m \in s BY <2>2, LastPlace
    <3>2. IsFiniteSet(1..n) BY FS_Interval
    <3>3. IsFiniteSet(s) /\ IsFiniteSet(U) BY <3>2, FS_Subset
    <3>4. SumFunctionOnSet(f, s) = f[m] + SumFunctionOnSet(f, U) BY <3>1, <3>3, SumWithout
    <3>5. SumFunctionOnSet(f, U) \in Int /\ f[m] \in Int BY <3>1, <3>3, SumInt
    <3>6. Drift(s) = Drift(U) + Err /\ Drift(U) \in Nat BY <3>1, <3>3, DriftGrows, DriftNat
    <3>7. x \in Int /\ base + SumFunctionOnSet(f, s) = x + f[m] BY <3>4, <3>5
    <3>8. G[U] = Within(x, Drift(U)) OBVIOUS
    <3>. HIDE DEF G, x, U, m
    <3>9. UNION {Near(y + f[m]) : y \in G[U]} = G[s]
      <4>1. UNION {Near(y + f[m]) : y \in Within(x, Drift(U))} = Within(x + f[m], Drift(U) + Err)
        BY <3>5, <3>6, <3>7, Widened
      <4>2. G[s] = Within(x + f[m], Drift(U) + Err) BY <2>0, <3>6, <3>7
      <4>. QED BY <3>8, <4>1, <4>2
    <3>. QED BY <2>2, <3>9 DEF U, m
  <2>. HIDE DEF G, Wider
  <2>. QED BY <2>1, <2>2
<1>. HIDE DEF G
<1>2. G = [s \in SUBSET (1..n) |-> G[s]] BY DEF G
<1>3. G = [s \in SUBSET (1..n) |-> IF s = {} THEN Near(base) ELSE Wider(s)]
  <2>. HIDE DEF Wider
  <2>. QED BY <1>1, <1>2
<1>4. Drifts(G, f, base, n) BY <1>3 DEF Drifts
<1>. QED BY <1>4

-----------------------------------------------------------------------------
(***************************************************************************)
(* What the column makes of an amount.                                     *)
(***************************************************************************)

LEMMA TimesLess ==
  ASSUME NEW d \in Nat, d > 0, NEW x \in Int, NEW y \in Int, d * x < d * y
  PROVE  x < y
<1>. SUFFICES ASSUME ~(x < y) PROVE FALSE OBVIOUS
<1>1. PICK z \in Nat : x = y + z
  <2>1. x - y \in Nat /\ x = y + (x - y) OBVIOUS
  <2>. QED BY <2>1
<1>2. d * x = d * y + d * z BY <1>1
<1>3. d * z >= 0 OBVIOUS
<1>4. d * x \in Int /\ d * y \in Int /\ d * z \in Int OBVIOUS
<1>. QED BY <1>2, <1>3, <1>4

LEMMA Quotient ==
  ASSUME NEW a \in Int, NEW d \in Nat, d > 0
  PROVE  /\ a \div d \in Int
         /\ d * (a \div d) <= a /\ a < d * (a \div d) + d
  OBVIOUS

\* Division by a number keeps the order.
LEMMA QuotientGrows ==
  ASSUME NEW a \in Int, NEW b \in Int, a <= b, NEW d \in Nat, d > 0
  PROVE  a \div d <= b \div d
<1>. DEFINE p == a \div d
            q == b \div d
<1>1. p \in Int /\ q \in Int /\ d * p <= a /\ b < d * q + d BY Quotient
<1>. HIDE DEF p, q
<1>2. d * p \in Int /\ d * q \in Int /\ d * (q + 1) = d * q + d BY <1>1
<1>3. d * p < d * (q + 1) BY <1>1, <1>2
<1>4. p < q + 1 BY <1>1, <1>3, TimesLess
<1>. QED BY <1>1, <1>4 DEF p, q

\* The column is off by half a cent at most ...
LEMMA Rounding ==
  ASSUME NEW a \in Int
  PROVE  /\ ToCents(a) \in Int /\ Units(ToCents(a)) \in Int
         /\ -Scale <= 2 * (Units(ToCents(a)) - a) /\ 2 * (Units(ToCents(a)) - a) <= Scale
<1>. DEFINE s == Scale
            d == 2 * s
            up == (2 * a + s) \div d
            down == (s - 2 * a) \div d
<1>1. s \in Nat /\ s > 0 /\ d \in Nat /\ d > 0 BY MoneyAssumption
<1>2. up \in Int /\ d * up <= 2 * a + s /\ 2 * a + s < d * up + d
  <2>. HIDE DEF d, s
  <2>. QED BY <1>1, Quotient
<1>3. down \in Int /\ d * down <= s - 2 * a /\ s - 2 * a < d * down + d
  <2>. HIDE DEF d, s
  <2>. QED BY <1>1, Quotient
<1>4. CASE a >= 0
  <2>1. ToCents(a) = up BY <1>4 DEF ToCents
  <2>. HIDE DEF s, up
  <2>2. d * up = 2 * (up * s) /\ up * s \in Int BY <1>1, <1>2
  <2>. HIDE DEF d
  <2>3. Units(ToCents(a)) = up * s BY <2>1 DEF Units, s
  <2>. QED BY <1>1, <1>2, <2>1, <2>2, <2>3 DEF s, d
<1>5. CASE ~(a >= 0)
  <2>1. ToCents(a) = -down BY <1>5 DEF ToCents
  <2>. HIDE DEF s, down
  <2>2. d * down = 2 * (down * s) /\ down * s \in Int /\ (-down) * s = -(down * s) BY <1>1, <1>3
  <2>. HIDE DEF d
  <2>3. Units(ToCents(a)) = -(down * s) BY <2>1, <2>2 DEF Units, s
  <2>. QED BY <1>1, <1>3, <2>1, <2>2, <2>3 DEF s, d
<1>. QED BY <1>4, <1>5

\* ... and keeps the order of two amounts.
LEMMA RoundingGrows ==
  ASSUME NEW a \in Int, NEW b \in Int, a <= b
  PROVE  ToCents(a) <= ToCents(b)
<1>. DEFINE s == Scale
            d == 2 * s
            up(x) == (2 * x + s) \div d
            down(x) == (s - 2 * x) \div d
<1>1. s \in Nat /\ s > 0 /\ d \in Nat /\ d > 0 BY MoneyAssumption
<1>2. ASSUME NEW x \in Int
      PROVE  ToCents(x) = IF x >= 0 THEN up(x) ELSE -down(x)
  BY DEF ToCents
<1>. HIDE DEF s, d
<1>3. up(a) \in Int /\ up(b) \in Int /\ down(a) \in Int /\ down(b) \in Int BY <1>1, Quotient
<1>4. CASE a >= 0
  <2>1. up(a) <= up(b) BY <1>1, QuotientGrows
  <2>2. b >= 0 BY <1>4
  <2>. HIDE DEF up, down
  <2>. QED BY <1>2, <1>4, <2>1, <2>2
<1>5. CASE ~(b >= 0)
  <2>1. down(b) <= down(a) BY <1>1, QuotientGrows
  <2>2. ~(a >= 0) BY <1>5
  <2>. HIDE DEF up, down
  <2>. QED BY <1>2, <1>3, <1>5, <2>1, <2>2
<1>6. CASE b >= 0 /\ ~(a >= 0)
  <2>1. 0 \div d = 0
    <3>1. 0 \div d \in Int /\ d * (0 \div d) <= 0 /\ 0 < d * (0 \div d) + d BY <1>1, Quotient
    <3>. DEFINE z == 0 \div d
    <3>. HIDE DEF z
    <3>2. z \in Int /\ d * z <= 0 /\ 0 < d * z + d /\ d * z \in Int BY <1>1, <3>1 DEF z
    <3>3. d * (z + 1) = d * z + d /\ d * 0 = 0 /\ d * 1 = d BY <1>1, <3>2
    <3>4. d * z < d * 1 /\ d * 0 < d * (z + 1) BY <1>1, <3>2, <3>3
    <3>5. z < 1 /\ 0 < z + 1 BY <1>1, <3>2, <3>4, TimesLess
    <3>. QED BY <3>2, <3>5 DEF z
  <2>2. 0 <= 2 * b + s /\ 0 <= s - 2 * a BY <1>1, <1>6
  <2>3. 0 <= up(b) /\ 0 <= down(a)
    <3>1. 0 \div d <= up(b) BY <1>1, <2>2, QuotientGrows
    <3>2. 0 \div d <= down(a) BY <1>1, <2>2, QuotientGrows
    <3>. QED BY <2>1, <3>1, <3>2
  <2>. HIDE DEF up, down
  <2>. QED BY <1>2, <1>3, <1>6, <2>3
<1>. QED BY <1>4, <1>5, <1>6

\* Two amounts that are both near one are stored at most a cent apart, and the same
\* where the column makes the same of all that is as near.
LEMMA CentApart ==
  ASSUME NEW e \in Int, NEW w \in Nat, 2 * w < Scale,
         NEW x \in Within(e, w), NEW y \in Within(e, w)
  PROVE  /\ ToCents(x) - ToCents(y) \in {-1, 0, 1}
         /\ ToCents(e - w) = ToCents(e + w) => ToCents(x) = ToCents(y)
<1>. DEFINE t == ToCents(x)
            u == ToCents(y)
<1>1. x \in Int /\ y \in Int /\ e - w <= x /\ x <= e + w /\ e - w <= y /\ y <= e + w
  BY DEF Within
<1>2. t \in Int /\ u \in Int BY <1>1, Rounding
<1>3. t - u \in {-1, 0, 1}
  <2>1. /\ Units(t) \in Int /\ -Scale <= 2 * (Units(t) - x) /\ 2 * (Units(t) - x) <= Scale
        /\ Units(u) \in Int /\ -Scale <= 2 * (Units(u) - y) /\ 2 * (Units(u) - y) <= Scale
    BY <1>1, Rounding
  <2>2. Scale \in Nat /\ Scale > 0 BY MoneyAssumption
  <2>. HIDE DEF t, u
  <2>3. Units(t) - Units(u) < 2 * Scale /\ Units(u) - Units(t) < 2 * Scale BY <1>1, <2>1, <2>2
  <2>4. /\ Units(t) = Scale * t /\ Units(u) = Scale * u
        /\ Scale * (u + 2) = Scale * u + 2 * Scale /\ Scale * (t + 2) = Scale * t + 2 * Scale
    BY <1>2, <2>2 DEF Units
  <2>5. Scale * t < Scale * (u + 2) /\ Scale * u < Scale * (t + 2)
    BY <2>1, <2>2, <2>3, <2>4
  <2>6. t < u + 2 /\ u < t + 2 BY <1>2, <2>2, <2>5, TimesLess
  <2>. QED BY <1>2, <2>6
<1>4. ASSUME ToCents(e - w) = ToCents(e + w) PROVE t = u
  <2>1. e - w \in Int /\ e + w \in Int OBVIOUS
  <2>2. /\ ToCents(e - w) <= t /\ t <= ToCents(e + w)
        /\ ToCents(e - w) <= u /\ u <= ToCents(e + w)
    BY <1>1, <2>1, RoundingGrows
  <2>3. ToCents(e - w) \in Int BY <2>1, Rounding
  <2>. HIDE DEF t, u
  <2>. QED BY <1>2, <1>4, <2>2, <2>3
<1>. QED BY <1>3, <1>4

-----------------------------------------------------------------------------
(***************************************************************************)
(* Subtotals and totals are sums.                                          *)
(***************************************************************************)

\* Carts and adjustments, of any prices, quantities, percentages and amounts.
AnyLine == [item : [price : Int, promoPrice : Int, hasPromo : BOOLEAN], quantity : Int]

AnyAdjustment ==
  [type : {"PERCENTAGE", "FIXED_AMOUNT"}, percentage : Int, fixedAmount : Int]

LinePrice(line) == UnitPrice(line.item) * line.quantity

\* What an adjustment adds to a subtotal, whatever the running total is.
Added(s, adj) == AdjustmentAmount(adj, s, 0)

Amounts(s, list) == [k \in DOMAIN list |-> Added(s, list[k])]

LEMMA TimesInt == ASSUME NEW a \in Int, NEW b \in Int PROVE a * b \in Int
  OBVIOUS

LEMMA LinePriceInt == ASSUME NEW line \in AnyLine PROVE LinePrice(line) \in Int
<1>1. UnitPrice(line.item) \in Int BY DEF UnitPrice, AnyLine
<1>2. line.quantity \in Int BY DEF AnyLine
<1>. QED BY <1>1, <1>2, TimesInt DEF LinePrice

LEMMA AddedInt ==
  ASSUME NEW s \in Int, NEW adj \in AnyAdjustment PROVE Added(s, adj) \in Int
<1>1. adj.percentage \in Int /\ adj.fixedAmount \in Int BY DEF AnyAdjustment
<1>2. s * adj.percentage \in Int BY <1>1, TimesInt
<1>. QED BY <1>1, <1>2 DEF Added, AdjustmentAmount

\* The loop over the lines of a cart.
LEMMA SubtotalIsSum ==
  ASSUME NEW c \in Seq(AnyLine)
  PROVE  Subtotal(c) = SumFunction([k \in DOMAIN c |-> LinePrice(c[k])])
<1>. DEFINE n == Len(c)
            f == [k \in DOMAIN c |-> LinePrice(c[k])]
            Body(g) == g = [s \in SUBSET DOMAIN c |->
                              IF s = {} THEN 0
                              ELSE g[s \ {Max(s)}] + UnitPrice(c[Max(s)].item) * c[Max(s)].quantity]
<1>1. Subtotal(c) = (CHOOSE g : Body(g))[DOMAIN c]
  BY DEF Subtotal, FoldLeft, MapThenFoldSet
<1>2. n \in Nat /\ DOMAIN c = 1..n OBVIOUS
<1>3. ASSUME NEW k \in 1..n PROVE f[k] \in Int /\ f[k] = UnitPrice(c[k].item) * c[k].quantity
  <2>1. c[k] \in AnyLine BY <1>2, <1>3
  <2>2. f[k] = LinePrice(c[k]) BY <1>2
  <2>. QED BY <2>1, <2>2, LinePriceInt DEF LinePrice
<1>. HIDE DEF n, f
<1>4. \A k \in 1..n : f[k] \in Int BY <1>3
<1>5. \A s \in SUBSET (1..n) : s # {} => Max(s) \in 1..n BY <1>2, LastPlace
<1>6. ASSUME NEW g PROVE Body(g) <=> Loops(g, f, 0, n)
  BY <1>2, <1>3, <1>5 DEF Loops
<1>. HIDE DEF Body
<1>7. \E g : Body(g)
  <2>1. n \in Nat /\ 0 \in Int BY <1>2
  <2>2. PICK h : Loops(h, f, 0, n) BY <1>4, <2>1, LoopExists
  <2>. QED BY <1>6, <2>2
<1>8. Loops(CHOOSE g : Body(g), f, 0, n) BY <1>6, <1>7
<1>9. (CHOOSE g : Body(g))[1..n] = 0 + SumFunctionOnSet(f, 1..n)
  BY <1>2, <1>4, <1>8, LoopAdds
<1>10. IsFiniteSet(1..n) BY <1>2, FS_Interval
<1>11. SumFunctionOnSet(f, 1..n) \in Int BY <1>4, <1>10, SumInt
<1>12. SumFunction(f) = SumFunctionOnSet(f, 1..n) BY <1>2 DEF SumFunction, f
<1>. QED BY <1>1, <1>2, <1>9, <1>11, <1>12 DEF f

\* What a list of adjustments makes of a subtotal, exactly, and the most that the doubles
\* are off it.
PriceOf(sub, list) == Units(sub) + SumFunction(Amounts(sub, list))
OffOf(list)        == (Len(list) + 1) * Err

\* The loop over the adjustments: each adds what it adds to the subtotal, not to the
\* running total, or so near to it as doubles come.
LEMMA SumsAre ==
  ASSUME NEW sub \in Int, NEW list \in Seq(AnyAdjustment)
  PROVE  /\ Sums(sub, list) = Within(PriceOf(sub, list), OffOf(list))
         /\ PriceOf(sub, list) \in Int /\ OffOf(list) \in Nat
<1>. DEFINE n == Len(list)
            f == Amounts(sub, list)
            base == Units(sub)
            Body(g) == g = [s \in SUBSET DOMAIN list |->
                              IF s = {} THEN Near(base)
                              ELSE UNION {Near(sum + AdjustmentAmount(list[Max(s)], sub, sum)) :
                                            sum \in g[s \ {Max(s)}]}]
<1>1. Sums(sub, list) = (CHOOSE g : Body(g))[DOMAIN list]
  BY DEF Sums, FoldLeft, MapThenFoldSet
<1>2. n \in Nat /\ DOMAIN list = 1..n OBVIOUS
<1>2a. base \in Int BY MoneyAssumption, TimesInt DEF Units
<1>3. ASSUME NEW k \in 1..n
      PROVE  f[k] \in Int /\ \A t : AdjustmentAmount(list[k], sub, t) = f[k]
  <2>1. list[k] \in AnyAdjustment BY <1>2, <1>3
  <2>2. f[k] = Added(sub, list[k]) BY <1>2 DEF Amounts
  <2>3. \A t : AdjustmentAmount(list[k], sub, t) = f[k] BY <2>2 DEF Added, AdjustmentAmount
  <2>. QED BY <2>1, <2>2, <2>3, AddedInt
<1>. HIDE DEF n, f, base
<1>4. \A k \in 1..n : f[k] \in Int BY <1>3
<1>5. \A s \in SUBSET (1..n) : s # {} => Max(s) \in 1..n BY <1>2, LastPlace
<1>6. ASSUME NEW g PROVE Body(g) <=> Drifts(g, f, base, n)
  <2>. DEFINE Coded(s) == UNION {Near(sum + AdjustmentAmount(list[Max(s)], sub, sum)) :
                                   sum \in g[s \ {Max(s)}]}
              Wider(s) == UNION {Near(x + f[Max(s)]) : x \in g[s \ {Max(s)}]}
  <2>1. ASSUME NEW s \in SUBSET (1..n), s # {} PROVE Coded(s) = Wider(s)
    <3>. DEFINE V == g[s \ {Max(s)}]
                A(t) == Near(t + AdjustmentAmount(list[Max(s)], sub, t))
                B(t) == Near(t + f[Max(s)])
    <3>1. \A t : AdjustmentAmount(list[Max(s)], sub, t) = f[Max(s)] BY <1>3, <1>5, <2>1
    <3>2. \A t : A(t) = B(t) BY <3>1
    <3>3. Coded(s) = UNION {A(t) : t \in V} /\ Wider(s) = UNION {B(t) : t \in V} OBVIOUS
    <3>. HIDE DEF A, B, V, Coded, Wider
    <3>4. {A(t) : t \in V} = {B(t) : t \in V} BY <3>2
    <3>. QED BY <3>3, <3>4
  <2>. HIDE DEF Coded, Wider
  <2>2. [s \in SUBSET (1..n) |-> IF s = {} THEN Near(base) ELSE Coded(s)]
          = [s \in SUBSET (1..n) |-> IF s = {} THEN Near(base) ELSE Wider(s)]
    BY <2>1
  <2>. QED BY <1>2, <2>2 DEF Drifts, Coded, Wider
<1>. HIDE DEF Body
<1>7. \E g : Body(g)
  <2>1. n \in Nat BY <1>2
  <2>2. PICK h : Drifts(h, f, base, n) BY <1>2a, <1>4, <2>1, DriftExists
  <2>. QED BY <1>6, <2>2
<1>8. Drifts(CHOOSE g : Body(g), f, base, n) BY <1>6, <1>7
<1>9. (CHOOSE g : Body(g))[1..n] = Within(base + SumFunctionOnSet(f, 1..n), Drift(1..n))
  BY <1>2, <1>2a, <1>4, <1>8, DriftAdds
<1>10. IsFiniteSet(1..n) BY <1>2, FS_Interval
<1>11. SumFunctionOnSet(f, 1..n) \in Int BY <1>4, <1>10, SumInt
<1>12. SumFunction(f) = SumFunctionOnSet(f, 1..n) BY <1>2 DEF SumFunction, f, Amounts
<1>13. Drift(1..n) = OffOf(list) /\ OffOf(list) \in Nat
  <2>1. Cardinality(1..n) = n
    <3>1. 1 \in Int /\ n \in Int /\ (1 > n => n = 0) /\ (1 <= n => n - 1 + 1 = n) BY <1>2
    <3>. QED BY <3>1, FS_Interval
  <2>. QED BY <1>10, <2>1, DriftNat DEF Drift, OffOf, n
<1>14. PriceOf(sub, list) = base + SumFunctionOnSet(f, 1..n)
  BY <1>12 DEF PriceOf, base, f
<1>. QED BY <1>1, <1>2, <1>2a, <1>9, <1>11, <1>13, <1>14

\* The percentages and the fixed amounts of a list, summed up by loops.
Percentages(list)  == [k \in DOMAIN list |-> PercentOf(list[k])]
FixedAmounts(list) == [k \in DOMAIN list |-> FixedOf(list[k])]

LEMMA PercentIsSum ==
  ASSUME adjustments \in Seq(AnyAdjustment)
  PROVE  PercentSum = SumFunction(Percentages(adjustments)) /\ PercentSum \in Int
<1>. DEFINE n == Len(adjustments)
            f == Percentages(adjustments)
            Body(g) == g = [s \in SUBSET DOMAIN adjustments |->
                              IF s = {} THEN 0
                              ELSE g[s \ {Max(s)}] + PercentOf(adjustments[Max(s)])]
<1>1. PercentSum = (CHOOSE g : Body(g))[DOMAIN adjustments]
  BY DEF PercentSum, FoldLeft, MapThenFoldSet
<1>2. n \in Nat /\ DOMAIN adjustments = 1..n OBVIOUS
<1>3. ASSUME NEW k \in 1..n PROVE f[k] \in Int /\ f[k] = PercentOf(adjustments[k])
  <2>1. adjustments[k] \in AnyAdjustment BY <1>2, <1>3
  <2>2. f[k] = PercentOf(adjustments[k]) BY <1>2 DEF Percentages
  <2>. QED BY <2>1, <2>2 DEF AnyAdjustment, PercentOf
<1>. HIDE DEF n, f
<1>4. \A k \in 1..n : f[k] \in Int BY <1>3
<1>5. \A s \in SUBSET (1..n) : s # {} => Max(s) \in 1..n BY <1>2, LastPlace
<1>6. ASSUME NEW g PROVE Body(g) <=> Loops(g, f, 0, n)
  BY <1>2, <1>3, <1>5 DEF Loops
<1>. HIDE DEF Body
<1>7. \E g : Body(g)
  <2>1. n \in Nat /\ 0 \in Int BY <1>2
  <2>2. PICK h : Loops(h, f, 0, n) BY <1>4, <2>1, LoopExists
  <2>. QED BY <1>6, <2>2
<1>8. Loops(CHOOSE g : Body(g), f, 0, n) BY <1>6, <1>7
<1>9. (CHOOSE g : Body(g))[1..n] = 0 + SumFunctionOnSet(f, 1..n)
  BY <1>2, <1>4, <1>8, LoopAdds
<1>10. IsFiniteSet(1..n) BY <1>2, FS_Interval
<1>11. SumFunctionOnSet(f, 1..n) \in Int BY <1>4, <1>10, SumInt
<1>12. SumFunction(f) = SumFunctionOnSet(f, 1..n) BY <1>2 DEF SumFunction, f, Percentages
<1>. QED BY <1>1, <1>2, <1>9, <1>11, <1>12 DEF f

LEMMA FixedIsSum ==
  ASSUME adjustments \in Seq(AnyAdjustment)
  PROVE  FixedSum = SumFunction(FixedAmounts(adjustments)) /\ FixedSum \in Int
<1>. DEFINE n == Len(adjustments)
            f == FixedAmounts(adjustments)
            Body(g) == g = [s \in SUBSET DOMAIN adjustments |->
                              IF s = {} THEN 0
                              ELSE g[s \ {Max(s)}] + FixedOf(adjustments[Max(s)])]
<1>1. FixedSum = (CHOOSE g : Body(g))[DOMAIN adjustments]
  BY DEF FixedSum, FoldLeft, MapThenFoldSet
<1>2. n \in Nat /\ DOMAIN adjustments = 1..n OBVIOUS
<1>3. ASSUME NEW k \in 1..n PROVE f[k] \in Int /\ f[k] = FixedOf(adjustments[k])
  <2>1. adjustments[k] \in AnyAdjustment BY <1>2, <1>3
  <2>2. f[k] = FixedOf(adjustments[k]) BY <1>2 DEF FixedAmounts
  <2>. QED BY <2>1, <2>2 DEF AnyAdjustment, FixedOf
<1>. HIDE DEF n, f
<1>4. \A k \in 1..n : f[k] \in Int BY <1>3
<1>5. \A s \in SUBSET (1..n) : s # {} => Max(s) \in 1..n BY <1>2, LastPlace
<1>6. ASSUME NEW g PROVE Body(g) <=> Loops(g, f, 0, n)
  BY <1>2, <1>3, <1>5 DEF Loops
<1>. HIDE DEF Body
<1>7. \E g : Body(g)
  <2>1. n \in Nat /\ 0 \in Int BY <1>2
  <2>2. PICK h : Loops(h, f, 0, n) BY <1>4, <2>1, LoopExists
  <2>. QED BY <1>6, <2>2
<1>8. Loops(CHOOSE g : Body(g), f, 0, n) BY <1>6, <1>7
<1>9. (CHOOSE g : Body(g))[1..n] = 0 + SumFunctionOnSet(f, 1..n)
  BY <1>2, <1>4, <1>8, LoopAdds
<1>10. IsFiniteSet(1..n) BY <1>2, FS_Interval
<1>11. SumFunctionOnSet(f, 1..n) \in Int BY <1>4, <1>10, SumInt
<1>12. SumFunction(f) = SumFunctionOnSet(f, 1..n) BY <1>2 DEF SumFunction, f, FixedAmounts
<1>. QED BY <1>1, <1>2, <1>9, <1>11, <1>12 DEF f

-----------------------------------------------------------------------------
(***************************************************************************)
(* The order of a list.                                                    *)
(***************************************************************************)

\* The list b is the list a in another order: the k-th of b is the to[k]-th of a.
Rearranges(b, a, to, back) ==
  /\ DOMAIN b = DOMAIN a
  /\ \A k \in DOMAIN a : /\ to[k] \in DOMAIN a /\ back[k] \in DOMAIN a
                         /\ back[to[k]] = k /\ to[back[k]] = k
                         /\ b[k] = a[to[k]]

\* A list in any order, b, and the list itself.
Listing(b, a) ==
  /\ a \in Seq(AnyAdjustment) /\ b \in Seq(AnyAdjustment)
  /\ \E to, back : Rearranges(b, a, to, back)

\* What is exact does not know the order.
LEMMA SamePrice ==
  ASSUME NEW sub \in Int, NEW a, NEW b, Listing(b, a)
  PROVE  PriceOf(sub, b) = PriceOf(sub, a) /\ OffOf(b) = OffOf(a)
<1>0. PICK to, back : Rearranges(b, a, to, back) BY DEF Listing
<1>. DEFINE f == Amounts(sub, a)
            g == Amounts(sub, b)
            D == DOMAIN a
<1>1. D = 1..Len(a) /\ Len(a) \in Nat /\ a \in Seq(AnyAdjustment) /\ b \in Seq(AnyAdjustment)
  BY DEF Listing
<1>2. IsFiniteSet(D) BY <1>1, FS_Interval
<1>3. DOMAIN b = D BY <1>0 DEF Rearranges
<1>4. ASSUME NEW k \in D
      PROVE  /\ to[k] \in D /\ back[k] \in D /\ back[to[k]] = k /\ to[back[k]] = k
             /\ g[k] \in Int /\ f[to[k]] = g[k]
  <2>1. to[k] \in D /\ back[k] \in D /\ back[to[k]] = k /\ to[back[k]] = k /\ b[k] = a[to[k]]
    BY <1>0, <1>4 DEF Rearranges
  <2>2. g[k] = Added(sub, b[k]) /\ f[to[k]] = Added(sub, a[to[k]])
    BY <1>3, <1>4, <2>1 DEF Amounts
  <2>3. b[k] \in AnyAdjustment BY <1>1, <1>3, <1>4
  <2>. QED BY <2>1, <2>2, <2>3, AddedInt
<1>5. SumFunction(f) = SumFunctionOnSet(f, D) /\ SumFunction(g) = SumFunctionOnSet(g, D)
  BY <1>3 DEF SumFunction, Amounts
<1>. HIDE DEF f, g, D
<1>6. Renames(D, D, f, g, to, back) BY <1>4 DEF Renames
<1>7. SumFunctionOnSet(f, D) = SumFunctionOnSet(g, D) BY <1>2, <1>6, SumRenamed
<1>8. Len(b) = Len(a)
  <2>1. Len(b) \in Nat /\ DOMAIN b = 1..Len(b) BY <1>1
  <2>2. 1..Len(b) = 1..Len(a) BY <1>1, <1>3, <2>1
  <2>. QED BY <1>1, <2>1, <2>2
<1>. QED BY <1>5, <1>7, <1>8 DEF f, g, PriceOf, OffOf

\* What is stored of a list in any order is what the column makes of an amount as near to
\* the exact price as the doubles come.
LEMMA StoredNear ==
  ASSUME NEW sub \in Int, NEW a, NEW b, Listing(b, a), NEW t \in TotalAmounts(sub, b)
  PROVE  \E x \in Within(PriceOf(sub, a), OffOf(a)) : t = ToCents(x)
<1>1. b \in Seq(AnyAdjustment) BY DEF Listing
<1>2. PICK x \in Sums(sub, b) : t = ToCents(x) BY DEF TotalAmounts
<1>. QED BY <1>1, <1>2, SumsAre, SamePrice

\* A list of adjustments may come in any order: whatever the adjustments are, two totals
\* that it can be stored with are at most a cent apart, if the doubles are off by less than
\* half a cent in all; and they are one and the same where no half cent is as near to the
\* exact price as the doubles can be off (order.service.ts, calculateTotalAmount).
THEOREM AnyOrderSameCent ==
  ASSUME NEW sub \in Int, NEW a, NEW b, NEW c, Listing(b, a), Listing(c, a),
         2 * OffOf(a) < Scale,
         NEW t \in TotalAmounts(sub, b), NEW u \in TotalAmounts(sub, c)
  PROVE  /\ t - u \in {-1, 0, 1}
         /\ ToCents(PriceOf(sub, a) - OffOf(a)) = ToCents(PriceOf(sub, a) + OffOf(a)) => t = u
<1>1. a \in Seq(AnyAdjustment) BY DEF Listing
<1>2. PriceOf(sub, a) \in Int /\ OffOf(a) \in Nat BY <1>1, SumsAre
<1>3. PICK x \in Within(PriceOf(sub, a), OffOf(a)) : t = ToCents(x) BY StoredNear
<1>4. PICK y \in Within(PriceOf(sub, a), OffOf(a)) : u = ToCents(y) BY StoredNear
<1>. QED BY <1>2, <1>3, <1>4, CentApart

\* The orders of the property: as the list stands, ...
LEMMA AsListed == ASSUME NEW a \in Seq(AnyAdjustment) PROVE Listing(a, a)
<1>. DEFINE to == [k \in DOMAIN a |-> k]
<1>1. Rearranges(a, a, to, to) BY DEF Rearranges
<1>. QED BY <1>1 DEF Listing

\* ... reversed ...
LEMMA Reversed == ASSUME NEW a \in Seq(AnyAdjustment) PROVE Listing(Reverse(a), a)
<1>. DEFINE n == Len(a)
            b == Reverse(a)
            to == [k \in 1..n |-> (n - k) + 1]
<1>1. n \in Nat /\ DOMAIN a = 1..n /\ \A k \in 1..n : a[k] \in AnyAdjustment OBVIOUS
<1>2. b = [k \in 1..n |-> a[(n - k) + 1]] BY DEF Reverse
<1>3. \A k \in 1..n : (n - k) + 1 \in 1..n BY <1>1
<1>. HIDE DEF n, b
<1>4. b \in Seq(AnyAdjustment) BY <1>1, <1>2, <1>3
<1>5. Rearranges(b, a, to, to) BY <1>1, <1>2, <1>3 DEF Rearranges
<1>. HIDE DEF to
<1>. QED BY <1>4, <1>5 DEF b, Listing

\* ... and rotated.
LEMMA Rotated ==
  ASSUME NEW a \in Seq(AnyAdjustment), NEW k \in 1..Len(a)
  PROVE  Listing(SubSeq(a, k, Len(a)) \o SubSeq(a, 1, k - 1), a)
<1>. DEFINE n == Len(a)
            b == SubSeq(a, k, n) \o SubSeq(a, 1, k - 1)
            to == [j \in 1..n |-> IF j <= n - k + 1 THEN j + k - 1 ELSE j - (n - k + 1)]
            back == [j \in 1..n |-> IF j >= k THEN j - k + 1 ELSE j + (n - k + 1)]
<1>1. n \in Nat /\ k \in 1..n /\ DOMAIN a = 1..n /\ \A j \in 1..n : a[j] \in AnyAdjustment OBVIOUS
<1>2. b \in Seq(AnyAdjustment) /\ Len(b) = n OBVIOUS
<1>3. \A j \in 1..n : /\ to[j] \in 1..n /\ back[j] \in 1..n
                      /\ back[to[j]] = j /\ to[back[j]] = j
  <2>. HIDE DEF n
  <2>1. TAKE j \in 1..n
  <2>2. back[to[j]] = j /\ to[j] \in 1..n
    <3>1. CASE j <= n - k + 1 BY <1>1, <3>1
    <3>2. CASE ~(j <= n - k + 1) BY <1>1, <3>2
    <3>. QED BY <3>1, <3>2
  <2>3. to[back[j]] = j /\ back[j] \in 1..n
    <3>1. CASE j >= k BY <1>1, <3>1
    <3>2. CASE ~(j >= k) BY <1>1, <3>2
    <3>. QED BY <3>1, <3>2
  <2>. QED BY <2>2, <2>3
<1>4. ASSUME NEW j \in 1..n PROVE b[j] = a[to[j]]
  <2>1. CASE j <= n - k + 1 BY <1>1, <2>1
  <2>2. CASE ~(j <= n - k + 1) BY <1>1, <2>2
  <2>. QED BY <2>1, <2>2
<1>5. DOMAIN b = 1..n BY <1>2
<1>. HIDE DEF n, b, to, back
<1>6. Rearranges(b, a, to, back) BY <1>1, <1>3, <1>4, <1>5 DEF Rearranges
<1>. QED BY <1>2, <1>6 DEF b, n, Listing

-----------------------------------------------------------------------------
(***************************************************************************)
(* A total is rounded once.                                                *)
(***************************************************************************)

\* An adjustment is a percentage of the subtotal or an amount, as its type says.
LEMMA AddedIs ==
  ASSUME NEW sub \in Int, NEW adj \in AnyAdjustment
  PROVE  /\ PercentOf(adj) \in Int /\ FixedOf(adj) \in Int
         /\ Added(sub, adj) = sub * PercentOf(adj) + FixedOf(adj)
<1>1. adj.percentage \in Int /\ adj.fixedAmount \in Int BY DEF AnyAdjustment
<1>2. CASE adj.type = "PERCENTAGE"
  <2>1. PercentOf(adj) = adj.percentage /\ FixedOf(adj) = 0 BY <1>2 DEF PercentOf, FixedOf
  <2>2. Added(sub, adj) = sub * adj.percentage BY <1>2 DEF Added, AdjustmentAmount
  <2>3. sub * adj.percentage \in Int BY <1>1, TimesInt
  <2>. QED BY <1>1, <2>1, <2>2, <2>3
<1>3. CASE adj.type # "PERCENTAGE"
  <2>1. PercentOf(adj) = 0 /\ FixedOf(adj) = adj.fixedAmount BY <1>3 DEF PercentOf, FixedOf
  <2>2. Added(sub, adj) = adj.fixedAmount BY <1>3 DEF Added, AdjustmentAmount
  <2>. QED BY <1>1, <2>1, <2>2
<1>. QED BY <1>2, <1>3

\* The exact price: the subtotal, one percentage of it and one amount.
LEMMA PriceIs ==
  ASSUME NEW sub \in Int, NEW list \in Seq(AnyAdjustment)
  PROVE  PriceOf(sub, list) = Units(sub) + sub * SumFunction(Percentages(list))
                                + SumFunction(FixedAmounts(list))
<1>. DEFINE D == DOMAIN list
            p == Percentages(list)
            a == FixedAmounts(list)
            f == Amounts(sub, list)
            sp == [k \in D |-> sub * p[k]]
<1>1. D = 1..Len(list) /\ Len(list) \in Nat OBVIOUS
<1>2. IsFiniteSet(D) BY <1>1, FS_Interval
<1>3. DOMAIN p = D /\ DOMAIN a = D /\ DOMAIN f = D BY DEF Percentages, FixedAmounts, Amounts
<1>4. ASSUME NEW k \in D
      PROVE  p[k] \in Int /\ a[k] \in Int /\ sp[k] \in Int /\ f[k] = sp[k] + a[k]
  <2>1. list[k] \in AnyAdjustment BY <1>4
  <2>2. p[k] = PercentOf(list[k]) /\ a[k] = FixedOf(list[k]) /\ f[k] = Added(sub, list[k])
    BY <1>4 DEF Percentages, FixedAmounts, Amounts
  <2>3. p[k] \in Int /\ a[k] \in Int BY <2>1, <2>2, AddedIs
  <2>4. sp[k] \in Int BY <2>3, TimesInt
  <2>. QED BY <2>1, <2>2, <2>3, <2>4, AddedIs
<1>5. \A k \in D : sp[k] = sub * p[k] OBVIOUS
<1>. HIDE DEF D, p, a, f, sp
<1>6. SumFunctionOnSet(sp, D) = sub * SumFunctionOnSet(p, D) BY <1>2, <1>4, <1>5, SumTimes
<1>7. SumFunctionOnSet(f, D) = SumFunctionOnSet(sp, D) + SumFunctionOnSet(a, D)
  BY <1>2, <1>4, SumPlus
<1>8. SumFunctionOnSet(p, D) \in Int /\ SumFunctionOnSet(a, D) \in Int BY <1>2, <1>4, SumInt
<1>9. sub * SumFunctionOnSet(p, D) \in Int BY <1>8, TimesInt
<1>10. Units(sub) \in Int BY MoneyAssumption, TimesInt DEF Units
<1>. QED BY <1>3, <1>6, <1>7, <1>8, <1>9, <1>10 DEF SumFunction, PriceOf, p, a, f

\* A total is never further than half a cent, and what the doubles are off, from the exact
\* price: the subtotal, the percentages of the subtotal and the fixed amounts, whatever
\* they are.
THEOREM RoundedOnce ==
  ASSUME NEW sub \in Int, NEW list \in Seq(AnyAdjustment), NEW t \in TotalAmounts(sub, list)
  PROVE  LET off == 2 * (Units(t) - PriceOf(sub, list))
         IN  -(Scale + 2 * OffOf(list)) <= off /\ off <= Scale + 2 * OffOf(list)
<1>1. PriceOf(sub, list) \in Int /\ OffOf(list) \in Nat BY SumsAre
<1>2. PICK x \in Within(PriceOf(sub, list), OffOf(list)) : t = ToCents(x) BY AsListed, StoredNear
<1>3. x \in Int /\ PriceOf(sub, list) - OffOf(list) <= x /\ x <= PriceOf(sub, list) + OffOf(list)
  BY <1>1, <1>2 DEF Within
<1>4. Units(t) \in Int /\ -Scale <= 2 * (Units(t) - x) /\ 2 * (Units(t) - x) <= Scale
  BY <1>2, <1>3, Rounding
<1>5. Scale \in Int BY MoneyAssumption
<1>. QED BY <1>1, <1>3, <1>4, <1>5

-----------------------------------------------------------------------------
(***************************************************************************)
(* The properties of the run.                                              *)
(***************************************************************************)

Typed == /\ cart \in Seq(AnyLine) /\ adjustments \in Seq(AnyAdjustment)
         /\ Len(adjustments) <= MaxAdjustments

LEMMA InputTypes ==
  /\ \A i \in Items, q \in 1..2 : [item |-> i, quantity |-> q] \in AnyLine
  /\ \A a \in Adjustments : a \in AnyAdjustment
<1>. DEFINE AnyItem == [price : Int, promoPrice : Int, hasPromo : BOOLEAN]
<1>1. \A i \in Items : i \in AnyItem
  <2>. DEFINE plain == Item(100, NoPromo, FALSE)
              off   == Item(1000, 800, FALSE)
              free  == Item(1000, 0, TRUE)
              void  == Item(1000, NoPromo, TRUE)
              odd   == Item(333, 199, TRUE)
  <2>1. NoPromo \in Int BY DEF NoPromo
  <2>2. plain \in AnyItem /\ off \in AnyItem /\ free \in AnyItem /\ void \in AnyItem /\ odd \in AnyItem
    BY <2>1 DEF Item
  <2>3. Items = {plain, off, free, void, odd} BY DEF Items
  <2>. HIDE DEF AnyItem, plain, off, free, void, odd
  <2>. QED BY <2>2, <2>3
<1>2. \A i \in Items, q \in 1..2 : [item |-> i, quantity |-> q] \in AnyLine BY <1>1 DEF AnyLine
<1>3. \A a \in Adjustments : a \in AnyAdjustment
  <2>. DEFINE s == Scale
              fine == s \div 100000
  <2>1. s \in Nat /\ s > 0 BY MoneyAssumption
  <2>2. fine \in Int /\ s \div 2 \in Int BY <2>1
  <2>3. \A p \in Int : Percent(p) \in AnyAdjustment
    <3>1. \A p \in Int : p * fine \in Int
      <4>. HIDE DEF fine
      <4>. QED BY <2>2, TimesInt
    <3>. QED BY <3>1 DEF Percent, AnyAdjustment
  <2>4. \A a \in Int : Units(a) \in Int /\ Fixed(a) \in AnyAdjustment
    <3>1. \A a \in Int : Units(a) \in Int BY <2>1, TimesInt DEF Units
    <3>. QED BY <3>1 DEF Fixed, AnyAdjustment
  <2>. DEFINE both == [type |-> "FIXED_AMOUNT", percentage |-> 5, fixedAmount |-> Units(2) + s \div 2]
  <2>5. both \in AnyAdjustment
    <3>1. Units(2) + s \div 2 \in Int BY <2>2, <2>4
    <3>. HIDE DEF s
    <3>. QED BY <3>1 DEF AnyAdjustment
  <2>6. /\ Percent(15000) \in AnyAdjustment /\ Percent(11500) \in AnyAdjustment
        /\ Percent(3333) \in AnyAdjustment /\ Percent(-50000) \in AnyAdjustment
        /\ Fixed(40) \in AnyAdjustment /\ Fixed(-400) \in AnyAdjustment
    BY <2>3, <2>4
  <2>. HIDE DEF both
  <2>. QED BY <2>5, <2>6 DEF Adjustments, both
<1>. QED BY <1>2, <1>3

\* The inputs of the run are carts and adjustments.
LEMMA Typing == Spec => []Typed
<1>1. Init => Typed BY ErrAssumption DEF Init, Typed
<1>2. Typed /\ [Next]_<<cart, adjustments>> => Typed'
  <2>. SUFFICES ASSUME Typed, [Next]_<<cart, adjustments>> PROVE Typed'
    OBVIOUS
  <2>1. CASE AddLine
    <3>1. PICK line \in AnyLine : cart' = Append(cart, line) /\ adjustments' = adjustments
      BY <2>1, InputTypes DEF AddLine
    <3>. QED BY <3>1 DEF Typed
  <2>2. CASE AddAdjustment
    <3>1. PICK a \in AnyAdjustment : adjustments' = Append(adjustments, a) /\ cart' = cart
      BY <2>2, InputTypes DEF AddAdjustment
    <3>2. Len(adjustments') = Len(adjustments) + 1 /\ Len(adjustments) \in Nat
      BY <3>1 DEF Typed
    <3>3. Len(adjustments') <= MaxAdjustments BY <2>2, <3>2, ErrAssumption DEF AddAdjustment
    <3>. QED BY <3>1, <3>3 DEF Typed
  <2>3. CASE UNCHANGED <<cart, adjustments>> BY <2>3 DEF Typed
  <2>. QED BY <2>1, <2>2, <2>3 DEF Next
<1>. QED BY <1>1, <1>2, PTL DEF Spec

LEMMA SubtotalInt == ASSUME Typed PROVE Subtotal(cart) \in Int
<1>. DEFINE f == [k \in DOMAIN cart |-> LinePrice(cart[k])]
<1>1. cart \in Seq(AnyLine) BY DEF Typed
<1>2. IsFiniteSet(DOMAIN cart) BY <1>1, FS_Interval
<1>3. \A k \in DOMAIN cart : f[k] \in Int BY <1>1, LinePriceInt
<1>4. SumFunctionOnSet(f, DOMAIN cart) \in Int
  <2>. HIDE DEF f
  <2>. QED BY <1>2, <1>3, SumInt
<1>. QED BY <1>1, <1>4, SubtotalIsSum DEF SumFunction

\* The exact price of the run is that of the lemmas, and so is what the doubles are off.
LEMMA ExactIs ==
  ASSUME Typed
  PROVE  Exact = PriceOf(Subtotal(cart), adjustments) /\ Off = OffOf(adjustments)
<1>1. adjustments \in Seq(AnyAdjustment) BY DEF Typed
<1>2. /\ PercentSum = SumFunction(Percentages(adjustments))
      /\ FixedSum = SumFunction(FixedAmounts(adjustments))
  BY <1>1, PercentIsSum, FixedIsSum
<1>. QED BY <1>1, <1>2, SubtotalInt, PriceIs DEF Exact, Off, OffOf

\* The order in which the adjustments are listed changes the total by a cent at most, and
\* only next to a half cent: findMany has no orderBy, and an edit replays the stored
\* snapshot (order.service.ts).
THEOREM ListOrderTheorem == Spec => []ListOrderMovesACent
<1>1. Typed => ListOrderMovesACent
  <2>. SUFFICES ASSUME Typed PROVE ListOrderMovesACent OBVIOUS
  <2>1. adjustments \in Seq(AnyAdjustment) BY DEF Typed
  <2>2. ASSUME NEW a \in Lists PROVE Listing(a, adjustments)
    BY <2>1, AsListed, Reversed, Rotated DEF Lists
  <2>3. 2 * OffOf(adjustments) < Scale
    <3>. DEFINE k == Len(adjustments)
                m == MaxAdjustments
    <3>1. k \in Nat /\ m \in Nat /\ k <= m /\ Err \in Nat /\ Scale \in Nat
      BY <2>1, ErrAssumption, PricingAssumption, MoneyAssumption DEF Typed
    <3>2. (2 * (m + 1)) * Err < Scale BY ErrAssumption
    <3>. HIDE DEF k, m
    <3>3. (k + 1) * Err <= (m + 1) * Err /\ (k + 1) * Err \in Nat /\ (m + 1) * Err \in Nat
      <4>1. PICK j \in Nat : m = k + j
        <5>1. m - k \in Nat /\ m = k + (m - k) BY <3>1
        <5>. QED BY <5>1
      <4>2. (m + 1) * Err = (k + 1) * Err + j * Err BY <3>1, <4>1
      <4>3. j * Err \in Nat /\ (k + 1) * Err \in Nat BY <3>1
      <4>. QED BY <4>2, <4>3
    <3>4. (2 * (m + 1)) * Err = 2 * ((m + 1) * Err) BY <3>1
    <3>5. 2 * ((k + 1) * Err) < Scale BY <3>1, <3>2, <3>3, <3>4
    <3>. QED BY <3>5 DEF OffOf, k
  <2>4. Subtotal(cart) \in Int BY SubtotalInt
  <2>. QED BY <2>2, <2>3, <2>4, ExactIs, AnyOrderSameCent DEF ListOrderMovesACent
<1>. QED BY <1>1, Typing, PTL

\* The total is the exact price rounded once, by the column it is stored in: the
\* percentages do not compound, and no part of the sum is rounded before (order.service.ts,
\* calculateTotalAmount).
THEOREM RoundingTheorem == Spec => []TotalIsRoundedOnce
<1>1. Typed => TotalIsRoundedOnce
  <2>. SUFFICES ASSUME Typed PROVE TotalIsRoundedOnce OBVIOUS
  <2>1. adjustments \in Seq(AnyAdjustment) BY DEF Typed
  <2>. QED BY <2>1, SubtotalInt, ExactIs, RoundedOnce DEF TotalIsRoundedOnce
<1>. QED BY <1>1, Typing, PTL
=============================================================================
