------------------------------ MODULE Arithmetic -------------------------------
(***************************************************************************)
(* Facts about the naturals, and about functions defined along them, that  *)
(* the proofs of several modules rest on.                                  *)
(***************************************************************************)
EXTENDS Integers, TLAPS, WellFoundedInduction

\* Every non-empty set of naturals has a least element.
LEMMA LeastNatural ==
  ASSUME NEW S \in SUBSET Nat, S # {}
  PROVE  \E n \in S : \A k \in S : n <= k
<1>1. PICK n \in S : \A k \in S : <<k, n>> \notin OpToRel(<, Nat)
  BY NatLessThanWellFounded, WFMin
<1>2. \A k \in Nat : k < n => <<k, n>> \in OpToRel(<, Nat)
  BY DEF OpToRel
<1>3. \A k \in S : ~(k < n)
  BY <1>1, <1>2
<1>4. \A k \in S : n <= k
  BY <1>3
<1>5. QED  BY <1>4

\* Division by a positive number rounds down, to a natural.
LEMMA DivBounds ==
  ASSUME NEW a \in Nat, NEW d \in Nat \ {0}
  PROVE  /\ a \div d \in Nat
         /\ d * (a \div d) <= a
         /\ a < d * (a \div d) + d
BY Z3

\* Division by a positive number is monotonic.
LEMMA DivMonotonic ==
  ASSUME NEW a \in Nat, NEW b \in Nat, NEW d \in Nat \ {0}, a <= b
  PROVE  a \div d <= b \div d
<1>1. PICK q \in Nat : q = a \div d /\ d * q <= a
  BY DivBounds
<1>2. PICK r \in Nat : r = b \div d /\ b < d * r + d
  BY DivBounds
<1>3. ASSUME r < q PROVE FALSE
  <2>1. r + 1 <= q  BY <1>3
  <2>2. d * (r + 1) <= d * q  BY <2>1, Z3
  <2>3. d * (r + 1) = d * r + d  BY Z3
  <2>4. QED  BY <1>1, <1>2, <2>2, <2>3, Z3
<1>4. q <= r
  BY <1>3
<1>5. QED
  BY <1>1, <1>2, <1>4

\* A number in two digits of base d: its quotient and its remainder.
LEMMA DivUnique ==
  ASSUME NEW d \in Nat \ {0}, NEW q \in Nat, NEW r \in 0 .. (d - 1)
  PROVE  (r + q * d) \div d = q /\ (r + q * d) % d = r
<1> DEFINE a == r + q * d
<1>1. a \in Nat
  BY Z3
<1>2. PICK p \in Nat : p = a \div d /\ d * p <= a /\ a < d * p + d
  BY <1>1, DivBounds
<1> HIDE DEF a
<1>3. ~(p < q)
  <2> SUFFICES ASSUME p < q PROVE FALSE
    OBVIOUS
  <2>1. p + 1 <= q
    OBVIOUS
  <2>2. d * (p + 1) <= d * q
    BY <2>1, Z3
  <2>3. d * (p + 1) = d * p + d /\ d * q = q * d
    BY Z3
  <2>4. q * d <= a
    BY Z3 DEF a
  <2>5. QED  BY <1>1, <1>2, <2>2, <2>3, <2>4, Z3
<1>4. ~(q < p)
  <2> SUFFICES ASSUME q < p PROVE FALSE
    OBVIOUS
  <2>1. q + 1 <= p
    OBVIOUS
  <2>2. d * (q + 1) <= d * p
    BY <2>1, Z3
  <2>3. d * (q + 1) = q * d + d
    BY Z3
  <2>4. a < q * d + d
    BY Z3 DEF a
  <2>5. QED  BY <1>1, <1>2, <2>2, <2>3, <2>4, Z3
<1>5. p = q
  BY <1>3, <1>4
<1>6. a % d = a - d * (a \div d)
  BY <1>1, Z3
<1>7. QED  BY <1>2, <1>5, <1>6, Z3 DEF a

\* A function on 0 .. n that starts at a and goes on by steps in S.
StepsIn(S, n, step) == step \in [1 .. n -> [S -> S]]
Follows(f, S, n, a, step) ==
  f \in [0 .. n -> S] /\ f[0] = a /\ \A k \in 1 .. n : f[k] = step[k][f[k - 1]]

\* There is one.
LEMMA Recursion ==
  ASSUME NEW n \in Nat, NEW S, NEW a \in S, NEW step, StepsIn(S, n, step)
  PROVE  \E f : Follows(f, S, n, a, step)
<1> DEFINE Begins(m) == \E f \in [0 .. m -> S] :
                          f[0] = a /\ \A k \in 1 .. m : f[k] = step[k][f[k - 1]]
           Bad == {m \in 0 .. n : ~Begins(m)}
<1> USE DEF StepsIn
<1>1. Begins(0)
  <2> DEFINE g == [k \in 0 .. 0 |-> a]
  <2>1. g \in [0 .. 0 -> S] /\ g[0] = a /\ \A k \in 1 .. 0 : g[k] = step[k][g[k - 1]]
    OBVIOUS
  <2>2. QED  BY <2>1
<1>2. ASSUME NEW m \in 0 .. n, m < n, Begins(m)
      PROVE  Begins(m + 1)
  <2>1. PICK f \in [0 .. m -> S] :
          f[0] = a /\ \A k \in 1 .. m : f[k] = step[k][f[k - 1]]
    BY <1>2
  <2> DEFINE s == step[m + 1][f[m]]
             g == [k \in 0 .. (m + 1) |-> IF k = m + 1 THEN s ELSE f[k]]
  <2>2. f[m] \in S /\ m + 1 \in 1 .. n
    BY <1>2
  <2>3. s \in S
    BY <2>2
  <2>4. g \in [0 .. (m + 1) -> S] /\ g[0] = a
    BY <2>1, <2>3
  <2>5. ASSUME NEW k \in 1 .. (m + 1) PROVE g[k] = step[k][g[k - 1]]
    <3>1. g[k - 1] = f[k - 1]
      OBVIOUS
    <3>2. CASE k = m + 1
      <4>1. g[k] = s /\ f[k - 1] = f[m]
        BY <3>2
      <4>2. QED  BY <3>1, <3>2, <4>1
    <3>3. CASE k # m + 1
      BY <2>1, <3>1, <3>3
    <3>4. QED  BY <3>2, <3>3
  <2>6. QED  BY <2>4, <2>5
<1> HIDE DEF Begins
<1>3. Bad = {}
  <2> SUFFICES ASSUME Bad # {} PROVE FALSE
    OBVIOUS
  <2>1. PICK m \in Bad : \A k \in Bad : m <= k
    <3>1. Bad \in SUBSET Nat
      OBVIOUS
    <3>2. QED  BY <3>1, LeastNatural
  <2>2. m # 0 /\ m - 1 \in 0 .. n /\ m - 1 \notin Bad /\ m - 1 < n
    BY <1>1, <2>1
  <2>3. Begins(m - 1)
    BY <2>2
  <2>4. Begins((m - 1) + 1)
    BY <1>2, <2>2, <2>3
  <2>5. QED  BY <2>1, <2>4
<1>4. Begins(n)
  <2>1. n \in 0 .. n /\ n \notin Bad
    BY <1>3
  <2>2. QED  BY <2>1
<1>5. QED  BY <1>4 DEF Begins, Follows
==============================================================================
