----------------------------- MODULE Induction -----------------------------
(***************************************************************************)
(* Induction over the natural numbers, stated with sets where the library  *)
(* states it with predicates: what is to hold of every number is that it   *)
(* is in a set.                                                            *)
(***************************************************************************)
EXTENDS Integers, WellFoundedInduction, TLAPS

\* A set of natural numbers that is not empty has a least member.
LEMMA Least ==
  ASSUME NEW T \in SUBSET Nat, T # {}
  PROVE  \E m \in T : \A k \in T : m <= k
<1> DEFINE R == OpToRel(<, Nat)
<1>1. IsWellFoundedOn(R, Nat)
  BY NatLessThanWellFounded
<1>2. \A x, y \in Nat : x < y => <<x, y>> \in R
  BY DEF OpToRel
<1> HIDE DEF R
<1>3. \E x \in T : \A y \in T : ~(<<y, x>> \in R)
  BY <1>1, WFMin
<1>4. PICK m \in T : \A k \in T : ~(<<k, m>> \in R)
  BY <1>3
<1>5. \A k \in T : ~(k < m)
  BY <1>2, <1>4
<1> QED BY <1>5

\* One that has a bound has a greatest member.
LEMMA Greatest ==
  ASSUME NEW n \in Nat, NEW A \in SUBSET (0..n), A # {}
  PROVE  \E m \in A : \A k \in A : k <= m
<1> DEFINE T == {n - i : i \in A}
<1>1. T \in SUBSET Nat /\ T # {}
  <2>1. \A i \in A : n - i \in Nat
    OBVIOUS
  <2> QED BY <2>1
<1>2. \A i \in A : n - i \in T
  OBVIOUS
<1>3. \A t \in T : \E i \in A : t = n - i
  OBVIOUS
<1> HIDE DEF T
<1>4. PICK t \in T : \A k \in T : t <= k
  BY <1>1, Least
<1>5. PICK m \in A : t = n - m
  BY <1>3
<1>6. \A k \in A : n - m <= n - k
  BY <1>2, <1>4, <1>5
<1> QED BY <1>6

\* What holds of 0 and is inherited holds of every number.
LEMMA Induct ==
  ASSUME NEW T, 0 \in T, \A n \in Nat : n \in T => n + 1 \in T
  PROVE  Nat \subseteq T
<1> SUFFICES ASSUME NEW z \in Nat, z \notin T PROVE FALSE
  OBVIOUS
<1> DEFINE U == {n \in Nat : n \notin T}
<1>1. PICK m \in U : \A k \in U : m <= k
  <2> U # {} OBVIOUS
  <2> HIDE DEF U
  <2> QED BY Least DEF U
<1>2. m # 0 /\ m - 1 \in Nat
  OBVIOUS
<1>3. m - 1 \in T
  BY <1>1, <1>2
<1> QED BY <1>1, <1>2, <1>3

\* The first n + 1 values of such a function.
Starts(g, n, a, step, S) ==
  /\ g \in [0..n -> S]
  /\ g[0] = a
  /\ \A i \in 0..(n - 1) : g[i + 1] = step[<<i, g[i]>>]

\* They exist for every n.
LEMMA StartsExist ==
  ASSUME NEW S, NEW a \in S, NEW step \in [Nat \X S -> S], NEW n \in Nat
  PROVE  \E g : Starts(g, n, a, step, S)
<1> DEFINE T == {k \in Nat : \E g : Starts(g, k, a, step, S)}
<1>1. 0 \in T
  <2>1. Starts([i \in 0..0 |-> a], 0, a, step, S)
    BY DEF Starts
  <2> QED BY <2>1
<1>2. ASSUME NEW k \in Nat, k \in T PROVE k + 1 \in T
  <2>1. PICK g : Starts(g, k, a, step, S)
    BY <1>2
  <2> DEFINE h == [i \in 0..(k + 1) |->
                     IF i = k + 1 THEN step[<<k, g[k]>>] ELSE g[i]]
  <2>2. \A i \in 0..k : g[i] \in S /\ h[i] = g[i]
    BY <2>1 DEF Starts
  <2>3. h[k + 1] = step[<<k, g[k]>>] /\ h[k + 1] \in S
    <3>1. h[k + 1] = step[<<k, g[k]>>]
      OBVIOUS
    <3>2. step[<<k, g[k]>>] \in S
      <4> HIDE DEF h
      <4>1. k \in 0..k
        OBVIOUS
      <4> QED BY <2>2, <4>1
    <3> HIDE DEF h
    <3> QED BY <3>1, <3>2
  <2>4. h \in [0..(k + 1) -> S]
    <3>1. \A i \in 0..(k + 1) : h[i] \in S
      <4> HIDE DEF h
      <4> QED BY <2>2, <2>3
    <3> QED BY <3>1
  <2>5. h[0] = a
    BY <2>1, <2>2 DEF Starts
  <2>6. ASSUME NEW i \in 0..k PROVE h[i + 1] = step[<<i, h[i]>>]
    <3>1. CASE i = k
      BY <2>2, <2>3, <3>1
    <3>2. CASE i # k
      <4>1. i \in 0..(k - 1) /\ i + 1 \in 0..k
        BY <3>2
      <4>2. g[i + 1] = step[<<i, g[i]>>]
        BY <2>1, <4>1 DEF Starts
      <4> HIDE DEF h
      <4> QED BY <2>2, <4>1, <4>2
    <3> QED BY <3>1, <3>2
  <2> HIDE DEF h
  <2>7. Starts(h, k + 1, a, step, S)
    BY <2>4, <2>5, <2>6 DEF Starts
  <2> QED BY <2>7
<1> HIDE DEF T
<1>3. n \in T
  BY <1>1, <1>2, Induct
<1> QED BY <1>3 DEF T

\* Those for a smaller n are the first of those for a larger one.
LEMMA StartsAgree ==
  ASSUME NEW S, NEW a \in S, NEW step \in [Nat \X S -> S],
         NEW m \in Nat, NEW n \in Nat, m <= n,
         NEW g, NEW h, Starts(g, m, a, step, S), Starts(h, n, a, step, S)
  PROVE  g[m] = h[m]
<1> DEFINE T == {i \in Nat : i <= m => g[i] = h[i]}
<1>1. 0 \in T
  BY DEF Starts
<1>2. ASSUME NEW i \in Nat, i \in T PROVE i + 1 \in T
  <2> SUFFICES ASSUME i + 1 <= m PROVE g[i + 1] = h[i + 1]
    OBVIOUS
  <2>1. g[i] = h[i]
    BY <1>2
  <2>2. g[i + 1] = step[<<i, g[i]>>] /\ h[i + 1] = step[<<i, h[i]>>]
    BY DEF Starts
  <2> QED BY <2>1, <2>2
<1> HIDE DEF T
<1>3. m \in T
  BY <1>1, <1>2, Induct
<1> QED BY <1>3 DEF T

\* The function over the natural numbers given by its value at 0 and by the
\* step from each value to the next.
Iterates(f, a, step, S) ==
  /\ f \in [Nat -> S]
  /\ f[0] = a
  /\ \A n \in Nat : f[n + 1] = step[<<n, f[n]>>]

\* There is such a function.
LEMMA Recursion ==
  ASSUME NEW S, NEW a \in S, NEW step \in [Nat \X S -> S]
  PROVE  \E f : Iterates(f, a, step, S)
<1> DEFINE part(n) == CHOOSE g : Starts(g, n, a, step, S)
           f == [n \in Nat |-> part(n)[n]]
<1>1. \A n \in Nat : Starts(part(n), n, a, step, S)
  BY StartsExist
<1> HIDE DEF part
<1>2. \A n \in Nat : f[n] = part(n)[n] /\ f[n] \in S
  BY <1>1 DEF Starts
<1>3. f[0] = a
  BY <1>1, <1>2 DEF Starts
<1>4. ASSUME NEW n \in Nat PROVE f[n + 1] = step[<<n, f[n]>>]
  <2>1. part(n + 1)[n + 1] = step[<<n, part(n + 1)[n]>>]
    BY <1>1 DEF Starts
  <2>2. part(n)[n] = part(n + 1)[n]
    BY <1>1, StartsAgree
  <2> QED BY <1>2, <2>1, <2>2
<1>5. f \in [Nat -> S]
  BY <1>2
<1>6. Iterates(f, a, step, S)
  BY <1>3, <1>4, <1>5 DEF Iterates
<1> QED BY <1>6

\* A function whose value at v is `start' where it stops and else comes from
\* its value at a smaller number.
Descends(f, Stop, start, down, step) ==
  \A v \in Nat : f[v] = IF v \in Stop THEN start[v]
                        ELSE step[<<v, f[down[v]]>>]

\* There is such a function: after n turns it is right up to n.
LEMMA StrongRecursion ==
  ASSUME NEW S, NEW Stop \in SUBSET Nat,
         NEW start \in [Nat -> S],
         NEW down \in [Nat -> Nat],
         NEW step \in [Nat \X S -> S],
         \A v \in Nat \ Stop : down[v] < v
  PROVE  \E f \in [Nat -> S] : Descends(f, Stop, start, down, step)
<1> DEFINE turn(g) == [v \in Nat |-> IF v \in Stop THEN start[v]
                                     ELSE step[<<v, g[down[v]]>>]]
           turns == [x \in Nat \X [Nat -> S] |-> turn(x[2])]
<1>1. \A g \in [Nat -> S] : turn(g) \in [Nat -> S]
  OBVIOUS
<1>2. turns \in [Nat \X [Nat -> S] -> [Nat -> S]]
  BY <1>1
<1>3. \A n \in Nat : \A g \in [Nat -> S] : turns[<<n, g>>] = turn(g)
  OBVIOUS
<1> HIDE DEF turns
<1>4. PICK G : Iterates(G, start, turns, [Nat -> S])
  BY <1>2, Recursion
<1>5. /\ \A n \in Nat : G[n] \in [Nat -> S]
      /\ G[0] = start
      /\ \A n \in Nat : G[n + 1] = turn(G[n])
  <2>1. /\ \A n \in Nat : G[n] \in [Nat -> S]
        /\ G[0] = start
        /\ \A n \in Nat : G[n + 1] = turns[<<n, G[n]>>]
    BY <1>4 DEF Iterates
  <2> HIDE DEF turn
  <2> QED BY <2>1, <1>3
<1>6. \A n \in Nat : \A v \in Nat :
        G[n + 1][v] = IF v \in Stop THEN start[v]
                      ELSE step[<<v, G[n][down[v]]>>]
  BY <1>5
<1>7. \A n \in Nat : \A v \in Stop : G[n][v] = start[v]
  <2> SUFFICES ASSUME NEW n \in Nat, NEW v \in Stop PROVE G[n][v] = start[v]
    OBVIOUS
  <2>1. CASE n = 0
    BY <2>1, <1>5
  <2>2. CASE n # 0
    <3>1. n - 1 \in Nat /\ n = (n - 1) + 1
      BY <2>2
    <3> QED BY <3>1, <1>6
  <2> QED BY <2>1, <2>2
<1> DEFINE T == {n \in Nat : \A v \in 0..n : \A m \in Nat :
                               v <= m => G[m][v] = G[v][v]}
<1>8. 0 \in T
  <2>1. 0 \in Stop
    OBVIOUS
  <2> QED BY <2>1, <1>7
<1>9. ASSUME NEW n \in Nat, n \in T PROVE n + 1 \in T
  <2> SUFFICES ASSUME NEW v \in 0..(n + 1), NEW m \in Nat, v <= m
               PROVE  G[m][v] = G[v][v]
    OBVIOUS
  <2>1. CASE v \in Stop
    BY <2>1, <1>7
  <2>2. CASE v \notin Stop
    <3>1. down[v] \in 0..n /\ down[v] <= v - 1
      BY <2>2
    <3>2. /\ v - 1 \in Nat /\ v = (v - 1) + 1
          /\ m - 1 \in Nat /\ m = (m - 1) + 1
          /\ down[v] <= m - 1
      BY <3>1
    <3>3. /\ G[m][v] = step[<<v, G[m - 1][down[v]]>>]
          /\ G[v][v] = step[<<v, G[v - 1][down[v]]>>]
      BY <2>2, <3>2, <1>6
    <3>4. G[m - 1][down[v]] = G[v - 1][down[v]]
      BY <1>9, <3>1, <3>2
    <3> QED BY <3>3, <3>4
  <2> QED BY <2>1, <2>2
<1>10. \A n \in Nat : \A m \in Nat : n <= m => G[m][n] = G[n][n]
  <2>1. \A n \in T : \A m \in Nat : n <= m => G[m][n] = G[n][n]
    OBVIOUS
  <2> HIDE DEF T
  <2> QED BY <2>1, <1>8, <1>9, Induct
<1> DEFINE f == [v \in Nat |-> G[v][v]]
<1>11. f \in [Nat -> S]
  BY <1>5
<1>12. ASSUME NEW v \in Nat
       PROVE  f[v] = IF v \in Stop THEN start[v] ELSE step[<<v, f[down[v]]>>]
  <2>1. CASE v \in Stop
    BY <2>1, <1>7
  <2>2. CASE v \notin Stop
    <3>1. v - 1 \in Nat /\ v = (v - 1) + 1 /\ down[v] \in Nat
          /\ down[v] <= v - 1
      BY <2>2
    <3>2. G[v][v] = step[<<v, G[v - 1][down[v]]>>]
      BY <2>2, <3>1, <1>6
    <3>3. G[v - 1][down[v]] = G[down[v]][down[v]]
      BY <3>1, <1>10
    <3> QED BY <2>2, <3>1, <3>2, <3>3
  <2> QED BY <2>1, <2>2
<1> QED BY <1>11, <1>12 DEF Descends
=============================================================================
