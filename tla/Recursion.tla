----------------------------- MODULE Recursion -----------------------------
(***************************************************************************)
(* That a recursive function is what its equation says, and induction over *)
(* the natural numbers: both stated with sets and functions in the place   *)
(* of operators.                                                           *)
(***************************************************************************)
EXTENDS Integers, WellFoundedInduction, TLAPS

(* A set of natural numbers has a least one.                               *)
LEMMA LeastElement ==
  ASSUME NEW T, T \subseteq Nat, T # {}
  PROVE  \E n \in T : \A m \in T : n <= m
<1>1. PICK n \in T : \A m \in T : ~ (<<m, n>> \in OpToRel(<, Nat))
  BY NatLessThanWellFounded, WFMin
<1>2. ASSUME NEW m \in T PROVE n <= m
  <2>1. m \in Nat /\ n \in Nat
    OBVIOUS
  <2>2. <<m, n>> \notin OpToRel(<, Nat)
    BY <1>1
  <2>3. ~(m < n)
    BY <2>1, <2>2 DEF OpToRel
  <2> QED BY <2>1, <2>3
<1> QED BY <1>2

(* Induction.                                                              *)
LEMMA Induct ==
  ASSUME NEW T, 0 \in T, \A n \in Nat : n \in T => n + 1 \in T
  PROVE  \A n \in Nat : n \in T
<1> SUFFICES ASSUME Nat \ T # {} PROVE FALSE
  OBVIOUS
<1>1. PICK n \in Nat \ T : \A m \in Nat \ T : n <= m
  BY LeastElement
<1>2. n - 1 \in Nat /\ n = (n - 1) + 1
  OBVIOUS
<1>3. n - 1 \in T
  BY <1>1, <1>2
<1> QED BY <1>2, <1>3

(* Repeating a step.                                                       *)
LEMMA Iterate ==
  ASSUME NEW V, NEW b \in V, NEW step \in [V -> V]
  PROVE  \E g \in [Nat -> V] : g[0] = b /\ \A n \in Nat : g[n + 1] = step[g[n]]
<1> DEFINE Run(g, n) == /\ g \in [0 .. n -> V] /\ g[0] = b
                        /\ \A i \in 0 .. n - 1 : g[i + 1] = step[g[i]]
<1>1. \A n \in Nat : \E g : Run(g, n)
  <2> DEFINE T == {n \in Nat : \E g : Run(g, n)}
  <2>1. 0 \in T
    <3>1. Run([i \in 0 .. 0 |-> b], 0)
      OBVIOUS
    <3> QED BY <3>1
  <2>2. ASSUME NEW n \in Nat, n \in T PROVE n + 1 \in T
    <3>1. PICK g : Run(g, n)
      BY <2>2
    <3> DEFINE h == [i \in 0 .. n + 1 |-> IF i = n + 1 THEN step[g[n]] ELSE g[i]]
    <3>2. g[n] \in V /\ step[g[n]] \in V
      BY <3>1
    <3>3. h \in [0 .. n + 1 -> V] /\ h[0] = b
      BY <3>1, <3>2
    <3>4. ASSUME NEW i \in 0 .. n + 1 - 1 PROVE h[i + 1] = step[h[i]]
      <4>1. CASE i = n
        BY <4>1
      <4>2. CASE i # n
        <5>1. i \in 0 .. n - 1 /\ i + 1 \in 0 .. n + 1 /\ i + 1 # n + 1 /\ i \in 0 .. n + 1 /\ i # n + 1
          BY <4>2
        <5>2. h[i + 1] = g[i + 1] /\ h[i] = g[i]
          BY <5>1
        <5> QED BY <3>1, <5>1, <5>2
      <4> QED BY <4>1, <4>2
    <3>5. Run(h, n + 1)
      BY <3>3, <3>4
    <3> HIDE DEF h
    <3> QED BY <3>5
  <2> HIDE DEF T
  <2>3. \A n \in Nat : n \in T
    BY <2>1, <2>2, Induct
  <2> QED BY <2>3 DEF T
<1>2. ASSUME NEW n \in Nat, NEW m \in Nat, NEW g, NEW h, Run(g, n), Run(h, m)
      PROVE  \A i \in Nat : i <= n /\ i <= m => g[i] = h[i]
  <2> DEFINE T == {i \in Nat : i <= n /\ i <= m => g[i] = h[i]}
  <2>1. 0 \in T
    BY <1>2
  <2>2. ASSUME NEW i \in Nat, i \in T PROVE i + 1 \in T
    <3> SUFFICES ASSUME i + 1 <= n, i + 1 <= m PROVE g[i + 1] = h[i + 1]
      OBVIOUS
    <3>1. i \in 0 .. n - 1 /\ i \in 0 .. m - 1
      OBVIOUS
    <3>2. g[i] = h[i]
      BY <2>2
    <3> QED BY <1>2, <3>1, <3>2
  <2> HIDE DEF T
  <2>3. \A i \in Nat : i \in T
    BY <2>1, <2>2, Induct
  <2> QED BY <2>3 DEF T
<1> DEFINE C(n) == CHOOSE g : Run(g, n)
           f == [n \in Nat |-> C(n)[n]]
<1>3. ASSUME NEW n \in Nat PROVE Run(C(n), n)
  <2> HIDE DEF Run
  <2> QED BY <1>1
<1>4. f \in [Nat -> V]
  <2>1. ASSUME NEW n \in Nat PROVE C(n)[n] \in V
    <3> HIDE DEF C
    <3> QED BY <1>3
  <2> HIDE DEF C
  <2> QED BY <2>1
<1>5. f[0] = b
  <2> HIDE DEF C
  <2> QED BY <1>3
<1>6. ASSUME NEW n \in Nat PROVE f[n + 1] = step[f[n]]
  <2> HIDE DEF C
  <2>1. n + 1 \in Nat /\ n <= n + 1 /\ n <= n
    OBVIOUS
  <2>2. Run(C(n), n) /\ Run(C(n + 1), n + 1)
    BY <1>3, <2>1
  <2>3. C(n + 1)[n] = C(n)[n]
    <3> HIDE DEF Run
    <3> QED BY <1>2, <2>1, <2>2
  <2>4. n \in 0 .. n + 1 - 1
    OBVIOUS
  <2>5. C(n + 1)[n + 1] = step[C(n + 1)[n]]
    BY <2>2, <2>4
  <2> QED BY <2>1, <2>3, <2>5
<1> HIDE DEF f
<1> QED BY <1>4, <1>5, <1>6

Repeats(g, W, step) ==
  g \in [Nat -> W] /\ \A n \in Nat : g[n + 1] = step[g[n]]

LEMMA Again ==
  ASSUME NEW W, W # {}, NEW step \in [W -> W] PROVE \E g : Repeats(g, W, step)
<1>1. PICK b \in W : TRUE
  OBVIOUS
<1>2. PICK g \in [Nat -> W] : g[0] = b /\ \A n \in Nat : g[n + 1] = step[g[n]]
  BY Iterate
<1> QED BY <1>2 DEF Repeats

(* A recursion on ever smaller arguments, by the measure m, has a solution.*)
(* Phi gives what the right side of the equation makes of a function.      *)
Descends(Phi, D, V, m) ==
  \A g, h \in [D -> V] : \A x \in D :
    (\A y \in D : m[y] < m[x] => g[y] = h[y]) => Phi[g][x] = Phi[h][x]

Fixed(Phi, D, V, f) == f \in [D -> V] /\ f = Phi[f]

THEOREM Fixpoint ==
  ASSUME NEW D, NEW V, V # {}, NEW m \in [D -> Nat], NEW Phi \in [[D -> V] -> [D -> V]],
         Descends(Phi, D, V, m)
  PROVE  \E f : Fixed(Phi, D, V, f)
<1>3. PICK G \in [Nat -> [D -> V]] : \A n \in Nat : G[n + 1] = Phi[G[n]]
  <2>1. PICK v : v \in V
    OBVIOUS
  <2>2. [x \in D |-> v] \in [D -> V]
    BY <2>1
  <2>3. [D -> V] # {} /\ Phi \in [[D -> V] -> [D -> V]]
    BY <2>2
  <2>4. PICK G : Repeats(G, [D -> V], Phi)
    BY <2>3, Again, Zenon
  <2> QED BY <2>4 DEF Repeats
<1> DEFINE T == {n \in Nat : \A x \in D : \A k \in Nat : m[x] < n /\ k >= n => G[k][x] = G[n][x]}
<1>4. 0 \in T
  OBVIOUS
<1>5. ASSUME NEW n \in Nat, n \in T PROVE n + 1 \in T
  <2> SUFFICES ASSUME NEW x \in D, NEW k \in Nat, m[x] < n + 1, k >= n + 1
               PROVE  G[k][x] = G[n + 1][x]
    OBVIOUS
  <2>1. k - 1 \in Nat /\ k - 1 >= n /\ k = (k - 1) + 1
    OBVIOUS
  <2>2. G[k] = Phi[G[k - 1]] /\ G[n + 1] = Phi[G[n]]
    BY <1>3, <2>1
  <2>3. ASSUME NEW y \in D, m[y] < m[x] PROVE G[k - 1][y] = G[n][y]
    <3>1. m[y] < n
      BY <2>3
    <3> QED BY <1>5, <2>1, <3>1
  <2>4. G[k - 1] \in [D -> V] /\ G[n] \in [D -> V]
    BY <2>1
  <2>5. Phi[G[k - 1]][x] = Phi[G[n]][x]
    BY <2>3, <2>4 DEF Descends
  <2> QED BY <2>2, <2>5
<1> HIDE DEF T
<1>6. \A n \in Nat : n \in T
  BY <1>4, <1>5, Induct
<1>7. ASSUME NEW n \in Nat, NEW x \in D, NEW k \in Nat, m[x] < n, k >= n
      PROVE  G[k][x] = G[n][x]
  BY <1>6, <1>7 DEF T
<1> DEFINE f == [x \in D |-> G[m[x] + 1][x]]
<1>8. f \in [D -> V]
  OBVIOUS
<1>9. ASSUME NEW x \in D PROVE f[x] = Phi[f][x]
  <2>1. m[x] \in Nat /\ G[m[x]] \in [D -> V]
    OBVIOUS
  <2>2. ASSUME NEW y \in D, m[y] < m[x] PROVE f[y] = G[m[x]][y]
    <3>1. m[y] + 1 \in Nat /\ m[y] < m[y] + 1 /\ m[x] >= m[y] + 1
      BY <2>1, <2>2
    <3> QED BY <1>7, <2>1, <3>1
  <2> HIDE DEF f
  <2>3. Phi[f][x] = Phi[G[m[x]]][x]
    BY <1>8, <2>1, <2>2 DEF Descends
  <2>4. G[m[x] + 1][x] = Phi[G[m[x]]][x]
    BY <1>3, <2>1
  <2> QED BY <2>3, <2>4 DEF f
<1> HIDE DEF f
<1>10. Phi[f] \in [D -> V]
  BY <1>8
<1>11. f = Phi[f]
  BY <1>8, <1>9, <1>10
<1> QED BY <1>8, <1>11 DEF Fixed
-----------------------------------------------------------------------------
(* A loop, written as a recursion: where it stops, what it answers there   *)
(* and where it goes on.                                                   *)
Loops(f, D, stops, answer, go) ==
  f = [x \in D |-> IF x \in stops THEN answer[x] ELSE f[go[x]]]

Shrinks(D, stops, go, m) ==
  /\ m \in [D -> Nat]
  /\ \A x \in D : x \notin stops => go[x] \in D /\ m[go[x]] < m[x]

LEMMA LoopExists ==
  ASSUME NEW D, NEW V, V # {}, NEW stops, NEW answer \in [D -> V], NEW go, NEW m,
         Shrinks(D, stops, go, m)
  PROVE  \E f : f \in [D -> V] /\ Loops(f, D, stops, answer, go)
<1> DEFINE Phi == [f \in [D -> V] |-> [x \in D |-> IF x \in stops THEN answer[x] ELSE f[go[x]]]]
<1>1. m \in [D -> Nat]
  BY DEF Shrinks
<1>2. ASSUME NEW f \in [D -> V], NEW x \in D
      PROVE  (IF x \in stops THEN answer[x] ELSE f[go[x]]) \in V
  <2>1. CASE x \in stops
    BY <2>1
  <2>2. CASE x \notin stops
    <3>1. go[x] \in D
      BY <2>2 DEF Shrinks
    <3> QED BY <2>2, <3>1
  <2> QED BY <2>1, <2>2, Zenon
<1>3. Phi \in [[D -> V] -> [D -> V]]
  BY <1>2
<1>4. ASSUME NEW g \in [D -> V], NEW h \in [D -> V], NEW x \in D,
             \A y \in D : m[y] < m[x] => g[y] = h[y]
      PROVE  Phi[g][x] = Phi[h][x]
  <2>1. CASE x \in stops
    BY <2>1
  <2>2. CASE x \notin stops
    <3>1. go[x] \in D /\ m[go[x]] < m[x]
      BY <2>2 DEF Shrinks
    <3>2. g[go[x]] = h[go[x]]
      BY <1>4, <3>1
    <3> QED BY <2>2, <3>2
  <2> QED BY <2>1, <2>2, Zenon
<1>5. Descends(Phi, D, V, m)
  BY <1>4 DEF Descends
<1>6. ASSUME NEW f, Fixed(Phi, D, V, f) PROVE f \in [D -> V] /\ Loops(f, D, stops, answer, go)
  BY <1>6 DEF Loops, Fixed
<1> HIDE DEF Phi
<1>7. \E f : Fixed(Phi, D, V, f)
  BY <1>1, <1>3, <1>5, Fixpoint, Zenon
<1> QED BY <1>6, <1>7

(* What holds where a loop begins and is kept until it stops tells what it *)
(* answers.                                                                *)
Keeps(P, Q, stops, answer, go) ==
  \A x \in P : IF x \in stops THEN answer[x] \in Q ELSE go[x] \in P

Gives(f, P, Q) == \A x \in P : f[x] \in Q

LEMMA LoopAnswers ==
  ASSUME NEW D, NEW stops, NEW answer, NEW go, NEW m, NEW f,
         Shrinks(D, stops, go, m), Loops(f, D, stops, answer, go),
         NEW P, P \subseteq D, NEW Q, Keeps(P, Q, stops, answer, go)
  PROVE  Gives(f, P, Q)
<1> DEFINE T == {n \in Nat : \A x \in P : m[x] < n => f[x] \in Q}
<1>1. m \in [D -> Nat]
  BY DEF Shrinks
<1>2. 0 \in T
  BY <1>1
<1>3. ASSUME NEW n \in Nat, n \in T PROVE n + 1 \in T
  <2> SUFFICES ASSUME NEW x \in P, m[x] < n + 1 PROVE f[x] \in Q
    OBVIOUS
  <2>1. x \in D /\ f[x] = IF x \in stops THEN answer[x] ELSE f[go[x]]
    BY DEF Loops
  <2>2. CASE x \in stops
    BY <2>1, <2>2 DEF Keeps
  <2>3. CASE x \notin stops
    <3>1. go[x] \in P /\ go[x] \in D /\ m[go[x]] < m[x]
      BY <2>1, <2>3 DEF Keeps, Shrinks
    <3>2. m[go[x]] < n
      BY <1>1, <2>1, <3>1
    <3>3. f[go[x]] \in Q
      BY <1>3, <3>1, <3>2
    <3> QED BY <2>1, <2>3, <3>3
  <2> QED BY <2>2, <2>3, Zenon
<1> HIDE DEF T
<1>4. \A n \in Nat : n \in T
  BY <1>2, <1>3, Induct
<1>5. ASSUME NEW x \in P PROVE f[x] \in Q
  <2>1. m[x] \in Nat /\ m[x] + 1 \in Nat /\ m[x] < m[x] + 1
    BY <1>1
  <2>2. m[x] + 1 \in T
    BY <1>4, <2>1
  <2> QED BY <2>1, <2>2 DEF T
<1> QED BY <1>5 DEF Gives

(* A pass over 1 .. n that makes each result of the one before.            *)
Passes(f, n, b, step) ==
  f = [k \in 0 .. n |-> IF k = 0 THEN b ELSE step[<<f[k - 1], k>>]]

LEMMA PassExists ==
  ASSUME NEW V, NEW b \in V, NEW n \in Nat, NEW step \in [V \X (1 .. n) -> V]
  PROVE  \E f : f \in [0 .. n -> V] /\ Passes(f, n, b, step)
<1> DEFINE D == 0 .. n
           m == [k \in D |-> k]
           Phi == [f \in [D -> V] |-> [k \in D |-> IF k = 0 THEN b ELSE step[<<f[k - 1], k>>]]]
<1>1. m \in [D -> Nat] /\ V # {}
  OBVIOUS
<1>2. ASSUME NEW f \in [D -> V], NEW k \in D
      PROVE  (IF k = 0 THEN b ELSE step[<<f[k - 1], k>>]) \in V
  <2>1. CASE k # 0
    <3>1. k - 1 \in D /\ k \in 1 .. n
      BY <2>1
    <3>2. <<f[k - 1], k>> \in V \X (1 .. n)
      BY <3>1
    <3> QED BY <2>1, <3>2
  <2> QED BY <2>1
<1>3. Phi \in [[D -> V] -> [D -> V]]
  BY <1>2
<1>4. ASSUME NEW g \in [D -> V], NEW h \in [D -> V], NEW k \in D,
             \A y \in D : m[y] < m[k] => g[y] = h[y]
      PROVE  Phi[g][k] = Phi[h][k]
  <2>1. CASE k # 0
    <3>1. k - 1 \in D /\ m[k - 1] < m[k]
      BY <2>1
    <3>2. g[k - 1] = h[k - 1]
      BY <1>4, <3>1
    <3> QED BY <2>1, <3>2
  <2>2. CASE k = 0
    BY <2>2
  <2> QED BY <2>1, <2>2
<1>5. Descends(Phi, D, V, m)
  BY <1>4 DEF Descends
<1>6. ASSUME NEW f, Fixed(Phi, D, V, f) PROVE f \in [0 .. n -> V] /\ Passes(f, n, b, step)
  BY <1>6 DEF Passes, Fixed
<1> HIDE DEF Phi, m, D
<1>7. \E f : Fixed(Phi, D, V, f)
  BY <1>1, <1>3, <1>5, Fixpoint, Zenon
<1> QED BY <1>6, <1>7

=============================================================================
