--------------------------- MODULE Runtime_proofs ---------------------------
(***************************************************************************)
(* The search of the export table, the parser of the stubs, and the life   *)
(* of a process that stands on them: for every table of exports, every     *)
(* stub and every list of calls, locks, constructors, destructors and      *)
(* units.                                                                  *)
(***************************************************************************)
EXTENDS Runtime, Recursion, FiniteSetTheorems, SequenceTheorems

-----------------------------------------------------------------------------
(* The search of the export table.                                         *)

(* What bsearch() makes of the results for smaller ranges.                 *)
Narrow(table, S, find, range) ==
  LET F == range[1]
      B == range[2]
      middle == Half(B + F)
  IN  IF F > B THEN {-1}
      ELSE IF middle < 0
      THEN {middle} \cup find[<<F, middle - 1>>] \cup find[<<middle + 1, B>>]
      ELSE IF table[middle + 1] = S THEN {middle}
      ELSE IF table[middle + 1] > S THEN find[<<F, middle - 1>>]
      ELSE find[<<middle + 1, B>>]

Searches(table, S, find) ==
  find = [range \in Int \X Int |-> Narrow(table, S, find, range)]

LEMMA HalfBetween ==
  ASSUME NEW F \in Int, NEW B \in Int, F <= B
  PROVE  Half(B + F) \in F .. B
BY DEF Half

(* The number of entries left to search.                                   *)
Left == [range \in Int \X Int |->
           IF range[1] > range[2] THEN 0 ELSE range[2] - range[1] + 1]

LEMMA LeftNat == \A F, B \in Int : Left[<<F, B>>] \in Nat
BY DEF Left

LEMMA NarrowedLeft ==
  ASSUME NEW F \in Int, NEW B \in Int, F <= B
  PROVE  /\ Half(B + F) \in Int
         /\ <<F, Half(B + F) - 1>> \in Int \X Int /\ <<Half(B + F) + 1, B>> \in Int \X Int
         /\ Left[<<F, Half(B + F) - 1>>] < Left[<<F, B>>]
         /\ Left[<<Half(B + F) + 1, B>>] < Left[<<F, B>>]
<1>1. Half(B + F) \in F .. B
  BY HalfBetween
<1> QED BY <1>1 DEF Left

LEMMA SearchesExists == ASSUME NEW table, NEW S PROVE \E find : Searches(table, S, find)
<1> DEFINE D == Int \X Int
           V == SUBSET Int
           Phi == [f \in [D -> V] |-> [range \in D |-> Narrow(table, S, f, range)]]
<1>1. Left \in [D -> Nat]
  BY DEF Left
<1>2. ASSUME NEW f \in [D -> V], NEW range \in D PROVE Narrow(table, S, f, range) \in V
  <2>1. PICK F \in Int, B \in Int : range = <<F, B>>
    OBVIOUS
  <2>2. CASE F > B
    BY <2>1, <2>2 DEF Narrow
  <2>3. CASE F <= B
    <3>1. /\ Half(B + F) \in Int
          /\ f[<<F, Half(B + F) - 1>>] \in V /\ f[<<Half(B + F) + 1, B>>] \in V
      BY <2>3, NarrowedLeft
    <3> QED BY <2>1, <3>1 DEF Narrow
  <2> QED BY <2>2, <2>3
<1>3. Phi \in [[D -> V] -> [D -> V]]
  BY <1>2
<1>4. ASSUME NEW g \in [D -> V], NEW h \in [D -> V], NEW range \in D,
             \A y \in D : Left[y] < Left[range] => g[y] = h[y]
      PROVE  Phi[g][range] = Phi[h][range]
  <2>1. PICK F \in Int, B \in Int : range = <<F, B>>
    OBVIOUS
  <2>2. CASE F > B
    BY <2>1, <2>2 DEF Narrow
  <2>3. CASE F <= B
    <3>1. /\ g[<<F, Half(B + F) - 1>>] = h[<<F, Half(B + F) - 1>>]
          /\ g[<<Half(B + F) + 1, B>>] = h[<<Half(B + F) + 1, B>>]
      BY <1>4, <2>1, <2>3, NarrowedLeft
    <3>2. Narrow(table, S, g, range) = Narrow(table, S, h, range)
      BY <2>1, <3>1 DEF Narrow
    <3> QED BY <3>2
  <2> QED BY <2>1, <2>2, <2>3
<1>5. V # {}
  OBVIOUS
<1>7. Descends(Phi, D, V, Left)
  BY <1>4 DEF Descends
<1>6. ASSUME NEW f, Fixed(Phi, D, V, f) PROVE Searches(table, S, f)
  BY <1>6 DEF Searches, Fixed
<1> HIDE DEF Phi, D, V
<1>8. \E f : Fixed(Phi, D, V, f)
  BY <1>1, <1>3, <1>5, <1>7, Fixpoint, Zenon
<1> QED BY <1>6, <1>8

LEMMA BsearchSearches ==
  ASSUME NEW table, NEW S
  PROVE  \E find : Searches(table, S, find) /\ bsearch(table, S) = find[<<-1, Len(table) - 1>>]
<1> DEFINE find == CHOOSE f : Searches(table, S, f)
<1>1. Searches(table, S, find)
  BY SearchesExists
<1>2. bsearch(table, S) = find[<<-1, Len(table) - 1>>]
  BY DEF bsearch, Searches, Narrow
<1> QED BY <1>1, <1>2

Ascending(table) ==
  /\ table \in Seq(Int)
  /\ \A i, j \in 1 .. Len(table) : i < j => table[i] < table[j]

(* A position found is the one of S, and S is found in the part searched.  *)
LEMMA SearchedRange ==
  ASSUME NEW table, Ascending(table), NEW S \in Int, NEW find, Searches(table, S, find),
         NEW F \in Int, NEW B \in Int, F >= -1, B < Len(table), NEW pos \in find[<<F, B>>]
  PROVE  /\ pos \in Int
         /\ pos >= 0 => pos < Len(table) /\ table[pos + 1] = S
         /\ \A p \in F .. B : p >= 0 /\ table[p + 1] = S => pos >= 0
<1> DEFINE Right(f, b) ==
      \A q \in find[<<f, b>>] :
        /\ q \in Int
        /\ q >= 0 => q < Len(table) /\ table[q + 1] = S
        /\ \A p \in f .. b : p >= 0 /\ table[p + 1] = S => q >= 0
           T == {n \in Nat : \A f, b \in Int :
                   f >= -1 /\ b < Len(table) /\ Left[<<f, b>>] < n => Right(f, b)}
<1>1. 0 \in T
  <2>1. ASSUME NEW f \in Int, NEW b \in Int PROVE ~(Left[<<f, b>>] < 0)
    BY LeftNat
  <2> HIDE DEF Right
  <2> QED BY <2>1
<1>2. ASSUME NEW n \in Nat, n \in T PROVE n + 1 \in T
  <2> SUFFICES ASSUME NEW f \in Int, NEW b \in Int, f >= -1, b < Len(table),
                      Left[<<f, b>>] < n + 1
               PROVE  Right(f, b)
    OBVIOUS
  <2> DEFINE middle == Half(b + f)
  <2>1. find[<<f, b>>] = Narrow(table, S, find, <<f, b>>)
    BY DEF Searches
  <2>2. CASE f > b
    <3>1. find[<<f, b>>] = {-1}
      BY <2>1, <2>2 DEF Narrow
    <3> QED BY <2>2, <3>1
  <2>3. CASE f <= b
    <3>1. middle \in f .. b
      BY <2>3, HalfBetween
    <3>2. Left[<<f, middle - 1>>] < n /\ Left[<<middle + 1, b>>] < n
      <4>1. /\ Left[<<f, middle - 1>>] < Left[<<f, b>>]
            /\ Left[<<middle + 1, b>>] < Left[<<f, b>>]
        BY <2>3, NarrowedLeft
      <4>2. middle \in Int /\ middle - 1 \in Int /\ middle + 1 \in Int
        BY <3>1
      <4>3. /\ Left[<<f, b>>] \in Nat /\ Left[<<f, middle - 1>>] \in Nat
            /\ Left[<<middle + 1, b>>] \in Nat
        BY <4>2, LeftNat
      <4> HIDE DEF middle
      <4> QED BY <4>1, <4>3
    <3>3. Len(table) \in Nat
      BY DEF Ascending
    <3>4. Right(f, middle - 1) /\ Right(middle + 1, b)
      <4>1. middle - 1 \in Int /\ middle + 1 \in Int /\ middle - 1 < Len(table) /\ middle + 1 >= -1
        BY <3>1, <3>3
      <4> HIDE DEF Right, middle
      <4> QED BY <1>2, <3>2, <4>1
    <3>5. find[<<f, b>>] =
            IF middle < 0
            THEN {middle} \cup find[<<f, middle - 1>>] \cup find[<<middle + 1, b>>]
            ELSE IF table[middle + 1] = S THEN {middle}
            ELSE IF table[middle + 1] > S THEN find[<<f, middle - 1>>]
            ELSE find[<<middle + 1, b>>]
      BY <2>1, <2>3 DEF Narrow
    <3> HIDE DEF middle
    <3>6. CASE middle < 0
      <4>1. middle = -1
        BY <3>1, <3>6
      <4>2. f = -1 /\ b = -1
        <5>1. middle = Half(b + f)
          BY DEF middle
        <5> QED BY <4>1, <5>1, <3>1 DEF Half
      <4> QED BY <3>4, <3>5, <3>6, <4>1, <4>2
    <3>7. CASE middle >= 0 /\ table[middle + 1] = S
      BY <3>1, <3>3, <3>5, <3>7
    <3>8. CASE middle >= 0 /\ table[middle + 1] # S
      <4>1. middle + 1 \in 1 .. Len(table) /\ table[middle + 1] \in Int
        BY <3>1, <3>3, <3>8 DEF Ascending
      <4>2. ASSUME NEW p \in f .. b, p >= 0, table[p + 1] = S
            PROVE  IF table[middle + 1] > S THEN p \in f .. middle - 1 ELSE p \in middle + 1 .. b
        <5>1. p + 1 \in 1 .. Len(table)
          BY <3>3, <4>2
        <5>2. p \in Int /\ middle \in Int /\ p # middle
          BY <3>1, <3>8, <4>2
        <5>3. p < middle => table[p + 1] < table[middle + 1]
          <6>1. p < middle => p + 1 < middle + 1
            BY <5>2
          <6> QED BY <4>1, <5>1, <6>1 DEF Ascending
        <5>4. middle < p => table[middle + 1] < table[p + 1]
          <6>1. middle < p => middle + 1 < p + 1
            BY <5>2
          <6> QED BY <4>1, <5>1, <6>1 DEF Ascending
        <5>5. CASE p < middle
          <6>1. table[middle + 1] > S
            BY <4>1, <4>2, <5>3, <5>5
          <6>2. p \in f .. middle - 1
            BY <4>2, <5>2, <5>5
          <6> QED BY <6>1, <6>2
        <5>6. CASE middle < p
          <6>1. ~(table[middle + 1] > S)
            BY <4>1, <4>2, <5>4, <5>6
          <6>2. p \in middle + 1 .. b
            BY <4>2, <5>2, <5>6
          <6> QED BY <6>1, <6>2
        <5> QED BY <5>2, <5>5, <5>6
      <4>3. CASE table[middle + 1] > S
        <5>1. find[<<f, b>>] = find[<<f, middle - 1>>]
          <6>1. ~(middle < 0) /\ table[middle + 1] # S
            BY <3>1, <3>8
          <6> QED BY <3>5, <4>3, <6>1, Zenon
        <5> QED BY <3>4, <4>2, <4>3, <5>1
      <4>4. CASE ~(table[middle + 1] > S)
        <5>1. find[<<f, b>>] = find[<<middle + 1, b>>]
          <6>1. ~(middle < 0) /\ table[middle + 1] # S
            BY <3>1, <3>8
          <6> QED BY <3>5, <4>4, <6>1, Zenon
        <5> QED BY <3>4, <4>2, <4>4, <5>1
      <4> QED BY <4>3, <4>4
    <3>9. middle \in Int
      BY <3>1
    <3> HIDE DEF Right
    <3> QED BY <3>6, <3>7, <3>8, <3>9
  <2> QED BY <2>2, <2>3
<1> HIDE DEF T
<1>3. \A n \in Nat : n \in T
  BY <1>1, <1>2, Induct
<1>4. Left[<<F, B>>] \in Nat
  BY DEF Left
<1>5. Left[<<F, B>>] + 1 \in T
  BY <1>3, <1>4
<1>6. Right(F, B)
  BY <1>4, <1>5 DEF T
<1> QED BY <1>6

(* The search of a sorted table finds a name where it is and no other.     *)
THEOREM BsearchFinds ==
  ASSUME NEW table, Ascending(table), NEW S \in Int, NEW pos \in bsearch(table, S)
  PROVE  IF \E i \in 1 .. Len(table) : table[i] = S
         THEN pos \in 0 .. Len(table) - 1 /\ table[pos + 1] = S
         ELSE pos \in Int /\ pos < 0
<1>1. PICK find : Searches(table, S, find) /\ bsearch(table, S) = find[<<-1, Len(table) - 1>>]
  BY BsearchSearches
<1>2. Len(table) \in Nat
  BY DEF Ascending
<1>3. /\ pos \in Int
      /\ pos >= 0 => pos < Len(table) /\ table[pos + 1] = S
      /\ \A p \in -1 .. Len(table) - 1 : p >= 0 /\ table[p + 1] = S => pos >= 0
  BY <1>1, <1>2, SearchedRange
<1>4. ASSUME NEW i \in 1 .. Len(table), table[i] = S PROVE pos >= 0
  <2>1. i - 1 \in -1 .. Len(table) - 1 /\ i - 1 >= 0 /\ (i - 1) + 1 = i
    BY <1>2
  <2> QED BY <1>3, <1>4, <2>1
<1>5. pos >= 0 => pos + 1 \in 1 .. Len(table)
  BY <1>2, <1>3
<1> QED BY <1>2, <1>3, <1>4, <1>5

-----------------------------------------------------------------------------
(* The table of exports.                                                   *)

Largest(S, x) == x \in S /\ \A y \in S : y <= x

LEMMA FiniteLargest ==
  ASSUME NEW S, S \subseteq Int, IsFiniteSet(S), S # {}
  PROVE  \E x : Largest(S, x)
<1> DEFINE T == {n \in Nat : \A R \in SUBSET Int :
                   IsFiniteSet(R) /\ R # {} /\ Cardinality(R) = n => \E x : Largest(R, x)}
<1>1. 0 \in T
  BY FS_EmptySet
<1>2. ASSUME NEW n \in Nat, n \in T PROVE n + 1 \in T
  <2> SUFFICES ASSUME NEW R \in SUBSET Int, IsFiniteSet(R), R # {}, Cardinality(R) = n + 1
               PROVE  \E x : Largest(R, x)
    OBVIOUS
  <2>1. PICK z \in R : TRUE
    OBVIOUS
  <2>2. IsFiniteSet(R \ {z}) /\ Cardinality(R \ {z}) = n
    <3>1. IsFiniteSet(R \ {z}) /\ Cardinality(R \ {z}) = Cardinality(R) - 1
      BY <2>1, FS_RemoveElement, Zenon
    <3> QED BY <3>1
  <2>3. CASE R \ {z} = {}
    BY <2>1, <2>3 DEF Largest
  <2>4. CASE R \ {z} # {}
    <3>1. PICK x : Largest(R \ {z}, x)
      BY <1>2, <2>2, <2>4
    <3>2. x \in Int /\ z \in Int
      BY <2>1, <3>1 DEF Largest
    <3>3. Largest(R, IF x <= z THEN z ELSE x)
      BY <2>1, <3>1, <3>2 DEF Largest
    <3> QED BY <3>3
  <2> QED BY <2>3, <2>4
<1> HIDE DEF T
<1>3. \A n \in Nat : n \in T
  BY <1>1, <1>2, Induct
<1>4. Cardinality(S) \in T
  BY <1>3, FS_CardinalityType
<1> QED BY <1>4 DEF T

(* The members of a set of numbers in order.                               *)
Enumerates(table, S) ==
  /\ table \in [1 .. Cardinality(S) -> S]
  /\ \A i, j \in DOMAIN table : i < j => table[i] < table[j]

LEMMA EnumerationExists ==
  ASSUME NEW S, S \subseteq Int, IsFiniteSet(S)
  PROVE  \E table : Enumerates(table, S)
<1> DEFINE T == {n \in Nat : \A R \in SUBSET Int :
                   IsFiniteSet(R) /\ Cardinality(R) = n => \E table : Enumerates(table, R)}
<1>1. 0 \in T
  <2> SUFFICES ASSUME NEW R \in SUBSET Int, IsFiniteSet(R), Cardinality(R) = 0
               PROVE  \E table : Enumerates(table, R)
    OBVIOUS
  <2>1. Enumerates([i \in 1 .. 0 |-> 0], R)
    BY DEF Enumerates
  <2> QED BY <2>1
<1>2. ASSUME NEW n \in Nat, n \in T PROVE n + 1 \in T
  <2> SUFFICES ASSUME NEW R \in SUBSET Int, IsFiniteSet(R), Cardinality(R) = n + 1
               PROVE  \E table : Enumerates(table, R)
    OBVIOUS
  <2>1. R # {}
    BY FS_EmptySet
  <2>2. PICK x : Largest(R, x)
    BY <2>1, FiniteLargest
  <2>3. IsFiniteSet(R \ {x}) /\ Cardinality(R \ {x}) = n
    <3>1. IsFiniteSet(R \ {x}) /\ Cardinality(R \ {x}) = Cardinality(R) - 1
      BY <2>2, FS_RemoveElement, Zenon DEF Largest
    <3> QED BY <3>1
  <2>4. PICK low : Enumerates(low, R \ {x})
    BY <1>2, <2>3
  <2> DEFINE table == [i \in 1 .. n + 1 |-> IF i = n + 1 THEN x ELSE low[i]]
  <2>5. \A i \in 1 .. n : low[i] \in R /\ low[i] # x
    BY <2>3, <2>4 DEF Enumerates
  <2>6. table \in [1 .. n + 1 -> R]
    BY <2>2, <2>5 DEF Largest
  <2>7. ASSUME NEW i \in 1 .. n + 1, NEW j \in 1 .. n + 1, i < j PROVE table[i] < table[j]
    <3>1. i \in 1 .. n /\ table[i] = low[i] /\ low[i] \in R /\ low[i] # x
      BY <2>5, <2>7
    <3>2. CASE j = n + 1
      <4>1. x \in Int /\ low[i] \in Int /\ low[i] <= x
        BY <2>2, <3>1 DEF Largest
      <4> QED BY <3>1, <3>2, <4>1
    <3>3. CASE j # n + 1
      <4>1. j \in 1 .. n /\ table[j] = low[j]
        BY <3>3
      <4> QED BY <2>3, <2>4, <2>7, <3>1, <4>1 DEF Enumerates
    <3> QED BY <3>2, <3>3
  <2>8. Enumerates(table, R)
    BY <2>6, <2>7 DEF Enumerates
  <2> HIDE DEF table
  <2> QED BY <2>8
<1> HIDE DEF T
<1>3. \A n \in Nat : n \in T
  BY <1>1, <1>2, Induct
<1>4. Cardinality(S) \in T
  BY <1>3, FS_CardinalityType
<1> QED BY <1>4 DEF T

HasAll(table, S) == \A s \in S : \E i \in 1 .. Cardinality(S) : table[i] = s

LEMMA EnumeratesAll ==
  ASSUME NEW S, S \subseteq Int, IsFiniteSet(S), NEW table, Enumerates(table, S)
  PROVE  HasAll(table, S)
<1>1. Cardinality(S) \in Nat
  BY FS_CardinalityType
<1>2. IsFiniteSet(1 .. Cardinality(S)) /\ Cardinality(1 .. Cardinality(S)) = Cardinality(S)
  BY <1>1, FS_Interval
<1>3. ASSUME NEW i \in 1 .. Cardinality(S), NEW j \in 1 .. Cardinality(S), table[i] = table[j]
      PROVE  i = j
  <2>1. table[i] \in Int /\ table[j] \in Int
    BY DEF Enumerates
  <2> QED BY <1>1, <1>3, <2>1 DEF Enumerates
<1>4. table \in Injection(1 .. Cardinality(S), S)
  BY <1>3 DEF Enumerates, Injection, IsInjective
<1>5. table \in Surjection(1 .. Cardinality(S), S)
  BY <1>2, <1>4, FS_Injection
<1> QED BY <1>5 DEF Surjection, HasAll

-----------------------------------------------------------------------------
(* The parser of the stubs.                                                *)

LEMMA Sizes ==
  /\ \A I \in Opcodes : instruction_size[I] \in Nat \ {0}
  /\ instruction_size[MovImmToEax] = 5
  /\ KCall \in Opcodes /\ MovImmToEax \in Opcodes /\ Retn \in Opcodes /\ Retn16 \in Opcodes
BY DEF Opcodes, instruction_size, MovImmToEax, KCall, Retn, Retn16

-----------------------------------------------------------------------------
(* The bytes of a stub: upTo[i] has those of its first i instructions.     *)
Joins(stub, upTo) ==
  upTo = [i \in 1 .. Len(stub) |-> IF i = 1 THEN stub[i] ELSE upTo[i - 1] \o stub[i]]

LEMMA JoinsExists ==
  ASSUME NEW stub, stub \in Seq(Seq(Nat))
  PROVE  \E upTo : upTo \in [1 .. Len(stub) -> Seq(Nat)] /\ Joins(stub, upTo)
<1> DEFINE D == 1 .. Len(stub)
           V == Seq(Nat)
           m == [i \in D |-> i]
           Phi == [f \in [D -> V] |->
                     [i \in D |-> IF i = 1 THEN stub[i] ELSE f[i - 1] \o stub[i]]]
<1>1. m \in [D -> Nat] /\ V # {} /\ \A i \in D : stub[i] \in V
  OBVIOUS
<1>2. Phi \in [[D -> V] -> [D -> V]]
  <2>1. ASSUME NEW f \in [D -> V], NEW i \in D
        PROVE  (IF i = 1 THEN stub[i] ELSE f[i - 1] \o stub[i]) \in V
    <3>1. CASE i = 1
      BY <1>1, <3>1
    <3>2. CASE i # 1
      <4>1. i - 1 \in D
        BY <3>2
      <4>2. f[i - 1] \in V /\ stub[i] \in V
        BY <1>1, <4>1
      <4> QED BY <3>2, <4>2
    <3> QED BY <3>1, <3>2
  <2> QED BY <2>1
<1>3. Descends(Phi, D, V, m)
  <2> SUFFICES ASSUME NEW g \in [D -> V], NEW h \in [D -> V], NEW i \in D,
                      \A j \in D : m[j] < m[i] => g[j] = h[j]
               PROVE  Phi[g][i] = Phi[h][i]
    BY DEF Descends
  <2>1. i # 1 => i - 1 \in D /\ m[i - 1] < m[i]
    OBVIOUS
  <2>2. i # 1 => g[i - 1] = h[i - 1]
    BY <2>1
  <2> QED BY <2>2
<1>4. ASSUME NEW f, Fixed(Phi, D, V, f) PROVE f \in [D -> V] /\ Joins(stub, f)
  BY <1>4 DEF Fixed, Joins
<1> HIDE DEF D, V, m, Phi
<1>5. \E f : Fixed(Phi, D, V, f)
  BY <1>1, <1>2, <1>3, Fixpoint, Zenon
<1> QED BY <1>4, <1>5 DEF D, V

Joined(stub) == CHOOSE upTo : Joins(stub, upTo)

LEMMA FlattenJoined ==
  ASSUME NEW stub, stub \in Seq(Seq(Nat)), stub # <<>>
  PROVE  /\ Joined(stub) \in [1 .. Len(stub) -> Seq(Nat)]
         /\ Joins(stub, Joined(stub))
         /\ FlattenSeq(stub) = Joined(stub)[Len(stub)]
<1>1. PICK upTo : upTo \in [1 .. Len(stub) -> Seq(Nat)] /\ Joins(stub, upTo)
  BY JoinsExists
<1>2. Joins(stub, Joined(stub))
  BY <1>1 DEF Joined
<1>3. Len(stub) # 0
  OBVIOUS
<1>4. FlattenSeq(stub) = Joined(stub)[Len(stub)]
  BY <1>3 DEF FlattenSeq, Joined, Joins
<1>5. \A i \in 1 .. Len(stub) : Joined(stub)[i] \in Seq(Nat)
  <2> DEFINE up == Joined(stub)
             T == {n \in Nat : n \in 1 .. Len(stub) => up[n] \in Seq(Nat)}
  <2>1. 0 \in T
    OBVIOUS
  <2>2. ASSUME NEW n \in Nat, n \in T PROVE n + 1 \in T
    <3> SUFFICES ASSUME n + 1 \in 1 .. Len(stub) PROVE up[n + 1] \in Seq(Nat)
      OBVIOUS
    <3>1. stub[n + 1] \in Seq(Nat)
      OBVIOUS
    <3>2. CASE n = 0
      BY <1>2, <3>1, <3>2 DEF Joins
    <3>3. CASE n # 0
      <4>1. n \in 1 .. Len(stub) /\ n + 1 # 1 /\ (n + 1) - 1 = n
        BY <3>3
      <4>2. up[n + 1] = up[n] \o stub[n + 1]
        BY <1>2, <4>1 DEF Joins
      <4> QED BY <2>2, <3>1, <4>1, <4>2
    <3> QED BY <3>2, <3>3
  <2> HIDE DEF T
  <2>3. \A n \in Nat : n \in T
    BY <2>1, <2>2, Induct
  <2> QED BY <2>3 DEF T
<1>6. Joined(stub) \in [1 .. Len(stub) -> Seq(Nat)]
  BY <1>2, <1>5 DEF Joins
<1> QED BY <1>2, <1>4, <1>6

LEMMA Concatenated ==
  ASSUME NEW u \in Seq(Nat), NEW v \in Seq(Nat)
  PROVE  /\ Len(u) \in Nat
         /\ Len(u \o v) = Len(u) + Len(v)
         /\ \A k \in 1 .. Len(v) : (u \o v)[Len(u) + k] = v[k]
         /\ \A k \in 1 .. Len(u) : (u \o v)[k] = u[k]
OBVIOUS

(* Where instruction i starts.                                             *)
Offset(stub, i) == IF i = 1 THEN 0 ELSE Len(Joined(stub)[i - 1])

LEMMA NextOffset ==
  ASSUME NEW stub, stub \in Seq(Seq(Nat)), NEW i \in 1 .. Len(stub)
  PROVE  /\ Offset(stub, i) \in Nat
         /\ Len(Joined(stub)[i]) = Offset(stub, i) + Len(stub[i])
         /\ Offset(stub, i + 1) = Offset(stub, i) + Len(stub[i])
         /\ \A k \in 1 .. Len(stub[i]) : Joined(stub)[i][Offset(stub, i) + k] = stub[i][k]
         /\ \A k \in 1 .. Offset(stub, i) : Joined(stub)[i][k] = Joined(stub)[i - 1][k]
<1>1. stub # <<>> /\ Len(stub) \in Nat /\ stub[i] \in Seq(Nat) /\ i \in Nat
  OBVIOUS
<1>2. /\ Joined(stub) \in [1 .. Len(stub) -> Seq(Nat)]
      /\ Joins(stub, Joined(stub))
  BY <1>1, FlattenJoined
<1>3. Joined(stub)[i] = IF i = 1 THEN stub[i] ELSE Joined(stub)[i - 1] \o stub[i]
  BY <1>2 DEF Joins
<1>4. i + 1 # 1 /\ (i + 1) - 1 = i
  OBVIOUS
<1>5. CASE i = 1
  BY <1>1, <1>3, <1>4, <1>5 DEF Offset
<1>6. CASE i # 1
  <2>1. i - 1 \in 1 .. Len(stub)
    BY <1>6
  <2>2. Joined(stub)[i - 1] \in Seq(Nat)
    BY <1>2, <2>1
  <2> DEFINE u == Joined(stub)[i - 1]
             v == stub[i]
  <2>3. /\ Len(u \o v) = Len(u) + Len(v)
        /\ \A k \in 1 .. Len(v) : (u \o v)[Len(u) + k] = v[k]
        /\ \A k \in 1 .. Len(u) : (u \o v)[k] = u[k]
        /\ Len(u) \in Nat
    <3> HIDE DEF u, v
    <3>1. u \in Seq(Nat) /\ v \in Seq(Nat)
      BY <1>1, <2>2 DEF u, v
    <3> QED BY <3>1, Concatenated
  <2>4. Joined(stub)[i] = u \o v /\ Offset(stub, i) = Len(u)
    BY <1>3, <1>6 DEF Offset
  <2>5. Offset(stub, i + 1) = Len(Joined(stub)[i])
    BY <1>4 DEF Offset
  <2> HIDE DEF u
  <2>6. \A k \in 1 .. Offset(stub, i) : Joined(stub)[i][k] = u[k]
    BY <2>3, <2>4
  <2> QED BY <2>3, <2>4, <2>5, <2>6 DEF u
<1> QED BY <1>5, <1>6

(* The bytes of the stub at an instruction are those of the instruction.   *)
LEMMA FlattenedBytes ==
  ASSUME NEW stub, stub \in Seq(Seq(Nat)), NEW i \in 1 .. Len(stub)
  PROVE  \A k \in 1 .. Len(stub[i]) : FlattenSeq(stub)[Offset(stub, i) + k] = stub[i][k]
<1> DEFINE up == Joined(stub)
           T == {n \in Nat : i <= n /\ n <= Len(stub) =>
                   /\ Offset(stub, i) + Len(stub[i]) <= Len(up[n])
                   /\ \A k \in 1 .. Len(stub[i]) : up[n][Offset(stub, i) + k] = stub[i][k]}
<1>1. 0 \in T
  OBVIOUS
<1>2. ASSUME NEW n \in Nat, n \in T PROVE n + 1 \in T
  <2> SUFFICES ASSUME i <= n + 1, n + 1 <= Len(stub)
               PROVE  /\ Offset(stub, i) + Len(stub[i]) <= Len(up[n + 1])
                      /\ \A k \in 1 .. Len(stub[i]) : up[n + 1][Offset(stub, i) + k] = stub[i][k]
    OBVIOUS
  <2>1. Offset(stub, i) \in Nat /\ Len(stub[i]) \in Nat
    BY NextOffset
  <2>2. CASE i = n + 1
    <3>1. Len(up[i]) = Offset(stub, i) + Len(stub[i])
          /\ \A k \in 1 .. Len(stub[i]) : up[i][Offset(stub, i) + k] = stub[i][k]
      BY NextOffset
    <3> QED BY <2>1, <2>2, <3>1
  <2>3. CASE i <= n
    <3>1. n \in 1 .. Len(stub) /\ n + 1 \in 1 .. Len(stub) /\ n + 1 # 1 /\ (n + 1) - 1 = n
      BY <2>3
    <3>2. Offset(stub, n + 1) = Len(up[n])
      BY <3>1 DEF Offset
    <3>3. /\ Offset(stub, n + 1) \in Nat
          /\ Len(up[n + 1]) = Offset(stub, n + 1) + Len(stub[n + 1])
          /\ \A k \in 1 .. Offset(stub, n + 1) : up[n + 1][k] = up[(n + 1) - 1][k]
      BY <3>1, NextOffset
    <3>4. Len(stub[n + 1]) \in Nat
      BY <3>1
    <3>5. /\ Offset(stub, i) + Len(stub[i]) <= Len(up[n])
          /\ \A k \in 1 .. Len(stub[i]) : up[n][Offset(stub, i) + k] = stub[i][k]
      BY <1>2, <2>3, <3>1
    <3> HIDE DEF up
    <3>6. ASSUME NEW k \in 1 .. Len(stub[i])
          PROVE  up[n + 1][Offset(stub, i) + k] = stub[i][k]
      <4>1. Offset(stub, i) + k \in 1 .. Offset(stub, n + 1)
        <5>1. k \in Nat /\ 1 <= k /\ k <= Len(stub[i])
          BY <2>1
        <5>2. Offset(stub, i) + Len(stub[i]) <= Offset(stub, n + 1)
          BY <3>2, <3>5
        <5>3. Offset(stub, n + 1) \in Nat
          BY <3>3
        <5> DEFINE o == Offset(stub, i)
                   p == Offset(stub, n + 1)
                   l == Len(stub[i])
        <5>4. o \in Nat /\ p \in Nat /\ l \in Nat /\ k <= l /\ o + l <= p
          BY <2>1, <5>1, <5>2, <5>3
        <5> HIDE DEF o, p, l
        <5>5. o + k \in 1 .. p
          BY <5>1, <5>4
        <5> QED BY <5>5 DEF o, p
      <4>2. up[n + 1][Offset(stub, i) + k] = up[n][Offset(stub, i) + k]
        BY <3>1, <3>3, <4>1
      <4> QED BY <3>5, <4>2
    <3>7. Offset(stub, i) + Len(stub[i]) <= Len(up[n + 1])
      BY <2>1, <3>2, <3>3, <3>4, <3>5
    <3> QED BY <3>6, <3>7
  <2> QED BY <2>2, <2>3
<1> HIDE DEF T
<1>3. \A n \in Nat : n \in T
  BY <1>1, <1>2, Induct
<1>4. Len(stub) \in Nat /\ i <= Len(stub) /\ stub # <<>>
  OBVIOUS
<1>5. \A k \in 1 .. Len(stub[i]) : up[Len(stub)][Offset(stub, i) + k] = stub[i][k]
  <2>1. Len(stub) \in T
    BY <1>3, <1>4
  <2> QED BY <1>4, <2>1 DEF T
<1> QED BY <1>4, <1>5, FlattenJoined

(* A stub has no more instructions than bytes.                             *)
LEMMA FlattenedLength ==
  ASSUME NEW stub, stub \in Seq(Seq(Nat) \ {<<>>}), stub # <<>>
  PROVE  Len(FlattenSeq(stub)) \in Nat /\ Len(stub) <= Len(FlattenSeq(stub))
<1> DEFINE up == Joined(stub)
           T == {n \in Nat : n \in 1 .. Len(stub) => n <= Len(up[n])}
<1>1. stub \in Seq(Seq(Nat))
  OBVIOUS
<1>2. 0 \in T
  OBVIOUS
<1>3. ASSUME NEW n \in Nat, n \in T PROVE n + 1 \in T
  <2> SUFFICES ASSUME n + 1 \in 1 .. Len(stub) PROVE n + 1 <= Len(up[n + 1])
    OBVIOUS
  <2>1. stub[n + 1] \in Seq(Nat) /\ stub[n + 1] # <<>>
    OBVIOUS
  <2>2. Len(stub[n + 1]) \in Nat /\ Len(stub[n + 1]) >= 1
    BY <2>1
  <2>3. Offset(stub, n + 1) \in Nat /\ Len(up[n + 1]) = Offset(stub, n + 1) + Len(stub[n + 1])
    BY <1>1, NextOffset
  <2>4. n <= Offset(stub, n + 1)
    <3>1. CASE n = 0
      BY <2>3, <3>1
    <3>2. CASE n # 0
      <4>1. n \in 1 .. Len(stub) /\ n + 1 # 1 /\ (n + 1) - 1 = n
        BY <3>2
      <4> QED BY <1>3, <4>1 DEF Offset
    <3> QED BY <3>1, <3>2
  <2> HIDE DEF up
  <2> QED BY <2>2, <2>3, <2>4
<1> HIDE DEF T
<1>4. \A n \in Nat : n \in T
  BY <1>2, <1>3, Induct
<1>5. Len(stub) \in Nat /\ Len(stub) \in 1 .. Len(stub)
  OBVIOUS
<1>6. up \in [1 .. Len(stub) -> Seq(Nat)] /\ FlattenSeq(stub) = up[Len(stub)]
  BY <1>1, FlattenJoined
<1>7. up[Len(stub)] \in Seq(Nat)
  BY <1>5, <1>6
<1>8. Len(stub) <= Len(up[Len(stub)])
  BY <1>4, <1>5 DEF T
<1> QED BY <1>6, <1>7, <1>8

Begin == [off |-> 0, call |-> invalid_syscall, did |-> FALSE]

Runs(bytes, run) ==
  run = [n \in Nat |-> IF n = 0 THEN Begin ELSE Turn(bytes, run[n - 1])]

LEMMA RunsExists == ASSUME NEW bytes PROVE \E run : Runs(bytes, run)
<1> DEFINE C == {invalid_syscall} \cup {SubSeq(bytes, o + 2, o + 5) : o \in Nat}
           V == [off : Nat, call : C, did : BOOLEAN]
           step == [v \in V |-> Turn(bytes, v)]
<1>1. Begin \in V
  BY DEF Begin
<1>2. ASSUME NEW v \in V PROVE Turn(bytes, v) \in V
  <2> DEFINE I == bytes[v.off + 1]
  <2>1. v.off \in Nat /\ v.call \in C /\ v.did \in BOOLEAN
    OBVIOUS
  <2>2. CASE I \notin Opcodes \ {Retn, Retn16}
    BY <2>2 DEF Turn
  <2>3. CASE I \in Opcodes \ {Retn, Retn16}
    <3>1. instruction_size[I] \in Nat
      BY <2>3, Sizes
    <3>2. v.off + instruction_size[I] \in Nat
      BY <2>1, <3>1
    <3>3. SubSeq(bytes, v.off + 2, v.off + 5) \in C
      BY <2>1, Zenon
    <3>4. (v.did \/ I = KCall) \in BOOLEAN
      OBVIOUS
    <3>5. (IF I = MovImmToEax THEN SubSeq(bytes, v.off + 2, v.off + 5) ELSE v.call) \in C
      <4> HIDE DEF C, I
      <4> QED BY <2>1, <3>3, Zenon
    <3>6. Turn(bytes, v) =
            [off |-> v.off + instruction_size[I],
             call |-> IF I = MovImmToEax THEN SubSeq(bytes, v.off + 2, v.off + 5) ELSE v.call,
             did |-> v.did \/ I = KCall]
      BY <2>3 DEF Turn
    <3> HIDE DEF C, I
    <3> USE DEF V
    <3> QED BY <3>2, <3>4, <3>5, <3>6
  <2> QED BY <2>2, <2>3
<1>3. step \in [V -> V]
  <2> HIDE DEF V
  <2> QED BY <1>2
<1> HIDE DEF V
<1>4. PICK g \in [Nat -> V] : g[0] = Begin /\ \A n \in Nat : g[n + 1] = step[g[n]]
  <2> HIDE DEF step
  <2> QED BY <1>1, <1>3, Iterate
<1>5. ASSUME NEW n \in Nat
      PROVE  g[n] = IF n = 0 THEN Begin ELSE Turn(bytes, g[n - 1])
  <2>1. CASE n = 0
    BY <1>4, <2>1
  <2>2. CASE n # 0
    <3>1. n - 1 \in Nat /\ (n - 1) + 1 = n
      BY <2>2
    <3>2. g[n - 1] \in V /\ g[(n - 1) + 1] = step[g[n - 1]]
      BY <1>4, <3>1
    <3>3. g[n] = Turn(bytes, g[n - 1])
      BY <3>1, <3>2
    <3> QED BY <2>2, <3>3
  <2> QED BY <2>1, <2>2
<1>6. g = [n \in Nat |-> g[n]]
  BY <1>4
<1>7. g = [n \in Nat |-> IF n = 0 THEN Begin ELSE Turn(bytes, g[n - 1])]
  BY <1>5, <1>6
<1> QED BY <1>7 DEF Runs

(* What do_parsing() answers at the end of its loop.                       *)
Answered(bytes, end) ==
  LET I == bytes[end.off + 1]
  IN IF I \notin Opcodes THEN Err("IllegalInstruction")
     ELSE IF I = Retn16 THEN Err("UnexpectedC2Retn")
     ELSE IF end.call = invalid_syscall \/ ~end.did THEN Err("SyscallNotFound")
     ELSE Ok(end.call)

LEMMA ParsingRuns ==
  ASSUME NEW bytes
  PROVE  \E run : Runs(bytes, run) /\ do_parsing(bytes) = Answered(bytes, run[Len(bytes)])
<1> DEFINE run == CHOOSE f : Runs(bytes, f)
<1>1. Runs(bytes, run)
  BY RunsExists
<1>2. do_parsing(bytes) = Answered(bytes, run[Len(bytes)])
  BY DEF do_parsing, Answered, Runs, Begin
<1> QED BY <1>1, <1>2

-----------------------------------------------------------------------------
(* The loop after the first n instructions of a stub.                      *)
Known(stub, i) == stub[i][1] \in Opcodes \ {Retn, Retn16}

StopsAt(stub, last) ==
  /\ last \in 1 .. Len(stub)
  /\ ~Known(stub, last)
  /\ \A j \in 1 .. last - 1 : Known(stub, j)

LastMov(stub, n, call) ==
  \/ call = invalid_syscall /\ \A j \in 1 .. n : stub[j][1] # MovImmToEax
  \/ \E m \in 1 .. n : /\ stub[m][1] = MovImmToEax /\ call = Tail(stub[m])
                       /\ \A j \in m + 1 .. n : stub[j][1] # MovImmToEax

ReadTo(stub, n, loop) ==
  /\ loop.off = Offset(stub, n + 1)
  /\ LastMov(stub, n, loop.call)
  /\ loop.did \in BOOLEAN
  /\ loop.did <=> \E j \in 1 .. n : stub[j][1] = KCall

LEMMA Operand ==
  ASSUME NEW bytes, NEW o \in Nat, NEW instr \in Seq(Nat), Len(instr) = 5,
         \A k \in 1 .. Len(instr) : bytes[o + k] = instr[k]
  PROVE  SubSeq(bytes, o + 2, o + 5) = Tail(instr)
<1>1. \A k \in 1 .. 5 : instr[k] \in Nat
  BY ElementOfSeq
<1>2. ASSUME NEW i \in o + 2 .. o + 5 PROVE bytes[i] \in Nat
  <2>1. i - o \in 1 .. 5 /\ i = o + (i - o)
    OBVIOUS
  <2> QED BY <1>1, <2>1
<1> DEFINE s == SubSeq(bytes, o + 2, o + 5)
           t == Tail(instr)
<1>3. s \in Seq(Nat) /\ Len(s) = 4 /\ \A i \in 1 .. 4 : s[i] = bytes[o + 1 + i]
  <2>1. o + 2 \in Int /\ o + 5 \in Int
    OBVIOUS
  <2>2. /\ s \in Seq(Nat)
        /\ Len(s) = IF o + 2 <= o + 5 THEN o + 5 - (o + 2) + 1 ELSE 0
        /\ \A i \in 1 .. o + 5 - (o + 2) + 1 : s[i] = bytes[o + 2 + i - 1]
    BY <1>2, <2>1, SubSeqProperties
  <2> HIDE DEF s
  <2>3. Len(s) = 4
    BY <2>2
  <2>4. ASSUME NEW i \in 1 .. 4 PROVE s[i] = bytes[o + 1 + i]
    <3>1. i \in 1 .. o + 5 - (o + 2) + 1 /\ o + 2 + i - 1 = o + 1 + i
      OBVIOUS
    <3> QED BY <2>2, <3>1
  <2> QED BY <2>2, <2>3, <2>4
<1>4. instr # <<>>
  <2>1. Len(<<>>) # 5
    OBVIOUS
  <2> QED BY <2>1, Zenon
<1>5. t \in Seq(Nat) /\ Len(t) = 4 /\ \A i \in 1 .. 4 : t[i] = instr[i + 1]
  <2>1. /\ t \in Seq(Nat) /\ Len(t) = Len(instr) - 1
        /\ \A i \in 1 .. Len(t) : t[i] = instr[i + 1]
    BY <1>4, HeadTailProperties
  <2> HIDE DEF t
  <2> QED BY <2>1
<1>6. ASSUME NEW i \in 1 .. 4 PROVE bytes[o + 1 + i] = instr[i + 1]
  <2>1. i + 1 \in 1 .. Len(instr) /\ o + 1 + i = o + (i + 1)
    OBVIOUS
  <2> QED BY <2>1
<1> HIDE DEF s, t
<1>7. Len(s) = Len(t) /\ \A i \in 1 .. Len(s) : s[i] = t[i]
  BY <1>3, <1>5, <1>6
<1>8. s = t
  BY <1>3, <1>5, <1>7, SeqEqual
<1> QED BY <1>8 DEF s, t

LEMMA TurnReads ==
  ASSUME NEW stub, IsStub(stub), NEW n \in Nat, n + 1 \in 1 .. Len(stub),
         Known(stub, n + 1), NEW loop, ReadTo(stub, n, loop)
  PROVE  ReadTo(stub, n + 1, Turn(FlattenSeq(stub), loop))
<1> DEFINE bytes == FlattenSeq(stub)
           instr == stub[n + 1]
           I == bytes[loop.off + 1]
<1>1. stub \in Seq(Seq(Nat)) /\ n + 1 \in 1 .. Len(stub)
  BY DEF IsStub
<1>2. instr \in Seq(Nat) /\ instr # <<>>
  BY DEF IsStub
<1>3. Len(instr) \in Nat /\ 1 \in 1 .. Len(instr)
  BY <1>2
<1>4. Len(instr) = instruction_size[instr[1]]
  <2>1. \A i \in DOMAIN stub :
          stub[i][1] \in Opcodes => Len(stub[i]) = instruction_size[stub[i][1]]
    BY DEF IsStub
  <2>2. n + 1 \in DOMAIN stub /\ stub[n + 1][1] \in Opcodes
    BY <1>1 DEF Known
  <2> QED BY <2>1, <2>2, Zenon
<1>5. /\ Offset(stub, n + 1) \in Nat
      /\ Offset(stub, n + 1 + 1) = Offset(stub, n + 1) + Len(instr)
  BY <1>1, NextOffset
<1>6. \A k \in 1 .. Len(instr) : bytes[loop.off + k] = instr[k]
  <2>1. \A k \in 1 .. Len(stub[n + 1]) : bytes[Offset(stub, n + 1) + k] = stub[n + 1][k]
    BY <1>1, FlattenedBytes
  <2>2. loop.off = Offset(stub, n + 1)
    BY DEF ReadTo
  <2> QED BY <2>1, <2>2
<1>7. I = instr[1] /\ I \in Opcodes \ {Retn, Retn16}
  BY <1>3, <1>6 DEF Known
<1> DEFINE next == [off  |-> loop.off + instruction_size[I],
                    call |-> IF I = MovImmToEax THEN SubSeq(bytes, loop.off + 2, loop.off + 5)
                             ELSE loop.call,
                    did  |-> loop.did \/ I = KCall]
<1>8. Turn(bytes, loop) = next
  BY <1>7 DEF Turn
<1>9. next.off = Offset(stub, n + 1 + 1)
  BY <1>4, <1>5, <1>7 DEF ReadTo
<1>10. LastMov(stub, n + 1, next.call)
  <2>1. CASE I = MovImmToEax
    <3>1. Len(instr) = 5
      BY <1>4, <1>7, <2>1, Sizes
    <3>2. loop.off \in Nat
      BY <1>5 DEF ReadTo
    <3>6. SubSeq(bytes, loop.off + 2, loop.off + 5) = Tail(instr)
      BY <1>2, <1>6, <3>1, <3>2, Operand
    <3>7. next.call = Tail(instr) /\ instr[1] = MovImmToEax
      BY <1>7, <2>1, <3>6
    <3>8. n + 1 \in 1 .. n + 1 /\ \A j \in n + 1 + 1 .. n + 1 : FALSE
      OBVIOUS
    <3> HIDE DEF next
    <3> QED BY <3>7, <3>8 DEF LastMov
  <2>2. CASE I # MovImmToEax
    <3>1. next.call = loop.call /\ stub[n + 1][1] # MovImmToEax
      BY <1>7, <2>2
    <3>2. LastMov(stub, n, loop.call)
      BY DEF ReadTo
    <3>3. \A j \in Nat : j <= n + 1 => j <= n \/ j = n + 1
      OBVIOUS
    <3> HIDE DEF next
    <3>4. CASE loop.call = invalid_syscall /\ \A j \in 1 .. n : stub[j][1] # MovImmToEax
      BY <3>1, <3>3, <3>4 DEF LastMov
    <3>5. CASE \E m \in 1 .. n : /\ stub[m][1] = MovImmToEax /\ loop.call = Tail(stub[m])
                                 /\ \A j \in m + 1 .. n : stub[j][1] # MovImmToEax
      <4>1. PICK m \in 1 .. n : /\ stub[m][1] = MovImmToEax /\ loop.call = Tail(stub[m])
                                /\ \A j \in m + 1 .. n : stub[j][1] # MovImmToEax
        BY <3>5
      <4>2. m \in 1 .. n + 1 /\ \A j \in m + 1 .. n + 1 : stub[j][1] # MovImmToEax
        BY <3>1, <4>1
      <4> QED BY <3>1, <4>1, <4>2 DEF LastMov
    <3> QED BY <3>2, <3>4, <3>5 DEF LastMov
  <2> QED BY <2>1, <2>2
<1>11. next.did \in BOOLEAN /\ (next.did <=> \E j \in 1 .. n + 1 : stub[j][1] = KCall)
  <2>1. next.did <=> loop.did \/ stub[n + 1][1] = KCall
    BY <1>7
  <2>2. loop.did <=> \E j \in 1 .. n : stub[j][1] = KCall
    BY DEF ReadTo
  <2>3. (\E j \in 1 .. n + 1 : stub[j][1] = KCall) <=>
          (\E j \in 1 .. n : stub[j][1] = KCall) \/ stub[n + 1][1] = KCall
    <3>1. 1 .. n + 1 = (1 .. n) \cup {n + 1}
      OBVIOUS
    <3> QED BY <3>1, Zenon
  <2>4. next.did \in BOOLEAN
    OBVIOUS
  <2> HIDE DEF next
  <2> QED BY <2>1, <2>2, <2>3, <2>4
<1> HIDE DEF next
<1> QED BY <1>8, <1>9, <1>10, <1>11 DEF ReadTo

LEMMA RunReads ==
  ASSUME NEW stub, IsStub(stub), NEW last, StopsAt(stub, last),
         NEW run, Runs(FlattenSeq(stub), run)
  PROVE  ReadTo(stub, last - 1, run[Len(FlattenSeq(stub))])
<1> DEFINE bytes == FlattenSeq(stub)
           T == {n \in Nat : n <= last - 1 => ReadTo(stub, n, run[n])}
           U == {n \in Nat : run[last - 1 + n] = run[last - 1]}
<1>1. stub \in Seq(Seq(Nat)) /\ Len(stub) \in Nat /\ last \in 1 .. Len(stub) /\ stub # <<>>
  BY DEF IsStub, StopsAt
<1>2. run[0] = Begin /\ \A n \in Nat : run[n + 1] = Turn(bytes, run[n])
  <2>1. run[0] = Begin
    BY DEF Runs
  <2>2. ASSUME NEW n \in Nat PROVE run[n + 1] = Turn(bytes, run[n])
    <3>1. n + 1 \in Nat /\ n + 1 # 0 /\ (n + 1) - 1 = n
      OBVIOUS
    <3>2. run[n + 1] = Turn(bytes, run[(n + 1) - 1])
      BY <3>1 DEF Runs
    <3> QED BY <3>1, <3>2
  <2> QED BY <2>1, <2>2
<1>3. 0 \in T
  <2>1. Begin.off = 0 /\ Begin.call = invalid_syscall /\ Begin.did = FALSE
    BY DEF Begin
  <2>2. 0 + 1 = 1 /\ \A j \in 1 .. 0 : FALSE
    OBVIOUS
  <2>3. ReadTo(stub, 0, Begin)
    BY <2>1, <2>2 DEF ReadTo, LastMov, Offset
  <2> QED BY <1>2, <2>3
<1>4. ASSUME NEW n \in Nat, n \in T PROVE n + 1 \in T
  <2> SUFFICES ASSUME n + 1 <= last - 1 PROVE ReadTo(stub, n + 1, run[n + 1])
    OBVIOUS
  <2>1. n + 1 \in 1 .. Len(stub) /\ n + 1 \in 1 .. last - 1 /\ n <= last - 1
    BY <1>1
  <2>2. Known(stub, n + 1)
    BY <2>1 DEF StopsAt
  <2>3. ReadTo(stub, n, run[n])
    BY <1>4, <2>1
  <2> QED BY <1>2, <2>1, <2>2, <2>3, TurnReads
<1>5. last - 1 \in Nat
  BY <1>1
<1>6. ReadTo(stub, last - 1, run[last - 1])
  <2> HIDE DEF T
  <2>1. \A n \in Nat : n \in T
    BY <1>3, <1>4, Induct
  <2> QED BY <1>5, <2>1 DEF T
<1>7. Turn(bytes, run[last - 1]) = run[last - 1]
  <2>1. run[last - 1].off = Offset(stub, last)
    <3>1. last - 1 + 1 = last
      BY <1>1
    <3> QED BY <1>6, <3>1 DEF ReadTo
  <2>2. bytes[Offset(stub, last) + 1] = stub[last][1]
    <3>1. Len(stub[last]) \in Nat /\ 1 \in 1 .. Len(stub[last])
      <4>1. stub[last] \in Seq(Nat) /\ stub[last] # <<>>
        BY <1>1 DEF IsStub
      <4> QED BY <4>1
    <3> QED BY <1>1, <3>1, FlattenedBytes
  <2>3. bytes[run[last - 1].off + 1] \notin Opcodes \ {Retn, Retn16}
    BY <2>1, <2>2 DEF StopsAt, Known
  <2> QED BY <2>3 DEF Turn
<1>8. 0 \in U
  BY <1>5
<1>9. ASSUME NEW n \in Nat, n \in U PROVE n + 1 \in U
  <2>1. last - 1 + n \in Nat /\ last - 1 + (n + 1) = (last - 1 + n) + 1
    BY <1>5
  <2>2. run[last - 1 + (n + 1)] = Turn(bytes, run[last - 1 + n])
    BY <1>2, <2>1
  <2> QED BY <1>7, <1>9, <2>2
<1>10. \A n \in Nat : n \in U
  <2> HIDE DEF U
  <2> QED BY <1>8, <1>9, Induct
<1>11. Len(bytes) \in Nat /\ Len(stub) <= Len(bytes)
  BY <1>1, FlattenedLength DEF IsStub
<1>12. Len(bytes) - (last - 1) \in Nat /\ last - 1 + (Len(bytes) - (last - 1)) = Len(bytes)
  BY <1>1, <1>11
<1>13. run[Len(bytes)] = run[last - 1]
  <2> HIDE DEF bytes
  <2> QED BY <1>10, <1>12
<1> QED BY <1>6, <1>13

(* What can become of a call: an error and no number, or a number.         *)
Outcome(o) ==
  \/ \E e \in Errors \ {"Success"} : o = Err(e)
  \/ \E c \in Seq(Nat) : c # invalid_syscall /\ o = Ok(c)

(* The parser reads a stub as its instructions mean it.                    *)
THEOREM ParsesMeaning ==
  ASSUME NEW stub, IsStub(stub)
  PROVE  do_parsing(FlattenSeq(stub)) = Meaning(stub) /\ Outcome(Meaning(stub))
<1> DEFINE bytes == FlattenSeq(stub)
           last == CHOOSE i \in DOMAIN stub :
                     ~Known(stub, i) /\ \A j \in 1 .. i - 1 : Known(stub, j)
           Has(op) == {i \in 1 .. last : stub[i][1] = op}
           mov == CHOOSE i \in Has(MovImmToEax) : \A j \in Has(MovImmToEax) : j <= i
<1>1. stub \in Seq(Seq(Nat)) /\ Len(stub) \in Nat /\ DOMAIN stub = 1 .. Len(stub)
  BY DEF IsStub
<1>2. StopsAt(stub, last)
  <2> DEFINE Stops == {i \in 1 .. Len(stub) : ~Known(stub, i)}
  <2>1. Stops # {} /\ Stops \subseteq Nat
    BY <1>1 DEF IsStub, Known
  <2>2. PICK i \in Stops : \A j \in Stops : i <= j
    <3> HIDE DEF Stops
    <3> QED BY <2>1, LeastElement
  <2>3. \A j \in 1 .. i - 1 : Known(stub, j)
    BY <1>1, <2>2
  <2>4. i \in DOMAIN stub /\ ~Known(stub, i)
    BY <1>1, <2>2
  <2> QED BY <1>1, <2>3, <2>4 DEF StopsAt
<1>3. PICK run : Runs(bytes, run) /\ do_parsing(bytes) = Answered(bytes, run[Len(bytes)])
  BY ParsingRuns
<1> DEFINE end == run[Len(bytes)]
           I == bytes[end.off + 1]
<1>4. ReadTo(stub, last - 1, end)
  BY <1>2, <1>3, RunReads
<1>5. last \in 1 .. Len(stub) /\ last \in Nat
  BY <1>2 DEF StopsAt
<1>6. I = stub[last][1]
  <2>1. end.off = Offset(stub, last)
    <3>1. last - 1 + 1 = last
      BY <1>5
    <3> QED BY <1>4, <3>1 DEF ReadTo
  <2>2. Len(stub[last]) \in Nat /\ 1 \in 1 .. Len(stub[last])
    <3>1. stub[last] \in Seq(Nat) /\ stub[last] # <<>>
      BY <1>5 DEF IsStub
    <3> QED BY <3>1
  <2>3. bytes[Offset(stub, last) + 1] = stub[last][1]
    BY <1>1, <1>5, <2>2, FlattenedBytes
  <2> QED BY <2>1, <2>3
<1>7. I \notin Opcodes \/ I = Retn \/ I = Retn16
  BY <1>2, <1>6 DEF StopsAt, Known
<1>8. Retn # Retn16 /\ Retn \in Opcodes /\ Retn16 \in Opcodes /\ KCall \in Opcodes
      /\ MovImmToEax \in Opcodes /\ KCall \notin {Retn, Retn16} /\ MovImmToEax \notin {Retn, Retn16}
  BY DEF Retn, Retn16, KCall, MovImmToEax, Opcodes
<1> HIDE DEF last
<1>9. ASSUME NEW op, op \in {KCall, MovImmToEax} PROVE Has(op) = {i \in 1 .. last - 1 : stub[i][1] = op}
  <2>1. stub[last][1] # op
    BY <1>6, <1>7, <1>8, <1>9
  <2>2. \A i \in 1 .. last : i = last \/ i \in 1 .. last - 1
    BY <1>5
  <2> QED BY <1>5, <2>1, <2>2
<1>10. end.did <=> Has(KCall) # {}
  BY <1>4, <1>9 DEF ReadTo
<1>11. IF Has(MovImmToEax) = {} THEN end.call = invalid_syscall ELSE end.call = Tail(stub[mov])
  <2>1. LastMov(stub, last - 1, end.call)
    BY <1>4 DEF ReadTo
  <2>2. CASE end.call = invalid_syscall /\ \A j \in 1 .. last - 1 : stub[j][1] # MovImmToEax
    BY <1>9, <2>2
  <2>3. CASE \E m \in 1 .. last - 1 :
               /\ stub[m][1] = MovImmToEax /\ end.call = Tail(stub[m])
               /\ \A j \in m + 1 .. last - 1 : stub[j][1] # MovImmToEax
    <3>1. PICK m \in 1 .. last - 1 :
               /\ stub[m][1] = MovImmToEax /\ end.call = Tail(stub[m])
               /\ \A j \in m + 1 .. last - 1 : stub[j][1] # MovImmToEax
      BY <2>3
    <3>2. m \in Has(MovImmToEax) /\ \A j \in Has(MovImmToEax) : j <= m
      <4>1. Has(MovImmToEax) = {i \in 1 .. last - 1 : stub[i][1] = MovImmToEax}
        BY <1>9
      <4> HIDE DEF Has
      <4> QED BY <1>5, <3>1, <4>1
    <3>3. mov \in Has(MovImmToEax) /\ \A j \in Has(MovImmToEax) : j <= mov
      <4> HIDE DEF Has
      <4> QED BY <3>2
    <3>4. m \in Nat /\ mov \in Nat
      BY <1>5, <3>2, <3>3
    <3>5. m <= mov /\ mov <= m
      BY <3>2, <3>3
    <3> HIDE DEF mov, Has
    <3>6. m = mov
      BY <3>4, <3>5
    <3> QED BY <3>1, <3>2, <3>6
  <2> QED BY <2>1, <2>2, <2>3 DEF LastMov
<1>12. Meaning(stub) =
         IF stub[last][1] = Retn16 THEN Err("UnexpectedC2Retn")
         ELSE IF stub[last][1] # Retn THEN Err("IllegalInstruction")
         ELSE IF Has(MovImmToEax) = {} \/ Has(KCall) = {} THEN Err("SyscallNotFound")
         ELSE IF Tail(stub[mov]) = invalid_syscall THEN Err("SyscallNotFound")
         ELSE Ok(Tail(stub[mov]))
  BY DEF Meaning, last, Known
<1>13. Answered(bytes, end) =
         IF I \notin Opcodes THEN Err("IllegalInstruction")
         ELSE IF I = Retn16 THEN Err("UnexpectedC2Retn")
         ELSE IF end.call = invalid_syscall \/ ~end.did THEN Err("SyscallNotFound")
         ELSE Ok(end.call)
  BY DEF Answered
<1> DEFINE answer == Answered(bytes, end)
<1>15. Outcome(answer)
  <2>1. end.call = invalid_syscall \/ end.call \in Seq(Nat)
    <3>1. ASSUME NEW m \in 1 .. last - 1, end.call = Tail(stub[m]) PROVE end.call \in Seq(Nat)
      <4>1. m \in 1 .. Len(stub)
        BY <1>1, <1>5
      <4>2. stub[m] \in Seq(Nat) /\ stub[m] # <<>>
        BY <4>1 DEF IsStub
      <4> QED BY <3>1, <4>2, HeadTailProperties
    <3>2. LastMov(stub, last - 1, end.call)
      BY <1>4 DEF ReadTo
    <3> HIDE DEF end
    <3> QED BY <3>1, <3>2 DEF LastMov
  <2>2. {"IllegalInstruction", "UnexpectedC2Retn", "SyscallNotFound"} \subseteq Errors \ {"Success"}
    BY DEF Errors
  <2> HIDE DEF end, I, bytes
  <2> QED BY <1>13, <2>1, <2>2, Zenon DEF Outcome
<1> HIDE DEF Has, mov, end, I, bytes
<1>14. Answered(bytes, end) = Meaning(stub)
  <2>1. CASE I \notin Opcodes
    BY <1>6, <1>8, <1>12, <1>13, <2>1, Zenon
  <2>2. CASE I = Retn16
    BY <1>6, <1>8, <1>12, <1>13, <2>2, Zenon
  <2>3. CASE I = Retn
    <3>1. I \in Opcodes /\ I # Retn16
      BY <1>8, <2>3, Zenon
    <3>2. Answered(bytes, end) = IF end.call = invalid_syscall \/ ~end.did
                                 THEN Err("SyscallNotFound") ELSE Ok(end.call)
      BY <1>13, <3>1, Zenon
    <3>3. Meaning(stub) = IF Has(MovImmToEax) = {} \/ Has(KCall) = {} THEN Err("SyscallNotFound")
                          ELSE IF Tail(stub[mov]) = invalid_syscall THEN Err("SyscallNotFound")
                          ELSE Ok(Tail(stub[mov]))
      BY <1>6, <1>12, <2>3, <3>1, Zenon
    <3>4. CASE Has(MovImmToEax) = {}
      BY <1>11, <3>2, <3>3, <3>4, Zenon
    <3>5. CASE Has(MovImmToEax) # {}
      BY <1>10, <1>11, <3>2, <3>3, <3>5
    <3> QED BY <3>4, <3>5
  <2> QED BY <1>7, <2>1, <2>2, <2>3
<1> QED BY <1>3, <1>14, <1>15 DEF bytes, end

-----------------------------------------------------------------------------
(* Where a process is and what it has done by then.                        *)

Loading(l) == pc \in {"load", "loading"} /\ back = l

(* Where a process is, in each build, before its first function runs.      *)
BeforeCtors ==
  \/ pc \in {"mainCRTStartup", "reloaded", "loaded", "locks", "trap"}
  \/ Loading("reloaded") \/ Loading("loaded")

BeforeBody ==
  \/ pc \in {"statics", "streams", "checked", "trap"}
  \/ Loading("streams") \/ Loading("checked")

(* The locks made are the first of the table.                              *)
LocksInOrder ==
  /\ locks \in Seq(Range(LockTable)) /\ Len(locks) <= Len(LockTable)
  /\ \A i \in 1 .. Len(locks) : locks[i] = LockTable[i]

(* What has run, by where the process is.                                  *)
XcrtOrder ==
  \/ BeforeCtors /\ ran = <<>> /\ ~did_init
  \/ pc = "ctors" /\ ran = <<>> /\ ~did_init /\ locks = LockTable
  \/ pc \in {"main", "body"} /\ ran = Reverse(Ctors) /\ did_init /\ locks = LockTable
  \/ pc = "dtors" /\ ran = Reverse(Ctors) \o <<"main">> /\ did_init /\ locks = LockTable
  \/ pc = "exit" /\ ran = Reverse(Ctors) \o <<"main">> \o Dtors /\ did_init
                 /\ locks = LockTable

(* On the compiler's runtime: once the unit of the streams has started,    *)
(* they are there or being made.                                           *)
StaticOrder ==
  /\ PFiles \in started => streams \/ pc \in {"streams", "trap"} \/ Loading("streams")
  /\ pc = "body" \/ ran # <<>> => streams
  /\ BeforeBody \/ pc \in {"body", "exit"}

Order == LocksInOrder /\ (xcrt => XcrtOrder) /\ (~xcrt => StaticOrder)

LEMMA OrderInit == Init => Order
<1> SUFFICES ASSUME Init PROVE Order
  OBVIOUS
<1>1. LocksInOrder
  BY DEF Init, LocksInOrder
<1>2. xcrt => XcrtOrder
  BY DEF Init, XcrtOrder, BeforeCtors
<1>3. ~xcrt => StaticOrder
  BY DEF Init, StaticOrder, BeforeBody
<1> QED BY <1>1, <1>2, <1>3 DEF Order

(* The steps that leave the program's own variables alone only move the    *)
(* process from one place to the next.                                     *)
LEMMA OrderMoves ==
  ASSUME Order, UNCHANGED <<xcrt, locks, streams, started, did_init, ran>>,
         \/ UNCHANGED <<pc, back>>
         \/ pc = "load" /\ pc' \in {"loading", back} /\ back' = back
         \/ pc = "loading" /\ pc' = back /\ back' = back
         \/ pc = "mainCRTStartup" /\ pc' = "load" /\ back' = "reloaded"
         \/ pc = "reloaded" /\ pc' = "load" /\ back' = "loaded"
         \/ pc = "loaded" /\ pc' \in {"locks", "trap"}
         \/ pc = "locks" /\ Len(locks) = Len(LockTable) /\ pc' = "ctors"
         \/ pc = "checked" /\ pc' \in {"statics", "trap"}
         \/ pc = "statics" /\ started = Units /\ pc' = "body"
  PROVE  Order'
<1>1. LocksInOrder'
  BY DEF Order, LocksInOrder
<1>2. ASSUME xcrt PROVE XcrtOrder'
  <2>1. CASE pc = "locks" /\ Len(locks) = Len(LockTable) /\ pc' = "ctors"
    <3>1. locks = LockTable
      BY <2>1, RuntimeAssumption DEF Order, LocksInOrder
    <3> QED BY <1>2, <2>1, <3>1 DEF Order, XcrtOrder, BeforeCtors, Loading
  <2>2. CASE ~(pc = "locks" /\ Len(locks) = Len(LockTable) /\ pc' = "ctors")
    BY <1>2, <2>2 DEF Order, XcrtOrder, BeforeCtors, Loading
  <2> QED BY <2>1, <2>2
<1>3. ASSUME ~xcrt PROVE StaticOrder'
  BY <1>3, RuntimeAssumption DEF Order, StaticOrder, BeforeBody, Loading
<1> QED BY <1>1, <1>2, <1>3 DEF Order

LEMMA OrderNext == Order /\ [Next]_vars => Order'
<1> SUFFICES ASSUME Order, [Next]_vars PROVE Order'
  OBVIOUS
<1>1. CASE \E n \in Names, stub \in Stubs : Patch(n, stub)
  BY <1>1, OrderMoves DEF Patch, program
<1>2. CASE LoadBegin
  BY <1>2, OrderMoves DEF LoadBegin, Stays, program
<1>3. CASE handle_syscall
  BY <1>3, OrderMoves DEF handle_syscall, Stays, program
<1>4. CASE LoadEnd
  BY <1>4, OrderMoves DEF LoadEnd, Stays, program
<1>5. CASE force_syscall_reload
  BY <1>5, OrderMoves DEF force_syscall_reload, Load, Stays, program
<1>6. CASE are_syscalls_loaded
  BY <1>6, OrderMoves DEF are_syscalls_loaded, Load, Stays, program
<1>7. CASE Startup
  BY <1>7, OrderMoves DEF Startup, Goto, Stays, program
<1>8. CASE locks_setup
  <2>1. LocksInOrder'
    BY <1>8, RuntimeAssumption DEF locks_setup, Order, LocksInOrder, Range
  <2>2. xcrt => XcrtOrder'
    BY <1>8 DEF locks_setup, Order, XcrtOrder, BeforeCtors, Loading, Stays
  <2>3. ~xcrt => StaticOrder'
    BY <1>8 DEF locks_setup, Order, StaticOrder, BeforeBody, Loading, Stays
  <2> QED BY <1>8, <2>1, <2>2, <2>3 DEF Order, locks_setup, Stays
<1>9. CASE locks_done
  BY <1>9, OrderMoves DEF locks_done, Goto, Stays, program
<1>10. CASE __main
  <2>1. LocksInOrder'
    BY <1>10 DEF __main, Order, LocksInOrder
  <2>2. <<>> \o Reverse(Ctors) = Reverse(Ctors)
    <3>1. Reverse(Ctors) \in Seq(Range(Ctors))
      BY RuntimeAssumption DEF Reverse
    <3> QED BY <3>1
  <2>3. ASSUME xcrt PROVE XcrtOrder'
    <3>1. \/ pc = "ctors" /\ ran = <<>> /\ ~did_init /\ locks = LockTable
          \/ pc = "main" /\ ran = Reverse(Ctors) /\ did_init /\ locks = LockTable
      BY <1>10, <2>3 DEF __main, Order, XcrtOrder, BeforeCtors, Loading
    <3>2. pc' \in {"main", "body"} /\ locks' = locks
      BY <1>10 DEF __main, Goto
    <3>3. ran' = Reverse(Ctors) /\ did_init'
      BY <1>10, <2>2, <3>1 DEF __main
    <3> QED BY <3>1, <3>2, <3>3 DEF XcrtOrder
  <2>4. ~xcrt => StaticOrder'
    BY <1>10 DEF __main, Order, StaticOrder, BeforeBody, Loading, Stays
  <2> QED BY <1>10, <2>1, <2>3, <2>4 DEF Order, __main, Stays
<1>11. CASE main
  <2>1. LocksInOrder'
    BY <1>11 DEF main, Order, LocksInOrder
  <2>2. xcrt => XcrtOrder'
    <3>1. Reverse(Ctors) \in Seq(Range(Ctors))
      BY RuntimeAssumption DEF Reverse
    <3>2. Append(Reverse(Ctors), "main") = Reverse(Ctors) \o <<"main">>
      BY <3>1
    <3> QED BY <1>11, <3>2 DEF main, Goto, Order, XcrtOrder, BeforeCtors, Loading, Stays
  <2>3. ~xcrt => StaticOrder'
    BY <1>11 DEF main, Goto, Order, StaticOrder, BeforeBody, Loading, Stays
  <2> QED BY <1>11, <2>1, <2>2, <2>3 DEF Order, main, Stays
<1>12. CASE do_global_dtors
  <2>1. LocksInOrder'
    BY <1>12 DEF do_global_dtors, Order, LocksInOrder
  <2>2. xcrt => XcrtOrder'
    BY <1>12 DEF do_global_dtors, Goto, Order, XcrtOrder, BeforeCtors, Loading, Stays
  <2>3. ~xcrt => StaticOrder'
    BY <1>12 DEF do_global_dtors, Order, StaticOrder, BeforeBody, Loading, Stays
  <2> QED BY <1>12, <2>1, <2>2, <2>3 DEF Order, do_global_dtors, Stays
<1>13. CASE \E u \in Units : Loader(u)
  <2>1. LocksInOrder'
    BY <1>13 DEF Loader, Order, LocksInOrder
  <2>2. xcrt => XcrtOrder'
    BY <1>13 DEF Loader, Order, XcrtOrder, BeforeCtors, Loading, Stays
  <2>3. ~xcrt => StaticOrder'
    BY <1>13 DEF Loader, Load, Order, StaticOrder, BeforeBody, Loading, Stays
  <2> QED BY <1>13, <2>1, <2>2, <2>3 DEF Order, Loader, Stays
<1>14. CASE LoaderChecks
  BY <1>14, OrderMoves DEF LoaderChecks, Goto, Stays, program
<1>15. CASE init_pfiles
  <2>1. LocksInOrder'
    BY <1>15 DEF init_pfiles, Order, LocksInOrder
  <2>2. xcrt => XcrtOrder'
    BY <1>15 DEF init_pfiles, Order, XcrtOrder, BeforeCtors, Loading, Stays
  <2>3. ~xcrt => StaticOrder'
    BY <1>15 DEF init_pfiles, Goto, Order, StaticOrder, BeforeBody, Loading, Stays
  <2> QED BY <1>15, <2>1, <2>2, <2>3 DEF Order, init_pfiles, Stays
<1>16. CASE StaticsDone
  BY <1>16, OrderMoves DEF StaticsDone, Goto, Stays, program
<1>17. CASE UNCHANGED vars
  BY <1>17, OrderMoves DEF vars, program
<1> QED BY <1>1, <1>2, <1>3, <1>4, <1>5, <1>6, <1>7, <1>8, <1>9, <1>10, <1>11,
           <1>12, <1>13, <1>14, <1>15, <1>16, <1>17 DEF Next

(* Each constructor runs once and in order, with the locks of the runtime  *)
(* in place, then main(), then each destructor; on the compiler's runtime  *)
(* main() has the streams.                                                 *)
THEOREM RuntimeCtorsAroundMain == Spec => []CtorsAroundMain
<1>1. Order => CtorsAroundMain
  BY DEF Order, XcrtOrder, StaticOrder, BeforeCtors, Loading, CtorsAroundMain
<1> QED BY <1>1, OrderInit, OrderNext, PTL DEF Spec
-----------------------------------------------------------------------------
(* The exports and what is loaded of them.                                 *)
CodeTyped ==
  /\ DOMAIN code \subseteq Names
  /\ code \in [DOMAIN code -> Stubs \cup {<<>>}]

LEMMA ExportsInOrder ==
  ASSUME CodeTyped
  PROVE  /\ Ascending(exports)
         /\ \A i \in 1 .. Len(exports) : exports[i] \in DOMAIN code
         /\ \A S \in DOMAIN code : \E i \in 1 .. Len(exports) : exports[i] = S
<1> DEFINE S == DOMAIN code
<1>1. S \subseteq Int /\ IsFiniteSet(S)
  BY RuntimeAssumption, FS_Subset DEF CodeTyped
<1>2. Cardinality(S) \in Nat
  BY <1>1, FS_CardinalityType
<1>3. exports = CHOOSE table : Enumerates(table, S)
  BY DEF exports, Enumerates
<1>4. Enumerates(exports, S)
  <2> HIDE DEF S
  <2>1. \E table : Enumerates(table, S)
    BY <1>1, EnumerationExists
  <2> QED BY <1>3, <2>1
<1>5. exports \in [1 .. Cardinality(S) -> S]
  BY <1>4 DEF Enumerates
<1> HIDE DEF S
<1>6. exports \in Seq(Int) /\ Len(exports) = Cardinality(S)
  <2>1. exports \in [1 .. Cardinality(S) -> Int]
    BY <1>1, <1>5
  <2> HIDE DEF exports
  <2> QED BY <1>2, <2>1
<1>7. \A s \in S : \E i \in 1 .. Cardinality(S) : exports[i] = s
  <2>1. HasAll(exports, S)
    BY <1>1, <1>4, EnumeratesAll
  <2> QED BY <2>1 DEF HasAll
<1>8. Ascending(exports)
  BY <1>4, <1>5, <1>6 DEF Enumerates, Ascending
<1> QED BY <1>5, <1>6, <1>7, <1>8 DEF S

LEMMA SearchFindsTyped == CodeTyped => SearchFinds
<1> SUFFICES ASSUME CodeTyped, NEW S \in Names, NEW pos \in bsearch(exports, S)
             PROVE  IF S \in DOMAIN code THEN pos >= 0 /\ exports[pos + 1] = S ELSE pos < 0
  BY DEF SearchFinds
<1>1. /\ Ascending(exports)
      /\ \A i \in 1 .. Len(exports) : exports[i] \in DOMAIN code
      /\ \A T \in DOMAIN code : \E i \in 1 .. Len(exports) : exports[i] = T
  BY ExportsInOrder
<1>2. S \in Int
  BY RuntimeAssumption
<1>3. IF \E i \in 1 .. Len(exports) : exports[i] = S
      THEN pos \in 0 .. Len(exports) - 1 /\ exports[pos + 1] = S
      ELSE pos \in Int /\ pos < 0
  BY <1>1, <1>2, BsearchFinds
<1> QED BY <1>1, <1>3

(* The search of the exports finds each name where it is and no other.     *)
LEMMA StubsRead ==
  ASSUME CodeTyped, NEW C \in Names, NEW stub \in parse_stub(exports, code, C)
  PROVE  /\ Outcome(stub)
         /\ stub.err = "Success" =>
              C \in DOMAIN code /\ code[C] \in Stubs /\ Meaning(code[C]) = stub
<1>1. PICK pos \in bsearch(exports, C) :
        LET raw == IF pos < 0 THEN <<>> ELSE code[exports[pos + 1]]
        IN stub = IF raw = <<>> THEN Err("UnknownFunction") ELSE do_parsing(FlattenSeq(raw))
  BY DEF parse_stub, Resolve
<1>2. IF C \in DOMAIN code THEN pos >= 0 /\ exports[pos + 1] = C ELSE pos < 0
  BY SearchFindsTyped DEF SearchFinds
<1>3. pos \in Int
  BY ExportsInOrder, BsearchFinds, RuntimeAssumption
<1>4. Outcome(Err("UnknownFunction")) /\ Err("UnknownFunction").err # "Success"
  BY DEF Outcome, Err, Errors
<1>5. CASE C \notin DOMAIN code \/ code[C] = <<>>
  <2>1. stub = Err("UnknownFunction")
    BY <1>1, <1>2, <1>3, <1>5
  <2> QED BY <1>4, <2>1
<1>6. CASE C \in DOMAIN code /\ code[C] # <<>>
  <2>1. code[C] \in Stubs
    BY <1>6 DEF CodeTyped
  <2>2. stub = do_parsing(FlattenSeq(code[C]))
    BY <1>1, <1>2, <1>3, <1>6
  <2>3. IsStub(code[C])
    BY <2>1, RuntimeAssumption
  <2>4. stub = Meaning(code[C]) /\ Outcome(stub)
    BY <2>2, <2>3, ParsesMeaning
  <2> QED BY <1>6, <2>1, <2>4
<1> QED BY <1>5, <1>6

-----------------------------------------------------------------------------
(* A call that is loaded, and one that failed to load.                     *)
Good(C) ==
  /\ errors[C] = "Success" /\ syscalls[C] # invalid_syscall
  /\ \E stub \in Stubs : Meaning(stub) = Ok(syscalls[C])
  /\ patches = 0 => Meaning(code[C]) = Ok(syscalls[C])

Bad(C) == errors[C] # "Success" /\ syscalls[C] = invalid_syscall

LoadTyped ==
  /\ CodeTyped
  /\ xcrt \in BOOLEAN /\ did_succeed \in BOOLEAN /\ streams \in BOOLEAN
  /\ did_init \in BOOLEAN
  /\ patches \in 0 .. MaxPatches
  /\ at \in 0 .. Len(Calls) + 1
  /\ syscalls \in [Range(Calls) -> Seq(Nat)]
  /\ errors \in [Range(Calls) -> Errors]
  /\ started \subseteq Units

(* During a load, of the calls before at; after it, of all.                *)
Numbers ==
  /\ pc = "loading" =>
       /\ at >= 1
       /\ \A i \in 1 .. Len(Calls) : i < at => Good(Calls[i]) \/ Bad(Calls[i])
       /\ did_succeed => \A i \in 1 .. Len(Calls) : i < at => Good(Calls[i])
       /\ ~did_succeed => \E i \in 1 .. Len(Calls) : i < at /\ Bad(Calls[i])
  /\ pc # "loading" /\ did_succeed => \A C \in Range(Calls) : Good(C)
  /\ pc \in {"reloaded", "loaded", "checked", "streams",
             "locks", "ctors", "main", "body", "dtors", "exit", "trap"} =>
       /\ \A C \in Range(Calls) : Good(C) \/ Bad(C)
       /\ did_succeed \/ \E C \in Range(Calls) : Bad(C)
  /\ pc \in {"locks", "ctors", "main", "body", "dtors", "exit"} => did_succeed \/ xcrt
  /\ pc = "statics" => started = {} \/ did_succeed
  /\ pc \in {"load", "loading"} => back \in {"reloaded", "loaded", "checked", "streams"}
  /\ pc \in {"load", "loading"} /\ back \in {"reloaded", "loaded"} => xcrt
  /\ pc \in {"mainCRTStartup", "reloaded", "loaded"} => xcrt

Loads == LoadTyped /\ Numbers

LEMMA CallsAt ==
  /\ Len(Calls) \in Nat
  /\ \A i \in 1 .. Len(Calls) : Calls[i] \in Range(Calls) /\ Calls[i] \in Names
  /\ \A C \in Range(Calls) : \E i \in 1 .. Len(Calls) : Calls[i] = C
  /\ \A i, j \in 1 .. Len(Calls) : Calls[i] = Calls[j] => i = j
<1>1. Len(Calls) \in Nat /\ DOMAIN Calls = 1 .. Len(Calls) /\ Calls \in [1 .. Len(Calls) -> Names]
  BY RuntimeAssumption
<1>2. \A i, j \in 1 .. Len(Calls) : Calls[i] = Calls[j] => i = j
  BY <1>1, RuntimeAssumption DEF IsInjective
<1> QED BY <1>1, <1>2 DEF Range

LEMMA LoadsInit == Init => Loads
<1> SUFFICES ASSUME Init PROVE Loads
  OBVIOUS
<1>1. CodeTyped
  BY DEF Init, CodeTyped
<1>2. <<0, 0, 0, 0>> \in Seq(Nat) /\ "Success" \in Errors
  BY DEF Errors
<1>3. LoadTyped
  <2>1. syscalls \in [Range(Calls) -> Seq(Nat)] /\ errors \in [Range(Calls) -> Errors]
    BY <1>2 DEF Init
  <2>2. patches \in 0 .. MaxPatches /\ at \in 0 .. Len(Calls) + 1
    BY RuntimeAssumption, CallsAt DEF Init
  <2> QED BY <1>1, <2>1, <2>2 DEF Init, LoadTyped
<1>4. Numbers
  BY DEF Init, Numbers
<1> QED BY <1>3, <1>4 DEF Loads

(* The steps that load nothing.                                            *)
LEMMA LoadsMoves ==
  ASSUME Loads, UNCHANGED <<xcrt, code, patches, syscalls, errors>>,
         did_init' \in BOOLEAN, streams' \in BOOLEAN,
         \/ UNCHANGED <<pc, back, at, started, did_succeed>>
         \/ pc = "mainCRTStartup" /\ pc' = "load" /\ back' = "reloaded"
            /\ did_succeed' = FALSE /\ UNCHANGED <<at, started>>
         \/ pc = "statics" /\ pc' = "load" /\ back' \in {"streams", "checked"}
            /\ started' \subseteq Units /\ UNCHANGED <<at, did_succeed>>
         \/ UNCHANGED <<at, started, did_succeed>>
            /\ \/ pc = "reloaded" /\ pc' = "load" /\ back' = "loaded"
               \/ pc = "loaded" /\ pc' \in {"locks", "trap"}
               \/ pc \in {"checked", "streams"} /\ pc' = (IF did_succeed THEN "statics" ELSE "trap")
               \/ pc \in {"locks", "ctors", "main", "body", "dtors"}
                  /\ pc' \in {"ctors", "main", "body", "dtors", "exit"}
               \/ pc = "statics" /\ started # {} /\ pc' = "body"
  PROVE  Loads'
<1>1. /\ \A C : Good(C)' <=> Good(C)
      /\ \A C : Bad(C)' <=> Bad(C)
      /\ CodeTyped'
  BY DEF Loads, LoadTyped, CodeTyped, Good, Bad
<1>2. LoadTyped'
  BY <1>1 DEF Loads, LoadTyped
<1> HIDE DEF Good, Bad
<1>3. Numbers'
  BY <1>1 DEF Loads, Numbers, LoadTyped
<1> QED BY <1>2, <1>3 DEF Loads

LEMMA LoadsPatch ==
  ASSUME Loads, NEW n \in Names, NEW s \in Stubs, Patch(n, s) PROVE Loads'
<1>1. patches \in Nat /\ patches' = patches + 1 /\ patches' # 0
  BY RuntimeAssumption DEF Patch, Loads, LoadTyped
<1>2. \A C : (Good(C) => Good(C)') /\ (Bad(C) => Bad(C)')
  BY <1>1 DEF Patch, loading, Good, Bad
<1>3. CodeTyped'
  BY DEF Patch, Loads, LoadTyped, CodeTyped
<1>4. LoadTyped'
  <2>1. patches' \in 0 .. MaxPatches
    BY <1>1, RuntimeAssumption DEF Patch
  <2>2. LoadTyped
    BY DEF Loads
  <2>3. UNCHANGED <<xcrt, did_succeed, streams, did_init, at, syscalls, errors, started>>
    BY DEF Patch, loading, program
  <2> QED BY <1>3, <2>1, <2>2, <2>3 DEF LoadTyped
<1>5. Numbers'
  BY <1>2 DEF Patch, Loads, Numbers, loading, program
<1> QED BY <1>4, <1>5 DEF Loads

LEMMA LoadsBegin == Loads /\ LoadBegin => Loads'
<1> SUFFICES ASSUME Loads, LoadBegin PROVE Loads'
  OBVIOUS
<1>1. /\ \A C : Good(C)' <=> Good(C)
      /\ \A C : Bad(C)' <=> Bad(C)
      /\ CodeTyped'
  BY DEF LoadBegin, Stays, Loads, LoadTyped, CodeTyped, Good, Bad
<1>2. LoadTyped'
  <2>3. LoadTyped
    BY DEF Loads
  <2>4. at' = at \/ at' = 1
    BY DEF LoadBegin
  <2>5. at' \in 0 .. Len(Calls) + 1
    <3>1. 1 \in 0 .. Len(Calls) + 1
      BY CallsAt
    <3> QED BY <2>3, <2>4, <3>1 DEF LoadTyped
  <2>6. did_succeed' \in BOOLEAN
    BY <2>3 DEF LoadBegin, LoadTyped
  <2>2. UNCHANGED <<xcrt, streams, did_init, patches, syscalls, errors, started>>
    BY DEF LoadBegin, Stays, program
  <2> QED BY <1>1, <2>2, <2>3, <2>5, <2>6 DEF LoadTyped
<1>3. Numbers'
  BY <1>1, CallsAt DEF LoadBegin, Stays, Loads, LoadTyped, Numbers, program
<1> QED BY <1>2, <1>3 DEF Loads

LEMMA LoadsEnd == Loads /\ LoadEnd => Loads'
<1> SUFFICES ASSUME Loads, LoadEnd PROVE Loads'
  OBVIOUS
<1>1. /\ \A C : Good(C)' <=> Good(C)
      /\ \A C : Bad(C)' <=> Bad(C)
      /\ CodeTyped'
  BY DEF LoadEnd, Stays, loading, Loads, LoadTyped, CodeTyped, Good, Bad
<1>2. LoadTyped'
  BY <1>1, CallsAt DEF LoadEnd, Stays, Loads, LoadTyped, loading, program
<1>3. did_succeed => \A C \in Range(Calls) : Good(C)
  <2> SUFFICES ASSUME did_succeed, NEW C \in Range(Calls) PROVE Good(C)
    OBVIOUS
  <2>1. PICK i \in 1 .. Len(Calls) : Calls[i] = C
    BY CallsAt
  <2>2. i < at
    BY CallsAt DEF LoadEnd, Loads, LoadTyped
  <2> QED BY <2>1, <2>2 DEF LoadEnd, Loads, Numbers
<1>4. ~did_succeed => \E C \in Range(Calls) : Bad(C)
  BY CallsAt DEF LoadEnd, Loads, Numbers
<1>6. ASSUME NEW C \in Range(Calls) PROVE Good(C) \/ Bad(C)
  <2>1. PICK i \in 1 .. Len(Calls) : Calls[i] = C
    BY CallsAt
  <2>2. i < at
    BY CallsAt DEF LoadEnd, Loads, LoadTyped
  <2> QED BY <2>1, <2>2 DEF LoadEnd, Loads, Numbers
<1>5. Numbers'
  BY <1>1, <1>3, <1>4, <1>6 DEF LoadEnd, Stays, loading, program, Loads, Numbers, LoadTyped
<1> QED BY <1>2, <1>5 DEF Loads

LEMMA LoadsHandle == Loads /\ handle_syscall => Loads'
<1> SUFFICES ASSUME Loads, handle_syscall PROVE Loads'
  OBVIOUS
<1> DEFINE C == Calls[at]
<1>1. PICK stub \in parse_stub(exports, code, C) :
        /\ did_succeed' = (did_succeed /\ stub.err = "Success")
        /\ errors' = [errors EXCEPT ![C] = stub.err]
        /\ syscalls' = [syscalls EXCEPT ![C] = stub.call]
  BY DEF handle_syscall
<1>2. /\ pc = "loading" /\ at <= Len(Calls) /\ at' = at + 1
      /\ UNCHANGED <<pc, back, xcrt, code, patches, locks, streams, started, did_init>>
  BY DEF handle_syscall, Stays, program
<1>3. at \in 1 .. Len(Calls) /\ Len(Calls) \in Nat
  BY <1>2, CallsAt DEF Loads, LoadTyped, Numbers
<1>4. C \in Range(Calls) /\ C \in Names
  BY <1>3, CallsAt
<1>5. /\ Outcome(stub)
      /\ stub.err = "Success" =>
           C \in DOMAIN code /\ code[C] \in Stubs /\ Meaning(code[C]) = stub
  <2> HIDE DEF C
  <2> QED BY <1>1, <1>4, StubsRead DEF Loads, LoadTyped
<1>6. invalid_syscall \in Seq(Nat)
  BY DEF invalid_syscall
<1>7. /\ stub.err \in Errors /\ stub.call \in Seq(Nat)
      /\ stub.err = "Success" => stub = Ok(stub.call) /\ stub.call # invalid_syscall
      /\ stub.err # "Success" => stub.call = invalid_syscall
  <2>1. CASE \E e \in Errors \ {"Success"} : stub = Err(e)
    BY <1>6, <2>1 DEF Err
  <2>2. CASE \E c \in Seq(Nat) : c # invalid_syscall /\ stub = Ok(c)
    BY <2>2 DEF Ok, Errors
  <2> QED BY <1>5, <2>1, <2>2 DEF Outcome
<1>8. /\ syscalls \in [Range(Calls) -> Seq(Nat)] /\ errors \in [Range(Calls) -> Errors]
      /\ did_succeed \in BOOLEAN
  BY DEF Loads, LoadTyped
<1> HIDE DEF C
<1>9. /\ errors'[C] = stub.err /\ syscalls'[C] = stub.call
      /\ \A D \in Range(Calls) : D # C => errors'[D] = errors[D] /\ syscalls'[D] = syscalls[D]
      /\ syscalls' \in [Range(Calls) -> Seq(Nat)] /\ errors' \in [Range(Calls) -> Errors]
      /\ did_succeed' \in BOOLEAN
  BY <1>1, <1>4, <1>7, <1>8
<1>10. CodeTyped'
  BY <1>2 DEF Loads, LoadTyped, CodeTyped
<1>11. LoadTyped'
  BY <1>2, <1>3, <1>9, <1>10 DEF Loads, LoadTyped
<1>12. \A D : D = C /\ stub.err = "Success" => Good(D)'
  <2> SUFFICES ASSUME NEW D, D = C, stub.err = "Success" PROVE Good(D)'
    OBVIOUS
  <2>1. errors'[D] = "Success" /\ syscalls'[D] = stub.call /\ stub = Ok(stub.call)
        /\ stub.call # invalid_syscall
    BY <1>7, <1>9
  <2>2. code[D] \in Stubs /\ Meaning(code[D]) = Ok(stub.call)
    BY <1>5, <1>7
  <2>3. Meaning(code'[D]) = Ok(syscalls'[D]) /\ \E t \in Stubs : Meaning(t) = Ok(syscalls'[D])
    BY <1>2, <2>1, <2>2
  <2> QED BY <2>1, <2>3 DEF Good
<1>13. \A D : D = C /\ stub.err # "Success" => Bad(D)'
  <2> SUFFICES ASSUME NEW D, D = C, stub.err # "Success" PROVE Bad(D)'
    OBVIOUS
  <2>1. errors'[D] = stub.err /\ syscalls'[D] = invalid_syscall
    BY <1>7, <1>9
  <2> QED BY <2>1 DEF Bad
<1>14. \A D \in Range(Calls) : D # C => (Good(D)' <=> Good(D)) /\ (Bad(D)' <=> Bad(D))
  BY <1>2, <1>9 DEF Good, Bad
<1>15. \A i \in 1 .. Len(Calls) : i < at => Calls[i] \in Range(Calls) /\ Calls[i] # C
  BY <1>3, CallsAt DEF C
<1>16. ASSUME did_succeed', NEW i \in 1 .. Len(Calls), i < at' PROVE Good(Calls[i])'
  <2>1. did_succeed /\ stub.err = "Success"
    BY <1>1, <1>16
  <2>2. CASE i = at
    <3>1. Calls[i] = C
      BY <2>2 DEF C
    <3> QED BY <1>12, <2>1, <3>1
  <2>3. CASE i # at
    <3>1. i < at
      BY <1>2, <1>3, <1>16, <2>3
    <3>2. Good(Calls[i])
      BY <1>2, <2>1, <3>1 DEF Loads, Numbers
    <3>3. Calls[i] \in Range(Calls) /\ Calls[i] # C
      BY <1>15, <3>1
    <3> QED BY <1>14, <3>2, <3>3
  <2> QED BY <2>2, <2>3
<1>17. ASSUME ~did_succeed' PROVE \E i \in 1 .. Len(Calls) : i < at' /\ Bad(Calls[i])'
  <2>1. CASE stub.err # "Success"
    <3>1. PICK i \in 1 .. Len(Calls) : i = at
      BY <1>3
    <3>2. i < at' /\ Calls[i] = C
      BY <1>2, <1>3, <3>1 DEF C
    <3> QED BY <1>13, <2>1, <3>2
  <2>2. CASE stub.err = "Success"
    <3>1. ~did_succeed
      BY <1>1, <1>17, <2>2
    <3>2. PICK i \in 1 .. Len(Calls) : i < at /\ Bad(Calls[i])
      BY <1>2, <3>1 DEF Loads, Numbers
    <3>3. Calls[i] \in Range(Calls) /\ Calls[i] # C
      BY <1>15, <3>2
    <3>4. Bad(Calls[i])'
      BY <1>14, <3>2, <3>3
    <3>5. i < at'
      BY <1>2, <1>3, <3>2
    <3> QED BY <3>4, <3>5
  <2> QED BY <2>1, <2>2
<1>18. at' >= 1
  BY <1>2, <1>3
<1>20. ASSUME NEW i \in 1 .. Len(Calls), i < at' PROVE Good(Calls[i])' \/ Bad(Calls[i])'
  <2>1. CASE i = at
    BY <1>12, <1>13, <2>1 DEF C
  <2>2. CASE i # at
    <3>1. i < at
      BY <1>2, <1>3, <1>20, <2>2
    <3>2. Good(Calls[i]) \/ Bad(Calls[i])
      BY <1>2, <3>1 DEF Loads, Numbers
    <3> QED BY <1>14, <1>15, <3>1, <3>2
  <2> QED BY <2>1, <2>2
<1>19. Numbers'
  BY <1>2, <1>16, <1>17, <1>18, <1>20 DEF Loads, Numbers
<1> QED BY <1>11, <1>19 DEF Loads

LEMMA LoadsNext == Loads /\ [Next]_vars => Loads'
<1> SUFFICES ASSUME Loads, [Next]_vars PROVE Loads'
  OBVIOUS
<1>1. CASE \E n \in Names, stub \in Stubs : Patch(n, stub)
  BY <1>1, LoadsPatch
<1>2. CASE LoadBegin
  BY <1>2, LoadsBegin
<1>3. CASE handle_syscall
  BY <1>3, LoadsHandle
<1>4. CASE LoadEnd
  BY <1>4, LoadsEnd
<1>5. streams \in BOOLEAN /\ did_init \in BOOLEAN
  BY DEF Loads, LoadTyped
<1>6. CASE force_syscall_reload
  BY <1>5, <1>6, LoadsMoves DEF force_syscall_reload, Load, Stays, loading, program
<1>7. CASE are_syscalls_loaded
  BY <1>5, <1>7, LoadsMoves DEF are_syscalls_loaded, Load, Stays, loading, program
<1>8. CASE Startup
  BY <1>5, <1>8, LoadsMoves DEF Startup, Goto, Stays, loading, program
<1>9. CASE locks_setup
  BY <1>5, <1>9, LoadsMoves DEF locks_setup, Stays, loading
<1>10. CASE locks_done
  BY <1>5, <1>10, LoadsMoves DEF locks_done, Goto, Stays, loading, program
<1>11. CASE __main
  BY <1>5, <1>11, LoadsMoves DEF __main, Goto, Stays, loading
<1>12. CASE main
  BY <1>5, <1>12, LoadsMoves DEF main, Goto, Stays, loading
<1>13. CASE do_global_dtors
  BY <1>5, <1>13, LoadsMoves DEF do_global_dtors, Goto, Stays, loading
<1>14. CASE \E u \in Units : Loader(u)
  <2>1. PICK u \in Units : Loader(u)
    BY <1>14
  <2>2. started' \subseteq Units
    BY <2>1 DEF Loader, Loads, LoadTyped
  <2> QED BY <1>5, <2>1, <2>2, LoadsMoves DEF Loader, Load, Stays, loading
<1>15. CASE LoaderChecks
  BY <1>5, <1>15, LoadsMoves DEF LoaderChecks, Goto, Stays, loading, program
<1>16. CASE init_pfiles
  BY <1>5, <1>16, LoadsMoves DEF init_pfiles, Goto, Stays, loading
<1>17. CASE StaticsDone
  <2>1. started # {}
    BY <1>17, RuntimeAssumption DEF StaticsDone
  <2> QED BY <1>5, <1>17, <2>1, LoadsMoves DEF StaticsDone, Goto, Stays, loading, program
<1>18. CASE UNCHANGED vars
  BY <1>5, <1>18, LoadsMoves DEF vars, loading, program
<1> QED BY <1>1, <1>2, <1>3, <1>4, <1>6, <1>7, <1>8, <1>9, <1>10, <1>11,
           <1>12, <1>13, <1>14, <1>15, <1>16, <1>17, <1>18 DEF Next

LEMMA LoadsAlways == Spec => []Loads
BY LoadsInit, LoadsNext, PTL DEF Spec

(* The types of the variables; the locks made are the first of the table.  *)
THEOREM RuntimeTypeOK == Spec => []TypeOK
<1>1. Order => IsPrefix(locks, LockTable)
  <2> SUFFICES ASSUME Order PROVE IsPrefix(locks, LockTable)
    OBVIOUS
  <2> DEFINE n == Len(locks)
             X == Range(LockTable)
  <2>1. locks \in Seq(X) /\ LockTable \in Seq(X) /\ n \in Nat /\ n <= Len(LockTable)
        /\ \A i \in 1 .. n : locks[i] = LockTable[i]
    BY RuntimeAssumption DEF Order, LocksInOrder
  <2>2. \A i \in 1 .. n : locks[i] \in X /\ LockTable[i] \in X
    BY <2>1
  <2> HIDE DEF n, X
  <2> DEFINE s == SubSeq(locks, 1, n)
             t == SubSeq(LockTable, 1, n)
  <2>3. s \in Seq(X) /\ Len(s) = n /\ \A i \in 1 .. n : s[i] = locks[i]
    <3>1. /\ s \in Seq(X) /\ Len(s) = IF 1 <= n THEN n - 1 + 1 ELSE 0
          /\ \A i \in 1 .. n - 1 + 1 : s[i] = locks[1 + i - 1]
      BY <2>1, <2>2, SubSeqProperties
    <3> HIDE DEF s
    <3> QED BY <2>1, <3>1
  <2>4. t \in Seq(X) /\ Len(t) = n /\ \A i \in 1 .. n : t[i] = LockTable[i]
    <3>1. /\ t \in Seq(X) /\ Len(t) = IF 1 <= n THEN n - 1 + 1 ELSE 0
          /\ \A i \in 1 .. n - 1 + 1 : t[i] = LockTable[1 + i - 1]
      BY <2>1, <2>2, SubSeqProperties
    <3> HIDE DEF t
    <3> QED BY <2>1, <3>1
  <2> HIDE DEF s, t
  <2>5. Len(s) = Len(t) /\ \A i \in 1 .. Len(s) : s[i] = t[i]
    BY <2>1, <2>3, <2>4
  <2>6. s = t
    BY <2>3, <2>4, <2>5, SeqEqual
  <2> QED BY <2>1, <2>6 DEF IsPrefix, s, t, n
<1>2. CodeTyped => Range(code) \subseteq Stubs \cup {<<>>}
  BY DEF CodeTyped, Range
<1>3. Loads /\ Order => TypeOK
  BY <1>1, <1>2 DEF Loads, LoadTyped, CodeTyped, TypeOK
<1> QED BY <1>3, LoadsAlways, OrderInit, OrderNext, PTL DEF Spec

(* Of every table of exports: the search finds each name where it is and   *)
(* no other, whatever it reads outside the table.                          *)
THEOREM RuntimeSearchFinds == Spec => []SearchFinds
<1>1. Loads => SearchFinds
  BY SearchFindsTyped DEF Loads, LoadTyped
<1> QED BY <1>1, LoadsAlways, PTL

(* Of every stub: the parser reads it as its instructions mean it.         *)
THEOREM RuntimeParseAgrees == Spec => []ParseAgrees
<1>1. Loads => ParseAgrees
  <2> SUFFICES ASSUME Loads, NEW n \in DOMAIN code, code[n] # <<>>
               PROVE  do_parsing(FlattenSeq(code[n])) = Meaning(code[n])
    BY DEF ParseAgrees
  <2>1. code[n] \in Stubs
    BY DEF Loads, LoadTyped, CodeTyped
  <2> QED BY <2>1, RuntimeAssumption, ParsesMeaning
<1> QED BY <1>1, LoadsAlways, PTL

(* Once the load is done each number is that of its own stub, or invalid   *)
(* with its error kept, and the flag tells which; only the xcrt startup    *)
(* may run on without some of them.                                        *)
THEOREM RuntimeLoadedIsUsable == Spec => []LoadedIsUsable
<1>1. Loads => LoadedIsUsable
  BY DEF Loads, Numbers, Good, Bad, LoadedIsUsable
<1> QED BY <1>1, LoadsAlways, PTL

(* Where a lock or the streams are made.                                   *)
LEMMA KernelCalls ==
  Loads /\ Next /\ (locks' # locks \/ streams' # streams) =>
    /\ \A C \in Range(Calls) : Good(C) \/ Bad(C)
    /\ did_succeed => \A C \in Range(Calls) : Good(C)
    /\ did_succeed \/ xcrt
    /\ streams' # streams => did_succeed
<1> SUFFICES ASSUME Loads, Next, locks' # locks \/ streams' # streams
             PROVE  /\ \A C \in Range(Calls) : Good(C) \/ Bad(C)
                    /\ did_succeed => \A C \in Range(Calls) : Good(C)
                    /\ did_succeed \/ xcrt
                    /\ streams' # streams => did_succeed
  OBVIOUS
<1>1. locks_setup \/ init_pfiles
  BY DEF Next, Patch, LoadBegin, handle_syscall, LoadEnd, force_syscall_reload,
         are_syscalls_loaded, Startup, locks_done, __main, main, do_global_dtors,
         Loader, LoaderChecks, StaticsDone, program
<1>2. pc \in {"locks", "streams"}
  BY <1>1 DEF locks_setup, init_pfiles
<1>3. streams' # streams => did_succeed
  BY <1>1 DEF locks_setup, init_pfiles
<1>4. pc = "streams" => did_succeed
  BY <1>1 DEF locks_setup, init_pfiles
<1> QED BY <1>2, <1>3, <1>4 DEF Loads, Numbers

(* No lock and no stream is made with a number still to be loaded: it is   *)
(* that of a stub, or the invalid one where the startup ran on.            *)
THEOREM RuntimeNoEarlyKernelCall == Spec => NoEarlyKernelCall
<1>1. Loads /\ [Next]_vars =>
        /\ locks' # locks \/ streams' # streams =>
             IF errors[CreateMutant] = "Success"
             THEN \E stub \in Stubs : Meaning(stub) = Ok(syscalls[CreateMutant])
             ELSE xcrt /\ syscalls[CreateMutant] = invalid_syscall
        /\ streams' # streams => did_succeed
  BY KernelCalls, RuntimeAssumption DEF Good, Bad, vars, program
<1> QED BY <1>1, LoadsAlways, PTL DEF Spec, NoEarlyKernelCall

(* On the compiler's runtime nothing of the program runs on a failed load: *)
(* with the streams made, or main() entered, each number is that of a stub.*)
Relies == ~xcrt /\ (streams \/ ran # <<>>) => did_succeed /\ pc # "loading"

THEOREM RuntimeStaticsLoadFirst ==
  Spec => []((streams \/ ran # <<>>) /\ ~xcrt =>
               \A C \in Range(Calls) :
                 \E stub \in Stubs : Meaning(stub) = Ok(syscalls[C]))
<1>1. Init => Relies
  BY DEF Init, Relies
<1>2. Relies /\ Loads /\ Order /\ [Next]_vars => Relies'
  <2> SUFFICES ASSUME Relies, Loads, Order, [Next]_vars, ~xcrt', streams' \/ ran' # <<>>
               PROVE  did_succeed' /\ pc' # "loading"
    BY DEF Relies
  <2>1. ~xcrt
    BY DEF Next, Patch, LoadBegin, handle_syscall, LoadEnd, force_syscall_reload,
           are_syscalls_loaded, Startup, locks_setup, locks_done, __main, main,
           do_global_dtors, Loader, LoaderChecks, init_pfiles, StaticsDone, Stays, vars
  <2>2. CASE streams \/ ran # <<>>
    <3>1. did_succeed /\ pc # "loading"
      BY <2>1, <2>2 DEF Relies
    <3>2. ~(force_syscall_reload \/ handle_syscall \/ LoadEnd)
      BY <2>1, <3>1 DEF force_syscall_reload, handle_syscall, LoadEnd, Loads, Numbers
    <3>3. CASE LoadBegin
      BY <3>1, <3>3 DEF LoadBegin, Loads, Numbers
    <3>4. CASE ~LoadBegin
      BY <3>1, <3>2, <3>4 DEF Next, Patch, are_syscalls_loaded, Startup, locks_setup,
         locks_done, __main, main, do_global_dtors, Loader, LoaderChecks, init_pfiles,
         StaticsDone, Load, Goto, loading, vars
    <3> QED BY <3>3, <3>4
  <2>3. CASE ~streams /\ ran = <<>>
    <3>1. streams' # streams \/ ran' # ran
      BY <2>3
    <3>2. init_pfiles \/ __main \/ main \/ do_global_dtors
      BY <3>1 DEF Next, Patch, LoadBegin, handle_syscall, LoadEnd, force_syscall_reload,
         are_syscalls_loaded, Startup, locks_setup, locks_done, Loader, LoaderChecks,
         StaticsDone, program, vars
    <3>3. pc \notin {"ctors", "main", "dtors"}
      BY <2>1 DEF Order, StaticOrder, BeforeBody, Loading
    <3>4. CASE init_pfiles
      BY <2>3, <3>1, <3>4 DEF init_pfiles, Goto, loading
    <3>5. CASE main
      BY <2>1, <3>5 DEF main, Goto, loading, Loads, Numbers
    <3> QED BY <3>2, <3>3, <3>4, <3>5 DEF __main, do_global_dtors
  <2> QED BY <2>2, <2>3
<1>3. Relies /\ Loads =>
        ((streams \/ ran # <<>>) /\ ~xcrt =>
           \A C \in Range(Calls) : \E stub \in Stubs : Meaning(stub) = Ok(syscalls[C]))
  BY DEF Relies, Loads, Numbers, Good
<1> QED BY <1>1, <1>2, <1>3, LoadsAlways, OrderInit, OrderNext, PTL DEF Spec
=============================================================================
