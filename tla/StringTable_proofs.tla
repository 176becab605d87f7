------------------------- MODULE StringTable_proofs -------------------------
(***************************************************************************)
(* The string table, for every set of strings and every pair of            *)
(* capacities: its searches, its sorts, and what becomes of the strings    *)
(* its clients were handed out.                                            *)
(***************************************************************************)
EXTENDS StringTable, Recursion, FiniteSetTheorems, SequenceTheorems

-----------------------------------------------------------------------------
(* Sequences with an element put in, and without their last.               *)
HasPutIn(t, s, p, e) ==
  /\ Len(t) = Len(s) + 1
  /\ \A i \in 1 .. Len(s) + 1 : t[i] = IF i < p THEN s[i] ELSE IF i = p THEN e ELSE s[i - 1]

LEMMA Inserted ==
  ASSUME NEW S, NEW s \in Seq(S), NEW e \in S, NEW p \in 1 .. Len(s) + 1
  PROVE  InsertAt(s, p, e) \in Seq(S) /\ HasPutIn(InsertAt(s, p, e), s, p, e)
<1> DEFINE f == SubSeq(s, 1, p - 1)
           r == SubSeq(s, p, Len(s))
           c == f \o <<e>>
<1>1. Len(s) \in Nat /\ \A i \in 1 .. Len(s) : s[i] \in S
  BY LenProperties, ElementOfSeq
<1>2. /\ f \in Seq(S) /\ Len(f) = p - 1 /\ \A i \in 1 .. p - 1 : f[i] = s[i]
  <2>1. 1 \in Int /\ p - 1 \in Int /\ (\A i \in 1 .. p - 1 : s[i] \in S)
    BY <1>1
  <2>2. /\ f \in Seq(S) /\ Len(f) = IF 1 <= p - 1 THEN p - 1 - 1 + 1 ELSE 0
        /\ \A i \in 1 .. p - 1 - 1 + 1 : f[i] = s[1 + i - 1]
    BY <2>1, SubSeqProperties
  <2> HIDE DEF f
  <2> QED BY <1>1, <2>2
<1>3. /\ r \in Seq(S) /\ Len(r) = Len(s) - p + 1
      /\ \A i \in 1 .. Len(s) - p + 1 : r[i] = s[p + i - 1]
  <2>1. p \in Int /\ Len(s) \in Int /\ (\A i \in p .. Len(s) : s[i] \in S)
    BY <1>1
  <2>2. /\ r \in Seq(S) /\ Len(r) = IF p <= Len(s) THEN Len(s) - p + 1 ELSE 0
        /\ \A i \in 1 .. Len(s) - p + 1 : r[i] = s[p + i - 1]
    BY <2>1, SubSeqProperties
  <2> HIDE DEF r
  <2> QED BY <1>1, <2>2
<1>4. <<e>> \in Seq(S) /\ Len(<<e>>) = 1 /\ <<e>>[1] = e
  OBVIOUS
<1> HIDE DEF f, r
<1>5. /\ c \in Seq(S) /\ Len(c) = p
      /\ \A i \in 1 .. p : c[i] = IF i < p THEN s[i] ELSE e
  <2>1. /\ c \in Seq(S) /\ Len(c) = Len(f) + 1
        /\ \A i \in 1 .. Len(f) + 1 : c[i] = IF i <= Len(f) THEN f[i] ELSE <<e>>[i - Len(f)]
    BY <1>2, <1>4, ConcatProperties
  <2> HIDE DEF c
  <2>2. ASSUME NEW i \in 1 .. p PROVE c[i] = IF i < p THEN s[i] ELSE e
    <3>1. CASE i < p
      <4>1. i \in 1 .. Len(f) + 1 /\ i <= Len(f) /\ i \in 1 .. p - 1
        BY <1>1, <1>2, <3>1
      <4> QED BY <1>2, <2>1, <3>1, <4>1
    <3>2. CASE ~(i < p)
      <4>1. i \in 1 .. Len(f) + 1 /\ ~(i <= Len(f)) /\ i - Len(f) = 1
        BY <1>1, <1>2, <3>2
      <4> QED BY <1>4, <2>1, <3>2, <4>1
    <3> QED BY <3>1, <3>2
  <2> QED BY <1>1, <1>2, <2>1, <2>2
<1> HIDE DEF c
<1> DEFINE d == c \o r
<1>6. /\ d \in Seq(S) /\ Len(d) = Len(c) + Len(r)
      /\ \A i \in 1 .. Len(c) + Len(r) : d[i] = IF i <= Len(c) THEN c[i] ELSE r[i - Len(c)]
  BY <1>3, <1>5, ConcatProperties
<1>7. InsertAt(s, p, e) = d
  BY DEF InsertAt, d, c, f, r
<1> HIDE DEF d
<1>8. ASSUME NEW i \in 1 .. Len(s) + 1
      PROVE  d[i] = IF i < p THEN s[i] ELSE IF i = p THEN e ELSE s[i - 1]
  <2>1. i \in 1 .. Len(c) + Len(r)
    BY <1>1, <1>3, <1>5
  <2>2. CASE i <= p
    <3>1. i \in 1 .. p /\ i <= Len(c)
      BY <1>5, <2>2
    <3>2. d[i] = c[i] /\ c[i] = IF i < p THEN s[i] ELSE e
      BY <1>5, <1>6, <2>1, <3>1
    <3>3. ~(i < p) => i = p
      BY <2>2
    <3> QED BY <3>2, <3>3
  <2>3. CASE ~(i <= p)
    <3>1. ~(i <= Len(c)) /\ i - p \in 1 .. Len(s) - p + 1 /\ p + (i - p) - 1 = i - 1
      BY <1>1, <1>5, <2>3
    <3>2. d[i] = r[i - p] /\ r[i - p] = s[p + (i - p) - 1]
      BY <1>3, <1>5, <1>6, <2>1, <3>1
    <3>3. ~(i < p) /\ i # p
      BY <2>3
    <3> QED BY <3>1, <3>2, <3>3
  <2> QED BY <2>2, <2>3
<1>9. Len(d) = Len(s) + 1
  BY <1>1, <1>3, <1>5, <1>6
<1> QED BY <1>6, <1>7, <1>8, <1>9 DEF HasPutIn

LEMMA Shortened ==
  ASSUME NEW S, NEW s \in Seq(S), s # <<>>
  PROVE  /\ Front(s) \in Seq(S) /\ Len(s) \in Nat \ {0}
         /\ Len(Front(s)) = Len(s) - 1 /\ \A i \in 1 .. Len(s) - 1 : Front(s)[i] = s[i]
         /\ Last(s) = s[Len(s)] /\ Last(s) \in S
<1>1. Len(s) \in Nat /\ Len(s) # 0 /\ \A i \in 1 .. Len(s) : s[i] \in S
  BY LenProperties, ElementOfSeq, EmptySeq
<1>2. 1 \in Int /\ Len(s) - 1 \in Int /\ (\A i \in 1 .. Len(s) - 1 : s[i] \in S)
  BY <1>1
<1> DEFINE f == SubSeq(s, 1, Len(s) - 1)
<1>3. /\ f \in Seq(S) /\ Len(f) = IF 1 <= Len(s) - 1 THEN Len(s) - 1 - 1 + 1 ELSE 0
      /\ \A i \in 1 .. Len(s) - 1 - 1 + 1 : f[i] = s[1 + i - 1]
  BY <1>2, SubSeqProperties
<1>4. Front(s) = f /\ Last(s) = s[Len(s)]
  BY DEF Front, Last
<1> HIDE DEF f
<1> DEFINE n == Len(s)
<1> HIDE DEF n
<1>5. Len(f) = Len(s) - 1 /\ \A i \in 1 .. Len(s) - 1 : f[i] = s[i]
  <2>1. /\ n \in Nat \ {0} /\ Len(f) = IF 1 <= n - 1 THEN n - 1 - 1 + 1 ELSE 0
        /\ \A i \in 1 .. n - 1 - 1 + 1 : f[i] = s[1 + i - 1]
    BY <1>1, <1>3 DEF n
  <2>2. n - 1 - 1 + 1 = n - 1 /\ \A i \in 1 .. n - 1 : 1 + i - 1 = i
    BY <2>1
  <2>3. Len(f) = n - 1 /\ \A i \in 1 .. n - 1 : f[i] = s[i]
    BY <2>1, <2>2
  <2> QED BY <2>3 DEF n
<1>6. Len(s) \in 1 .. Len(s)
  BY <1>1
<1> QED BY <1>1, <1>3, <1>4, <1>5, <1>6

(* Appending is putting in at the end.                                     *)
LEMMA AppendedLast ==
  ASSUME NEW S, NEW s \in Seq(S), NEW e \in S
  PROVE  Len(s) + 1 \in 1 .. Len(s) + 1 /\ Append(s, e) = InsertAt(s, Len(s) + 1, e)
<1> DEFINE n == Len(s)
           a == Append(s, e)
           b == InsertAt(s, n + 1, e)
<1>1. n \in Nat /\ n + 1 \in 1 .. n + 1
  BY LenProperties
<1>2. /\ a \in Seq(S) /\ Len(a) = n + 1
      /\ (\A i \in 1 .. n : a[i] = s[i]) /\ a[n + 1] = e
  BY AppendProperties
<1>3. /\ b \in Seq(S) /\ Len(b) = n + 1
      /\ \A i \in 1 .. n + 1 : b[i] = IF i < n + 1 THEN s[i] ELSE IF i = n + 1 THEN e ELSE s[i - 1]
  <2>1. b \in Seq(S) /\ HasPutIn(b, s, n + 1, e)
    BY <1>1, Inserted
  <2> QED BY <2>1 DEF HasPutIn
<1> HIDE DEF a, b, n
<1>4. ASSUME NEW i \in 1 .. n + 1 PROVE a[i] = b[i]
  <2>1. CASE i = n + 1
    BY <1>1, <1>2, <1>3, <2>1
  <2>2. CASE i # n + 1
    <3>1. i \in 1 .. n /\ i < n + 1
      BY <1>1, <2>2
    <3> QED BY <1>2, <1>3, <3>1
  <2> QED BY <2>1, <2>2
<1>5. a = b
  BY <1>2, <1>3, <1>4, SeqEqual
<1> QED BY <1>1, <1>5 DEF a, b, n

-----------------------------------------------------------------------------
(* The order of strings: one of two comes first, and none before itself.   *)
LEMMA ShortlexTotal ==
  ASSUME NEW X \in Seq(Nat), NEW Y \in Seq(Nat), X # Y
  PROVE  Shortlex(X, Y) \/ Shortlex(Y, X)
<1>1. Len(X) \in Nat /\ Len(Y) \in Nat /\ DOMAIN X = 1 .. Len(X) /\ DOMAIN Y = 1 .. Len(Y)
  BY LenProperties
<1>2. CASE Len(X) # Len(Y)
  <2>1. Len(X) < Len(Y) \/ Len(Y) < Len(X)
    <3>1. \A m, n \in Nat : m # n => m < n \/ n < m
      OBVIOUS
    <3> QED BY <1>1, <1>2, <3>1, Zenon
  <2> QED BY <2>1, Zenon DEF Shortlex
<1>3. CASE Len(X) = Len(Y)
  <2> DEFINE T == {i \in 1 .. Len(X) : X[i] # Y[i]}
  <2>1. T # {}
    BY <1>3, SeqEqual
  <2>2. T \subseteq Nat
    OBVIOUS
  <2>3. PICK i \in T : \A m \in T : i <= m
    BY <2>1, <2>2, LeastElement
  <2>4. i \in 1 .. Len(X) /\ X[i] # Y[i]
    OBVIOUS
  <2>5. ASSUME NEW j \in 1 .. i - 1 PROVE X[j] = Y[j]
    <3>1. j \in 1 .. Len(X) /\ ~(i <= j)
      BY <1>1, <2>4
    <3> QED BY <2>3, <3>1
  <2> HIDE DEF T
  <2>6. X[i] \in Nat /\ Y[i] \in Nat
    BY <1>3, <2>4, ElementOfSeq
  <2>7. CASE X[i] < Y[i]
    BY <1>1, <1>3, <2>4, <2>5, <2>7 DEF Shortlex, LexBefore
  <2>8. CASE Y[i] < X[i]
    BY <1>1, <1>3, <2>4, <2>5, <2>8 DEF Shortlex, LexBefore
  <2> QED BY <2>4, <2>6, <2>7, <2>8
<1> QED BY <1>2, <1>3

LEMMA ShortlexStrict == ASSUME NEW X \in Seq(Nat) PROVE ~Shortlex(X, X)
<1>1. Len(X) \in Nat /\ DOMAIN X = 1 .. Len(X)
  BY LenProperties
<1>2. \A i \in DOMAIN X : X[i] \in Nat
  BY <1>1, ElementOfSeq
<1> QED BY <1>1, <1>2 DEF Shortlex, LexBefore

-----------------------------------------------------------------------------
(* The two searches, as loops over ranges that get smaller.                *)
Ranges  == Int \X Int
Mid(x)  == (x[1] + x[2]) \div 2
Goes(S) == [x \in Ranges |-> IF Shortlex(S, At(Mid(x))) THEN <<x[1], Mid(x) - 1>>
                             ELSE <<Mid(x) + 1, x[2]>>]
Size    == [x \in Ranges |-> IF x[1] > x[2] THEN 0 ELSE x[2] - x[1] + 1]

LEMMA Halves ==
  ASSUME NEW S, NEW x \in Ranges, x[1] <= x[2]
  PROVE  /\ x[1] \in Int /\ x[2] \in Int /\ Mid(x) \in x[1] .. x[2]
         /\ x[1] < x[2] => Mid(x) < x[2]
         /\ Goes(S)[x] = IF Shortlex(S, At(Mid(x))) THEN <<x[1], Mid(x) - 1>>
                         ELSE <<Mid(x) + 1, x[2]>>
         /\ Goes(S)[x] \in Ranges /\ Size[Goes(S)[x]] < Size[x]
<1>1. x[1] \in Int /\ x[2] \in Int
  BY DEF Ranges
<1>2. Mid(x) \in x[1] .. x[2] /\ (x[1] < x[2] => Mid(x) < x[2])
  BY <1>1 DEF Mid
<1>3. Goes(S)[x] = IF Shortlex(S, At(Mid(x))) THEN <<x[1], Mid(x) - 1>>
                   ELSE <<Mid(x) + 1, x[2]>>
  BY Zenon DEF Goes
<1> DEFINE m == Mid(x)
           low == <<x[1], m - 1>>
           high == <<m + 1, x[2]>>
<1>4. m \in Int /\ m \in x[1] .. x[2]
  BY <1>1, <1>2
<1> HIDE DEF m
<1>5. low \in Ranges /\ high \in Ranges /\ Size[low] < Size[x] /\ Size[high] < Size[x]
  BY <1>1, <1>4 DEF Ranges, Size
<1>6. Goes(S)[x] = low \/ Goes(S)[x] = high
  BY <1>3, Zenon DEF m
<1>7. Goes(S)[x] \in Ranges /\ Size[Goes(S)[x]] < Size[x]
  BY <1>5, <1>6, Zenon
<1> QED BY <1>1, <1>2, <1>3, <1>7

LEMMA SizeNat == Size \in [Ranges -> Nat]
  BY DEF Size, Ranges

(* binarySearch(): the equation of the module and the loop.                *)
FindStops(S) == {x \in Ranges : x[1] > x[2] \/ S = At(Mid(x))}
FindAnswer   == [x \in Ranges |-> IF x[1] > x[2] THEN NoString ELSE tbl[Mid(x) + 1]]

Finds(f, S) ==
  f = [x \in Int \X Int |->
         IF x[1] > x[2] THEN NoString
         ELSE IF S = At((x[1] + x[2]) \div 2) THEN tbl[((x[1] + x[2]) \div 2) + 1]
         ELSE IF Shortlex(S, At((x[1] + x[2]) \div 2))
         THEN f[<<x[1], ((x[1] + x[2]) \div 2) - 1>>]
         ELSE f[<<((x[1] + x[2]) \div 2) + 1, x[2]>>]]

LEMMA FindsLoops ==
  ASSUME NEW S, NEW f
  PROVE  Finds(f, S) <=> Loops(f, Ranges, FindStops(S), FindAnswer, Goes(S))
<1> DEFINE Here(x) == IF x[1] > x[2] THEN NoString
                      ELSE IF S = At(Mid(x)) THEN tbl[Mid(x) + 1]
                      ELSE IF Shortlex(S, At(Mid(x))) THEN f[<<x[1], Mid(x) - 1>>]
                      ELSE f[<<Mid(x) + 1, x[2]>>]
           There(x) == IF x \in FindStops(S) THEN FindAnswer[x] ELSE f[Goes(S)[x]]
<1>1. ASSUME NEW x \in Ranges PROVE Here(x) = There(x)
  <2>1. x \in FindStops(S) <=> (x[1] > x[2] \/ S = At(Mid(x)))
    BY Zenon DEF FindStops
  <2>2. FindAnswer[x] = IF x[1] > x[2] THEN NoString ELSE tbl[Mid(x) + 1]
    BY Zenon DEF FindAnswer
  <2>3. Goes(S)[x] = IF Shortlex(S, At(Mid(x))) THEN <<x[1], Mid(x) - 1>>
                     ELSE <<Mid(x) + 1, x[2]>>
    BY Zenon DEF Goes
  <2> QED BY <2>1, <2>2, <2>3, Zenon
<1>2. Finds(f, S) <=> f = [x \in Ranges |-> Here(x)]
  BY Zenon DEF Finds, Ranges, Mid
<1>3. Loops(f, Ranges, FindStops(S), FindAnswer, Goes(S)) <=> f = [x \in Ranges |-> There(x)]
  BY Zenon DEF Loops
<1> HIDE DEF Here, There
<1>4. [x \in Ranges |-> Here(x)] = [x \in Ranges |-> There(x)]
  BY <1>1, Zenon
<1> QED BY <1>2, <1>3, <1>4, Zenon

LEMMA FindShrinks == ASSUME NEW S PROVE Shrinks(Ranges, FindStops(S), Goes(S), Size)
<1>1. ASSUME NEW x \in Ranges, x \notin FindStops(S) PROVE x[1] <= x[2]
  <2>1. x[1] \in Int /\ x[2] \in Int /\ ~(x[1] > x[2])
    BY <1>1 DEF FindStops, Ranges
  <2> QED BY <2>1
<1> QED BY <1>1, Halves, SizeNat, Zenon DEF Shrinks

LEMMA BinarySearchLoops ==
  ASSUME NEW S
  PROVE  \E f : /\ Loops(f, Ranges, FindStops(S), FindAnswer, Goes(S))
                /\ binarySearch(S) = f[<<0, Len(tbl) - 1>>]
<1> DEFINE V == {FindAnswer[x] : x \in Ranges}
           find == CHOOSE f : Finds(f, S)
<1>1. FindAnswer \in [Ranges -> V] /\ V # {}
  <2>1. <<0, 0>> \in Ranges
    BY DEF Ranges
  <2> QED BY <2>1 DEF FindAnswer
<1> HIDE DEF V
<1>2. \E f : Loops(f, Ranges, FindStops(S), FindAnswer, Goes(S))
  BY <1>1, FindShrinks, LoopExists, Zenon
<1>3. Finds(find, S)
  BY <1>2, FindsLoops, Zenon
<1>4. binarySearch(S) = find[<<0, Len(tbl) - 1>>]
  BY Zenon DEF binarySearch, Finds
<1> QED BY <1>3, <1>4, FindsLoops, Zenon

(* InsertPos(): the same for the search of binaryInsert().                 *)
SeekStops(S) == {x \in Ranges : x[1] >= x[2] \/ S = At(Mid(x))}
SeekAnswer   == [x \in Ranges |-> IF x[1] >= x[2] THEN x[1] ELSE Mid(x)]

Seeks(f, S) ==
  f = [x \in Int \X Int |->
         IF x[1] >= x[2] THEN x[1]
         ELSE IF S = At((x[1] + x[2]) \div 2) THEN (x[1] + x[2]) \div 2
         ELSE IF Shortlex(S, At((x[1] + x[2]) \div 2))
         THEN f[<<x[1], ((x[1] + x[2]) \div 2) - 1>>]
         ELSE f[<<((x[1] + x[2]) \div 2) + 1, x[2]>>]]

LEMMA SeeksLoops ==
  ASSUME NEW S, NEW f
  PROVE  Seeks(f, S) <=> Loops(f, Ranges, SeekStops(S), SeekAnswer, Goes(S))
<1> DEFINE Here(x) == IF x[1] >= x[2] THEN x[1]
                      ELSE IF S = At(Mid(x)) THEN Mid(x)
                      ELSE IF Shortlex(S, At(Mid(x))) THEN f[<<x[1], Mid(x) - 1>>]
                      ELSE f[<<Mid(x) + 1, x[2]>>]
           There(x) == IF x \in SeekStops(S) THEN SeekAnswer[x] ELSE f[Goes(S)[x]]
<1>1. ASSUME NEW x \in Ranges PROVE Here(x) = There(x)
  <2>1. x \in SeekStops(S) <=> (x[1] >= x[2] \/ S = At(Mid(x)))
    BY Zenon DEF SeekStops
  <2>2. SeekAnswer[x] = IF x[1] >= x[2] THEN x[1] ELSE Mid(x)
    BY Zenon DEF SeekAnswer
  <2>3. Goes(S)[x] = IF Shortlex(S, At(Mid(x))) THEN <<x[1], Mid(x) - 1>>
                     ELSE <<Mid(x) + 1, x[2]>>
    BY Zenon DEF Goes
  <2> QED BY <2>1, <2>2, <2>3, Zenon
<1>2. Seeks(f, S) <=> f = [x \in Ranges |-> Here(x)]
  BY Zenon DEF Seeks, Ranges, Mid
<1>3. Loops(f, Ranges, SeekStops(S), SeekAnswer, Goes(S)) <=> f = [x \in Ranges |-> There(x)]
  BY Zenon DEF Loops
<1> HIDE DEF Here, There
<1>4. [x \in Ranges |-> Here(x)] = [x \in Ranges |-> There(x)]
  BY <1>1, Zenon
<1> QED BY <1>2, <1>3, <1>4, Zenon

LEMMA SeekShrinks == ASSUME NEW S PROVE Shrinks(Ranges, SeekStops(S), Goes(S), Size)
<1>1. ASSUME NEW x \in Ranges, x \notin SeekStops(S) PROVE x[1] <= x[2]
  <2>1. x[1] \in Int /\ x[2] \in Int /\ ~(x[1] >= x[2])
    BY <1>1 DEF SeekStops, Ranges
  <2> QED BY <2>1
<1> QED BY <1>1, Halves, SizeNat, Zenon DEF Shrinks

LEMMA InsertPosLoops ==
  ASSUME NEW S
  PROVE  \E f : /\ Loops(f, Ranges, SeekStops(S), SeekAnswer, Goes(S))
                /\ InsertPos(S) = f[<<0, Len(tbl)>>]
<1> DEFINE V == {SeekAnswer[x] : x \in Ranges}
           seek == CHOOSE f : Seeks(f, S)
<1>1. SeekAnswer \in [Ranges -> V] /\ V # {}
  <2>1. <<0, 0>> \in Ranges
    BY DEF Ranges
  <2> QED BY <2>1 DEF SeekAnswer
<1> HIDE DEF V
<1>2. \E f : Loops(f, Ranges, SeekStops(S), SeekAnswer, Goes(S))
  BY <1>1, SeekShrinks, LoopExists, Zenon
<1>3. Seeks(seek, S)
  BY <1>2, SeeksLoops, Zenon
<1>4. InsertPos(S) = seek[<<0, Len(tbl)>>]
  BY Zenon DEF InsertPos, Seeks
<1> QED BY <1>3, <1>4, SeeksLoops, Zenon

-----------------------------------------------------------------------------
(* What the searches answer.                                               *)
Readable ==
  /\ tbl \in Seq(Entries)
  /\ \A i \in DOMAIN tbl : resolveDirect(tbl[i]) \in Seq(Nat)

Those(S) == {tbl[i] : i \in {j \in DOMAIN tbl : resolveDirect(tbl[j]) = S}}

Within == {x \in Ranges : 0 <= x[1] /\ x[2] <= Len(tbl) - 1}

LEMMA Positions ==
  ASSUME tbl \in Seq(Entries), NEW p \in 0 .. Len(tbl) - 1
  PROVE  /\ p + 1 \in DOMAIN tbl /\ p \in Nat /\ Len(tbl) \in Nat
         /\ DOMAIN tbl = 1 .. Len(tbl) /\ tbl[p + 1] \in Entries
<1>1. Len(tbl) \in Nat /\ DOMAIN tbl = 1 .. Len(tbl)
  BY LenProperties
<1>2. p + 1 \in 1 .. Len(tbl) /\ p \in Nat
  BY <1>1
<1> QED BY <1>1, <1>2, ElementOfSeq

(* What a search finds is what was looked for.                             *)
LEMMA SearchSound ==
  ASSUME tbl \in Seq(Entries), NEW S
  PROVE  binarySearch(S) \in {NoString} \cup Those(S)
<1> DEFINE Q == {NoString} \cup Those(S)
<1>1. PICK f : /\ Loops(f, Ranges, FindStops(S), FindAnswer, Goes(S))
               /\ binarySearch(S) = f[<<0, Len(tbl) - 1>>]
  BY BinarySearchLoops
<1>2. ASSUME NEW x \in Within
      PROVE  IF x \in FindStops(S) THEN FindAnswer[x] \in Q ELSE Goes(S)[x] \in Within
  <2>1. x \in Ranges /\ 0 <= x[1] /\ x[2] <= Len(tbl) - 1 /\ x[1] \in Int /\ x[2] \in Int
    BY DEF Within, Ranges
  <2>2. Len(tbl) \in Nat
    BY LenProperties
  <2>3. CASE x[1] > x[2]
    <3>1. FindAnswer[x] = NoString /\ x \in FindStops(S)
      BY <2>1, <2>3, Zenon DEF FindAnswer, FindStops
    <3> QED BY <3>1, Zenon
  <2>4. CASE ~(x[1] > x[2])
    <3>1. x[1] <= x[2]
      BY <2>1, <2>4
    <3>2. /\ Mid(x) \in x[1] .. x[2]
          /\ Goes(S)[x] = IF Shortlex(S, At(Mid(x))) THEN <<x[1], Mid(x) - 1>>
                          ELSE <<Mid(x) + 1, x[2]>>
      BY <2>1, <3>1, Halves, Zenon
    <3>3. Mid(x) \in 0 .. Len(tbl) - 1
      BY <2>1, <2>2, <3>2
    <3>4. CASE S = At(Mid(x))
      <4>1. x \in FindStops(S) /\ FindAnswer[x] = tbl[Mid(x) + 1]
        BY <2>1, <2>4, <3>4, Zenon DEF FindAnswer, FindStops
      <4>2. Mid(x) + 1 \in {j \in DOMAIN tbl : resolveDirect(tbl[j]) = S}
        BY <3>3, <3>4, Positions, Zenon DEF At
      <4>3. FindAnswer[x] \in Those(S)
        BY <4>1, <4>2, Zenon DEF Those
      <4> QED BY <4>1, <4>3, Zenon
    <3>5. CASE S # At(Mid(x))
      <4>1. x \notin FindStops(S)
        BY <2>4, <3>5, Zenon DEF FindStops
      <4> DEFINE m == Mid(x)
      <4>2. m \in Int /\ 0 <= m + 1 /\ m - 1 <= Len(tbl) - 1
        BY <2>2, <3>3
      <4> HIDE DEF m
      <4>3. <<x[1], m - 1>> \in Within /\ <<m + 1, x[2]>> \in Within
        BY <2>1, <4>2 DEF Within, Ranges
      <4>4. Goes(S)[x] \in Within
        BY <3>2, <4>3, Zenon DEF m
      <4> QED BY <4>1, <4>4, Zenon
    <3> QED BY <3>4, <3>5, Zenon
  <2> QED BY <2>3, <2>4, Zenon
<1>3. <<0, Len(tbl) - 1>> \in Within
  <2>1. Len(tbl) \in Nat
    BY LenProperties
  <2> QED BY <2>1 DEF Within, Ranges
<1>4. Within \subseteq Ranges
  BY DEF Within
<1> HIDE DEF Q
<1>5. \A x \in Within : f[x] \in Q
  <2>1. Keeps(Within, Q, FindStops(S), FindAnswer, Goes(S))
    BY <1>2, Zenon DEF Keeps
  <2>2. Gives(f, Within, Q)
    BY <1>1, <1>4, <2>1, FindShrinks, LoopAnswers, Zenon
  <2> QED BY <2>2, Zenon DEF Gives
<1> QED BY <1>1, <1>3, <1>5, Zenon DEF Q

(* The ranges that do not lose sight of S.                                 *)
Sees(S) == {x \in Ranges : /\ 0 <= x[1] /\ x[2] <= Len(tbl)
                           /\ \E p \in 0 .. Len(tbl) - 1 :
                                x[1] <= p /\ p <= x[2] /\ At(p) = S}

(* In a table in order the half a search goes on with is the one with S.   *)
LEMMA RightHalf ==
  ASSUME Readable, InOrder, NEW S, NEW x \in Sees(S), x[1] <= x[2],
         Mid(x) <= Len(tbl) - 1, S # At(Mid(x))
  PROVE  Goes(S)[x] \in Sees(S)
<1>1. x \in Ranges /\ 0 <= x[1] /\ x[2] <= Len(tbl) /\ x[1] \in Int /\ x[2] \in Int
  BY DEF Sees, Ranges
<1>2. PICK p \in 0 .. Len(tbl) - 1 : x[1] <= p /\ p <= x[2] /\ At(p) = S
  BY DEF Sees
<1>3. tbl \in Seq(Entries) /\ Len(tbl) \in Nat /\ DOMAIN tbl = 1 .. Len(tbl)
  BY LenProperties DEF Readable
<1>4. /\ Mid(x) \in x[1] .. x[2]
      /\ Goes(S)[x] = IF Shortlex(S, At(Mid(x))) THEN <<x[1], Mid(x) - 1>>
                      ELSE <<Mid(x) + 1, x[2]>>
  BY <1>1, Halves, Zenon
<1> DEFINE m == Mid(x)
           M == At(m)
<1>5. m \in 0 .. Len(tbl) - 1 /\ m \in Int
  BY <1>1, <1>3, <1>4
<1>6. p + 1 \in DOMAIN tbl /\ m + 1 \in DOMAIN tbl
  BY <1>3, <1>5, Positions
<1>7. S \in Seq(Nat) /\ M \in Seq(Nat)
  BY <1>2, <1>6, Zenon DEF Readable, At
<1>8. p # m
  BY <1>2, Zenon
<1>9. ASSUME NEW a \in 0 .. Len(tbl) - 1, NEW b \in 0 .. Len(tbl) - 1, a < b
      PROVE  ~Shortlex(At(b), At(a))
  <2>1. a + 1 \in DOMAIN tbl /\ b + 1 \in DOMAIN tbl /\ a + 1 < b + 1
    BY <1>3, <1>9, Positions
  <2> QED BY <2>1, Zenon DEF InOrder, At
<1>10. M # S
  OBVIOUS
<1> HIDE DEF M
<1>11. CASE Shortlex(S, M)
  <2>1. ~(m < p)
    BY <1>2, <1>5, <1>9, <1>11, Zenon DEF M
  <2> HIDE DEF m
  <2>2. p <= m - 1 /\ m - 1 <= Len(tbl) /\ m - 1 \in Int
    BY <1>3, <1>5, <1>8, <2>1
  <2>3. <<x[1], m - 1>> \in Sees(S)
    BY <1>1, <1>2, <2>2 DEF Sees, Ranges
  <2> QED BY <1>4, <1>11, <2>3, Zenon DEF m, M
<1>12. CASE ~Shortlex(S, M)
  <2>1. Shortlex(M, S)
    BY <1>7, <1>10, <1>12, ShortlexTotal
  <2>2. ~(p < m)
    BY <1>2, <1>5, <1>9, <2>1, Zenon DEF M
  <2> HIDE DEF m
  <2>3. m + 1 <= p /\ 0 <= m + 1 /\ m + 1 \in Int
    BY <1>3, <1>5, <1>8, <2>2
  <2>4. <<m + 1, x[2]>> \in Sees(S)
    BY <1>1, <1>2, <2>3 DEF Sees, Ranges
  <2> QED BY <1>4, <1>12, <2>4, Zenon DEF m, M
<1> QED BY <1>11, <1>12, Zenon

LEMMA SeenAtFirst ==
  ASSUME tbl \in Seq(Entries), NEW S, Holds(S)
  PROVE  /\ \E p \in 0 .. Len(tbl) - 1 : At(p) = S
         /\ <<0, Len(tbl) - 1>> \in Sees(S) /\ <<0, Len(tbl)>> \in Sees(S)
<1>1. Len(tbl) \in Nat /\ DOMAIN tbl = 1 .. Len(tbl)
  BY LenProperties
<1>2. PICK i \in DOMAIN tbl : resolveDirect(tbl[i]) = S
  BY DEF Holds
<1>3. i - 1 \in 0 .. Len(tbl) - 1 /\ (i - 1) + 1 = i
  BY <1>1
<1>4. PICK p \in 0 .. Len(tbl) - 1 : p = i - 1
  BY <1>3
<1>5. At(p) = S
  BY <1>2, <1>3, <1>4 DEF At
<1>6. p \in Int /\ 0 <= p /\ p <= Len(tbl) - 1 /\ p <= Len(tbl)
  BY <1>1, Positions
<1>7. ASSUME NEW r \in {Len(tbl) - 1, Len(tbl)} PROVE <<0, r>> \in Sees(S)
  <2> DEFINE n == Len(tbl)
  <2> HIDE DEF n
  <2>1. r \in Int /\ r <= Len(tbl) /\ p <= r
    <3>1. n \in Nat /\ (r = n - 1 \/ r = n) /\ p \in Int /\ p <= n - 1
      <4>1. r = Len(tbl) - 1 \/ r = Len(tbl)
        BY Zenon
      <4>2. Len(tbl) \in Nat /\ p <= Len(tbl) - 1
        BY <1>1, <1>6
      <4>3. p \in Int
        BY <1>6
      <4> QED BY <4>1, <4>2, <4>3, Zenon DEF n
    <3>2. r \in Int /\ r <= n /\ p <= r
      BY <3>1
    <3> QED BY <3>2 DEF n
  <2> QED BY <1>5, <1>6, <2>1 DEF Sees, Ranges
<1> QED BY <1>5, <1>7

(* And what a table in order holds is found.                               *)
LEMMA SearchComplete ==
  ASSUME Readable, InOrder, NEW S, Holds(S)
  PROVE  binarySearch(S) \in Those(S)
<1> DEFINE P == Sees(S) \cap Within
           Q == Those(S)
<1>1. PICK f : /\ Loops(f, Ranges, FindStops(S), FindAnswer, Goes(S))
               /\ binarySearch(S) = f[<<0, Len(tbl) - 1>>]
  BY BinarySearchLoops
<1>2. tbl \in Seq(Entries) /\ Len(tbl) \in Nat
  BY LenProperties DEF Readable
<1>3. ASSUME NEW x \in P
      PROVE  IF x \in FindStops(S) THEN FindAnswer[x] \in Q ELSE Goes(S)[x] \in P
  <2>1. /\ x \in Ranges /\ 0 <= x[1] /\ x[2] <= Len(tbl) - 1 /\ x[1] \in Int /\ x[2] \in Int
        /\ x \in Sees(S)
    BY DEF Within, Ranges
  <2>2. PICK p \in 0 .. Len(tbl) - 1 : x[1] <= p /\ p <= x[2] /\ At(p) = S
    BY <2>1 DEF Sees
  <2>3. x[1] <= x[2] /\ ~(x[1] > x[2])
    BY <2>1, <2>2
  <2>4. /\ Mid(x) \in x[1] .. x[2]
        /\ Goes(S)[x] = IF Shortlex(S, At(Mid(x))) THEN <<x[1], Mid(x) - 1>>
                        ELSE <<Mid(x) + 1, x[2]>>
    BY <2>1, <2>3, Halves, Zenon
  <2>5. Mid(x) \in 0 .. Len(tbl) - 1
    BY <1>2, <2>1, <2>4
  <2>6. CASE S = At(Mid(x))
    <3>1. x \in FindStops(S) /\ FindAnswer[x] = tbl[Mid(x) + 1]
      BY <2>1, <2>3, <2>6, Zenon DEF FindAnswer, FindStops
    <3>2. Mid(x) + 1 \in {j \in DOMAIN tbl : resolveDirect(tbl[j]) = S}
      BY <1>2, <2>5, <2>6, Positions, Zenon DEF At
    <3>3. FindAnswer[x] \in Those(S)
      BY <3>1, <3>2, Zenon DEF Those
    <3> QED BY <3>1, <3>3, Zenon
  <2>7. CASE S # At(Mid(x))
    <3>1. x \notin FindStops(S)
      BY <2>3, <2>7, Zenon DEF FindStops
    <3> DEFINE m == Mid(x)
    <3>2. m \in Int /\ 0 <= m + 1 /\ m - 1 <= Len(tbl) - 1 /\ m <= Len(tbl) - 1
      BY <1>2, <2>5
    <3>3. Goes(S)[x] \in Sees(S)
      BY <2>1, <2>3, <2>7, <3>2, RightHalf, Zenon
    <3> HIDE DEF m
    <3>4. <<x[1], m - 1>> \in Within /\ <<m + 1, x[2]>> \in Within
      BY <2>1, <3>2 DEF Within, Ranges
    <3>5. Goes(S)[x] \in Within
      BY <2>4, <3>4, Zenon DEF m
    <3> QED BY <3>1, <3>3, <3>5, Zenon
  <2> QED BY <2>6, <2>7, Zenon
<1>4. <<0, Len(tbl) - 1>> \in P
  <2>1. <<0, Len(tbl) - 1>> \in Within
    BY <1>2 DEF Within, Ranges
  <2> QED BY <1>2, <2>1, SeenAtFirst, Zenon
<1>5. P \subseteq Ranges
  BY DEF Within
<1> HIDE DEF P, Q
<1>6. \A x \in P : f[x] \in Q
  <2>1. Keeps(P, Q, FindStops(S), FindAnswer, Goes(S))
    BY <1>3, Zenon DEF Keeps
  <2>2. Gives(f, P, Q)
    BY <1>1, <1>5, <2>1, FindShrinks, LoopAnswers, Zenon
  <2> QED BY <2>2, Zenon DEF Gives
<1> QED BY <1>1, <1>4, <1>6, Zenon DEF Q


(* The place binaryInsert() finds is in the table when what comes last     *)
(* there comes after S.                                                    *)
LEMMA SeekWithin ==
  ASSUME tbl \in Seq(Entries), tbl # <<>>, NEW S, Shortlex(S, At(Len(tbl) - 1))
  PROVE  InsertPos(S) \in 0 .. Len(tbl) - 1
<1> DEFINE P == {x \in Ranges : 0 <= x[1] /\ x[1] <= Len(tbl) - 1 /\ x[2] <= Len(tbl)}
           Q == 0 .. Len(tbl) - 1
<1>1. PICK f : /\ Loops(f, Ranges, SeekStops(S), SeekAnswer, Goes(S))
               /\ InsertPos(S) = f[<<0, Len(tbl)>>]
  BY InsertPosLoops
<1>2. Len(tbl) \in Nat \ {0}
  BY Shortened
<1>3. ASSUME NEW x \in P
      PROVE  IF x \in SeekStops(S) THEN SeekAnswer[x] \in Q ELSE Goes(S)[x] \in P
  <2>1. /\ x \in Ranges /\ x[1] \in Int /\ x[2] \in Int
        /\ 0 <= x[1] /\ x[1] <= Len(tbl) - 1 /\ x[2] <= Len(tbl)
    BY DEF Ranges
  <2>2. CASE x[1] >= x[2]
    <3>1. SeekAnswer[x] = x[1] /\ x \in SeekStops(S)
      BY <2>1, <2>2, Zenon DEF SeekAnswer, SeekStops
    <3>2. x[1] \in Q
      BY <1>2, <2>1
    <3> QED BY <3>1, <3>2, Zenon
  <2>3. CASE ~(x[1] >= x[2])
    <3>1. x[1] <= x[2] /\ x[1] < x[2]
      BY <2>1, <2>3
    <3>2. /\ Mid(x) \in x[1] .. x[2] /\ Mid(x) < x[2]
          /\ Goes(S)[x] = IF Shortlex(S, At(Mid(x))) THEN <<x[1], Mid(x) - 1>>
                          ELSE <<Mid(x) + 1, x[2]>>
      BY <2>1, <3>1, Halves, Zenon
    <3>3. Mid(x) \in Q
      BY <1>2, <2>1, <3>2
    <3>4. CASE S = At(Mid(x))
      <4>1. x \in SeekStops(S) /\ SeekAnswer[x] = Mid(x)
        BY <2>1, <2>3, <3>4, Zenon DEF SeekAnswer, SeekStops
      <4> QED BY <3>3, <4>1, Zenon
    <3>5. CASE S # At(Mid(x))
      <4>1. x \notin SeekStops(S)
        BY <2>3, <3>5, Zenon DEF SeekStops
      <4> DEFINE m == Mid(x)
      <4>2. m \in Int /\ 0 <= m /\ m <= Len(tbl) - 1 /\ m <= x[2] /\ x[1] <= m
        BY <1>2, <2>1, <3>2, <3>3
      <4>3. ~Shortlex(S, At(m)) => m # Len(tbl) - 1
        BY Zenon
      <4> HIDE DEF m
      <4>4. <<x[1], m - 1>> \in P
        BY <1>2, <2>1, <4>2 DEF Ranges
      <4>5. m # Len(tbl) - 1 => <<m + 1, x[2]>> \in P
        BY <1>2, <2>1, <4>2 DEF Ranges
      <4> HIDE DEF P
      <4>6. Goes(S)[x] \in P
        BY <3>2, <4>3, <4>4, <4>5, Zenon DEF m
      <4> QED BY <4>1, <4>6, Zenon
    <3> QED BY <3>4, <3>5, Zenon
  <2> QED BY <2>2, <2>3, Zenon
<1>4. <<0, Len(tbl)>> \in P
  BY <1>2 DEF Ranges
<1>5. P \subseteq Ranges
  OBVIOUS
<1> HIDE DEF P, Q
<1>6. \A x \in P : f[x] \in Q
  <2>1. Keeps(P, Q, SeekStops(S), SeekAnswer, Goes(S))
    BY <1>3, Zenon DEF Keeps
  <2>2. Gives(f, P, Q)
    BY <1>1, <1>5, <2>1, SeekShrinks, LoopAnswers, Zenon
  <2> QED BY <2>2, Zenon DEF Gives
<1> QED BY <1>1, <1>4, <1>6, Zenon DEF Q

(* In a table in order it finds the string that is there.                  *)
LEMMA SeekFinds ==
  ASSUME Readable, InOrder, NEW S, Holds(S)
  PROVE  At(InsertPos(S)) = S
<1> DEFINE Q == {p \in 0 .. Len(tbl) - 1 : At(p) = S}
<1>1. PICK f : /\ Loops(f, Ranges, SeekStops(S), SeekAnswer, Goes(S))
               /\ InsertPos(S) = f[<<0, Len(tbl)>>]
  BY InsertPosLoops
<1>2. tbl \in Seq(Entries) /\ Len(tbl) \in Nat
  BY LenProperties DEF Readable
<1>3. ASSUME NEW x \in Sees(S)
      PROVE  IF x \in SeekStops(S) THEN SeekAnswer[x] \in Q ELSE Goes(S)[x] \in Sees(S)
  <2>1. /\ x \in Ranges /\ 0 <= x[1] /\ x[2] <= Len(tbl) /\ x[1] \in Int /\ x[2] \in Int
    BY DEF Sees, Ranges
  <2>2. PICK p \in 0 .. Len(tbl) - 1 : x[1] <= p /\ p <= x[2] /\ At(p) = S
    BY <2>1 DEF Sees
  <2>3. p \in Int
    BY <1>2, Positions
  <2>4. CASE x[1] >= x[2]
    <3>1. SeekAnswer[x] = x[1] /\ x \in SeekStops(S)
      BY <2>1, <2>4, Zenon DEF SeekAnswer, SeekStops
    <3>2. x[1] = p
      BY <2>1, <2>2, <2>3, <2>4
    <3> QED BY <2>2, <3>1, <3>2, Zenon
  <2>5. CASE ~(x[1] >= x[2])
    <3>1. x[1] <= x[2] /\ x[1] < x[2]
      BY <2>1, <2>5
    <3>2. Mid(x) \in x[1] .. x[2] /\ Mid(x) < x[2]
      BY <2>1, <3>1, Halves, Zenon
    <3>3. Mid(x) \in 0 .. Len(tbl) - 1 /\ Mid(x) <= Len(tbl) - 1
      BY <1>2, <2>1, <3>2
    <3>4. CASE S = At(Mid(x))
      <4>1. x \in SeekStops(S) /\ SeekAnswer[x] = Mid(x)
        BY <2>1, <2>5, <3>4, Zenon DEF SeekAnswer, SeekStops
      <4> QED BY <3>3, <3>4, <4>1, Zenon
    <3>5. CASE S # At(Mid(x))
      <4>1. x \notin SeekStops(S)
        BY <2>5, <3>5, Zenon DEF SeekStops
      <4>2. Goes(S)[x] \in Sees(S)
        BY <3>1, <3>3, <3>5, RightHalf, Zenon
      <4> QED BY <4>1, <4>2, Zenon
    <3> QED BY <3>4, <3>5, Zenon
  <2> QED BY <2>4, <2>5, Zenon
<1>4. <<0, Len(tbl)>> \in Sees(S)
  BY <1>2, SeenAtFirst, Zenon
<1>5. Sees(S) \subseteq Ranges
  BY DEF Sees
<1> HIDE DEF Q
<1>6. \A x \in Sees(S) : f[x] \in Q
  <2>1. Keeps(Sees(S), Q, SeekStops(S), SeekAnswer, Goes(S))
    BY <1>3, Zenon DEF Keeps
  <2>2. Gives(f, Sees(S), Q)
    BY <1>1, <1>5, <2>1, SeekShrinks, LoopAnswers, Zenon
  <2> QED BY <2>2, Zenon DEF Gives
<1> QED BY <1>1, <1>4, <1>6, Zenon DEF Q

-----------------------------------------------------------------------------
(* Sequences of entries at different offsets.                              *)
Apart(s) == \A i, j \in DOMAIN s : s[i].off = s[j].off => i = j

LEMMA PutInSet ==
  ASSUME NEW S, NEW s \in Seq(S), NEW e \in S, NEW p \in 1 .. Len(s) + 1
  PROVE  ToSet(InsertAt(s, p, e)) = ToSet(s) \cup {e}
<1> DEFINE t == InsertAt(s, p, e)
           n == Len(s)
<1>1. n \in Nat /\ DOMAIN s = 1 .. n
  BY LenProperties
<1>2. /\ t \in Seq(S) /\ Len(t) = n + 1
      /\ \A i \in 1 .. n + 1 : t[i] = IF i < p THEN s[i] ELSE IF i = p THEN e ELSE s[i - 1]
  <2>1. t \in Seq(S) /\ HasPutIn(t, s, p, e)
    BY Inserted, Zenon
  <2> HIDE DEF t
  <2> QED BY <2>1, Zenon DEF HasPutIn
<1> HIDE DEF t
<1>3. DOMAIN t = 1 .. n + 1
  BY <1>2, LenProperties
<1> HIDE DEF n
<1>4. p \in 1 .. n + 1
  BY DEF n
<1>5. ASSUME NEW i \in DOMAIN t PROVE t[i] \in ToSet(s) \cup {e}
  <2>1. CASE i < p
    <3>1. t[i] = s[i] /\ i \in DOMAIN s
      BY <1>1, <1>2, <1>3, <1>4, <2>1
    <3> QED BY <3>1, Zenon DEF ToSet
  <2>2. CASE i = p
    BY <1>2, <1>3, <1>4, <2>2
  <2>3. CASE ~(i < p) /\ i # p
    <3>1. t[i] = s[i - 1] /\ i - 1 \in DOMAIN s
      BY <1>1, <1>2, <1>3, <1>4, <2>3
    <3> QED BY <3>1, Zenon DEF ToSet
  <2> QED BY <2>1, <2>2, <2>3, Zenon
<1>6. ASSUME NEW i \in DOMAIN s PROVE s[i] \in ToSet(t)
  <2>1. CASE i < p
    <3>1. t[i] = s[i] /\ i \in DOMAIN t
      BY <1>1, <1>2, <1>3, <1>4, <2>1
    <3> QED BY <3>1, Zenon DEF ToSet
  <2>2. CASE ~(i < p)
    <3>1. i + 1 \in 1 .. n + 1 /\ ~(i + 1 < p) /\ i + 1 # p /\ (i + 1) - 1 = i
      BY <1>1, <1>4, <2>2
    <3>2. t[i + 1] = s[i] /\ i + 1 \in DOMAIN t
      BY <1>2, <1>3, <3>1
    <3> QED BY <3>2, Zenon DEF ToSet
  <2> QED BY <2>1, <2>2, Zenon
<1>7. e \in ToSet(t)
  <2>1. t[p] = e /\ p \in DOMAIN t
    BY <1>1, <1>2, <1>3, <1>4
  <2> QED BY <2>1, Zenon DEF ToSet
<1>8. ToSet(t) \subseteq ToSet(s) \cup {e}
  BY <1>5, Zenon DEF ToSet
<1>9. ToSet(s) \subseteq ToSet(t)
  BY <1>6, Zenon DEF ToSet
<1> QED BY <1>7, <1>8, <1>9 DEF t

LEMMA PutInApart ==
  ASSUME NEW S, NEW s \in Seq(S), NEW e \in S, NEW p \in 1 .. Len(s) + 1,
         Apart(s), \A i \in DOMAIN s : s[i].off # e.off
  PROVE  Apart(InsertAt(s, p, e))
<1> DEFINE t == InsertAt(s, p, e)
           n == Len(s)
<1>1. n \in Nat /\ DOMAIN s = 1 .. n
  BY LenProperties
<1>2. /\ t \in Seq(S) /\ Len(t) = n + 1
      /\ \A i \in 1 .. n + 1 : t[i] = IF i < p THEN s[i] ELSE IF i = p THEN e ELSE s[i - 1]
  <2>1. t \in Seq(S) /\ HasPutIn(t, s, p, e)
    BY Inserted, Zenon
  <2> HIDE DEF t
  <2> QED BY <2>1, Zenon DEF HasPutIn
<1> HIDE DEF t
<1>3. DOMAIN t = 1 .. n + 1
  BY <1>2, LenProperties
<1>4. p \in 1 .. n + 1
  OBVIOUS
<1> HIDE DEF n
<1> DEFINE back == [i \in 1 .. n + 1 |-> IF i < p THEN i ELSE i - 1]
<1>5. ASSUME NEW i \in DOMAIN t, i # p
      PROVE  back[i] \in DOMAIN s /\ t[i] = s[back[i]]
  <2>1. back[i] = (IF i < p THEN i ELSE i - 1) /\ back[i] \in 1 .. n
    BY <1>1, <1>3, <1>4, <1>5
  <2>2. t[i] = IF i < p THEN s[i] ELSE s[i - 1]
    BY <1>2, <1>3, <1>5
  <2> HIDE DEF back
  <2> QED BY <1>1, <2>1, <2>2, Zenon
<1>6. \A i, j \in DOMAIN t : i # p /\ j # p /\ back[i] = back[j] => i = j
  BY <1>1, <1>3, <1>4
<1> HIDE DEF back
<1>7. t[p] = e
  BY <1>1, <1>2, <1>4
<1> SUFFICES ASSUME NEW i \in DOMAIN t, NEW j \in DOMAIN t, t[i].off = t[j].off PROVE i = j
  BY Zenon DEF Apart, t
<1>8. CASE i # p /\ j # p
  <2>1. /\ back[i] \in DOMAIN s /\ t[i] = s[back[i]]
        /\ back[j] \in DOMAIN s /\ t[j] = s[back[j]]
    BY <1>5, <1>8, Zenon
  <2>2. s[back[i]].off = s[back[j]].off
    BY <2>1, Zenon
  <2>3. back[i] = back[j]
    BY <2>1, <2>2, Zenon DEF Apart
  <2> QED BY <1>6, <1>8, <2>3, Zenon
<1>9. CASE i = p /\ j # p
  BY <1>5, <1>7, <1>9, Zenon
<1>10. CASE i # p /\ j = p
  BY <1>5, <1>7, <1>10, Zenon
<1> QED BY <1>8, <1>9, <1>10, Zenon

(* Where an entry comes to rest.                                           *)
LEMMA SinkPlaces ==
  ASSUME NEW V, NEW A \in Seq(V), NEW e, NEW R
  PROVE  \E p \in 1 .. Len(A) + 1 :
           /\ Sink(A, e, R) = InsertAt(A, p, e)
           /\ \A k \in 1 .. Len(A) : k >= p => <<e, A[k]>> \in R
           /\ p > 1 => <<e, A[p - 1]>> \notin R
<1> DEFINE n == Len(A)
           Stop(j) == /\ \A k \in j + 1 .. n : <<e, A[k]>> \in R
                      /\ j > 0 => <<e, A[j]>> \notin R
           T == {j \in 0 .. n : \A k \in j + 1 .. n : <<e, A[k]>> \in R}
           stop == CHOOSE j \in 0 .. n : Stop(j)
<1>1. n \in Nat
  BY LenProperties
<1>2. Sink(A, e, R) = InsertAt(A, stop + 1, e)
  BY DEF Sink
<1> HIDE DEF n
<1>3. n \in T
  BY <1>1
<1>4. T \subseteq Nat
  BY <1>1
<1>5. PICK j \in T : \A m \in T : j <= m
  BY <1>3, <1>4, LeastElement
<1>6. Stop(j) /\ j \in 0 .. n
  <2>1. ASSUME j > 0, <<e, A[j]>> \in R PROVE FALSE
    <3>1. j - 1 \in 0 .. n /\ j \in Int
      BY <1>1, <2>1
    <3>2. ASSUME NEW k \in (j - 1) + 1 .. n PROVE <<e, A[k]>> \in R
      <4>1. k = j \/ k \in j + 1 .. n
        BY <1>1, <3>1
      <4> QED BY <2>1, <4>1
    <3>3. j - 1 \in T
      BY <3>1, <3>2
    <3> QED BY <1>5, <3>1, <3>3
  <2> QED BY <2>1
<1>7. stop \in 0 .. n /\ Stop(stop)
  <2> HIDE DEF Stop
  <2> QED BY <1>6, Zenon
<1> HIDE DEF stop
<1>8. /\ stop + 1 \in 1 .. n + 1
      /\ (stop + 1) - 1 = stop /\ (stop + 1 > 1 => stop > 0)
      /\ \A k \in 1 .. n : k >= stop + 1 => k \in stop + 1 .. n
  BY <1>1, <1>7
<1> QED BY <1>2, <1>7, <1>8 DEF n

(* insertion_sort().                                                       *)
Sorts(f, R) ==
  f = [k \in 0 .. Len(tbl) |-> IF k = 0 THEN <<>> ELSE Sink(f[k - 1], tbl[k], R)]

LEMMA SortPasses ==
  ASSUME tbl \in Seq(Entries), NEW R
  PROVE  \E f : Sorts(f, R) /\ InsertionSort(R) = f[Len(tbl)]
<1> DEFINE V == Seq(Entries)
           n == Len(tbl)
           step == [x \in V \X (1 .. n) |-> Sink(x[1], tbl[x[2]], R)]
           done == CHOOSE f : Sorts(f, R)
<1>1. n \in Nat /\ \A k \in 1 .. n : tbl[k] \in Entries
  BY LenProperties, ElementOfSeq
<1>2. ASSUME NEW x \in V \X (1 .. n) PROVE Sink(x[1], tbl[x[2]], R) \in V
  <2> DEFINE A == x[1]
             e == tbl[x[2]]
  <2>1. A \in Seq(Entries) /\ e \in Entries
    BY <1>1
  <2> HIDE DEF A, e
  <2>2. PICK p \in 1 .. Len(A) + 1 : Sink(A, e, R) = InsertAt(A, p, e)
    BY <2>1, SinkPlaces
  <2>3. InsertAt(A, p, e) \in Seq(Entries)
    BY <2>1, Inserted
  <2> QED BY <2>2, <2>3 DEF A, e
<1> HIDE DEF n
<1>3. step \in [V \X (1 .. n) -> V]
  BY <1>2, Zenon
<1>4. <<>> \in V
  OBVIOUS
<1> HIDE DEF V, step
<1>5. PICK f : f \in [0 .. n -> V] /\ Passes(f, n, <<>>, step)
  BY <1>1, <1>3, <1>4, PassExists, Zenon
<1>6. ASSUME NEW k \in 0 .. n, k # 0 PROVE step[<<f[k - 1], k>>] = Sink(f[k - 1], tbl[k], R)
  <2>1. k - 1 \in 0 .. n /\ k \in 1 .. n
    BY <1>1, <1>6
  <2>2. f[k - 1] \in V
    BY <1>5, <2>1
  <2>3. <<f[k - 1], k>> \in V \X (1 .. n)
    BY <2>1, <2>2
  <2> QED BY <2>3, Zenon DEF step
<1>7. Sorts(f, R)
  <2> DEFINE Here(k) == IF k = 0 THEN <<>> ELSE step[<<f[k - 1], k>>]
             There(k) == IF k = 0 THEN <<>> ELSE Sink(f[k - 1], tbl[k], R)
  <2>1. \A k \in 0 .. n : Here(k) = There(k)
    BY <1>6, Zenon
  <2>2. f = [k \in 0 .. n |-> Here(k)]
    BY <1>5, Zenon DEF Passes
  <2> HIDE DEF Here, There
  <2>3. f = [k \in 0 .. n |-> There(k)]
    BY <2>1, <2>2, Zenon
  <2> QED BY <2>3, Zenon DEF Sorts, There, n
<1>8. Sorts(done, R)
  BY <1>7, Zenon
<1>9. InsertionSort(R) = done[Len(tbl)]
  BY Zenon DEF InsertionSort, Sorts
<1> QED BY <1>8, <1>9, Zenon


(* A sort loses nothing and doubles nothing.                               *)
LEMMA SortKeeps ==
  ASSUME tbl \in Seq(Entries), NEW R
  PROVE  /\ InsertionSort(R) \in Seq(Entries) /\ Len(InsertionSort(R)) = Len(tbl)
         /\ ToSet(InsertionSort(R)) = ToSet(tbl)
         /\ Apart(tbl) => Apart(InsertionSort(R))
<1> DEFINE n == Len(tbl)
           First(k) == {tbl[i] : i \in 1 .. k}
           Kept(A, k) == /\ A \in Seq(Entries) /\ Len(A) = k /\ ToSet(A) = First(k)
                         /\ Apart(tbl) => Apart(A)
<1>1. n \in Nat /\ DOMAIN tbl = 1 .. n /\ \A k \in 1 .. n : tbl[k] \in Entries
  BY LenProperties, ElementOfSeq
<1>2. PICK f : Sorts(f, R) /\ InsertionSort(R) = f[n]
  BY SortPasses
<1> HIDE DEF n
<1>3. f[0] = <<>> /\ \A k \in 1 .. n : f[k] = Sink(f[k - 1], tbl[k], R)
  <2>1. f = [k \in 0 .. n |-> IF k = 0 THEN <<>> ELSE Sink(f[k - 1], tbl[k], R)]
    BY <1>2, Zenon DEF Sorts, n
  <2>2. \A k \in 0 .. n : f[k] = IF k = 0 THEN <<>> ELSE Sink(f[k - 1], tbl[k], R)
    BY <2>1, Zenon
  <2>3. 0 \in 0 .. n /\ \A k \in 1 .. n : k \in 0 .. n /\ k # 0
    BY <1>1
  <2> QED BY <2>2, <2>3, Zenon
<1> DEFINE T == {k \in Nat : k <= n => Kept(f[k], k)}
<1>4. 0 \in T
  <2>1. f[0] \in Seq(Entries) /\ Len(f[0]) = 0 /\ DOMAIN f[0] = {}
    BY <1>3
  <2>2. ToSet(f[0]) = First(0) /\ Apart(f[0])
    BY <2>1 DEF ToSet, Apart
  <2> QED BY <2>1, <2>2
<1>5. ASSUME NEW k \in Nat, k \in T PROVE k + 1 \in T
  <2> SUFFICES ASSUME k + 1 <= n PROVE Kept(f[k + 1], k + 1)
    OBVIOUS
  <2> DEFINE A == f[k]
             e == tbl[k + 1]
  <2>1. k + 1 \in 1 .. n /\ (k + 1) - 1 = k /\ k <= n
    BY <1>1
  <2>2. Kept(A, k) /\ f[k + 1] = Sink(A, e, R) /\ e \in Entries
    BY <1>1, <1>3, <1>5, <2>1
  <2> HIDE DEF A, e
  <2>3. PICK p \in 1 .. Len(A) + 1 : Sink(A, e, R) = InsertAt(A, p, e)
    <3>1. A \in Seq(Entries)
      BY <2>2
    <3> QED BY <3>1, SinkPlaces, Zenon
  <2>4. InsertAt(A, p, e) \in Seq(Entries) /\ Len(InsertAt(A, p, e)) = k + 1
    <3>1. HasPutIn(InsertAt(A, p, e), A, p, e) /\ InsertAt(A, p, e) \in Seq(Entries)
      BY <2>2, Inserted
    <3> QED BY <2>2, <3>1 DEF HasPutIn
  <2>5. ToSet(InsertAt(A, p, e)) = First(k) \cup {e}
    BY <2>2, PutInSet
  <2>6. First(k + 1) = First(k) \cup {e}
    <3>1. 1 .. k + 1 = (1 .. k) \cup {k + 1}
      OBVIOUS
    <3> QED BY <3>1 DEF e
  <2>7. ASSUME Apart(tbl) PROVE Apart(InsertAt(A, p, e))
    <3>1. ASSUME NEW i \in DOMAIN A PROVE A[i].off # e.off
      <4>1. A[i] \in First(k)
        BY <2>2, Zenon DEF ToSet
      <4>2. PICK j \in 1 .. k : A[i] = tbl[j]
        BY <4>1
      <4>3. j \in DOMAIN tbl /\ k + 1 \in DOMAIN tbl /\ j # k + 1
        BY <1>1, <2>1
      <4> QED BY <2>7, <4>2, <4>3, Zenon DEF Apart, e
    <3>2. Apart(A)
      BY <2>2, <2>7
    <3> QED BY <2>2, <3>1, <3>2, PutInApart, Zenon
  <2> QED BY <2>2, <2>3, <2>4, <2>5, <2>6, <2>7
<1> HIDE DEF T
<1>6. \A k \in Nat : k \in T
  BY <1>4, <1>5, Induct
<1>7. Kept(f[n], n)
  <2>1. n \in T /\ n <= n
    BY <1>1, <1>6
  <2> QED BY <2>1 DEF T
<1>8. First(n) = ToSet(tbl)
  BY <1>1 DEF ToSet
<1> QED BY <1>2, <1>7, <1>8 DEF n

(* Entries in the order they were made.                                    *)
LEMMA EntryNat == ASSUME NEW e \in Entries PROVE e.off \in Nat /\ e.len \in Nat \ {0}
  BY StringTableAssumption DEF Entries

Rising(s) == \A i, j \in DOMAIN s : i < j => s[i].off < s[j].off

LEMMA PutInRising ==
  ASSUME NEW s \in Seq(Entries), NEW e \in Entries, NEW p \in 1 .. Len(s) + 1, Rising(s),
         \A i \in DOMAIN s : IF i < p THEN s[i].off < e.off ELSE e.off < s[i].off
  PROVE  Rising(InsertAt(s, p, e))
<1> DEFINE t == InsertAt(s, p, e)
           n == Len(s)
<1>1. n \in Nat /\ DOMAIN s = 1 .. n
  BY LenProperties
<1>2. /\ t \in Seq(Entries) /\ Len(t) = n + 1
      /\ \A i \in 1 .. n + 1 : t[i] = IF i < p THEN s[i] ELSE IF i = p THEN e ELSE s[i - 1]
  <2>1. t \in Seq(Entries) /\ HasPutIn(t, s, p, e)
    BY Inserted, Zenon
  <2> HIDE DEF t
  <2> QED BY <2>1, Zenon DEF HasPutIn
<1> HIDE DEF t
<1>3. DOMAIN t = 1 .. n + 1
  BY <1>2, LenProperties
<1>4. p \in 1 .. n + 1
  OBVIOUS
<1> HIDE DEF n
<1>5. ASSUME NEW i \in DOMAIN t
      PROVE  /\ i < p => i \in DOMAIN s /\ t[i] = s[i]
             /\ i = p => t[i] = e
             /\ i > p => i - 1 \in DOMAIN s /\ t[i] = s[i - 1] /\ ~(i - 1 < p)
  BY <1>1, <1>2, <1>3, <1>4
<1> SUFFICES ASSUME NEW i \in DOMAIN t, NEW j \in DOMAIN t, i < j PROVE t[i].off < t[j].off
  BY Zenon DEF Rising, t
<1>6. i \in Nat /\ j \in Nat /\ p \in Nat
  BY <1>1, <1>3, <1>4
<1>7. CASE j < p
  <2>1. i < p
    BY <1>6, <1>7
  <2> QED BY <1>5, <1>7, <2>1 DEF Rising
<1>8. CASE j = p
  <2>1. i < p
    BY <1>6, <1>8
  <2> QED BY <1>5, <1>8, <2>1
<1>9. CASE j > p /\ i = p
  BY <1>5, <1>9
<1>10. CASE j > p /\ i > p
  <2>1. i - 1 < j - 1
    BY <1>6
  <2> QED BY <1>5, <1>10, <2>1 DEF Rising
<1>11. CASE j > p /\ i < p
  <2>1. s[i].off < e.off /\ e.off < s[j - 1].off /\ t[i] = s[i] /\ t[j] = s[j - 1]
    BY <1>5, <1>11
  <2>2. s[i] \in Entries /\ s[j - 1] \in Entries
    BY <1>1, <1>5, <1>11, ElementOfSeq
  <2>3. s[i].off \in Nat /\ s[j - 1].off \in Nat /\ e.off \in Nat
    BY <2>2, EntryNat
  <2> QED BY <2>1, <2>3
<1> QED BY <1>6, <1>7, <1>8, <1>9, <1>10, <1>11

(* Sorting by the offset puts them in that order.                          *)
LEMMA SortByOffset ==
  ASSUME tbl \in Seq(Entries), Apart(tbl)
  PROVE  Rising(InsertionSort({p \in Pairs : p[1].off < p[2].off}))
<1> DEFINE n == Len(tbl)
           R == {p \in Pairs : p[1].off < p[2].off}
           First(k) == {tbl[i] : i \in 1 .. k}
           Kept(A, k) == A \in Seq(Entries) /\ ToSet(A) = First(k) /\ Rising(A)
<1>1. n \in Nat /\ DOMAIN tbl = 1 .. n /\ \A k \in 1 .. n : tbl[k] \in Entries
  BY LenProperties, ElementOfSeq
<1>2. PICK f : Sorts(f, R) /\ InsertionSort(R) = f[n]
  BY SortPasses
<1> HIDE DEF n
<1>3. f[0] = <<>> /\ \A k \in 1 .. n : f[k] = Sink(f[k - 1], tbl[k], R)
  <2>1. f = [k \in 0 .. n |-> IF k = 0 THEN <<>> ELSE Sink(f[k - 1], tbl[k], R)]
    BY <1>2, Zenon DEF Sorts, n
  <2>2. \A k \in 0 .. n : f[k] = IF k = 0 THEN <<>> ELSE Sink(f[k - 1], tbl[k], R)
    BY <2>1, Zenon
  <2>3. 0 \in 0 .. n /\ \A k \in 1 .. n : k \in 0 .. n /\ k # 0
    BY <1>1
  <2> QED BY <2>2, <2>3, Zenon
<1> DEFINE T == {k \in Nat : k <= n => Kept(f[k], k)}
<1>4. 0 \in T
  <2>1. f[0] \in Seq(Entries) /\ DOMAIN f[0] = {}
    BY <1>3
  <2>2. ToSet(f[0]) = First(0) /\ Rising(f[0])
    BY <2>1 DEF ToSet, Rising
  <2> QED BY <2>1, <2>2
<1>5. ASSUME NEW k \in Nat, k \in T PROVE k + 1 \in T
  <2> SUFFICES ASSUME k + 1 <= n PROVE Kept(f[k + 1], k + 1)
    OBVIOUS
  <2> DEFINE A == f[k]
             e == tbl[k + 1]
  <2>1. k + 1 \in 1 .. n /\ (k + 1) - 1 = k /\ k <= n
    BY <1>1
  <2>2. Kept(A, k) /\ f[k + 1] = Sink(A, e, R) /\ e \in Entries
    BY <1>1, <1>3, <1>5, <2>1
  <2>3. ASSUME NEW i \in DOMAIN A
        PROVE  A[i] \in Entries /\ A[i].off # e.off /\ <<e, A[i]>> \in Pairs
    <3>1. A[i] \in First(k)
      BY <2>2, Zenon DEF ToSet
    <3>2. PICK j \in 1 .. k : A[i] = tbl[j]
      BY <3>1
    <3>3. j \in DOMAIN tbl /\ k + 1 \in DOMAIN tbl /\ j # k + 1
      BY <1>1, <2>1
    <3>4. tbl[j].off # e.off
      BY <3>3, Zenon DEF Apart
    <3>5. tbl[j] \in ToSet(tbl) /\ e \in ToSet(tbl)
      BY <3>3, Zenon DEF ToSet
    <3> QED BY <1>1, <3>2, <3>3, <3>4, <3>5 DEF Pairs
  <2> HIDE DEF A, e
  <2>4. ASSUME NEW i \in DOMAIN A
        PROVE  /\ <<e, A[i]>> \in R <=> e.off < A[i].off
               /\ <<e, A[i]>> \notin R => A[i].off < e.off
    <3>1. <<e, A[i]>> \in R <=> e.off < A[i].off
      BY <2>3
    <3>2. A[i].off \in Nat /\ e.off \in Nat /\ A[i].off # e.off
      BY <2>2, <2>3, EntryNat
    <3> HIDE DEF R
    <3> QED BY <3>1, <3>2
  <2> HIDE DEF R
  <2>5. PICK p \in 1 .. Len(A) + 1 :
           /\ Sink(A, e, R) = InsertAt(A, p, e)
           /\ \A j \in 1 .. Len(A) : j >= p => <<e, A[j]>> \in R
           /\ p > 1 => <<e, A[p - 1]>> \notin R
    BY <2>2, SinkPlaces
  <2>6. Len(A) \in Nat /\ DOMAIN A = 1 .. Len(A)
    BY <2>2, LenProperties
  <2>7. ASSUME NEW i \in DOMAIN A
        PROVE  IF i < p THEN A[i].off < e.off ELSE e.off < A[i].off
    <3>1. i \in Nat /\ p \in Nat /\ i \in 1 .. Len(A)
      BY <2>6
    <3>2. CASE ~(i < p)
      <4>1. <<e, A[i]>> \in R
        BY <2>5, <3>1, <3>2
      <4> QED BY <2>4, <3>2, <4>1, Zenon
    <3>3. CASE i < p
      <4>1. p > 1 /\ p - 1 \in DOMAIN A /\ (i = p - 1 \/ i < p - 1)
        BY <2>6, <3>1, <3>3
      <4>2. A[p - 1].off < e.off
        BY <2>4, <2>5, <4>1, Zenon
      <4>3. i < p - 1 => A[i].off < A[p - 1].off
        BY <2>2, <4>1 DEF Rising
      <4>4. A[i].off \in Nat /\ A[p - 1].off \in Nat /\ e.off \in Nat
        BY <2>2, <2>3, <4>1, EntryNat
      <4>5. A[i].off < e.off
        BY <4>1, <4>2, <4>3, <4>4
      <4> QED BY <3>3, <4>5
    <3> QED BY <3>2, <3>3, Zenon
  <2>8. InsertAt(A, p, e) \in Seq(Entries)
    BY <2>2, Inserted
  <2>9. ToSet(InsertAt(A, p, e)) = First(k) \cup {e}
    BY <2>2, PutInSet
  <2>10. First(k + 1) = First(k) \cup {e}
    <3>1. 1 .. k + 1 = (1 .. k) \cup {k + 1}
      OBVIOUS
    <3> QED BY <3>1 DEF e
  <2>11. Rising(InsertAt(A, p, e))
    <3>1. Rising(A)
      BY <2>2
    <3> QED BY <2>2, <2>7, <3>1, PutInRising, Zenon
  <2> QED BY <2>2, <2>5, <2>8, <2>9, <2>10, <2>11
<1> HIDE DEF T
<1>6. \A k \in Nat : k \in T
  BY <1>4, <1>5, Induct
<1>7. Rising(f[n])
  <2>1. n \in T /\ n <= n
    BY <1>1, <1>6
  <2> QED BY <2>1 DEF T
<1> QED BY <1>2, <1>7

-----------------------------------------------------------------------------
(* Sliding.  At most SlideLen entries move without a loss.                 *)
LEMMA Remainder == ASSUME NEW x \in Nat, NEW m \in Nat, x < m PROVE x % m = x
<1>1. m > 0 /\ m \in Int /\ x \in Int
  OBVIOUS
<1> QED BY <1>1, SMT

LEMMA SlideTyped ==
  ASSUME tbl \in Seq(Entries), NEW e \in Entries, NEW p \in 0 .. Len(tbl) - 1
  PROVE  /\ SlideIn(e, p) \in Seq(Entries) /\ Len(SlideIn(e, p)) = Len(tbl) + 1
         /\ \A i \in DOMAIN SlideIn(e, p) : SlideIn(e, p)[i] \in ToSet(tbl) \cup {e}
<1> DEFINE n == Len(tbl)
           W == ToSet(tbl) \cup {e}
           t == SlideIn(e, p)
           Skipped(i) == (n - i + 1) % (SlideLen + 1) = 0
           value(i) == IF i = p + 1 THEN e
                       ELSE IF i <= p \/ Skipped(i - 1) THEN tbl[i] ELSE tbl[i - 1]
<1>1. n \in Nat /\ DOMAIN tbl = 1 .. n
  BY LenProperties
<1>2. \A i \in 1 .. n : tbl[i] \in W /\ tbl[i] \in Entries
  <2>1. \A i \in 1 .. n : tbl[i] \in Entries
    BY ElementOfSeq
  <2>2. \A i \in 1 .. n : tbl[i] \in W
    BY <1>1, Zenon DEF ToSet
  <2> QED BY <2>1, <2>2
<1>3. e \in W
  OBVIOUS
<1>4. t = [i \in 1 .. n + 1 |-> value(i)]
  BY Zenon DEF SlideIn
<1>5. p \in 0 .. n - 1
  OBVIOUS
<1>6. Skipped(n) = FALSE
  <2>1. SlideLen + 1 \in Nat /\ 1 < SlideLen + 1
    BY StringTableAssumption
  <2>2. 1 % (SlideLen + 1) = 1
    BY <2>1, Remainder
  <2>3. n - n + 1 = 1
    BY <1>1
  <2> QED BY <2>2, <2>3
<1> HIDE DEF n, W, t, Skipped
<1>7. ASSUME NEW i \in 1 .. n + 1 PROVE value(i) \in W /\ value(i) \in Entries
  <2>1. CASE i = p + 1
    BY <1>3, <2>1
  <2>2. CASE i # p + 1 /\ (i <= p \/ Skipped(i - 1))
    <3>1. i \in 1 .. n
      <4>1. i # n + 1
        <5>1. i = n + 1 => ~(i <= p) /\ i - 1 = n
          BY <1>1, <1>5
        <5> QED BY <1>6, <2>2, <5>1, Zenon
      <4> QED BY <1>1, <4>1
    <3>2. value(i) = tbl[i]
      BY <2>2, Zenon
    <3> HIDE DEF value
    <3> QED BY <1>2, <3>1, <3>2
  <2>3. CASE i # p + 1 /\ ~(i <= p \/ Skipped(i - 1))
    <3>1. i - 1 \in 1 .. n
      BY <1>1, <1>5, <2>3
    <3>2. value(i) = tbl[i - 1]
      BY <2>3, Zenon
    <3> HIDE DEF value
    <3> QED BY <1>2, <3>1, <3>2
  <2> QED BY <2>1, <2>2, <2>3, Zenon
<1> HIDE DEF value
<1>8. \A i \in 1 .. n + 1 : t[i] \in W /\ t[i] \in Entries
  BY <1>4, <1>7
<1>9. t \in [1 .. n + 1 -> Entries] /\ n + 1 \in Nat
  BY <1>1, <1>4, <1>7
<1>10. t \in Seq(Entries) /\ Len(t) = n + 1 /\ DOMAIN t = 1 .. n + 1
  BY <1>9
<1> QED BY <1>8, <1>10 DEF n, t, W

LEMMA SlideInserts ==
  ASSUME tbl \in Seq(Entries), Len(tbl) <= SlideLen, NEW e \in Entries,
         NEW p \in 0 .. Len(tbl) - 1
  PROVE  SlideIn(e, p) = InsertAt(tbl, p + 1, e) /\ p + 1 \in 1 .. Len(tbl) + 1
<1> DEFINE n == Len(tbl)
           t == SlideIn(e, p)
           u == InsertAt(tbl, p + 1, e)
           Skipped(i) == (n - i + 1) % (SlideLen + 1) = 0
<1>1. n \in Nat /\ n <= SlideLen /\ SlideLen \in Nat /\ p \in 0 .. n - 1 /\ p + 1 \in 1 .. n + 1
  BY LenProperties, StringTableAssumption
<1>2. /\ u \in Seq(Entries) /\ Len(u) = n + 1
      /\ \A i \in 1 .. n + 1 : u[i] = IF i < p + 1 THEN tbl[i]
                                      ELSE IF i = p + 1 THEN e ELSE tbl[i - 1]
  <2>1. u \in Seq(Entries) /\ HasPutIn(u, tbl, p + 1, e)
    BY <1>1, Inserted
  <2> HIDE DEF u
  <2> QED BY <2>1 DEF HasPutIn
<1>3. t \in Seq(Entries) /\ Len(t) = n + 1
  BY SlideTyped
<1>4. t = [i \in 1 .. n + 1 |->
            IF i = p + 1 THEN e ELSE IF i <= p \/ Skipped(i - 1) THEN tbl[i] ELSE tbl[i - 1]]
  BY Zenon DEF SlideIn
<1> HIDE DEF t, u, n
<1>5. ASSUME NEW i \in 1 .. n + 1, ~(i <= p), i # p + 1 PROVE ~Skipped(i - 1)
  <2> DEFINE x == n - (i - 1) + 1
  <2>1. x \in Nat \ {0} /\ x < SlideLen + 1 /\ SlideLen + 1 \in Nat
    BY <1>1, <1>5
  <2> HIDE DEF x
  <2>2. x % (SlideLen + 1) = x /\ x # 0
    BY <2>1, Remainder
  <2> QED BY <2>2 DEF x
<1> HIDE DEF Skipped
<1>6. ASSUME NEW i \in 1 .. n + 1 PROVE t[i] = u[i]
  <2>1. t[i] = IF i = p + 1 THEN e ELSE IF i <= p \/ Skipped(i - 1) THEN tbl[i] ELSE tbl[i - 1]
    BY <1>4
  <2>2. u[i] = IF i < p + 1 THEN tbl[i] ELSE IF i = p + 1 THEN e ELSE tbl[i - 1]
    BY <1>2
  <2>3. (i < p + 1 <=> i <= p) /\ (i <= p => i # p + 1)
    BY <1>1
  <2>4. CASE i <= p
    BY <2>1, <2>2, <2>3, <2>4, Zenon
  <2>5. CASE i = p + 1
    BY <2>1, <2>2, <2>3, <2>5, Zenon
  <2>6. CASE ~(i <= p) /\ i # p + 1
    BY <1>5, <2>1, <2>2, <2>3, <2>6, Zenon
  <2> QED BY <2>4, <2>5, <2>6, Zenon
<1>7. t = u
  BY <1>2, <1>3, <1>6, SeqEqual
<1> QED BY <1>1, <1>7 DEF t, u, n

(* A table with fewer entries than a block never runs away.                *)
LEMMA Halts ==
  ASSUME Len(tbl) \in Nat, Len(tbl) < SlideLen, NEW p \in 0 .. Len(tbl) - 1
  PROVE  ~RunsAway(p)
<1> DEFINE x == Len(tbl) - p
<1>1. x \in Nat /\ x < SlideLen /\ SlideLen \in Nat /\ SlideLen + 1 \in Nat /\ x < SlideLen + 1
  BY StringTableAssumption
<1> HIDE DEF x
<1>2. x % (SlideLen + 1) = x
  BY <1>1, Remainder
<1> QED BY <1>1, <1>2 DEF RunsAway, x

(* When more entries move than a block has, and it does not run away, the  *)
(* entry below the first block is lost: the bound of the theorems on the   *)
(* size of a table is no weakness of their proofs.                         *)
THEOREM SlideLosesAnEntry ==
  ASSUME tbl \in Seq(Entries), NEW e \in Entries, NEW p \in 0 .. Len(tbl) - 1,
         Len(tbl) - p > SlideLen,
         \A i, j \in 1 .. Len(tbl) : tbl[i] = tbl[j] => i = j,
         \A i \in 1 .. Len(tbl) : tbl[i] # e
  PROVE  tbl[Len(tbl) - SlideLen] \notin ToSet(SlideIn(e, p))
<1> DEFINE n == Len(tbl)
           k == n - SlideLen
           t == SlideIn(e, p)
           Skipped(i) == (n - i + 1) % (SlideLen + 1) = 0
<1>1. n \in Nat /\ SlideLen \in Nat \ {0} /\ k \in 1 .. n /\ p < k /\ p \in Nat
  BY LenProperties, StringTableAssumption
<1>2. t = [i \in 1 .. n + 1 |->
            IF i = p + 1 THEN e ELSE IF i <= p \/ Skipped(i - 1) THEN tbl[i] ELSE tbl[i - 1]]
  BY Zenon DEF SlideIn
<1>3. ASSUME NEW m \in Nat, m > 1 PROVE m % m = 0 /\ (m + 1) % m = 1 /\ 1 % m = 1
  <2>1. m % m = 0
    BY <1>3, SMT
  <2>2. (m + 1) % m = 1
    BY <1>3, SMT
  <2> QED BY <1>3, <2>1, <2>2, Remainder
<1>4. Skipped(k) /\ ~Skipped(k - 1) /\ ~Skipped(n)
  <2>1. /\ (SlideLen + 1) % (SlideLen + 1) = 0 /\ (SlideLen + 1 + 1) % (SlideLen + 1) = 1
        /\ 1 % (SlideLen + 1) = 1
    <3>1. SlideLen + 1 \in Nat /\ SlideLen + 1 > 1
      BY <1>1
    <3> QED BY <1>3, <3>1
  <2>2. n - k + 1 = SlideLen + 1 /\ n - (k - 1) + 1 = SlideLen + 1 + 1 /\ n - n + 1 = 1
    BY <1>1
  <2> QED BY <2>1, <2>2
<1> HIDE DEF n, k, t, Skipped
<1>5. ASSUME NEW i \in 1 .. n + 1, t[i] = tbl[k] PROVE FALSE
  <2>1. t[i] = IF i = p + 1 THEN e ELSE IF i <= p \/ Skipped(i - 1) THEN tbl[i] ELSE tbl[i - 1]
    BY <1>2
  <2>2. CASE i = p + 1
    BY <1>1, <1>5, <2>1, <2>2, Zenon DEF n
  <2>3. CASE i # p + 1 /\ (i <= p \/ Skipped(i - 1))
    <3>1. tbl[i] = tbl[k]
      BY <1>5, <2>1, <2>3, Zenon
    <3>2. i \in 1 .. n
      <4>1. i = n + 1 => ~(i <= p) /\ i - 1 = n
        BY <1>1
      <4>2. i # n + 1
        BY <1>4, <2>3, <4>1, Zenon
      <4> QED BY <1>1, <4>2
    <3>3. i = k
      BY <1>1, <3>1, <3>2, Zenon DEF n
    <3>4. ~(k <= p)
      BY <1>1
    <3> QED BY <1>4, <2>3, <3>3, <3>4, Zenon
  <2>4. CASE i # p + 1 /\ ~(i <= p \/ Skipped(i - 1))
    <3>1. tbl[i - 1] = tbl[k]
      BY <1>5, <2>1, <2>4, Zenon
    <3>2. i - 1 \in 1 .. n
      BY <1>1, <2>4
    <3>3. i - 1 = k
      BY <1>1, <3>1, <3>2, Zenon DEF n
    <3> QED BY <1>4, <2>4, <3>3, Zenon
  <2> QED BY <2>2, <2>3, <2>4, Zenon
<1>6. DOMAIN t = 1 .. n + 1
  BY <1>2
<1>7. tbl[k] \notin ToSet(t)
  BY <1>5, <1>6, Zenon DEF ToSet
<1> QED BY <1>7 DEF n, k, t

-----------------------------------------------------------------------------
(* What an entry stands for stays the same while characters are appended,  *)
(* and a new entry stands for its string.                                  *)
Text(c, e) == SubSeq(c, e.off + 1, e.off + e.len)

LEMMA Texts ==
  ASSUME NEW C, NEW c \in Seq(C), NEW e \in Entries, e.off + e.len <= Len(c)
  PROVE  /\ Text(c, e) \in Seq(C) /\ Len(Text(c, e)) = e.len
         /\ \A i \in 1 .. e.len : Text(c, e)[i] = c[e.off + i]
<1> DEFINE o == e.off
           l == e.len
           t == SubSeq(c, o + 1, o + l)
<1>1. o \in Nat /\ l \in Nat /\ l # 0
  BY EntryNat
<1>2. Len(c) \in Nat /\ \A i \in 1 .. Len(c) : c[i] \in C
  BY LenProperties, ElementOfSeq
<1>3. o + l <= Len(c)
  OBVIOUS
<1> HIDE DEF o, l
<1> DEFINE a == o + 1
           z == o + l
<1>4. a \in Int /\ z \in Int /\ \A i \in a .. z : c[i] \in C
  BY <1>1, <1>2, <1>3
<1>5. /\ t \in Seq(C) /\ Len(t) = IF a <= z THEN z - a + 1 ELSE 0
      /\ \A i \in 1 .. z - a + 1 : t[i] = c[a + i - 1]
  <2>1. t = SubSeq(c, a, z)
    OBVIOUS
  <2> HIDE DEF a, z, t
  <2> QED BY <1>4, <2>1, SubSeqProperties
<1> HIDE DEF t
<1>6. a <= z /\ z - a + 1 = l /\ \A i \in 1 .. l : a + i - 1 = o + i
  BY <1>1
<1> HIDE DEF a, z
<1>7. t \in Seq(C) /\ Len(t) = l /\ \A i \in 1 .. l : t[i] = c[o + i]
  BY <1>5, <1>6
<1> QED BY <1>7 DEF Text, t, o, l

LEMMA TextStays ==
  ASSUME NEW C, NEW c \in Seq(C), NEW d \in Seq(C), NEW e \in Entries,
         e.off + e.len <= Len(c), Len(c) <= Len(d), \A i \in 1 .. Len(c) : d[i] = c[i]
  PROVE  Text(d, e) = Text(c, e)
<1>1. e.off \in Nat /\ e.len \in Nat
  BY EntryNat
<1>2. Len(c) \in Nat /\ Len(d) \in Nat
  BY LenProperties
<1>3. e.off + e.len <= Len(d)
  BY <1>1, <1>2
<1>4. /\ Text(c, e) \in Seq(C) /\ Len(Text(c, e)) = e.len
      /\ \A i \in 1 .. e.len : Text(c, e)[i] = c[e.off + i]
  BY Texts
<1>5. /\ Text(d, e) \in Seq(C) /\ Len(Text(d, e)) = e.len
      /\ \A i \in 1 .. e.len : Text(d, e)[i] = d[e.off + i]
  BY <1>3, Texts
<1>6. \A i \in 1 .. e.len : e.off + i \in 1 .. Len(c)
  BY <1>1, <1>2
<1>7. \A i \in 1 .. e.len : Text(c, e)[i] = Text(d, e)[i]
  BY <1>4, <1>5, <1>6
<1> DEFINE t == Text(c, e)
           u == Text(d, e)
<1> HIDE DEF t, u
<1>8. t \in Seq(C) /\ u \in Seq(C) /\ Len(t) = Len(u) /\ \A i \in 1 .. Len(t) : t[i] = u[i]
  BY <1>4, <1>5, <1>7 DEF t, u
<1>9. t = u
  BY <1>8, SeqEqual
<1> QED BY <1>9 DEF t, u

-----------------------------------------------------------------------------
(* The strings of the clients.                                             *)
LEMMA BytesNat == Bytes \subseteq Nat /\ 0 \in Bytes
<1>1. ASSUME NEW S \in Strings, NEW i \in DOMAIN S PROVE S[i] \in Nat
  <2>1. S \in Seq(Nat \ {0})
    BY StringTableAssumption
  <2> QED BY <2>1, LenProperties, ElementOfSeq
<1> QED BY <1>1 DEF Bytes

LEMMA AString ==
  ASSUME NEW S \in Strings
  PROVE  S \in Seq(Bytes) /\ S \in Seq(Nat) /\ Len(S) \in Nat \ {0} /\ S # <<>>
<1>1. S \in Seq(Nat \ {0}) /\ S # <<>>
  BY StringTableAssumption
<1>2. Len(S) \in Nat /\ Len(S) # 0 /\ DOMAIN S = 1 .. Len(S)
  BY <1>1, LenProperties, EmptySeq
<1>3. \A i \in 1 .. Len(S) : S[i] \in Bytes
  BY <1>2 DEF Bytes
<1>4. \A i \in 1 .. Len(S) : S[i] \in Nat
  BY <1>3, BytesNat
<1>5. S \in [1 .. Len(S) -> Bytes] /\ S \in [1 .. Len(S) -> Nat]
  BY <1>1, <1>2, <1>3, <1>4
<1> QED BY <1>1, <1>2, <1>5

(* The inductive invariant: every entry is about characters that are there.*)
Inside(c, s) == \A e \in ToSet(s) : e.off + e.len <= Len(c)

Inv == TypeOK /\ Inside(buf, tbl)

LEMMA InvReadable ==
  ASSUME Inv
  PROVE  /\ Readable /\ tbl \in Seq(Entries) /\ buf \in Seq(Bytes)
         /\ Len(tbl) \in Nat /\ DOMAIN tbl = 1 .. Len(tbl) /\ Len(buf) \in Nat
         /\ \A e \in ToSet(tbl) : /\ e \in Entries /\ e.off + e.len <= Len(buf)
                                  /\ resolveDirect(e) = Text(buf, e)
                                  /\ resolveDirect(e) \in Seq(Nat)
<1>1. tbl \in Seq(Entries) /\ buf \in Seq(Bytes)
  BY DEF Inv, TypeOK
<1>2. Len(tbl) \in Nat /\ DOMAIN tbl = 1 .. Len(tbl) /\ Len(buf) \in Nat
  BY <1>1, LenProperties
<1>3. buf \in Seq(Nat)
  <2>1. \A i \in 1 .. Len(buf) : buf[i] \in Nat
    BY <1>1, BytesNat, ElementOfSeq
  <2>2. buf \in [1 .. Len(buf) -> Nat]
    BY <1>1, <1>2, <2>1
  <2> QED BY <1>2, <2>2
<1>4. ASSUME NEW e \in ToSet(tbl)
      PROVE  /\ e \in Entries /\ e.off + e.len <= Len(buf)
             /\ resolveDirect(e) = Text(buf, e)
             /\ resolveDirect(e) \in Seq(Nat)
  <2>1. PICK i \in DOMAIN tbl : e = tbl[i]
    BY DEF ToSet
  <2>2. e \in Entries
    BY <1>1, <1>2, <2>1, ElementOfSeq
  <2>3. e.off + e.len <= Len(buf)
    BY DEF Inv, Inside
  <2>4. resolveDirect(e) = Text(buf, e)
    BY DEF resolveDirect, Text
  <2>5. Text(buf, e) \in Seq(Nat)
    BY <1>3, <2>2, <2>3, Texts
  <2> QED BY <2>2, <2>3, <2>4, <2>5
<1>5. ASSUME NEW i \in DOMAIN tbl PROVE resolveDirect(tbl[i]) \in Seq(Nat)
  <2>1. tbl[i] \in ToSet(tbl)
    BY Zenon DEF ToSet
  <2> QED BY <1>4, <2>1
<1> QED BY <1>1, <1>2, <1>4, <1>5 DEF Readable

(* What is stored.                                                         *)
LEMMA Stored ==
  ASSUME Inv, NEW S \in Strings, doesHaveStorageFor(S), Store(S)
  PROVE  /\ NextEntry(S) \in Entries
         /\ NextEntry(S).off = Len(buf) /\ NextEntry(S).len = Len(S)
         /\ buf' \in Seq(Bytes) /\ Len(buf') <= BufCap
         /\ Len(buf) <= Len(buf') /\ \A i \in 1 .. Len(buf) : buf'[i] = buf[i]
         /\ Len(buf) + Len(S) <= Len(buf')
         /\ Text(buf', NextEntry(S)) = S
         /\ [off |-> Len(buf), str |-> S] \in [off : 0 .. BufCap, str : Strings]
<1> DEFINE T == Terminator
           b == Len(buf)
           l == Len(S)
           k == Len(T)
           c == buf \o S
           d == c \o T
<1>1. buf \in Seq(Bytes) /\ b \in Nat /\ b <= BufCap /\ BufCap \in Nat
  BY InvReadable, StringTableAssumption DEF Inv, TypeOK
<1>2. S \in Seq(Bytes) /\ l \in Nat \ {0}
  BY AString
<1>3. T \in Seq(Bytes) /\ k \in Nat
  <2>1. T = <<0>> \/ T = <<>>
    BY DEF Terminator
  <2>2. <<0>> \in Seq(Bytes) /\ Len(<<0>>) = 1 /\ <<>> \in Seq(Bytes) /\ Len(<<>>) = 0
    BY BytesNat
  <2> QED BY <2>1, <2>2
<1> HIDE DEF T
<1>4. /\ c \in Seq(Bytes) /\ Len(c) = b + l
      /\ \A i \in 1 .. b + l : c[i] = IF i <= b THEN buf[i] ELSE S[i - b]
  BY <1>1, <1>2, ConcatProperties
<1> HIDE DEF c
<1>5. /\ d \in Seq(Bytes) /\ Len(d) = Len(c) + k
      /\ \A i \in 1 .. Len(c) + k : d[i] = IF i <= Len(c) THEN c[i] ELSE T[i - Len(c)]
  <2>1. c \in Seq(Bytes) /\ T \in Seq(Bytes)
    BY <1>3, <1>4
  <2> QED BY <2>1, ConcatProperties
<1>6. Len(S \o T) = l + k
  BY <1>2, <1>3, ConcatProperties
<1>7. buf' = d
  BY DEF Store, d, c, T
<1>8. BufCap - b >= l + k
  BY <1>6 DEF doesHaveStorageFor, T
<1> HIDE DEF b, l, k, d
<1>9. Len(d) = b + l + k /\ Len(d) <= BufCap /\ b <= Len(d) /\ b + l <= Len(d)
  BY <1>1, <1>2, <1>3, <1>4, <1>5, <1>8
<1>10. ASSUME NEW i \in 1 .. b PROVE d[i] = buf[i]
  <2>1. i \in 1 .. b + l /\ i \in 1 .. Len(c) + k /\ i <= b /\ i <= Len(c)
    BY <1>1, <1>2, <1>3, <1>4
  <2> QED BY <1>4, <1>5, <2>1
<1>11. ASSUME NEW i \in 1 .. l PROVE d[b + i] = S[i]
  <2>1. /\ b + i \in 1 .. b + l /\ b + i \in 1 .. Len(c) + k /\ ~(b + i <= b)
        /\ b + i <= Len(c) /\ (b + i) - b = i
    BY <1>1, <1>2, <1>3, <1>4
  <2> QED BY <1>4, <1>5, <2>1
<1> DEFINE e == NextEntry(S)
<1>12. e = [off |-> b, len |-> l]
  BY DEF NextEntry, b, l
<1>13. e.off = b /\ e.len = l /\ b \in 0 .. BufCap /\ l \in 1 .. BufCap
  BY <1>1, <1>2, <1>3, <1>8, <1>12
<1>14. e \in Entries
  BY <1>12, <1>13 DEF Entries
<1> HIDE DEF e
<1>15. /\ Text(d, e) \in Seq(Bytes) /\ Len(Text(d, e)) = l
       /\ \A i \in 1 .. l : Text(d, e)[i] = d[b + i]
  <2>1. e.off + e.len <= Len(d)
    BY <1>9, <1>13
  <2>2. /\ Text(d, e) \in Seq(Bytes) /\ Len(Text(d, e)) = e.len
        /\ \A i \in 1 .. e.len : Text(d, e)[i] = d[e.off + i]
    BY <1>5, <1>14, <2>1, Texts, Zenon
  <2> QED BY <1>13, <2>2
<1> DEFINE t == Text(d, e)
<1> HIDE DEF t
<1>16. t = S
  <2>1. t \in Seq(Bytes) /\ Len(t) = Len(S) /\ \A i \in 1 .. Len(t) : t[i] = S[i]
    BY <1>11, <1>15 DEF t, l
  <2> QED BY <1>2, <2>1, SeqEqual
<1>17. [off |-> b, str |-> S] \in [off : 0 .. BufCap, str : Strings]
  BY <1>13
<1>18. b \in Nat /\ l \in Nat
  BY <1>1, <1>2
<1> QED BY <1>5, <1>7, <1>9, <1>10, <1>13, <1>14, <1>16, <1>17, Zenon DEF t, e, b, l

(* Where binaryInsert() searches it ends inside the table.                 *)
LEMMA PlaceInside ==
  ASSUME Inv, NEW S \in Strings, tbl # <<>>, ~Shortlex(resolveDirect(Last(tbl)), S),
         resolveDirect(Last(tbl)) # S
  PROVE  InsertPos(S) \in 0 .. Len(tbl) - 1
<1>1. tbl \in Seq(Entries) /\ Len(tbl) \in Nat \ {0} /\ DOMAIN tbl = 1 .. Len(tbl)
  BY InvReadable, Shortened
<1>2. Last(tbl) = tbl[Len(tbl)] /\ Len(tbl) \in DOMAIN tbl
  <2>1. Last(tbl) = tbl[Len(tbl)]
    BY Zenon DEF Last
  <2> QED BY <1>1, <2>1
<1>3. resolveDirect(Last(tbl)) \in Seq(Nat)
  BY <1>2, InvReadable DEF Readable
<1>4. Shortlex(S, resolveDirect(Last(tbl)))
  BY <1>3, AString, ShortlexTotal
<1>5. (Len(tbl) - 1) + 1 = Len(tbl)
  BY <1>1
<1>6. Shortlex(S, At(Len(tbl) - 1))
  BY <1>2, <1>4, <1>5 DEF At
<1> QED BY <1>1, <1>6, SeekWithin

-----------------------------------------------------------------------------
(* What a step does to the contents.                                       *)
Stays == UNCHANGED <<buf, tbl, given>>

Puts(S) ==
  /\ S \in Strings /\ doesHaveStorageFor(S) /\ Store(S)
  /\ \E p \in 1 .. Len(tbl) + 1 : tbl' = InsertAt(tbl, p, NextEntry(S))

Slides(S) ==
  /\ S \in Strings /\ doesHaveStorageFor(S) /\ Store(S)
  /\ \E p \in 0 .. Len(tbl) - 1 : tbl' = SlideIn(NextEntry(S), p)

Drops ==
  /\ tbl # <<>> /\ tbl' = Front(tbl) /\ Ungive(Last(tbl)) /\ buf' = buf

Resorts == UNCHANGED <<buf, given>> /\ \E R : tbl' = InsertionSort(R)

Shape == Stays \/ (\E S : Puts(S)) \/ (\E S : Slides(S)) \/ Drops \/ Resorts

FlagSet == [{"null_term", "destructive", "dirty", "ksorted", "is_sorted", "has_empty"}
              -> BOOLEAN]

AnswerSet == [status : {"none", "success", "alreadyExists", "atCapacity", "fault"},
              ref : Entries \cup {NoString, Empty}]

LEMMA FlagSets ==
  ASSUME NEW f \in FlagSet, NEW V \in BOOLEAN
  PROVE  /\ [f EXCEPT !.null_term = V] \in FlagSet
         /\ [f EXCEPT !.destructive = V] \in FlagSet
         /\ [f EXCEPT !.dirty = V] \in FlagSet
         /\ [f EXCEPT !.ksorted = V] \in FlagSet
         /\ [f EXCEPT !.is_sorted = V] \in FlagSet
         /\ [f EXCEPT !.has_empty = V] \in FlagSet
BY Zenon DEF FlagSet

LEMMA Answers ==
  ASSUME NEW e \in Entries \cup {NoString, Empty}
  PROVE  Answer("success", e) \in AnswerSet /\ Answer("alreadyExists", e) \in AnswerSet
         /\ Answer("atCapacity", e) \in AnswerSet /\ Answer("fault", e) \in AnswerSet
BY DEF Answer, AnswerSet

LEMMA AppendPuts ==
  ASSUME Inv, NEW S \in Strings, doesHaveStorageFor(S), appendDirect(S)
  PROVE  Puts(S) /\ ret' = Answer("success", NextEntry(S)) /\ ret' \in AnswerSet
<1>1. Store(S) /\ tbl' = Append(tbl, NextEntry(S))
  BY DEF appendDirect
<1>2. NextEntry(S) \in Entries /\ tbl \in Seq(Entries)
  BY <1>1, Stored, InvReadable, Zenon
<1>3. Len(tbl) + 1 \in 1 .. Len(tbl) + 1 /\ tbl' = InsertAt(tbl, Len(tbl) + 1, NextEntry(S))
  BY <1>1, <1>2, AppendedLast
<1>4. Puts(S)
  BY <1>1, <1>3, Zenon DEF Puts
<1>5. ret' = Answer("success", NextEntry(S))
  BY <1>1, Zenon DEF Store
<1> QED BY <1>2, <1>4, <1>5, Answers, Zenon

LEMMA FoundStays ==
  ASSUME Inv, NEW e, Found(e), e \in Entries
  PROVE  Stays /\ flags' = flags /\ ret' \in AnswerSet
<1>1. Answer("alreadyExists", e) \in AnswerSet
  BY Answers, Zenon
<1> QED BY <1>1, Zenon DEF Found, Stays

LEMMA BinaryInsertShape ==
  ASSUME Inv, NEW S \in Strings, doesHaveStorageFor(S), binaryInsert(S)
  PROVE  (Stays \/ Puts(S) \/ Slides(S)) /\ flags' \in FlagSet /\ ret' \in AnswerSet
<1> DEFINE p == InsertPos(S)
<1>1. tbl \in Seq(Entries) /\ flags \in FlagSet
  BY DEF Inv, TypeOK, FlagSet
<1>2. CASE tbl = <<>> \/ Shortlex(resolveDirect(Last(tbl)), S)
  <2>1. appendDirect(S) /\ flags' = flags
    BY <1>2, Zenon DEF binaryInsert
  <2> QED BY <1>1, <2>1, AppendPuts, Zenon
<1>3. CASE ~(tbl = <<>> \/ Shortlex(resolveDirect(Last(tbl)), S)) /\ resolveDirect(Last(tbl)) = S
  <2>1. Found(Last(tbl))
    BY <1>3, Zenon DEF binaryInsert
  <2>2. Last(tbl) \in Entries
    BY <1>1, <1>3, Shortened, Zenon
  <2> QED BY <1>1, <2>1, <2>2, FoundStays, Zenon
<1>4. CASE ~(tbl = <<>> \/ Shortlex(resolveDirect(Last(tbl)), S)) /\ resolveDirect(Last(tbl)) # S
  <2>1. p \in 0 .. Len(tbl) - 1
    BY <1>4, PlaceInside, Zenon
  <2>2. CASE At(p) = S
    <3>1. Found(tbl[p + 1])
      BY <1>4, <2>2, Zenon DEF binaryInsert
    <3>2. tbl[p + 1] \in Entries
      BY <1>1, <2>1, Positions, Zenon
    <3> QED BY <1>1, <3>1, <3>2, FoundStays, Zenon
  <2>4. CASE At(p) # S /\ RunsAway(p)
    <3>1. Stays /\ flags' = flags /\ ret' = Answer("fault", NoString)
      BY <1>4, <2>4, Zenon DEF binaryInsert, Stays
    <3> QED BY <1>1, <3>1, Answers, Zenon
  <2>3. CASE At(p) # S /\ ~RunsAway(p)
    <3>1. Store(S) /\ tbl' = SlideIn(NextEntry(S), p) /\ flags' = flags
      BY <1>4, <2>3, Zenon DEF binaryInsert
    <3>2. Slides(S)
      BY <2>1, <3>1, Zenon DEF Slides
    <3>3. NextEntry(S) \in Entries
      BY <3>1, Stored, Zenon
    <3>4. ret' = Answer("success", NextEntry(S))
      BY <3>1, Zenon DEF Store
    <3> QED BY <1>1, <3>1, <3>2, <3>3, <3>4, Answers, Zenon
  <2> QED BY <2>2, <2>3, <2>4, Zenon
<1> QED BY <1>2, <1>3, <1>4, Zenon

LEMMA SearchType ==
  ASSUME Inv, NEW S
  PROVE  binarySearch(S) # NoString =>
           binarySearch(S) \in Entries /\ resolveDirect(binarySearch(S)) = S /\ Holds(S)
<1>1. tbl \in Seq(Entries) /\ DOMAIN tbl = 1 .. Len(tbl)
  BY InvReadable
<1>2. ASSUME NEW e \in Those(S) PROVE e \in Entries /\ resolveDirect(e) = S /\ Holds(S)
  <2>1. PICK i \in {j \in DOMAIN tbl : resolveDirect(tbl[j]) = S} : e = tbl[i]
    BY Zenon DEF Those
  <2>2. e \in Entries
    BY <1>1, <2>1, ElementOfSeq
  <2>3. resolveDirect(e) = S /\ Holds(S)
    BY <2>1, Zenon DEF Holds
  <2> QED BY <2>2, <2>3
<1> QED BY <1>1, <1>2, SearchSound, Zenon

LEMMA InsertShape ==
  ASSUME Inv, NEW S \in Strings \cup {<<>>}, Insert(S)
  PROVE  (Stays \/ Puts(S) \/ Slides(S)) /\ flags' \in FlagSet /\ ret' \in AnswerSet
<1>1. flags \in FlagSet /\ ret \in AnswerSet
  BY DEF Inv, TypeOK, FlagSet, AnswerSet
<1>2. CASE emptyInsert
  <2>1. [flags EXCEPT !.has_empty = TRUE] \in FlagSet
    BY <1>1, FlagSets, Zenon
  <2>2. Answer("alreadyExists", Empty) \in AnswerSet
    BY Answers, Zenon
  <2> QED BY <1>2, <2>1, <2>2, Zenon DEF emptyInsert, Stays
<1>3. CASE S # <<>> /\ insertFull(S)
  <2>1. CASE isSorted /\ binarySearch(S) # NoString
    <3>1. Found(binarySearch(S)) /\ binarySearch(S) \in Entries
      BY <1>3, <2>1, SearchType, Zenon DEF insertFull
    <3> QED BY <1>1, <3>1, FoundStays, Zenon
  <2>2. CASE ~(isSorted /\ binarySearch(S) # NoString)
    <3>1. Stays /\ flags' = flags /\ ret' = Answer("atCapacity", NoString)
      BY <1>3, <2>2, Zenon DEF insertFull, Stays
    <3> QED BY <1>1, <3>1, Answers, Zenon
  <2> QED BY <2>1, <2>2, Zenon
<1>4. CASE S # <<>> /\ doesHaveStorageFor(S) /\ insertUnsorted(S)
  <2>1. S \in Strings
    BY <1>4, Zenon
  <2>2. appendDirect(S) /\ flags' = [flags EXCEPT !.is_sorted = FALSE]
    BY <1>4, Zenon DEF insertUnsorted
  <2>3. [flags EXCEPT !.is_sorted = FALSE] \in FlagSet
    BY <1>1, FlagSets, Zenon
  <2> QED BY <1>4, <2>1, <2>2, <2>3, AppendPuts, Zenon
<1>5. CASE S # <<>> /\ doesHaveStorageFor(S) /\ binaryInsert(S)
  <2>1. S \in Strings
    BY <1>5, Zenon
  <2> QED BY <1>5, <2>1, BinaryInsertShape, Zenon
<1> QED BY <1>2, <1>3, <1>4, <1>5, Zenon DEF Insert


LEMMA SortShape ==
  ASSUME Inv, NEW keep \in BOOLEAN, shortlexSort(keep)
  PROVE  Resorts /\ flags' \in FlagSet /\ ret' = ret
<1>1. flags \in FlagSet
  BY DEF Inv, TypeOK, FlagSet
<1>2. PICK beyond \in Bytes : tbl' = Sorted(beyond)
  BY Zenon DEF shortlexSort
<1>3. Resorts
  BY <1>2, Zenon DEF shortlexSort, Sorted, Resorts
<1>4. [[flags EXCEPT !.ksorted = keep] EXCEPT !.is_sorted = TRUE] \in FlagSet
  BY <1>1, FlagSets, Zenon
<1>5. flags' = [flags EXCEPT !.ksorted = keep, !.is_sorted = TRUE] /\ ret' = ret
  BY Zenon DEF shortlexSort
<1> QED BY <1>3, <1>4, <1>5, Zenon

LEMMA UnsortShape ==
  ASSUME Inv, unsort
  PROVE  (Stays \/ Resorts) /\ flags' \in FlagSet /\ ret' = ret
<1>1. flags \in FlagSet
  BY DEF Inv, TypeOK, FlagSet
<1>2. [[flags EXCEPT !.ksorted = FALSE] EXCEPT !.is_sorted = FALSE] \in FlagSet
  BY <1>1, FlagSets, Zenon
<1>3. flags' \in FlagSet /\ ret' = ret /\ UNCHANGED <<buf, given>>
  BY <1>2, Zenon DEF unsort
<1>4. CASE isSorted
  BY <1>3, <1>4, Zenon DEF unsort, Resorts
<1>5. CASE ~isSorted
  BY <1>3, <1>5, Zenon DEF unsort, Stays
<1> QED BY <1>3, <1>4, <1>5, Zenon

LEMMA PopShape ==
  ASSUME Inv, popDestructive \/ popBack
  PROVE  Drops /\ flags' \in FlagSet /\ ret' = ret
<1>1. flags \in FlagSet
  BY DEF Inv, TypeOK, FlagSet
<1>2. CASE popDestructive
  <2> DEFINE e == Last(tbl)
             slen == Len(resolveDirect(e) \o Terminator) + e.off
  <2>1. flags' = [flags EXCEPT !.dirty = flags.dirty \/ slen # Len(tbl)]
    BY <1>2, Zenon DEF popDestructive
  <2>2. (flags.dirty \/ slen # Len(tbl)) \in BOOLEAN
    OBVIOUS
  <2>3. flags' \in FlagSet
    BY <1>1, <2>1, <2>2, FlagSets, Zenon
  <2>4. tbl # <<>> /\ tbl' = Front(tbl) /\ Ungive(Last(tbl)) /\ buf' = buf /\ ret' = ret
    BY <1>2, Zenon DEF popDestructive, Destructive
  <2> QED BY <2>3, <2>4, Zenon DEF Drops
<1>3. CASE popBack
  <2>1. /\ tbl # <<>> /\ tbl' = Front(tbl) /\ Ungive(Last(tbl)) /\ buf' = buf /\ ret' = ret
        /\ flags' = flags
    BY <1>3, Zenon DEF popBack
  <2> QED BY <1>1, <2>1, Zenon DEF Drops
<1> QED BY <1>2, <1>3

LEMMA SettingShape ==
  ASSUME Inv, NEW V \in BOOLEAN,
         \/ setNullTerminationPolicy(V) \/ setDestructivePopPolicy(V) \/ setKSortPolicy(V)
         \/ clear
  PROVE  (Stays \/ Resorts) /\ flags' \in FlagSet /\ ret' = ret
<1>1. flags \in FlagSet
  BY DEF Inv, TypeOK, FlagSet
<1>2. CASE setNullTerminationPolicy(V)
  <2>1. [flags EXCEPT !.null_term = V] \in FlagSet
    BY <1>1, FlagSets, Zenon
  <2> QED BY <1>2, <2>1, Zenon DEF setNullTerminationPolicy, Stays
<1>3. CASE setDestructivePopPolicy(V)
  <2>1. [flags EXCEPT !.destructive = V] \in FlagSet
    BY <1>1, FlagSets, Zenon
  <2> QED BY <1>3, <2>1, Zenon DEF setDestructivePopPolicy, Stays
<1>4. CASE setKSortPolicy(V)
  <2>1. CASE V /\ ~flags.ksorted /\ ~isSorted
    <3>1. shortlexSort(V)
      BY <1>4, <2>1, Zenon DEF setKSortPolicy
    <3> QED BY <3>1, SortShape, Zenon
  <2>2. CASE ~(V /\ ~flags.ksorted /\ ~isSorted)
    <3>1. [flags EXCEPT !.ksorted = V] \in FlagSet
      BY <1>1, FlagSets, Zenon
    <3> QED BY <1>4, <2>2, <3>1, Zenon DEF setKSortPolicy, Stays
  <2> QED BY <2>1, <2>2, Zenon
<1>5. CASE clear
  <2>1. [[[flags EXCEPT !.dirty = FALSE] EXCEPT !.is_sorted = TRUE]
            EXCEPT !.has_empty = FALSE] \in FlagSet
    BY <1>1, FlagSets, Zenon
  <2>2. flags' = [flags EXCEPT !.dirty = FALSE, !.is_sorted = TRUE, !.has_empty = FALSE]
    BY <1>5, Zenon DEF clear
  <2> QED BY <1>5, <2>1, <2>2, Zenon DEF clear, Stays
<1> QED BY <1>2, <1>3, <1>4, <1>5, Zenon

LEMMA Shapes ==
  ASSUME Inv, [Next]_vars
  PROVE  Shape /\ flags' \in FlagSet /\ ret' \in AnswerSet
<1>1. flags \in FlagSet /\ ret \in AnswerSet
  BY DEF Inv, TypeOK, FlagSet, AnswerSet
<1>2. ASSUME NEW S \in Strings \cup {<<>>}, Insert(S)
      PROVE  Shape /\ flags' \in FlagSet /\ ret' \in AnswerSet
  BY <1>2, InsertShape, Zenon DEF Shape
<1>3. CASE popDestructive \/ popBack
  BY <1>1, <1>3, PopShape, Zenon DEF Shape
<1>4. ASSUME NEW V \in BOOLEAN,
             \/ shortlexSort(V) \/ setNullTerminationPolicy(V)
             \/ setDestructivePopPolicy(V) \/ setKSortPolicy(V)
      PROVE  Shape /\ flags' \in FlagSet /\ ret' \in AnswerSet
  <2>1. CASE shortlexSort(V)
    BY <1>1, <2>1, SortShape, Zenon DEF Shape
  <2>2. CASE setNullTerminationPolicy(V) \/ setDestructivePopPolicy(V) \/ setKSortPolicy(V)
    BY <1>1, <2>2, SettingShape, Zenon DEF Shape
  <2> QED BY <1>4, <2>1, <2>2, Zenon
<1>5. CASE unsort
  BY <1>1, <1>5, UnsortShape, Zenon DEF Shape
<1>6. CASE clear
  BY <1>1, <1>6, SettingShape, Zenon DEF Shape
<1>7. CASE UNCHANGED vars
  BY <1>1, <1>7, Zenon DEF Shape, Stays, vars
<1> QED BY <1>2, <1>3, <1>4, <1>5, <1>6, <1>7, Zenon DEF Next

(* An entry put in, and the rest as it was.                                *)
LEMMA PutsEntries ==
  ASSUME Inv, NEW S, Puts(S) \/ Slides(S)
  PROVE  /\ tbl' \in Seq(Entries) /\ Len(tbl') = Len(tbl) + 1
         /\ \A e \in ToSet(tbl') : e \in ToSet(tbl) \/ e = NextEntry(S)
<1>1. S \in Strings /\ doesHaveStorageFor(S) /\ Store(S)
  BY Zenon DEF Puts, Slides
<1>2. NextEntry(S) \in Entries /\ tbl \in Seq(Entries)
  BY <1>1, Stored, InvReadable, Zenon
<1>3. CASE Puts(S)
  <2>1. PICK p \in 1 .. Len(tbl) + 1 : tbl' = InsertAt(tbl, p, NextEntry(S))
    BY <1>3, Zenon DEF Puts
  <2>2. /\ InsertAt(tbl, p, NextEntry(S)) \in Seq(Entries)
        /\ Len(InsertAt(tbl, p, NextEntry(S))) = Len(tbl) + 1
    BY <1>2, Inserted, Zenon DEF HasPutIn
  <2>3. ToSet(InsertAt(tbl, p, NextEntry(S))) = ToSet(tbl) \cup {NextEntry(S)}
    BY <1>2, PutInSet
  <2> QED BY <2>1, <2>2, <2>3
<1>4. CASE Slides(S)
  <2>1. PICK p \in 0 .. Len(tbl) - 1 : tbl' = SlideIn(NextEntry(S), p)
    BY <1>4, Zenon DEF Slides
  <2> DEFINE t == SlideIn(NextEntry(S), p)
  <2>2. /\ t \in Seq(Entries) /\ Len(t) = Len(tbl) + 1
        /\ \A i \in DOMAIN t : t[i] \in ToSet(tbl) \cup {NextEntry(S)}
    BY <1>2, SlideTyped, Zenon
  <2> HIDE DEF t
  <2>3. \A e \in ToSet(t) : e \in ToSet(tbl) \/ e = NextEntry(S)
    BY <2>2 DEF ToSet
  <2> QED BY <2>1, <2>2, <2>3 DEF t
<1> QED BY <1>3, <1>4

(* Init and steps.                                                         *)
LEMMA InvInit == Init => Inv
<1> SUFFICES ASSUME Init PROVE Inv
  OBVIOUS
<1>1. BufCap \in Nat /\ TblCap \in Nat
  BY StringTableAssumption
<1>2. buf = <<>> /\ tbl = <<>> /\ given = {}
  BY DEF Init
<1>3. buf \in Seq(Bytes) /\ tbl \in Seq(Entries) /\ Len(buf) <= BufCap /\ Len(tbl) <= TblCap
  <2>1. Len(buf) = 0 /\ Len(tbl) = 0
    BY <1>2
  <2> QED BY <1>1, <1>2, <2>1
<1>4. flags \in FlagSet
  <2> DEFINE none == [null_term |-> FALSE, destructive |-> FALSE, dirty |-> FALSE,
                      ksorted |-> FALSE, is_sorted |-> TRUE, has_empty |-> FALSE]
             Fields == {"null_term", "destructive", "dirty",
                        "ksorted", "is_sorted", "has_empty"}
  <2>1. none = [k \in Fields |-> none[k]]
    BY Zenon
  <2>2. /\ none["null_term"] \in BOOLEAN /\ none["destructive"] \in BOOLEAN
        /\ none["dirty"] \in BOOLEAN /\ none["ksorted"] \in BOOLEAN
        /\ none["is_sorted"] \in BOOLEAN /\ none["has_empty"] \in BOOLEAN
    BY Zenon
  <2> HIDE DEF none
  <2>3. \A k \in Fields : none[k] \in BOOLEAN
    BY <2>2, Zenon
  <2> HIDE DEF Fields
  <2>4. none \in [Fields -> BOOLEAN]
    BY <2>1, <2>3, Zenon
  <2>5. flags = none
    BY Zenon DEF Init, none
  <2> QED BY <2>4, <2>5, Zenon DEF FlagSet, Fields
<1>5. ret \in AnswerSet
  BY DEF Init, AnswerSet, Answer
<1>6. Inside(buf, tbl)
  BY <1>2 DEF Inside, ToSet
<1> QED BY <1>2, <1>3, <1>4, <1>5, <1>6 DEF Inv, TypeOK, FlagSet, AnswerSet

LEMMA InvStep == Inv /\ [Next]_vars => Inv'
<1> SUFFICES ASSUME Inv, [Next]_vars PROVE Inv'
  OBVIOUS
<1> DEFINE Givens == [off : 0 .. BufCap, str : Strings]
<1>1. flags' \in FlagSet /\ ret' \in AnswerSet /\ Shape
  BY Shapes
<1>2. /\ tbl \in Seq(Entries) /\ Len(tbl) <= TblCap /\ Len(tbl) \in Nat
      /\ buf \in Seq(Bytes) /\ Len(buf) <= BufCap /\ Len(buf) \in Nat
      /\ given \subseteq Givens /\ Inside(buf, tbl)
  BY LenProperties DEF Inv, TypeOK
<1>3. /\ buf' \in Seq(Bytes) /\ Len(buf') <= BufCap
      /\ tbl' \in Seq(Entries) /\ Len(tbl') <= TblCap
      /\ given' \subseteq Givens /\ Inside(buf', tbl')
  <2>1. CASE Stays
    <3>1. buf' = buf /\ tbl' = tbl /\ given' = given
      BY <2>1 DEF Stays
    <3> QED BY <1>2, <3>1, Zenon
  <2>2. ASSUME NEW S, Puts(S) \/ Slides(S)
        PROVE  /\ buf' \in Seq(Bytes) /\ Len(buf') <= BufCap
               /\ tbl' \in Seq(Entries) /\ Len(tbl') <= TblCap
               /\ given' \subseteq Givens /\ Inside(buf', tbl')
    <3>1. S \in Strings /\ doesHaveStorageFor(S) /\ Store(S)
      BY <2>2, Zenon DEF Puts, Slides
    <3> DEFINE e == NextEntry(S)
    <3>2. /\ e.off = Len(buf) /\ e.len = Len(S)
          /\ buf' \in Seq(Bytes) /\ Len(buf') <= BufCap
          /\ Len(buf) <= Len(buf')
          /\ Len(buf) + Len(S) <= Len(buf')
          /\ [off |-> Len(buf), str |-> S] \in Givens
      BY <3>1, Stored, Zenon
    <3>3. tbl' \in Seq(Entries) /\ Len(tbl') = Len(tbl) + 1
      BY <2>2, PutsEntries, Zenon
    <3>4. Len(tbl) < TblCap
      BY <3>1, Zenon DEF doesHaveStorageFor
    <3>5. Len(tbl') <= TblCap
      BY <1>2, <3>3, <3>4, StringTableAssumption
    <3>6. given' \subseteq Givens
      <4>1. given' = given \cup {[off |-> Len(buf), str |-> S]}
        BY <3>1, Zenon DEF Store
      <4> QED BY <1>2, <3>2, <4>1, Zenon
    <3> HIDE DEF e
    <3>7. Inside(buf', tbl')
      <4> SUFFICES ASSUME NEW x \in ToSet(tbl') PROVE x.off + x.len <= Len(buf')
        BY Zenon DEF Inside
      <4>1. x \in ToSet(tbl) \/ x = e
        BY <2>2, PutsEntries, Zenon DEF e
      <4>2. CASE x \in ToSet(tbl)
        <5>1. x.off + x.len <= Len(buf) /\ x \in Entries
          BY <4>2, InvReadable
        <5>2. x.off \in Nat /\ x.len \in Nat /\ Len(buf') \in Nat
          BY <3>2, <5>1, EntryNat, LenProperties
        <5> QED BY <1>2, <3>2, <5>1, <5>2
      <4>3. CASE x = e
        BY <3>2, <4>3, Zenon
      <4> QED BY <4>1, <4>2, <4>3
    <3> QED BY <3>2, <3>3, <3>5, <3>6, <3>7
  <2>3. CASE Drops
    <3>1. tbl # <<>> /\ tbl' = Front(tbl) /\ buf' = buf /\ given' \subseteq given
      BY <2>3 DEF Drops, Ungive
    <3>2. /\ Front(tbl) \in Seq(Entries) /\ Len(tbl) \in Nat \ {0}
          /\ Len(Front(tbl)) = Len(tbl) - 1
          /\ \A i \in 1 .. Len(tbl) - 1 : Front(tbl)[i] = tbl[i]
      BY <1>2, <3>1, Shortened, Zenon
    <3>3. Len(tbl') <= TblCap
      BY <1>2, <3>1, <3>2, StringTableAssumption
    <3>4. ToSet(tbl') \subseteq ToSet(tbl)
      <4> DEFINE t == Front(tbl)
      <4>1. DOMAIN t = 1 .. Len(t) /\ DOMAIN tbl = 1 .. Len(tbl)
        BY <1>2, <3>2, LenProperties
      <4> HIDE DEF t
      <4>2. ASSUME NEW i \in DOMAIN t PROVE i \in DOMAIN tbl /\ t[i] = tbl[i]
        BY <3>2, <4>1 DEF t
      <4> QED BY <3>1, <4>2, Zenon DEF ToSet, t
    <3>5. Inside(buf', tbl')
      BY <1>2, <3>1, <3>4, Zenon DEF Inside
    <3> QED BY <1>2, <3>1, <3>2, <3>3, <3>5
  <2>4. CASE Resorts
    <3>1. buf' = buf /\ given' = given
      BY <2>4 DEF Resorts
    <3>2. PICK R : tbl' = InsertionSort(R)
      BY <2>4 DEF Resorts
    <3>3. tbl' \in Seq(Entries) /\ Len(tbl') = Len(tbl) /\ ToSet(tbl') = ToSet(tbl)
      BY <1>2, <3>2, SortKeeps, Zenon
    <3>4. Inside(buf', tbl')
      BY <1>2, <3>1, <3>3, Zenon DEF Inside
    <3> QED BY <1>2, <3>1, <3>3, <3>4, Zenon
  <2> QED BY <1>1, <2>1, <2>2, <2>3, <2>4, Zenon DEF Shape
<1> HIDE DEF Givens
<1>4. TypeOK'
  BY <1>1, <1>3, Zenon DEF TypeOK, FlagSet, AnswerSet, Givens, Entries, Bytes
<1> QED BY <1>3, <1>4 DEF Inv

THEOREM StringTableInv == Spec => []Inv
<1>1. Inv /\ [Next]_vars => Inv'
  BY InvStep
<1> QED BY InvInit, <1>1, PTL DEF Spec

(* Memory is not overrun, and every string of the table is inside the      *)
(* characters in use: the table stays well-typed and within both           *)
(* capacities, however strings come in, are popped and sorted.             *)
THEOREM StringTableTypeOK == Spec => []TypeOK
<1>1. Inv => TypeOK
  BY DEF Inv
<1> QED BY StringTableInv, <1>1, PTL

-----------------------------------------------------------------------------
(* In a table that is sorted and in order the search finds a string        *)
(* exactly when it is there: at every size and position.                   *)
LEMMA Agrees ==
  ASSUME Inv PROVE SearchAgrees
<1> SUFFICES ASSUME isSorted, InOrder, NEW S \in Strings
             PROVE  /\ locateString(S) # NoString <=> Holds(S)
                    /\ Holds(S) => resolveDirect(locateString(S)) = S
  BY Zenon DEF SearchAgrees
<1>1. locateString(S) = binarySearch(S)
  <2>1. S # <<>>
    BY AString
  <2> QED BY <2>1, Zenon DEF locateString
<1>2. binarySearch(S) # NoString => resolveDirect(binarySearch(S)) = S /\ Holds(S)
  BY SearchType, Zenon
<1>3. ASSUME Holds(S) PROVE binarySearch(S) # NoString
  <2>1. Readable /\ tbl \in Seq(Entries) /\ DOMAIN tbl = 1 .. Len(tbl)
    BY InvReadable
  <2>2. binarySearch(S) \in Those(S)
    BY <1>3, <2>1, SearchComplete
  <2>3. PICK i \in {j \in DOMAIN tbl : resolveDirect(tbl[j]) = S} : binarySearch(S) = tbl[i]
    BY <2>2, Zenon DEF Those
  <2>4. tbl[i] \in Entries
    BY <2>1, <2>3, ElementOfSeq
  <2>5. tbl[i].off \in Nat
    BY <2>4, EntryNat
  <2>6. NoString.off = -1
    BY DEF NoString
  <2>7. tbl[i].off # NoString.off
    BY <2>5, <2>6
  <2> QED BY <2>3, <2>7, Zenon
<1> QED BY <1>1, <1>2, <1>3, Zenon

(* binarySearch() of a table in order finds a string exactly when the      *)
(* table holds it, whatever its size: the first and the last entry too,    *)
(* and a table of one.                                                     *)
THEOREM StringTableSearchAgrees == Spec => []SearchAgrees
<1>1. Inv => SearchAgrees
  BY Agrees
<1> QED BY StringTableInv, <1>1, PTL

-----------------------------------------------------------------------------
(* The contents.  Entries start at different characters, and what clients  *)
(* were given is what the entries stand for.                               *)
Shown(c, s) == {[off |-> e.off, str |-> Text(c, e)] : e \in ToSet(s)}

Kept == Inv /\ Apart(tbl) /\ given = Shown(buf, tbl)

LEMMA KeptInit == Init => Kept
<1> SUFFICES ASSUME Init PROVE Kept
  OBVIOUS
<1>1. Inv
  BY InvInit
<1>2. tbl = <<>> /\ given = {} /\ DOMAIN tbl = {}
  BY DEF Init
<1>3. ToSet(tbl) = {} /\ Apart(tbl)
  BY <1>2 DEF ToSet, Apart
<1>4. Shown(buf, tbl) = {}
  BY <1>3, Zenon DEF Shown
<1> QED BY <1>1, <1>2, <1>3, <1>4 DEF Kept

(* No sort runs over more than a sort's contents, and a pop removes what   *)
(* was given for its entry and nothing else.                               *)
LEMMA KeptSort ==
  ASSUME Kept, Resorts PROVE Apart(tbl') /\ given' = Shown(buf', tbl')
<1>1. tbl \in Seq(Entries) /\ Apart(tbl) /\ given = Shown(buf, tbl)
  BY InvReadable DEF Kept
<1>2. PICK R : tbl' = InsertionSort(R)
  BY DEF Resorts
<1>3. ToSet(tbl') = ToSet(tbl) /\ Apart(tbl')
  BY <1>1, <1>2, SortKeeps, Zenon
<1>4. buf' = buf /\ given' = given
  BY DEF Resorts
<1> QED BY <1>1, <1>3, <1>4, Zenon DEF Shown

LEMMA KeptDrop ==
  ASSUME Kept, Drops PROVE Apart(tbl') /\ given' = Shown(buf', tbl')
<1> DEFINE t == Front(tbl)
           n == Len(tbl)
           z == Last(tbl)
<1>1. tbl \in Seq(Entries) /\ Apart(tbl) /\ given = Shown(buf, tbl)
  BY InvReadable DEF Kept
<1>2. tbl # <<>> /\ tbl' = t /\ buf' = buf /\ given' = {g \in given : g.off # z.off}
  BY Zenon DEF Drops, Ungive
<1>3. /\ t \in Seq(Entries) /\ n \in Nat \ {0} /\ Len(t) = n - 1
      /\ \A i \in 1 .. n - 1 : t[i] = tbl[i]
  BY <1>1, <1>2, Shortened, Zenon
<1>4. z = tbl[n]
  BY Zenon DEF Last
<1>5. DOMAIN tbl = 1 .. n /\ DOMAIN t = 1 .. n - 1
  BY <1>1, <1>3, LenProperties
<1> HIDE DEF t, n, z
<1>6. \A i \in DOMAIN t : i \in DOMAIN tbl /\ t[i] = tbl[i] /\ i # n
  BY <1>3, <1>5
<1>7. \A i \in DOMAIN tbl : i # n => i \in DOMAIN t
  BY <1>3, <1>5
<1>8. n \in DOMAIN tbl
  BY <1>3, <1>5
<1>9. Apart(t)
  BY <1>1, <1>6, Zenon DEF Apart
<1>10. ToSet(t) = {e \in ToSet(tbl) : e.off # z.off}
  <2>1. ASSUME NEW e \in ToSet(t) PROVE e \in ToSet(tbl) /\ e.off # z.off
    <3>1. PICK i \in DOMAIN t : e = t[i]
      BY Zenon DEF ToSet
    <3>2. i \in DOMAIN tbl /\ e = tbl[i] /\ i # n
      BY <1>6, <3>1, Zenon
    <3>3. e.off # z.off
      BY <1>1, <1>4, <1>8, <3>2, Zenon DEF Apart
    <3> QED BY <3>2, <3>3, Zenon DEF ToSet
  <2>2. ASSUME NEW e \in ToSet(tbl), e.off # z.off PROVE e \in ToSet(t)
    <3>1. PICK i \in DOMAIN tbl : e = tbl[i]
      BY Zenon DEF ToSet
    <3>2. i # n
      BY <1>4, <2>2, <3>1, Zenon
    <3>3. i \in DOMAIN t /\ e = t[i]
      BY <1>6, <1>7, <3>1, <3>2, Zenon
    <3> QED BY <3>3, Zenon DEF ToSet
  <2> QED BY <2>1, <2>2
<1> DEFINE given_(e) == [off |-> e.off, str |-> Text(buf, e)]
<1>11. \A e : given_(e).off = e.off
  OBVIOUS
<1>12. given = {given_(e) : e \in ToSet(tbl)} /\ Shown(buf, t) = {given_(e) : e \in ToSet(t)}
  BY <1>1, Zenon DEF Shown
<1> HIDE DEF given_
<1>13. {g \in given : g.off # z.off} = Shown(buf, t)
  <2>1. ASSUME NEW g \in given, g.off # z.off PROVE g \in Shown(buf, t)
    <3>1. PICK e \in ToSet(tbl) : g = given_(e)
      BY <1>12, Zenon
    <3>2. e \in ToSet(t)
      BY <1>10, <1>11, <2>1, <3>1
    <3> QED BY <1>12, <3>1, <3>2, Zenon
  <2>2. ASSUME NEW g \in Shown(buf, t) PROVE g \in given /\ g.off # z.off
    <3>1. PICK e \in ToSet(t) : g = given_(e)
      BY <1>12, Zenon
    <3>2. e \in ToSet(tbl) /\ e.off # z.off
      BY <1>10
    <3> QED BY <1>11, <1>12, <3>1, <3>2, Zenon
  <2> QED BY <2>1, <2>2
<1> QED BY <1>2, <1>9, <1>13, Zenon

LEMMA KeptPut ==
  ASSUME Kept, NEW S, Puts(S)
  PROVE  Apart(tbl') /\ given' = Shown(buf', tbl')
<1> DEFINE e == NextEntry(S)
           new == [off |-> Len(buf), str |-> S]
<1>1. /\ Inv /\ tbl \in Seq(Entries) /\ Apart(tbl) /\ given = Shown(buf, tbl)
      /\ buf \in Seq(Bytes) /\ Len(buf) \in Nat
  BY InvReadable DEF Kept
<1>2. S \in Strings /\ doesHaveStorageFor(S) /\ Store(S)
  BY Zenon DEF Puts
<1>3. PICK p \in 1 .. Len(tbl) + 1 : tbl' = InsertAt(tbl, p, e)
  BY Zenon DEF Puts
<1>4. /\ e \in Entries /\ e.off = Len(buf) /\ Text(buf', e) = S
      /\ buf' \in Seq(Bytes) /\ Len(buf) <= Len(buf')
      /\ \A i \in 1 .. Len(buf) : buf'[i] = buf[i]
  BY <1>1, <1>2, Stored, Zenon
<1> HIDE DEF e
<1>5. given' = given \cup {new}
  BY <1>2, Zenon DEF Store
<1>6. new = [off |-> e.off, str |-> Text(buf', e)]
  BY <1>4, Zenon
<1> HIDE DEF new
<1>7. ASSUME NEW x \in ToSet(tbl)
      PROVE  x.off # e.off /\ Text(buf', x) = Text(buf, x)
  <2>1. x \in Entries /\ x.off + x.len <= Len(buf)
    BY <1>1, InvReadable
  <2>2. x.off \in Nat /\ x.len \in Nat \ {0}
    BY <2>1, EntryNat
  <2>3. x.off # e.off
    BY <1>1, <1>4, <2>1, <2>2
  <2>4. Text(buf', x) = Text(buf, x)
    BY <1>1, <1>4, <2>1, TextStays
  <2> QED BY <2>3, <2>4
<1>8. ToSet(tbl') = ToSet(tbl) \cup {e}
  BY <1>1, <1>3, <1>4, PutInSet
<1>9. Apart(tbl')
  <2>1. \A i \in DOMAIN tbl : tbl[i].off # e.off
    BY <1>7, Zenon DEF ToSet
  <2> QED BY <1>1, <1>3, <1>4, <2>1, PutInApart, Zenon
<1> DEFINE old(x) == [off |-> x.off, str |-> Text(buf, x)]
           now(x) == [off |-> x.off, str |-> Text(buf', x)]
<1>10. \A x \in ToSet(tbl) : old(x) = now(x)
  BY <1>7, Zenon
<1>11. given = {old(x) : x \in ToSet(tbl)} /\ Shown(buf', tbl') = {now(x) : x \in ToSet(tbl')}
       /\ new = now(e)
  BY <1>1, <1>6, Zenon DEF Shown
<1> HIDE DEF old, now
<1>12. given' = Shown(buf', tbl')
  <2>1. ASSUME NEW g \in given' PROVE g \in Shown(buf', tbl')
    <3>1. CASE g = new
      BY <1>8, <1>11, <3>1, Zenon
    <3>2. CASE g \in given
      <4>1. PICK x \in ToSet(tbl) : g = old(x)
        BY <1>11, <3>2, Zenon
      <4> QED BY <1>8, <1>10, <1>11, <4>1, Zenon
    <3> QED BY <1>5, <3>1, <3>2, Zenon
  <2>2. ASSUME NEW g \in Shown(buf', tbl') PROVE g \in given'
    <3>1. PICK x \in ToSet(tbl') : g = now(x)
      BY <1>11, Zenon
    <3>2. CASE x = e
      BY <1>5, <1>11, <3>1, <3>2, Zenon
    <3>3. CASE x \in ToSet(tbl)
      <4>1. g = old(x)
        BY <1>10, <3>1, <3>3, Zenon
      <4> QED BY <1>5, <1>11, <3>3, <4>1, Zenon
    <3> QED BY <1>8, <3>2, <3>3, Zenon
  <2> QED BY <2>1, <2>2, Zenon
<1> QED BY <1>9, <1>12

(* A table of at most a block of entries slides as a whole.                *)
LEMMA SlidesPut ==
  ASSUME Inv, TblCap <= SlideLen, NEW S, Slides(S)
  PROVE  Puts(S)
<1>1. S \in Strings /\ doesHaveStorageFor(S) /\ Store(S) /\ tbl \in Seq(Entries)
  BY InvReadable, Zenon DEF Slides
<1>2. NextEntry(S) \in Entries
  BY <1>1, Stored, Zenon
<1>3. Len(tbl) <= SlideLen
  <2>1. Len(tbl) < TblCap
    BY <1>1, Zenon DEF doesHaveStorageFor
  <2>2. Len(tbl) \in Nat
    BY InvReadable
  <2> QED BY <2>1, <2>2, StringTableAssumption
<1>4. PICK p \in 0 .. Len(tbl) - 1 : tbl' = SlideIn(NextEntry(S), p)
  BY Zenon DEF Slides
<1>5. tbl' = InsertAt(tbl, p + 1, NextEntry(S)) /\ p + 1 \in 1 .. Len(tbl) + 1
  BY <1>1, <1>2, <1>3, <1>4, SlideInserts
<1> QED BY <1>1, <1>5, Zenon DEF Puts

LEMMA KeptStep == ASSUME TblCap <= SlideLen PROVE Kept /\ [Next]_vars => Kept'
<1> SUFFICES ASSUME Kept, [Next]_vars PROVE Kept'
  OBVIOUS
<1>1. Inv
  BY DEF Kept
<1>2. Shape /\ Inv'
  BY <1>1, Shapes, InvStep, Zenon
<1>3. Apart(tbl') /\ given' = Shown(buf', tbl')
  <2>1. CASE Stays
    BY <2>1, Zenon DEF Stays, Kept
  <2>2. ASSUME NEW S, Puts(S) \/ Slides(S)
        PROVE  Apart(tbl') /\ given' = Shown(buf', tbl')
    BY <1>1, <2>2, SlidesPut, KeptPut, Zenon
  <2> QED BY <1>2, <2>1, <2>2, KeptDrop, KeptSort, Zenon DEF Shape
<1> QED BY <1>2, <1>3, Zenon DEF Kept

LEMMA KeptContents == ASSUME Kept PROVE ContentsKept
<1> DEFINE n == Len(tbl)
           shown(e) == [off |-> e.off, str |-> Text(buf, e)]
           f == [i \in 1 .. n |-> shown(tbl[i])]
<1>1. /\ Inv /\ Apart(tbl) /\ given = Shown(buf, tbl)
      /\ n \in Nat /\ DOMAIN tbl = 1 .. n
  BY InvReadable DEF Kept
<1>2. \A e : shown(e).off = e.off
  OBVIOUS
<1>3. given = {shown(e) : e \in ToSet(tbl)}
  BY <1>1, Zenon DEF Shown
<1>4. \A i \in DOMAIN tbl :
        shown(tbl[i]) = [off |-> tbl[i].off, str |-> resolveDirect(tbl[i])]
  BY Zenon DEF resolveDirect, Text
<1> HIDE DEF shown
<1>5. given = {shown(tbl[i]) : i \in DOMAIN tbl}
  <2>1. \A i \in DOMAIN tbl : tbl[i] \in ToSet(tbl)
    BY Zenon DEF ToSet
  <2>2. \A e \in ToSet(tbl) : \E i \in DOMAIN tbl : e = tbl[i]
    BY Zenon DEF ToSet
  <2> QED BY <1>3, <2>1, <2>2
<1>6. given = {[off |-> tbl[i].off, str |-> resolveDirect(tbl[i])] : i \in DOMAIN tbl}
  BY <1>4, <1>5
<1> HIDE DEF n
<1>7. Cardinality(given) = n
  <2>1. \A i \in 1 .. n : f[i] = shown(tbl[i])
    BY Zenon
  <2>2. f \in [1 .. n -> given]
    BY <1>1, <1>5, Zenon
  <2>3. ASSUME NEW i \in 1 .. n, NEW j \in 1 .. n, f[i] = f[j] PROVE i = j
    <3>1. tbl[i].off = tbl[j].off
      BY <1>2, <2>1, <2>3, Zenon
    <3> QED BY <1>1, <3>1, Zenon DEF Apart
  <2>4. ASSUME NEW g \in given PROVE \E i \in 1 .. n : f[i] = g
    BY <1>1, <1>5, <2>1, Zenon
  <2> HIDE DEF f
  <2>5. f \in Bijection(1 .. n, given)
    BY <2>2, <2>3, <2>4, Zenon DEF Bijection, Injection, Surjection, IsInjective
  <2>6. ExistsBijection(1 .. n, given)
    BY <2>5, Zenon DEF ExistsBijection
  <2> QED BY <1>1, <2>6, FS_CountingElements
<1> QED BY <1>6, <1>7 DEF ContentsKept, n

LEMMA KeptAlways == ASSUME TblCap <= SlideLen PROVE Spec => []Kept
<1>1. Kept /\ [Next]_vars => Kept'
  BY KeptStep
<1> QED BY KeptInit, <1>1, PTL DEF Spec

(* No string is lost, doubled or overwritten: what insert() handed out and *)
(* pop() did not take back is what the table holds, through sorts, sorted  *)
(* insertions and changes of policy.  Of tables of at most as many entries *)
(* as binaryInsert() moves in a block, eight: with one more an insertion   *)
(* may run away, with two more lose an entry (SlideLosesAnEntry).          *)
THEOREM StringTableContentsKept ==
  ASSUME TblCap <= SlideLen PROVE Spec => []ContentsKept
<1>1. Kept => ContentsKept
  BY KeptContents
<1> QED BY KeptAlways, <1>1, PTL

-----------------------------------------------------------------------------
(* unsort() of a table marked sorted puts the entries back into the order  *)
(* their strings were inserted in.                                         *)
THEOREM StringTableUnsortRestores ==
  ASSUME TblCap <= SlideLen PROVE Spec => UnsortRestores
<1>1. ASSUME Kept, unsort, isSorted
      PROVE  \A i, j \in DOMAIN tbl' : i < j => tbl'[i].off < tbl'[j].off
  <2>1. tbl \in Seq(Entries) /\ Apart(tbl)
    BY <1>1, InvReadable DEF Kept
  <2>2. tbl' = InsertionSort({p \in Pairs : p[1].off < p[2].off})
    BY <1>1, Zenon DEF unsort
  <2>3. Rising(InsertionSort({p \in Pairs : p[1].off < p[2].off}))
    BY <2>1, SortByOffset
  <2>4. Rising(tbl')
    BY <2>2, <2>3, Zenon
  <2> QED BY <2>4, Zenon DEF Rising
<1>2. Kept => [unsort /\ isSorted =>
                 \A i, j \in DOMAIN tbl' : i < j => tbl'[i].off < tbl'[j].off]_vars
  BY <1>1
<1> QED BY KeptAlways, <1>2, PTL DEF UnsortRestores

-----------------------------------------------------------------------------
(* The answers of insert().                                                *)
Says(S) ==
  CASE ret'.status = "success" ->
         /\ ~(flags.ksorted /\ isSorted /\ InOrder /\ Holds(S))
         /\ \E p \in 1 .. Len(tbl) + 1 : tbl' = InsertAt(tbl, p, ret'.ref)
         /\ ret'.ref.off >= Len(buf)
    [] ret'.status = "alreadyExists" ->
         tbl' = tbl /\ resolveDirect(ret'.ref) = S
    [] ret'.status = "atCapacity" ->
         tbl' = tbl /\ buf' = buf
    [] OTHER -> FALSE

LEMMA SaysFound ==
  ASSUME NEW S, NEW e, Found(e), resolveDirect(e) = S PROVE Says(S)
<1>1. ret' = Answer("alreadyExists", e) /\ tbl' = tbl
  BY Zenon DEF Found
<1>2. ret'.status = "alreadyExists" /\ ret'.ref = e
  BY <1>1 DEF Answer
<1> QED BY <1>1, <1>2, Zenon DEF Says

LEMMA SaysPut ==
  ASSUME Inv, NEW S, Puts(S), ~(flags.ksorted /\ isSorted /\ InOrder /\ Holds(S))
  PROVE  Says(S)
<1>1. S \in Strings /\ doesHaveStorageFor(S) /\ Store(S)
  BY Zenon DEF Puts
<1>2. ret' = Answer("success", NextEntry(S))
  BY <1>1, Zenon DEF Store
<1>3. ret'.status = "success" /\ ret'.ref = NextEntry(S)
  BY <1>2 DEF Answer
<1>4. NextEntry(S).off = Len(buf) /\ Len(buf) \in Nat
  BY <1>1, Stored, InvReadable, Zenon
<1>5. ret'.ref.off >= Len(buf)
  BY <1>3, <1>4
<1>6. \E p \in 1 .. Len(tbl) + 1 : tbl' = InsertAt(tbl, p, ret'.ref)
  BY <1>3, Zenon DEF Puts
<1> QED BY <1>3, <1>5, <1>6, Zenon DEF Says

LEMMA LastHeld ==
  ASSUME Inv, InOrder, NEW S \in Strings, Holds(S)
  PROVE  tbl # <<>> /\ ~Shortlex(resolveDirect(Last(tbl)), S)
<1>1. Readable /\ tbl \in Seq(Entries) /\ Len(tbl) \in Nat /\ DOMAIN tbl = 1 .. Len(tbl)
  BY InvReadable
<1>2. PICK i \in DOMAIN tbl : resolveDirect(tbl[i]) = S
  BY DEF Holds
<1>3. tbl # <<>> /\ Len(tbl) \in DOMAIN tbl
  BY <1>1
<1>4. Last(tbl) = tbl[Len(tbl)]
  BY Zenon DEF Last
<1>5. CASE i = Len(tbl)
  <2>1. ~Shortlex(S, S)
    BY AString, ShortlexStrict
  <2> QED BY <1>2, <1>3, <1>4, <1>5, <2>1, Zenon
<1>6. CASE i # Len(tbl)
  <2>1. i < Len(tbl)
    BY <1>1, <1>6
  <2>2. ~Shortlex(resolveDirect(tbl[Len(tbl)]), resolveDirect(tbl[i]))
    BY <1>3, <2>1, Zenon DEF InOrder
  <2> QED BY <1>2, <1>3, <1>4, <2>2, Zenon
<1> QED BY <1>5, <1>6

LEMMA SaysBinary ==
  ASSUME TblCap <= SlideLen, Inv, NEW S \in Strings, doesHaveStorageFor(S), binaryInsert(S)
  PROVE  Says(S)
<1> DEFINE p == InsertPos(S)
<1>1. Readable /\ tbl \in Seq(Entries)
  BY InvReadable
<1>5. Len(tbl) < SlideLen /\ Len(tbl) \in Nat
  <2>1. Len(tbl) < TblCap /\ Len(tbl) \in Nat
    BY InvReadable, Zenon DEF doesHaveStorageFor
  <2> QED BY <2>1, StringTableAssumption
<1>2. CASE tbl = <<>> \/ Shortlex(resolveDirect(Last(tbl)), S)
  <2>1. appendDirect(S)
    BY <1>2, Zenon DEF binaryInsert
  <2>2. Puts(S)
    BY <2>1, AppendPuts, Zenon
  <2>3. ~(InOrder /\ Holds(S))
    BY <1>2, LastHeld, Zenon
  <2> QED BY <2>2, <2>3, SaysPut, Zenon
<1>3. CASE ~(tbl = <<>> \/ Shortlex(resolveDirect(Last(tbl)), S)) /\ resolveDirect(Last(tbl)) = S
  <2>1. Found(Last(tbl))
    BY <1>3, Zenon DEF binaryInsert
  <2> QED BY <1>3, <2>1, SaysFound, Zenon
<1>4. CASE ~(tbl = <<>> \/ Shortlex(resolveDirect(Last(tbl)), S)) /\ resolveDirect(Last(tbl)) # S
  <2>1. p \in 0 .. Len(tbl) - 1
    BY <1>4, PlaceInside, Zenon
  <2>2. CASE At(p) = S
    <3>1. Found(tbl[p + 1])
      BY <1>4, <2>2, Zenon DEF binaryInsert
    <3>2. resolveDirect(tbl[p + 1]) = S
      BY <2>2, Zenon DEF At
    <3> QED BY <3>1, <3>2, SaysFound, Zenon
  <2>3. CASE At(p) # S
    <3>5. ~RunsAway(p)
      BY <1>5, <2>1, Halts
    <3>1. Store(S) /\ tbl' = SlideIn(NextEntry(S), p)
      BY <1>4, <2>3, <3>5, Zenon DEF binaryInsert
    <3>2. Slides(S)
      BY <2>1, <3>1, Zenon DEF Slides
    <3>3. Puts(S)
      BY <3>2, SlidesPut, Zenon
    <3>4. ~(InOrder /\ Holds(S))
      BY <1>1, <2>3, SeekFinds, Zenon
    <3> QED BY <3>3, <3>4, SaysPut, Zenon
  <2> QED BY <2>2, <2>3, Zenon
<1> QED BY <1>2, <1>3, <1>4, Zenon

LEMMA SaysInsert ==
  ASSUME TblCap <= SlideLen, Inv, NEW S \in Strings, Insert(S) PROVE Says(S)
<1>1. S # <<>>
  BY AString
<1>2. CASE insertFull(S)
  <2>1. CASE isSorted /\ binarySearch(S) # NoString
    <3>1. Found(binarySearch(S)) /\ resolveDirect(binarySearch(S)) = S
      BY <1>2, <2>1, SearchType, Zenon DEF insertFull
    <3> QED BY <3>1, SaysFound, Zenon
  <2>2. CASE ~(isSorted /\ binarySearch(S) # NoString)
    <3>1. ret' = Answer("atCapacity", NoString) /\ tbl' = tbl /\ buf' = buf
      BY <1>2, <2>2, Zenon DEF insertFull
    <3>2. ret'.status = "atCapacity"
      BY <3>1 DEF Answer
    <3> QED BY <3>1, <3>2, Zenon DEF Says
  <2> QED BY <2>1, <2>2, Zenon
<1>3. CASE doesHaveStorageFor(S) /\ ~flags.ksorted /\ insertUnsorted(S)
  <2>1. appendDirect(S)
    BY <1>3, Zenon DEF insertUnsorted
  <2>2. Puts(S)
    BY <1>3, <2>1, AppendPuts, Zenon
  <2> QED BY <1>3, <2>2, SaysPut, Zenon
<1>4. CASE doesHaveStorageFor(S) /\ binaryInsert(S)
  BY <1>4, SaysBinary, Zenon
<1> QED BY <1>1, <1>2, <1>3, <1>4, Zenon DEF Insert

(* insert() answers what it did: after success exactly the new string      *)
(* stands among the others in their order, a string said to exist is the   *)
(* one referred to, and a table that is kept sorted takes none twice.  It  *)
(* always answers, in a table of at most eight entries.                    *)
THEOREM StringTableInsertAnswers ==
  ASSUME TblCap <= SlideLen PROVE Spec => InsertAnswers
<1>1. Inv => [\A S \in Strings : Insert(S) => Says(S)]_vars
  BY SaysInsert, Zenon
<1>2. Inv => [\A S \in Strings : Insert(S) =>
       CASE ret'.status = "success" ->
              /\ ~(flags.ksorted /\ isSorted /\ InOrder /\ Holds(S))
              /\ \E p \in 1 .. Len(tbl) + 1 : tbl' = InsertAt(tbl, p, ret'.ref)
              /\ ret'.ref.off >= Len(buf)
         [] ret'.status = "alreadyExists" ->
              tbl' = tbl /\ resolveDirect(ret'.ref) = S
         [] ret'.status = "atCapacity" ->
              tbl' = tbl /\ buf' = buf
         [] OTHER -> FALSE]_vars
  BY <1>1, Zenon DEF Says
<1> QED BY StringTableInv, <1>2, PTL DEF InsertAnswers
=============================================================================
