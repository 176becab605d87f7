--------------------------- MODULE Skiplist_proofs ---------------------------
(***************************************************************************)
(* Proofs about Skiplist, for every number of slots, every width of the    *)
(* words and every set of handles.                                         *)
(***************************************************************************)
EXTENDS Skiplist, TLAPS, FiniteSetTheorems, WellFoundedInduction

USE SkiplistAssumption

-----------------------------------------------------------------------------
(* A set of naturals that is not empty has a least element.                *)
LEMMA Least ==
  ASSUME NEW T \in SUBSET Nat, T # {}
  PROVE  \E x \in T : \A y \in T : x <= y
<1>1. PICK x \in T : \A y \in T : ~(<<y, x>> \in OpToRel(<, Nat))
  BY NatLessThanWellFounded, WFMin, Zenon
<1>2. ASSUME NEW y \in T PROVE x <= y
  <2>1. ~(y < x)
    BY <1>1, <1>2 DEF OpToRel
  <2> QED BY <2>1
<1> QED BY <1>2

(* ffsll(~S) - 1 is the first clear bit of a word that is not full.        *)
LEMMA EmptySlot ==
  ASSUME NEW S \in SUBSET Full, S # Full
  PROVE  /\ FindEmptySlot(S) \in Full \ S
         /\ \A c \in Full \ S : FindEmptySlot(S) <= c
<1>1. CASE S = {}
  <2>1. 0 \in Full /\ \A c \in Full : 0 <= c
    BY DEF Full
  <2> QED BY <1>1, <2>1 DEF FindEmptySlot
<1>2. CASE S # {}
  <2>1. Full \ S \in SUBSET Nat /\ Full \ S # {}
    <3>1. Full \in SUBSET Nat
      BY DEF Full
    <3> QED BY <3>1
  <2>2. \E b \in Full \ S : \A c \in Full \ S : b <= c
    BY <2>1, Least
  <2> QED BY <1>2, <2>2 DEF FindEmptySlot
<1> QED BY <1>1, <1>2

(* Indexes and pairs of a word and a bit correspond, in lexicographic      *)
(* order.                                                                  *)
LEMMA Wider ==
  ASSUME NEW i \in Nat, NEW j \in Nat, i < j
  PROVE  i * Bits + Bits <= j * Bits
<1>1. PICK d \in Nat : j = i + 1 + d
  <2>1. j - i - 1 \in Nat /\ j = i + 1 + (j - i - 1)
    OBVIOUS
  <2> QED BY <2>1
<1>2. j * Bits = i * Bits + Bits + d * Bits
  BY <1>1
<1>3. d * Bits \in Nat /\ i * Bits \in Nat
  OBVIOUS
<1> QED BY <1>2, <1>3

LEMMA LastWord == N \div Bits \in Nat
OBVIOUS

LEMMA IndexOf ==
  ASSUME NEW i \in Words, NEW b \in Full
  PROVE  i * Bits + b \in Indexes
<1> DEFINE W == N \div Bits
<1>1. W \in Nat /\ i \in Nat /\ i <= W /\ b \in Nat /\ b < Bits
  BY LastWord DEF Words, Full
<1>2. i < W + 1 /\ W + 1 \in Nat
  BY <1>1
<1>3. i * Bits + Bits <= (W + 1) * Bits
  BY <1>1, <1>2, Wider
<1>4. (W + 1) * Bits = Bits * (W + 1) /\ i * Bits \in Nat /\ Bits * (W + 1) \in Nat
  BY <1>1
<1> HIDE DEF W
<1>5. i * Bits + b \in 0 .. Bits * (W + 1) - 1
  BY <1>1, <1>3, <1>4
<1> QED BY <1>5 DEF Indexes, W

LEMMA Split ==
  ASSUME NEW I \in Indexes
  PROVE  \E i \in Words, b \in Full : I = i * Bits + b
<1> DEFINE W == N \div Bits
           i == I \div Bits
           b == I % Bits
<1>1. W \in Nat /\ I \in Nat /\ I < Bits * (W + 1)
  BY LastWord DEF Indexes
<1>2. i \in Nat /\ b \in Full /\ I = i * Bits + b
  BY <1>1 DEF Full
<1> HIDE DEF i, b
<1>3. i <= W
  <2>1. SUFFICES ASSUME W + 1 < i \/ W + 1 = i PROVE FALSE
    BY <1>1, <1>2
  <2>2. (W + 1) * Bits <= i * Bits
    <3>1. CASE W + 1 = i BY <3>1, <1>1, <1>2
    <3>2. CASE W + 1 < i
      <4>1. (W + 1) * Bits + Bits <= i * Bits
        BY <3>2, <1>1, <1>2, Wider
      <4>2. (W + 1) * Bits \in Nat /\ i * Bits \in Nat
        BY <1>1, <1>2
      <4> QED BY <4>1, <4>2
    <3> QED BY <2>1, <3>1, <3>2
  <2>3. b \in Nat /\ (W + 1) * Bits = Bits * (W + 1) /\ Bits * (W + 1) \in Nat /\ i * Bits \in Nat
    BY <1>1, <1>2 DEF Full
  <2> HIDE DEF W
  <2> QED BY <1>1, <1>2, <2>2, <2>3
<1>4. i \in Words
  BY <1>1, <1>2, <1>3 DEF Words
<1> QED BY <1>2, <1>4

LEMMA Order ==
  ASSUME NEW i \in Nat, NEW j \in Nat, NEW b \in Full, NEW c \in Full,
         i * Bits + b < j * Bits + c
  PROVE  i < j \/ (i = j /\ b < c)
<1>1. b \in Nat /\ c \in Nat /\ b < Bits /\ c < Bits /\ i * Bits \in Nat /\ j * Bits \in Nat
  BY DEF Full
<1>2. CASE i < j BY <1>2
<1>3. CASE i = j
  BY <1>1, <1>3
<1>4. CASE j < i
  <2>1. j * Bits + Bits <= i * Bits
    BY <1>4, Wider
  <2> QED BY <1>1, <2>1
<1> QED BY <1>2, <1>3, <1>4

(* What insertRaw() does: a clear bit is set, all those before it were     *)
(* set already.                                                            *)
LEMMA Insertion ==
  ASSUME NEW V \in Indexes, bits \subseteq Indexes, InsertRaw(V)
  PROVE  /\ V \notin bits
         /\ \A I \in Indexes : I < V => I \in bits
         /\ bits' = bits \cup {V}
         /\ live' = live \cup {V}
<1>1. PICK i \in Words : /\ Word(i) # Full
                         /\ \A j \in Words : j < i => Word(j) = Full
                         /\ V = i * Bits + FindEmptySlot(Word(i))
                         /\ live' = live \cup {V}
                         /\ bits' = bits \cup {V}
  BY DEF InsertRaw
<1> DEFINE s == FindEmptySlot(Word(i))
<1>2. Word(i) \in SUBSET Full
  BY DEF Word, Full
<1>3. s \in Full \ Word(i) /\ \A c \in Full \ Word(i) : s <= c
  BY <1>1, <1>2, EmptySlot
<1>4. \A j \in Words, c \in Full : c \in Word(j) <=> j * Bits + c \in bits
  BY DEF Word, Full
<1>5. V = i * Bits + s
  BY <1>1
<1> HIDE DEF s
<1>6. V \notin bits
  BY <1>3, <1>4, <1>5
<1>7. ASSUME NEW I \in Indexes, I < V PROVE I \in bits
  <2>1. PICK j \in Words, c \in Full : I = j * Bits + c
    BY Split
  <2>2. i \in Nat /\ j \in Nat
    BY LastWord DEF Words
  <2>3. j < i \/ (j = i /\ c < s)
    BY <1>3, <1>5, <1>7, <2>1, <2>2, Order
  <2>4. c \in Word(j)
    <3>1. CASE j < i
      BY <3>1, <1>1
    <3>2. CASE j = i /\ c < s
      <4>1. ~(s <= c)
        BY <3>2, <1>3 DEF Full
      <4> QED BY <3>2, <4>1, <1>3
    <3> QED BY <2>3, <3>1, <3>2
  <2> QED BY <1>4, <2>1, <2>4
<1> QED BY <1>1, <1>6, <1>7

-----------------------------------------------------------------------------
(* The client's insertions.                                                *)
LEMMA InsertFacts ==
  ASSUME Inv, NEW x \in Handles, Insert(x)
  PROVE  \E V \in Indexes :
           /\ V \notin bits /\ V \notin live
           /\ \A I \in Indexes : I < V => I \in bits
           /\ bits' = bits \cup {V}
           /\ live' = live \cup {V}
           /\ handle' = [y \in DOMAIN handle \cup {x} |->
                           IF y = x THEN V ELSE handle[y]]
<1>1. PICK V \in Indexes :
        /\ InsertRaw(V)
        /\ handle' = [y \in DOMAIN handle \cup {x} |-> IF y = x THEN V ELSE handle[y]]
  BY DEF Insert
<1>2. bits \subseteq Indexes /\ bits = live
  BY DEF Inv, TypeOK, OwnedOnce, Insert, MayInsert
<1> QED BY <1>1, <1>2, Insertion

LEMMA InsertPtrFacts ==
  ASSUME Inv, InsertPtr
  PROVE  \E V \in Indexes :
           /\ V \notin bits /\ V \notin live
           /\ \A I \in Indexes : I < V => I \in bits
           /\ bits' = bits \cup {V}
           /\ live' = live \cup {V}
           /\ raw' = raw \cup {V}
<1>1. PICK V \in Indexes : InsertRaw(V) /\ raw' = raw \cup {V}
  BY DEF InsertPtr
<1>2. bits \subseteq Indexes /\ bits = live
  BY DEF Inv, TypeOK, OwnedOnce, InsertPtr, MayInsert
<1> QED BY <1>1, <1>2, Insertion

(* A null pointer is no index.                                             *)
LEMMA NullIsNoIndex == Null \notin Indexes
BY LastWord DEF Indexes

(* Every step keeps the types and the ownership.                           *)
LEMMA InvInductive == Inv /\ [Next]_vars => Inv'
<1> SUFFICES ASSUME Inv, [Next]_vars PROVE Inv'
  OBVIOUS
<1>i. TypeOK /\ OwnedOnce
  BY DEF Inv
<1>1. ASSUME NEW x \in Handles, Insert(x) PROVE Inv'
  <2>1. PICK V \in Indexes :
           /\ V \notin live
           /\ bits' = bits \cup {V}
           /\ live' = live \cup {V}
           /\ handle' = [y \in DOMAIN handle \cup {x} |->
                           IF y = x THEN V ELSE handle[y]]
    BY <1>1, InsertFacts
  <2>2. alive /\ x \notin DOMAIN handle /\ raw' = raw /\ alive' = alive
    BY <1>1 DEF Insert, MayInsert
  <2>3. TypeOK'
    BY <1>i, <2>1, <2>2 DEF TypeOK
  <2>4. V # Null
    BY NullIsNoIndex
  <2>5. Held' = Held \cup {x}
    BY <2>1, <2>2, <2>4 DEF Held
  <2>6. OwnedOnce'
    BY <1>i, <2>1, <2>2, <2>4, <2>5 DEF OwnedOnce, Held
  <2> QED BY <2>3, <2>6 DEF Inv
<1>2. ASSUME NEW x \in Handles, Erase(x) PROVE Inv'
  <2>1. /\ alive /\ x \in DOMAIN handle /\ EraseRaw(handle[x])
        /\ handle' = [handle EXCEPT ![x] = Null]
        /\ raw' = raw /\ alive' = alive
    BY <1>2 DEF Erase
  <2>2. TypeOK'
    BY <1>i, <2>1 DEF TypeOK, EraseRaw
  <2>3. Held' = Held \ {x}
    BY <2>1 DEF Held
  <2>4. OwnedOnce'
    BY <1>i, <2>1, <2>3 DEF OwnedOnce, Held, EraseRaw
  <2> QED BY <2>2, <2>4 DEF Inv
<1>3. ASSUME NEW x \in Handles, Drop(x) PROVE Inv'
  <2>1. /\ alive /\ x \in DOMAIN handle /\ EraseRaw(handle[x])
        /\ handle' = [y \in DOMAIN handle \ {x} |-> handle[y]]
        /\ raw' = raw /\ alive' = alive
    BY <1>3 DEF Drop
  <2>2. TypeOK'
    BY <1>i, <2>1 DEF TypeOK, EraseRaw
  <2>3. Held' = Held \ {x}
    BY <2>1 DEF Held
  <2>4. OwnedOnce'
    BY <1>i, <2>1, <2>3 DEF OwnedOnce, Held, EraseRaw
  <2> QED BY <2>2, <2>4 DEF Inv
<1>4. ASSUME NEW x \in Handles, NEW y \in Handles, Move(x, y) PROVE Inv'
  <2>1. /\ x \in DOMAIN handle /\ y \notin DOMAIN handle
        /\ handle' = [z \in DOMAIN handle \cup {y} |->
                        IF z = x THEN Null ELSE IF z = y THEN handle[x] ELSE handle[z]]
        /\ bits' = bits /\ live' = live /\ raw' = raw /\ alive' = alive
    BY <1>4 DEF Move
  <2>2. TypeOK'
    BY <1>i, <2>1 DEF TypeOK
  <2>3. Held' = IF x \in Held THEN (Held \ {x}) \cup {y} ELSE Held
    BY <2>1 DEF Held
  <2>4. {handle'[z] : z \in Held'} = {handle[z] : z \in Held}
    BY <2>1, <2>3 DEF Held
  <2>5. OwnedOnce'
    BY <1>i, <2>1, <2>3, <2>4 DEF OwnedOnce, Held
  <2> QED BY <2>2, <2>5 DEF Inv
<1>5. ASSUME InsertPtr PROVE Inv'
  <2>1. PICK V \in Indexes :
           /\ V \notin live
           /\ bits' = bits \cup {V}
           /\ live' = live \cup {V}
           /\ raw' = raw \cup {V}
    BY <1>5, InsertPtrFacts
  <2>2. alive /\ handle' = handle /\ alive' = alive
    BY <1>5 DEF InsertPtr, MayInsert
  <2>3. TypeOK'
    BY <1>i, <2>1, <2>2 DEF TypeOK
  <2>4. OwnedOnce'
    BY <1>i, <2>1, <2>2 DEF OwnedOnce, Held
  <2> QED BY <2>3, <2>4 DEF Inv
<1>6. ASSUME ErasePtr PROVE Inv'
  <2>1. /\ alive /\ handle' = handle /\ alive' = alive
        /\ \E P \in raw : EraseRaw(P) /\ raw' = raw \ {P}
    BY <1>6 DEF ErasePtr
  <2>2. TypeOK'
    BY <1>i, <2>1 DEF TypeOK, EraseRaw
  <2>3. OwnedOnce'
    BY <1>i, <2>1, NullIsNoIndex DEF TypeOK, OwnedOnce, Held, EraseRaw
  <2> QED BY <2>2, <2>3 DEF Inv
<1>7. ASSUME Destroy PROVE Inv'
  BY <1>i, <1>7 DEF Destroy, Inv, TypeOK, OwnedOnce, Held
<1>8. CASE UNCHANGED vars
  BY <1>i, <1>8 DEF vars, Inv, TypeOK, OwnedOnce, Held
<1> QED BY <1>1, <1>2, <1>3, <1>4, <1>5, <1>6, <1>7, <1>8 DEF Next

LEMMA InitInv == Init => Inv
BY DEF Init, Inv, TypeOK, OwnedOnce, Held

(* However handles and raw pointers are inserted, moved, erased and        *)
(* destroyed (Skiplist.hpp:72-135), each object has one owner and one set  *)
(* bit.                                                                    *)
THEOREM SkiplistOwnedOnce == Spec => []Inv
BY InitInv, InvInductive, PTL DEF Spec

(* insertRaw() never constructs over an object that exists.                *)
THEOREM SkiplistNoOverwrite == Spec => NoOverwrite
<1>1. Inv /\ [Next]_vars => [(\E x \in Handles : Insert(x)) \/ InsertPtr => live' # live]_vars
  <2> SUFFICES ASSUME Inv PROVE (\E x \in Handles : Insert(x)) \/ InsertPtr => live' # live
    OBVIOUS
  <2>1. ASSUME NEW x \in Handles, Insert(x) PROVE live' # live
    BY <2>1, InsertFacts
  <2>2. ASSUME InsertPtr PROVE live' # live
    BY <2>2, InsertPtrFacts
  <2> QED BY <2>1, <2>2
<1> QED BY <1>1, SkiplistOwnedOnce, PTL DEF Spec, NoOverwrite

(* The scan of the words in insertRaw() (Skiplist.hpp:86-98) finds the      *)
(* lowest slot without an object.                                          *)
THEOREM SkiplistLowestFreeSlot == Spec => LowestFreeSlot
<1> DEFINE Lowest == \A V \in Indexes : live' = live \cup {V} /\ live' # live =>
                       \A I \in Indexes : I < V => I \in live
<1>1. ASSUME Inv, Next PROVE Lowest
  <2>1. ASSUME NEW W \in Indexes, live' = live \cup {W}, bits = live,
               \A I \in Indexes : I < W => I \in bits
        PROVE  Lowest
    <3>1. ASSUME NEW V \in Indexes, live' = live \cup {V}, live' # live PROVE V = W
      BY <2>1, <3>1
    <3> QED BY <2>1, <3>1
  <2>2. alive => bits = live
    BY <1>1 DEF Inv, OwnedOnce
  <2>3. ASSUME NEW x \in Handles, Insert(x) PROVE Lowest
    BY <1>1, <2>1, <2>2, <2>3, InsertFacts DEF Insert, MayInsert
  <2>4. ASSUME InsertPtr PROVE Lowest
    BY <1>1, <2>1, <2>2, <2>4, InsertPtrFacts DEF InsertPtr, MayInsert
  <2>5. ASSUME live' \subseteq live PROVE Lowest
    BY <2>5
  <2>6. ASSUME NEW x \in Handles, Erase(x) \/ Drop(x) PROVE live' \subseteq live
    BY <2>6 DEF Erase, Drop, EraseRaw
  <2>7. ASSUME ErasePtr \/ Destroy PROVE live' \subseteq live
    BY <2>7 DEF ErasePtr, Destroy, EraseRaw
  <2>8. ASSUME NEW x \in Handles, NEW y \in Handles, Move(x, y) PROVE live' \subseteq live
    BY <2>8 DEF Move
  <2> QED BY <1>1, <2>3, <2>4, <2>5, <2>6, <2>7, <2>8 DEF Next
<1>2. Inv /\ [Next]_vars => [Lowest]_vars
  BY <1>1
<1> QED BY <1>2, SkiplistOwnedOnce, PTL DEF Spec, LowestFreeSlot

-----------------------------------------------------------------------------
(* Clients that ask countActive() first.                                   *)

(* There are at least as many bits as slots, and a list whose lowest N     *)
(* bits are all set has N active objects.                                  *)
LEMMA SlotsHaveBits == 0 .. N - 1 \subseteq Indexes
<1> DEFINE W == N \div Bits
<1>1. W \in Nat /\ N < Bits * (W + 1)
  <2>1. W \in Nat /\ N % Bits < Bits /\ N % Bits \in Nat /\ N = Bits * W + (N % Bits)
    BY LastWord
  <2> HIDE DEF W
  <2>2. Bits * (W + 1) = Bits * W + Bits /\ Bits * W \in Nat
    BY <2>1
  <2> QED BY <2>1, <2>2
<1>2. Bits * (W + 1) \in Nat
  BY <1>1
<1> HIDE DEF W
<1>3. 0 .. N - 1 \subseteq 0 .. Bits * (W + 1) - 1
  BY <1>1, <1>2
<1> QED BY <1>3 DEF Indexes, W

LEMMA RoomBelow ==
  ASSUME InArray, countActive < N, NEW V \in Indexes,
         \A I \in Indexes : I < V => I \in bits
  PROVE  V \in 0 .. N - 1
<1>1. V \in Nat
  BY LastWord DEF Indexes
<1>2. SUFFICES ASSUME N <= V PROVE FALSE
  BY <1>1
<1>3. 0 .. N - 1 \subseteq bits
  BY <1>1, <1>2, SlotsHaveBits
<1>4. bits = 0 .. N - 1
  BY <1>3 DEF InArray
<1>5. Cardinality(0 .. N - 1) = N
  BY FS_Interval
<1> QED BY <1>4, <1>5 DEF countActive

(* What holds under the clients' rule: the objects stay in the array, and  *)
(* none is left after the destructor.                                      *)
CarefulInv == Inv /\ InArray /\ AllDestroyed

LEMMA CarefulInductive == Careful /\ CarefulInv /\ [Next]_vars => CarefulInv'
<1> SUFFICES ASSUME Careful, Inv, InArray, AllDestroyed, [Next]_vars PROVE CarefulInv'
  BY DEF CarefulInv
<1>0. Inv'
  BY InvInductive
<1>1. InArray'
  <2>1. ASSUME NEW x \in Handles, Insert(x) PROVE InArray'
    <3>1. countActive < N
      BY <2>1 DEF Insert, MayInsert
    <3> QED BY <2>1, <3>1, InsertFacts, RoomBelow DEF InArray
  <2>2. ASSUME InsertPtr PROVE InArray'
    <3>1. countActive < N
      BY <2>2 DEF InsertPtr, MayInsert
    <3> QED BY <2>2, <3>1, InsertPtrFacts, RoomBelow DEF InArray
  <2>3. ASSUME bits' \subseteq bits PROVE InArray'
    BY <2>3 DEF InArray
  <2>4. ASSUME NEW x \in Handles, Erase(x) \/ Drop(x) PROVE bits' \subseteq bits
    BY <2>4 DEF Erase, Drop, EraseRaw
  <2>5. ASSUME ErasePtr \/ Destroy PROVE bits' \subseteq bits
    BY <2>5 DEF ErasePtr, Destroy, EraseRaw
  <2>6. ASSUME NEW x \in Handles, NEW y \in Handles, Move(x, y) PROVE bits' \subseteq bits
    BY <2>6 DEF Move
  <2>7. CASE UNCHANGED vars
    BY <2>7 DEF vars, InArray
  <2> QED BY <2>1, <2>2, <2>3, <2>4, <2>5, <2>6, <2>7 DEF Next
<1>2. AllDestroyed'
  <2>1. ASSUME Destroy PROVE live' = {}
    <3>1. live = bits /\ live' = live \ {I \in 0 .. N - 1 : I \in bits}
      BY <2>1 DEF Destroy, Inv, OwnedOnce
    <3> QED BY <3>1 DEF InArray
  <2>2. ASSUME NEW x \in Handles, Insert(x) \/ Erase(x) \/ Drop(x) PROVE alive'
    BY <2>2 DEF Insert, MayInsert, Erase, Drop
  <2>3. ASSUME InsertPtr \/ ErasePtr PROVE alive'
    BY <2>3 DEF InsertPtr, MayInsert, ErasePtr
  <2>4. ASSUME NEW x \in Handles, NEW y \in Handles, Move(x, y)
        PROVE  alive' = alive /\ live' = live
    BY <2>4 DEF Move
  <2>5. CASE UNCHANGED vars
    BY <2>5 DEF vars, AllDestroyed
  <2> QED BY <2>1, <2>2, <2>3, <2>4, <2>5 DEF Next, AllDestroyed
<1> QED BY <1>0, <1>1, <1>2 DEF CarefulInv

LEMMA InitCareful == Init => CarefulInv
BY InitInv DEF Init, CarefulInv, InArray, AllDestroyed

(* Clients that insert only while countActive() < N, as available_files()  *)
(* lets the users of the table of files do, never leave the array.         *)
THEOREM SkiplistInArray == ASSUME Careful PROVE Spec => []InArray
<1>1. CarefulInv /\ [Next]_vars => CarefulInv'
  BY CarefulInductive
<1>2. CarefulInv => InArray
  BY DEF CarefulInv
<1> QED BY InitCareful, <1>1, <1>2, PTL DEF Spec

(* For them the destructor (Skiplist.hpp:72-77) leaves no object behind.   *)
THEOREM SkiplistAllDestroyed == ASSUME Careful PROVE Spec => []AllDestroyed
<1>1. CarefulInv /\ [Next]_vars => CarefulInv'
  BY CarefulInductive
<1>2. CarefulInv => AllDestroyed
  BY DEF CarefulInv
<1> QED BY InitCareful, <1>1, <1>2, PTL DEF Spec
=============================================================================
